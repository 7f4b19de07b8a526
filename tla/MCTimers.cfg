SPECIFICATION FairSpec
CONSTANTS
  Workflows = {w1}
  Workers = {k1, k2}
  Threads = {t1}
  StepNumbers = {}
  LeaseSeconds = {1, 2}
  WakeTimes = {1, 2}
  MaxRetries = 1
  NextDelay <- ExponentialDelays
  None = None
  MaxTime = 3
  MaxLag = 1
  MaxEvents = 4
  MaxTimers = 2
  MaxSignals = 0
  MaxCrashes = 1
  Width = 7
INVARIANTS
  LeaseConsistent
  TimersFireOnce
  CappedExponentialExact
  UncappedExact
PROPERTIES
  TerminalFinal
  LiveLeaseKept
  ImplementsLeaseService
  UnrenewedLeaseReclaimed
  PendingTimerWakes
