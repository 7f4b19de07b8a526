SPECIFICATION Spec
CONSTANTS
  Workflows = {w1}
  Workers = {k1, k2}
  Threads = {t1}
  StepNumbers = {}
  LeaseSeconds = {1}
  WakeTimes = {}
  MaxRetries = 1
  NextDelay <- FixedDelays
  None = None
  MaxTime = 3
  MaxLag = 0
  MaxEvents = 5
  MaxTimers = 1
  MaxSignals = 0
  MaxCrashes = 0
  Width = 16
PROPERTIES
  PausesUntilTimerFires
