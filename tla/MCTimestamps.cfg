SPECIFICATION StampedSpec
CONSTANTS
  Workflows = {w1}
  Workers = {k1}
  Threads = {t1}
  StepNumbers = {s1}
  LeaseSeconds = {1}
  WakeTimes = {0}
  MaxRetries = 0
  NextDelay <- FixedDelays
  None = None
  MaxTime = 2
  MaxLag = 1
  MaxEvents = 4
  MaxTimers = 1
  MaxSignals = 2
  MaxCrashes = 0
INVARIANTS
  CreatedAtOrder
  SignalOrder
  StepSpans
