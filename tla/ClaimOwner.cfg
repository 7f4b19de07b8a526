SPECIFICATION Spec
CONSTANTS
  Workflows = {w1}
  Workers = {k1, k2}
  Threads = {t1}
  StepNumbers = {s1}
  LeaseSeconds = {1}
  WakeTimes = {}
  MaxRetries = 0
  NextDelay <- FixedDelays
  None = None
  MaxTime = 2
  MaxLag = 0
  MaxEvents = 6
  MaxTimers = 0
  MaxSignals = 0
  MaxCrashes = 0
  Width = 16
PROPERTIES
  OnlyOwnerWritesSteps
