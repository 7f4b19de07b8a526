SPECIFICATION ExampleSpec
CONSTANTS
  Workflows = {w1, w2}
  First = w1
  Second = w2
  Workers = {k1}
  Me = k1
  Threads = {t1}
  StepNumbers = {1, 2, 3}
  LastStep = 3
  LeaseSeconds = {2, 10}
  WakeTimes = {2, 3, 4, 5, 6, 7, 8, 9, 10, 11, 12, 13, 14, 15, 16, 17, 18, 19, 20, 21, 22}
  MaxRetries = 2
  NextDelay <- ExampleDelays
  None = None
  MaxTime = 20
  MaxLag = 1
  MaxPause = 2
  MaxEvents = 14
  MaxTimers = 2
  MaxSignals = 1
  MaxCrashes = 0
  Width = 16
INVARIANTS
  FailsOnlyExpired
  Report
  ExampleInv
CHECK_DEADLOCK FALSE
