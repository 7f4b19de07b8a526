SPECIFICATION DeploymentSpec
CONSTANTS
  Workflows = {w1}
  Workers = {k1, k2}
  Threads = {t1, t2}
  StepNumbers = {1}
  LastStep = 1
  StepsFail = TRUE
  FirstSteps = {0}
  RestartSameId = FALSE
  SdkRetries = 1
  LeaseSeconds = {1}
  WakeTimes = {}
  MaxRetries = 0
  NextDelay <- NoDelays
  None = None
  MaxTime = 1
  MaxLag = 0
  MaxEvents = 7
  MaxTimers = 2
  MaxSignals = 0
  MaxCrashes = 0
  Width = 16
SYMMETRY Symmetry
INVARIANTS
  OneWorker
