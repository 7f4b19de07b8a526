SPECIFICATION DeploymentSpec
CONSTANTS
  Workflows = {w1}
  Workers = {k1, k2}
  Threads = {t1, t2}
  StepNumbers = {1, 2}
  LastStep = 2
  StepsFail = FALSE
  FirstSteps = {0, 1}
  RestartSameId = TRUE
  SdkRetries = 1
  LeaseSeconds = {1}
  WakeTimes = {}
  MaxRetries = 0
  NextDelay <- FixedDelays
  None = None
  MaxTime = 2
  MaxLag = 0
  MaxEvents = 6
  MaxTimers = 0
  MaxSignals = 0
  MaxCrashes = 0
  Width = 16
SYMMETRY Symmetry
INVARIANTS
  OneWorker
  CursorIsPrefix
  WorkerInv
