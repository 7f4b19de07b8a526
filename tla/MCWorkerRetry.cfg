SPECIFICATION DeploymentSpec
CONSTANTS
  Workflows = {w1}
  Workers = {k1, k2}
  Threads = {t1, t2}
  StepNumbers = {1, 2}
  LastStep = 2
  StepsFail = TRUE
  FirstSteps = {0}
  RestartSameId = FALSE
  SdkRetries = 0
  LeaseSeconds = {1}
  WakeTimes = {}
  MaxRetries = 0
  NextDelay <- FixedDelays
  None = None
  MaxTime = 2
  MaxLag = 0
  MaxEvents = 9
  MaxTimers = 1
  MaxSignals = 0
  MaxCrashes = 1
  Width = 16
SYMMETRY Symmetry
INVARIANTS
  OneWorker
  NoStepSkipped
  DInv
  OwnerInv
