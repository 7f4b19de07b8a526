SPECIFICATION DeploymentSpec
CONSTANTS
  Workflows = {w1}
  Workers = {k1}
  Threads = {t1, t2}
  StepNumbers = {1, 2}
  LastStep = 2
  StepsFail = TRUE
  FirstSteps = {0}
  RestartSameId = TRUE
  SdkRetries = 1
  LeaseSeconds = {1}
  WakeTimes = {}
  MaxRetries = 0
  NextDelay <- NoDelays
  None = None
  MaxTime = 2
  MaxLag = 0
  MaxEvents = 9
  MaxTimers = 1
  MaxSignals = 0
  MaxCrashes = 0
  Width = 16
SYMMETRY Symmetry
INVARIANTS
  NoStepSkipped
