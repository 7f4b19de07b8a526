SPECIFICATION Spec
CONSTANTS
  Workflows = {w1}
  Workers = {k1, k2}
  Threads = {t1}
  StepNumbers = {s1, s2}
  LeaseSeconds = {1}
  WakeTimes = {}
  MaxRetries = 0
  NextDelay <- FixedDelays
  None = None
  MaxTime = 2
  MaxLag = 0
  MaxEvents = 5
  MaxTimers = 1
  MaxSignals = 1
  MaxCrashes = 0
  Width = 16
SYMMETRY StepSymmetry
INVARIANTS
  TypeOK
  LogContiguous
  RowMatchesLog
  CursorCoversSteps
  SignalsLogged
  IInv
PROPERTIES
  ImplementsEventLog
