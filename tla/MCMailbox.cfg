SPECIFICATION MailboxSpec
CONSTANTS
  Workflows = {w1}
  Workers = {k1, k2}
  Threads = {t1, t2, t3}
  StepNumbers = {}
  LeaseSeconds = {}
  WakeTimes = {}
  MaxRetries = 0
  NextDelay <- NoDelays
  None = None
  MaxTime = 0
  MaxLag = 0
  MaxEvents = 5
  MaxTimers = 0
  MaxSignals = 3
  MaxCrashes = 1
  SdkRetries = 1
  MaxFailures = 2
SYMMETRY Symmetry
INVARIANTS
  DeliveredOnce
  LostOnlyByFailure
  SentOnceEach
