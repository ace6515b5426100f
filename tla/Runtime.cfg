CONSTANTS
  Capacity = 3
  MaxReports = 8
  Burst = 5
  Cursor = "identity"
  MaxSessions = 3
  MaxTrouble = 3
  Refusals = TRUE
  Local = FALSE
  Units = {u1, u2}
  MaxDataAge = 3
  ReadTime = 1
  MaxTestReads = 1
  MaxOutages = 2
  Window = 3
  Devices = {d1, d2}
  Transports = {zensdk, cloud}
  Tasks = {t1, t2}
  None = None
  MaxGeneration = 3
  MaxRequests = 3
  ConfirmPolls = 2
  DelayPolls = 2
  Threads = {FALSE, TRUE}
  MaxMishaps = 3
SPECIFICATION Spec
INVARIANTS OneTargetPerGeneration StandbyTracked IntakeSound HemsSound SessionsSound AvailableIsFresh RestoredIsRestored
PROPERTIES NoReplay ImplementsLease NewestTargetWinsByPost StoppedForGood RuntimeSettles
CHECK_DEADLOCK FALSE
