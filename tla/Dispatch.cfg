CONSTANTS
  Devices = {d1}
  Targets = {k1, k2}
  Values = {v1, v2}
  HistoryLimit = 1
  MaxAttempts = 1
  MaxCommands = 2
  Setups = {"zensdk", "mqtt", "standby"}
  Writers = {w1, w2}
  Nobody = Nobody
SPECIFICATION CDFairSpec
INVARIANTS IndexSound FateSound
PROPERTIES FailureCountedOnce ReadbackDeadline
CHECK_DEADLOCK FALSE
