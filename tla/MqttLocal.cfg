CONSTANTS
  MaxSessions = 3
  MaxTrouble = 3
  Refusals = TRUE
  Local = TRUE
SPECIFICATION MqttSpec
INVARIANT CommandsReachSession
CHECK_DEADLOCK FALSE
