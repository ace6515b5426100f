SPECIFICATION Spec
CONSTANTS
  PvHold = 2
  DischargeHold = 1
  PassthroughHold = 1
  Overshoot = 1
  InputBlock = 2
  OutputBlock = 1
  ExportCycles = 2
  ImportCycles = 1
  ExitImport = 2
  ExitExport = 2
  MaxPower = 3
  Step = 2
  KeepAlive = 2
  FastSwitch = FALSE
  StableInput = FALSE
  HasPassthrough = TRUE
INVARIANT ChargeSafe
PROPERTIES SidesStartSafely HoldsEnd
