CONSTANTS
  MaxInterval = 2
  DayLength = 3
  MaxTime = 4
  Intervals = {0, 1, 3}
  Samples = {{"grid_to_battery", "pv_to_battery", "native_pv_to_home"}, {"battery_to_home", "battery_to_grid", "grid_export"}}
  ImportPrices = {1, 2, NoPrice}
  ExportPrices = {1, NoPrice}
  NoPrice = NoPrice
  NoTime = NoTime
  Full = 5
  Minimum = 0
  GridPrices = {2}
  FeedIn = 1
  Confirm = 3
  Grace = 1
  Continuous = 3
  EvidenceAge = 2
  Gaps = {1, 4}
  Far = 5
  MaxEvents = 2
  None = None
  Loads = {0, 2}
  AcPowers = {0, 3, 7}
  NativePowers = {0, 1, 4}
  Targets = {0, 2, 8}
  InputMax = 4
  BatteryMax = 6
  NoLimit = NoLimit
  Slots = 5
  SlotPrices = {1, 2, 4}
  PeakPct = 135
  ValleyPct = 85
  ProfitPct = 20
  VeryExpensive = 5
  Capacity = 20
  Rate = 3
  Energies = {0, 8}
  HouseLoads = {2}
  Forecasts = {"unknown", "poor", "mixed", "good"}
  Margin = 1
  MaxAdjustment = 2
  Floor = 1
  NearMax = 1
  PoorHorizon = 4
  Morning = 9
  Day = 24
  Hour = 2
  SlotCap = 10
  Suns = {0, 8}
  Homes = {2}
  Outputs = {0, 5, 10}
  Inputs = {0, 4}
  Extras = {0, 4}
  StartExport = 4
  HoldExport = 2
  WeakExport = 0
  PlausiblePv = 1
  SmallImport = 4
  HardImport = 6
  SourceActive = 2
  ExtraActive = 3
  PvPowers = {2, 7}
  Demands = {2, 8}
  Limits = {3, 9}
  MinPv = 6
  MinLoad = 6
  Useful = 3
  MinOutput = 4
  StepUp = 5
  StepDown = 7
  HoldTime = 3
  ExportCycles = 5
  SocLow = 0
  SocFull = 4
  Never = Never
  Turn = 2
  Limit = 4
  DayStart = 2
  DayEnd = 4
  DayHours = 6
  ConfirmCycles = 3
  Cooldown = 6
  MaxRetries = 3
  Jump = 4
  NoRetry = NoRetry
SPECIFICATION Spec
INVARIANTS AccountsSound LedgerSound PlansSound LatchesSound EffectSound
PROPERTIES SplitSound PlansKept SummerOutlastsNights MemorySettles
CHECK_DEADLOCK FALSE
