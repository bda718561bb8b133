SPECIFICATION HardwareSpec
CONSTANTS
  Tasks = {"safety", "default", "canbus", "dash", "idle"}
  Idle = "idle"
  Periodic = {"safety", "dash"}
  Relative = {"default"}
  Notifier = "safety"
  Waiter = "canbus"
  Priority <- MCPriority
  PERIOD <- MCPeriod
  TICKS = 16
  MAX_LATE = 2
  MAX_PENDED = 2
  WD_PERIOD_MS = 5
  CAN_TIMEOUT_MS = 15
  WD_UINT32_MAX = 21
  FIFO_SIZE = 2
  Mailboxes = {0, 1, 2}
  Commands = {0, 160}
  WINDOW_MS = 200
  MAX_EDGES = 4
  MAX_WAIT = 3
  LINES = 2
  LINE_LENGTH = 2
  LINE_TIMEOUT = 1
  HAL_TICKS = 4
  MAX_SPENT = 2
INVARIANTS
  HardwareTypeOK
  SleepsToPeriod
  HighestReadyRuns
  NoLostWakeUp
  SilentBusIsReported
  StaleFramesBounded
  EdgesAccounted
  CountIsItsSensors
PROPERTIES
  KeepsAlarms
  PeriodNeverShort
  TimeoutNeedsRaceOrLoss
  BusOffIsReported
  ZeroReachesInverter
  ReadingsGoOn
  ClearMeansSent
  CutOnlyLate
  LinkRecovers
