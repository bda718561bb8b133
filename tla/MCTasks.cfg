SPECIFICATION FairSpec
CONSTANTS
  Scale = 1
  PERIOD_MS = 5
  APPS_IMPLAUSIBILITY_LIMIT_MS = 0
  UINT32_MAX = 5
  Pedal <- LivePedal
  BseCount <- RegistryBseCount
  Tasks = {"RTD", "CAN", "DASH"}
INVARIANTS
  BuzzerExactlyInRtd
PROPERTIES
  FaultStateHolds
  FramesKeepFlowing
  StandingFaultShows
