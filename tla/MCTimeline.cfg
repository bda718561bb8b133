SPECIFICATION TimelineSpec
CONSTANTS
  Scale = 2
  PERIOD_MS = 5
  APPS_IMPLAUSIBILITY_LIMIT_MS = 100
  UINT32_MAX = 128
  Pedal <- MCPedal
  BseCount <- MCBseCount
INVARIANTS
  AppsCutExactly
  BppcCutExactly
PROPERTY TorqueReturnsFromIdle
