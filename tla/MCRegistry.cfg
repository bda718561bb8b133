SPECIFICATION Spec
CONSTANTS
  Scale = 1
  PERIOD_MS = 5
  APPS_IMPLAUSIBILITY_LIMIT_MS = 0
  UINT32_MAX = 5
  Pedal <- MCPedal
  BseCount <- RegistryBseCount
  Tasks = {"CLI", "CAN", "DASH"}
INVARIANTS
  CircuitFollowsVerdict
  GateSeesVerdictButForCliAndCan
PROPERTY KeepsInterlock
