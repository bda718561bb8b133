SPECIFICATION Spec
CONSTANTS
  Scale = 1
  PERIOD_MS = 5
  APPS_IMPLAUSIBILITY_LIMIT_MS = 5
  UINT32_MAX = 10
  Pedal <- MCPedal
  BseCount <- MCBseCount
  Tasks = {"CLI", "CAN"}
INVARIANT GateSeesVerdict
