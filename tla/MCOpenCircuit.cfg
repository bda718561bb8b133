SPECIFICATION ChainSpec
CONSTANTS
  Scale = 6
  PERIOD_MS = 5
  APPS_IMPLAUSIBILITY_LIMIT_MS = 10
  UINT32_MAX = 15
  HISTORYSIZE = 3
  Pedal <- MCPedal
  BseCount <- MCBseCount
  Count <- MCCount
INVARIANT OpenCircuitIsImplausible
