SPECIFICATION TimingSpec
CONSTANTS
  Mutexes = 2
  WD_MIN_MS = 8
  WD_MAX_MS = 11
  LOOP_MS = 3
  JITTER_MS = 1
  RTD_PERIOD_MS = 2
  RTD_BUZZER_MS = 8
  RTD_BUZZER_MS_MAX = 8
  LATE_MS = 1
  TICK_MOD = 16
INVARIANT BuzzerWithinRule
