SPECIFICATION AnalogSpec
CONSTANTS
  Levels = {0, 2, 12}
  AVG_FACTOR = 1
  AVG_CUTOFF_FACTOR = 8
  UINT32_MAX = 255
  INT_MAX = 6
  UINT16_MAX = 4
  UINT8_MAX = 3
  Thresholds = {0, 3}
  ABSENT = ABSENT
CONSTANT Configs <- MCConfigs
CONSTANT Default <- MCDefault
INVARIANTS AllReported HeartbeatKept
PROPERTIES DarkIsSeen SteadyIsQuiet
