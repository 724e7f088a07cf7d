CONSTANTS
  CTLR_LOC = remote
  Loc = remote
  TEMP_MIN = 0
  Temps <- Temperatures
  Settings <- TwoSettings
  Controllers <- OnOffAndPid
  OUT_MAX = 2
  Switches = {}
  Validities = {15000, 120000}
  Live = Live
SPECIFICATION Spec
INVARIANT NoHeatingWithProjector
