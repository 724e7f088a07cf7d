CONSTANTS
  CTLR_LOC = remote
  Loc = remote
  TEMP_MIN = 0
  Temps <- Temperatures
  Settings <- TwoSettings
  Controllers <- OnOffAndPid
  OUT_MAX = 2
  Switches = {0, 2}
  Validities = {15000}
  Live = Live
SPECIFICATION FairSpec
INVARIANT ProjectorExpires
PROPERTIES RegulatesWhenSet ProjectorEndsPwm ForcedEnds
