SPECIFICATION AcSpec
CONSTANTS
  RingSize = 3
  Servers = {coap, coaps}
  Main = main
  NULL = NULL
  WRONG = WRONG
  Targets = {223}
  Settings = {70}
  MaxLine = 2
CHECK_DEADLOCK FALSE
CONSTANT Requests <- MCRequests
CONSTANT MaxDialogues = 2
PROPERTIES OnlyAsked SettingTaken Answered GetsReady
