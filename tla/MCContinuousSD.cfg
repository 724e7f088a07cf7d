SPECIFICATION FairSpec
CONSTANTS
  NumEntries = 2
  Keys <- MCKeys
  Services <- MCServices
  NULL = NULL
  Absent = Absent
  MIN_SD_INTERVAL = 1
  MAX_SD_INTERVAL = 2
  TO_INTERVAL = 3
  Window = 1
  MaxResponses = 1
  MaxAge = 5
INVARIANTS PlanIsCurrent NoStaleAddress
PROPERTIES ImplementsCache EveryoneIsAsked Resolved
