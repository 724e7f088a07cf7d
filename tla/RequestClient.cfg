SPECIFICATION FairSpec
CONSTANTS
  ItemsNum = 2
  Values = {v1, v2}
  NULL = NULL
  ATTEMPTS = 2
  MaxNet = 2
  Moving = {0}
INVARIANT NotForgotten
PROPERTIES Served Shown
