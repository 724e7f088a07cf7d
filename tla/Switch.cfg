SPECIFICATION FairSpec
CONSTANTS
  Labels = {a, b}
  EMPTY = empty
  NULL = null
  N = 2
  Servers = {coap, coaps}
  MaxNum = 1
INVARIANTS StoredWhenDone RightAddress
PROPERTY PressReaches
