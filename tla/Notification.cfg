CONSTANTS
  Labels = {a, b}
  EMPTY = empty
  NULL = null
  N = 2
SPECIFICATION FairSpec
INVARIANTS OneTargetEach RightAddress
PROPERTY Informed
