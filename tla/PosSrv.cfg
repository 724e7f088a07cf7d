SPECIFICATION FairServiceSpec
CONSTANTS
  MAX = 255
  MIN = 0
  Middle = {100}
  Validities = {2, 3}
  SwingTime = 1
  Intervals = {0, 1}
INVARIANTS Settled ProjectorExpires
PROPERTY Restores
