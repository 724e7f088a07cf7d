SPECIFICATION Spec
CONSTANTS
  NUM_FRAMES = 4
  MAX_FRAME_LEN = 2
  Bytes = {a, b}
  Readers = {coap, coaps}
  NoFrame = NoFrame
INVARIANT NoMissedWakeup
PROPERTY ImplementsFifo
