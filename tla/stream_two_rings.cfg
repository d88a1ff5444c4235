SPECIFICATION Spec
CONSTANTS
  Voices = {v1, v2}
  Workers = {w1}
  NumRings = 2
  Capacity = 4
  Thresholds = {2}
  QueueCap = 1
  BlockFrames = 2
  Files <- LongFile
  MaxGen = 1
  ReadMayFail = TRUE
  None = None
SYMMETRY AnyOrder
INVARIANT RingOwnership
INVARIANT NoWaitOnFullRing
PROPERTY Delivery
