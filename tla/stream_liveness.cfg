SPECIFICATION Spec
CONSTANTS
  Voices = {v1}
  Workers = {w1, w2}
  NumRings = 1
  Capacity = 4
  Thresholds = {3}
  QueueCap = 2
  BlockFrames = 2
  Files <- LongFile
  MaxGen = 1
  ReadMayFail = TRUE
  None = None
PROPERTY RingReturned
PROPERTY StopJoins
