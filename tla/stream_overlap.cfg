SPECIFICATION Spec
CONSTANTS
  Voices = {v1}
  Workers = {w1, w2}
  NumRings = 1
  Capacity = 6
  Thresholds = {5}
  QueueCap = 2
  BlockFrames = 2
  Files <- LongerFile
  MaxGen = 1
  ReadMayFail = FALSE
  None = None
INVARIANT InOrder
