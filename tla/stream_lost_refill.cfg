SPECIFICATION Spec
CONSTANTS
  Voices = {v1}
  Workers = {w1}
  NumRings = 1
  Capacity = 4
  Thresholds = {2}
  QueueCap = 2
  BlockFrames = 2
  Files <- LongerFile
  MaxGen = 1
  ReadMayFail = FALSE
  None = None
PROPERTY RefillSent
