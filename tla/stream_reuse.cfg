SPECIFICATION Spec
CONSTANTS
  Voices = {v1, v2}
  Workers = {w1, w2}
  NumRings = 1
  Capacity = 4
  Thresholds = {1, 2}
  QueueCap = 2
  BlockFrames = 2
  Files <- MixedFiles
  MaxGen = 2
  ReadMayFail = TRUE
  None = None
SYMMETRY AnyOrder
INVARIANT IInv
INVARIANT InOrder
