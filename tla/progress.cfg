SPECIFICATION ProgressSpec
CONSTANTS
  Producers = {p1, p2}
  Size = 2
  MaxEvents = 3
  None = None
  Total = 7
  Capacity = 4
  Threshold = 3
  Steps = {1, 2, 4}
  HeadFrames = 2
  RampLength = 2
  First = 1
  Buffer = 2
  SlowRamp = 3
  FastRamp = 2
  Loudest = 2
INVARIANT QueueInv
PROPERTY KeepsLine
PROPERTY InPlace
PROPERTY FadeRuns
PROPERTY Arrives
PROPERTY VoiceEnds
PROPERTY PanelFrees
CHECK_DEADLOCK FALSE
