SPECIFICATION Spec
CONSTANTS
  None = None
  Choices = {0, 1}
  Knobs = {0, 1}
  Rates = {44, 48}
  Preempted = FALSE
  RT_BUFFER_SIZE = 2
  Batch = 2
  kCapacity = 2
  MaxCalls = 4
  MaxTalk = 1
  Samples <- MCSamples
  Directories <- MCDirectories
  MaxFiles = 5
  RamBudgets = {0, 2, 4}
  Preload = 1
  Window = 2
  Layers = {2}
  Workers = {1, 2}
  Chunks <- MCChunks
  Sizes = {0, 1, 3, 4, 7, 8, 9}
  FrameBytes = 2
  MaxCount = 3
  Texts <- MCTexts
  OldFiles <- MCOldFiles
  Tabs = 3
  ParamPages = 2
  Decimals = {0, 3, 6}
  Delay = 1
  MaxEdits = 2
  MaxStarts = 3
  Banks <- MCBanks
  OutcomeOf <- MCOutcomeOf
  OverlayWait = 1
  FadeFrames = 1
  LayerWait = 1
  Devices = {"a", "b"}
  Within <- MCWithin
  Channels = {1}
  Fast = 1
  Slow = 2
  TouchHold = 1
  IdleHold = 2
  SaverWait = 4
  OverHold = 2
  UnderHold = 4
  Budgets = {0, 6, 13}
  Wants = {0, 20, 100}
  Hitch = 4
INVARIANT SlotAlone
INVARIANT InForce
INVARIANT LinesAccounted
INVARIANT RangesJoin
INVARIANT BankComplete
INVARIANT LouderIsLouder
INVARIANT ReportsLast
INVARIANT ChangeSaved
INVARIANT NotesEnd
INVARIANT NeverLazy
PROPERTY SettingsKept
PROPERTY SteadyGlow
CHECK_DEADLOCK FALSE
