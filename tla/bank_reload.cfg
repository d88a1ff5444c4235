SPECIFICATION FairSpec
CONSTANTS
  Targets = {t1, t2}
  None = None
  RebuildWhileLoading = FALSE
INVARIANT BankAlone
INVARIANT BuffersAlone
INVARIANT OneBuilder
PROPERTY TargetBuilt
PROPERTY ReloadEnds
