SPECIFICATION FairSpec
CONSTANTS
  Targets = {t1, t2}
  None = None
  RebuildWhileLoading = TRUE
INVARIANT OneBuilder
