SPECIFICATION InstrumentSpec
CONSTANTS
  Notes = {n1, n2, n3}
  Channels = {c1}
  Slots = {s1, s2}
  PedalPositions <- Half
  None = None
  Kin <- AllKin
  Budgets = {1, 2}
SYMMETRY AnyKey
INVARIANT NeverBoth
PROPERTY FadeIsFinal
PROPERTY BudgetKept
