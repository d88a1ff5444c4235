SPECIFICATION Spec
CONSTANTS
  Notes = {n1, n2, n3}
  Channels = {c1, c2}
  Slots = {s1, s2}
  PedalPositions <- OnOff
  None = None
SYMMETRY AnyKey
INVARIANT OneVoicePerNote
INVARIANT HeldAgrees
INVARIANT PendingExact
INVARIANT VoicesBacked
INVARIANT StringsUndamped
PROPERTY StealSpares
