SPECIFICATION Spec
CONSTANTS
  a = a
  b = b
  Ids <- TwoIds
  Contents = {a, b}
  Sources <- ThreeBundles
  Damaged = Damaged
  None = None
  Importers = {i1}
  Syncers = {s1}
  Deletable = {}
INVARIANT ImportedIsAvailable
