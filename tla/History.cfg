SPECIFICATION Spec
CONSTANTS
  a = a
  b = b
  Ids <- TwoIds
  Contents = {a, b}
  Sources <- ThreeBundles
  Damaged = Damaged
  None = None
  Importers = {i1, i2}
  Syncers = {s1}
  Deletable <- SecondId
INVARIANTS RowsMatchStore
PROPERTIES StoreIsImmutable SyncSurvivesImports Rebuilds
