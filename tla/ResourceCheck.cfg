SPECIFICATION Spec
CONSTANTS
  Limit = 2
  Kinds = {"low", "high", "partial"}
  MaxChanges = 2
INVARIANTS
  CollectorErrorsAreNoVerdict
PROPERTIES
  VerdictIsTheProducts
  KnownInstrumentsStayOut
  NothingIsLeft
