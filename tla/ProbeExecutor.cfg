SPECIFICATION Spec
CONSTANTS
  N = 3
  Plans <- ThreeTaskPlans
  Services <- MCServices
INVARIANTS
  NoConflictingProbes
  VerdictsAreMeasured
  RefusalsHaveACause
  EveryTaskAccounted
PROPERTIES
  NoneAdmittedAfterCancellation
  ImplementsPlanRun
  Terminates
