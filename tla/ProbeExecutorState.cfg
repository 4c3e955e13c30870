SPECIFICATION Spec
CONSTANTS
  N = 2
  Plans <- ConditionalPair
  Services <- MCServices
INVARIANT CheckAgreesWithState
