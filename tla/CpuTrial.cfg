SPECIFICATION Spec
CONSTANTS
  Requests = 3
  MaxInFlight = 2
  MaxFailed = 1
  MaxLevel = 1
  Levels = {1, 2}
  Attempts = 2
INVARIANTS
  RequestsAddUp
  GoalMetIsEarned
  NothingOutlivesTheForward
  OneRequestIsLate
PROPERTIES
  PilotEnds
