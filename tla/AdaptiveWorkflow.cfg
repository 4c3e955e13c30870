SPECIFICATION Spec
CONSTANTS
  Ids <- MCIds
  Proposals <- MCProposals
  Budgets <- MCBudgets
  MaxAttempts = 3
  MaxValidTrials = 2
INVARIANTS
  WithinBudget
  RecordsAreValid
  ReplansWhenSettled
  OutcomeIsJustified
PROPERTIES
  HistoryIsKept
  Ends
