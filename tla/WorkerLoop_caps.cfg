SPECIFICATION FairSpec
CONSTANTS
    MaxPlanSteps = 2
    MaxActions = 3
    MaxMutatingActions = 2
    MaxPauseCredit = 1
    Scopes <- AllScopes
    Dialled <- MCDialled
    Proposals <- AllProposals
    Pages <- MCPages
    ElementAt <- MCElementAt
    TimeLimit = 2
    Horizon = 3
    MaxRuns = 2
INVARIANTS
    CapsHold
    YesCoversTheElementShown
PROPERTIES
    AuthorisedInsideTheTimeLimit
    NothingAfterTheTabIsLost
    RunEnds
CHECK_DEADLOCK FALSE
