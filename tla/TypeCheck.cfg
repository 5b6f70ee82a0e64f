SPECIFICATION Spec
CONSTANTS
    Sigs <- MCSigs
    Patterns <- MCPatterns
    Ground <- MCGround
    NTypeVars = 3
    NFresh = 1
    Names = {"a"}
    MaxCalls = 3
    MaxScopes = 2
    MaxAssumed = 1
CHECK_DEADLOCK FALSE
INVARIANTS TypeOK SolvedForm ScopeVars AcceptEnds
PROPERTIES AnswersRight UnifyEnds
