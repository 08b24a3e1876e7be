SPECIFICATION BudgetSpec
CONSTANTS
    Unset = Unset
    MaxCalls = 4
    MaxTokens = 5
    MaxUsd = 3
    MaxSeconds = 2
    MaxUnpriced = 1
    SoftPercent = 20
    Widths = {1, 2}
    Amounts = {0, 2}
    GrantBound = 5
    StrayBound = 1
    ClockBound = 3
INVARIANTS
    BudgetTypeOK
    CallCeiling
    Conservation
    PoolEmptiesWithFlight
PROPERTIES
    NoGrantPastTheLine
    IdleExhaustionIsFinal
    LastCallForewarned
CHECK_DEADLOCK FALSE
