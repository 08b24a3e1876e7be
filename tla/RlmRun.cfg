SPECIFICATION Spec
CONSTANTS
    Unset = Unset
    MaxCalls = 5
    MaxTokens = Unset
    MaxUsd = 2
    MaxSeconds = 2
    MaxUnpriced = 0
    SoftPercent = 20
    Widths = {1}
    Amounts = {0, 1}
    GrantBound = 0
    StrayBound = 0
    ClockBound = 1
    Policies = {"never", "fixed", "escalating", "stranger"}
    PolicyDepth = 3
    Step = 1
    MinCalls = 2
    StopOnError = TRUE
    MaxAttempts = 3
    CallBound = 2
INVARIANTS
    TypeOK
    LadderIsOrdered
    EscalatesOnlyAfterFailure
    SpendIsAttributed
    VerdictIsEarned
CHECK_DEADLOCK FALSE
