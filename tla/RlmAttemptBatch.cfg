SPECIFICATION Spec
CONSTANTS
    Unset = Unset
    MaxCalls = 8
    MaxTokens = Unset
    MaxUsd = Unset
    MaxSeconds = Unset
    MaxUnpriced = 0
    SoftPercent = 20
    Widths = {1}
    Amounts = {0}
    GrantBound = 0
    StrayBound = 0
    ClockBound = 0
    MaxDepth = 1
    MaxIterations = 2
    MaxParallel = 2
    MaxWidth = 3
    FanOutBound = 2
    Faults = {"sandbox", "warm_timeout"}
INVARIANTS
    TypeOK
    LedgerBalanced
    LedgerClean
    BilledIsRecorded
    NothingLeftInFlight
PROPERTIES
    ImplementsAllowance
CHECK_DEADLOCK FALSE
