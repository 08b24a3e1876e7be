SPECIFICATION Spec
CONSTANTS
    Unset = Unset
    MaxCalls = 7
    MaxTokens = Unset
    MaxUsd = 4
    MaxSeconds = 1
    MaxUnpriced = 1
    SoftPercent = 20
    Widths = {1}
    Amounts = {1}
    GrantBound = 0
    StrayBound = 0
    ClockBound = 1
    MaxDepth = 1
    MaxIterations = 2
    MaxParallel = 2
    MaxWidth = 2
    FanOutBound = 1
    Faults = {"provider", "sandbox", "deadline", "unpriced"}
INVARIANT
    WarmBeforeWide
PROPERTY
    AttemptEnds
CHECK_DEADLOCK FALSE
