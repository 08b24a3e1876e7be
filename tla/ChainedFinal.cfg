SPECIFICATION MCSpec
CONSTANTS
    Writers = {"w1", "w2"}
    Research = {"A", "B"}
    Trials <- SharedTrials
    OpenBound = 2
    FaultBound = 1
    LineBound = 4
    Samples <- TwoSamples
    Corpus = {"c1", "c2"}
    Setup = {"p1", "p2"}
    RunBound = 3
    Putters = {"t1", "t2", "t3"}
    StoreOf <- TwoStores
    Data = {"a", "b", "c"}
    Size <- Sizes
    MaxTotalBytes = 3
    MaxArtifactBytes = 2
    CrashBound = 1
    Root = "r"
    Children <- Tree
    MaxDepth = 2
    MaxChildrenPerNode = 3
    MaxNodes = 7
    MaxConcurrency = 2
    Fingerprints = {"x", "y", "z"}
    Seeds <- TwoSeeds
    PopulationSize = 2
    Generations = 1
    MaxCandidates = 3
    MaxCost = 4
    Quotes = {1, 3}
    Metrics <- SomeMetrics
    Costs = {0, 1, 2}
    MaxRegression = 0
    MinImprovement = 0
    ZSquared = 4
    Incumbents <- MaybeReference
    Answers <- SomeAnswers
    HandoffLimit <- SmallLimits
    MaxRoots = 3
    Spendings = {1, 2}
    Solved <- SomeSolves
    Rivals <- SomeRivals
    Replicates <- SomeReplicates
    ReplicatedSamples = 4
    RecordBound = 2
    CohortSize = 6
    ChainLength = 3
    Hops = 2
    Replies <- SomeReplies
    VoteSize = 3
    Docs = {"d1", "d2", "d3", "d4", "d5"}
    TopK = 2
    Required = {"d1", "d2"}
    Expected <- Seven
INVARIANT
    FinalHandoffIsReturned
CHECK_DEADLOCK FALSE
