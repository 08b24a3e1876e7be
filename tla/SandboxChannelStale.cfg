SPECIFICATION Spec
CONSTANTS
    Var = {"context"}
    Name = {"llm_query"}
    RequestBound = 3
    ChildBound = 2
INVARIANT
    GreetingIsFresh
CHECK_DEADLOCK FALSE
