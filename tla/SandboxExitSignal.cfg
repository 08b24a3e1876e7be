SPECIFICATION Spec
CONSTANTS
    Main = m
    Workers = {w}
    ChildBound = 2
PROPERTY
    SignalIsPassedOn
CHECK_DEADLOCK FALSE
