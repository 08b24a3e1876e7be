SPECIFICATION Spec
CONSTANTS
    Children = {c1, c2}
    Root = r0
    Workers = 2
INVARIANT
    FinalVarIsOwn
CHECK_DEADLOCK FALSE
