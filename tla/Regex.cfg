SPECIFICATION Spec
CONSTANTS
    Chars <- MCChars
    UVM_REGEX_MAX_LENGTH = 8
    Builds = {TRUE, FALSE}
    Exprs <- MCExprs
    Others <- MCOthers
    Strs <- MCStrs
    Nodes = {n1, n2, n3, n4}
    Handles = {h1, h2, h3, h4}
    Sizes = {0, 1, 2}
    InitialMax = 2
    MaxStale = 3
    null = null
INVARIANTS
    ListExact
    HandlesExact
    ResultRight
    BufferKept
CHECK_DEADLOCK FALSE
