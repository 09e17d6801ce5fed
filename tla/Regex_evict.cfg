SPECIFICATION Spec
CONSTANTS
    Chars <- MCChars
    UVM_REGEX_MAX_LENGTH = 8
    Builds = {TRUE}
    Exprs <- MCFew
    Others = {}
    Strs <- MCOne
    Nodes = {n1, n2, n3, n4}
    Handles = {h1, h2, h3, h4}
    Sizes = {0, 1, 2}
    InitialMax = 2
    MaxStale = 4
    null = null
PROPERTIES
    EvictsLeastRecent
CHECK_DEADLOCK FALSE
