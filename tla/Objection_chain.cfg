SPECIFICATION Spec
CONSTANTS
    top = top
    env = env
    agent = agent
    seq = seq
    Objects <- ChainObjects
    Top = top
    Parent <- ChainParent
    MaxCount = 2
    MaxForks = 2
INVARIANTS
    TypeOK
    Conservation
    OneContext
    NoStrandedContext
    EntriesDrain
    NoAncestorBelowZero
CHECK_DEADLOCK FALSE
