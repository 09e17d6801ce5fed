SPECIFICATION FairSpec
CONSTANTS
    top = top
    env = env
    agent = agent
    seq = seq
    Objects <- TreeObjects
    Top = top
    Parent <- TreeParent
    MaxCount = 1
    MaxForks = 2
INVARIANTS
    AllDroppedSafe
    DrainsBottomUp
PROPERTIES
    ImplementsContract
    DrainsComplete
    TopWaiterWakes
CHECK_DEADLOCK FALSE
