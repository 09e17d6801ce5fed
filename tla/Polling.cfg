SPECIFICATION FairSpec
CONSTANTS
    h1 = h1
    h2 = h2
    s1 = s1
    s2 = s2
    w1 = w1
    enumeral = enumeral
    Hooks = {h1, h2}
    Signals = {s1, s2}
    NotIntegral = {enumeral}
    Values = {0, 1}
    InitialValue = 0
    Waiters = {w1}
    MaxChanges = 3
    MaxResets = 1
    None = None
INVARIANTS
    TypeOK
    ListExact
    NoMissedWakeup
    NoStrandedWaiter
PROPERTIES
    ImplementsContract
    WaiterReturns
CHECK_DEADLOCK FALSE
