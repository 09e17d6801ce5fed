SPECIFICATION Spec
CONSTANTS
    a = a
    b = b
    c = c
    ap = ap
    aq = aq
    bp = bp
    cp = cp
    None = None
    Orphan = Orphan
    Seqs <- PairSeqs
    Ancestors <- PairAncestors
    Procs <- PairProcs
    SeqOf <- PairSeqOf
    Priorities <- TwoPriorities
    m_arbitration = "STRICT_FIFO"
    DriverCalls = {"try_next_item", "get_next_item"}
    Env = {"kill", "slow", "relevance"}
    MaxLocks = 2
    m_wait_for_sequences_count = 2
INVARIANTS
    OneInFlight
    DriverAwake
PROPERTIES
    StrictOrder
    GrantsAvailable
