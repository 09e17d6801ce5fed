SPECIFICATION FairSpec
CONSTANTS
    a = a
    b = b
    c = c
    ap = ap
    aq = aq
    bp = bp
    cp = cp
    None = None
    Orphan = Orphan
    Seqs <- PairSeqs
    Ancestors <- PairAncestors
    Procs <- PairProcs
    SeqOf <- PairSeqOf
    Priorities <- OnePriority
    m_arbitration = "FIFO"
    DriverCalls = {"get_next_item"}
    Env = {"kill", "relevance"}
    MaxLocks = 1
    m_wait_for_sequences_count = 2
PROPERTIES
    Served
    LockServed
    ItemServed
