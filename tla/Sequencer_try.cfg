SPECIFICATION Spec
CONSTANTS
    a = a
    b = b
    c = c
    ap = ap
    aq = aq
    bp = bp
    cp = cp
    None = None
    Orphan = Orphan
    Seqs <- PairSeqs
    Ancestors <- PairAncestors
    Procs <- PairProcs
    SeqOf <- PairSeqOf
    Priorities <- OnePriority
    m_arbitration = "FIFO"
    DriverCalls = {"try_next_item", "get_next_item"}
    Env = {"kill"}
    MaxLocks = 0
    m_wait_for_sequences_count = 1
INVARIANT DriverFed
CHECK_DEADLOCK FALSE
