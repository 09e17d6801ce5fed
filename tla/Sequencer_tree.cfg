SPECIFICATION Spec
CONSTANTS
    a = a
    b = b
    c = c
    ap = ap
    aq = aq
    bp = bp
    cp = cp
    None = None
    Orphan = Orphan
    Seqs <- TreeSeqs
    Ancestors <- TreeAncestors
    Procs <- TreeProcs
    SeqOf <- TreeSeqOf
    Priorities <- OnePriority
    m_arbitration = "FIFO"
    DriverCalls = {"get_next_item", "peek", "get"}
    Env = {"kill"}
    MaxLocks = 1
    m_wait_for_sequences_count = 1
INVARIANTS
    TypeOK
    LocksNested
    NoLostRequest
    CompletionSeen
    DriverFed
