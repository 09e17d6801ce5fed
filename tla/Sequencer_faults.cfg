SPECIFICATION Spec
CONSTANTS
    a = a
    b = b
    c = c
    ap = ap
    aq = aq
    bp = bp
    cp = cp
    None = None
    Orphan = Orphan
    Seqs <- PairSeqs
    Ancestors <- PairAncestors
    Procs <- ForkProcs
    SeqOf <- ForkSeqOf
    Priorities <- OnePriority
    m_arbitration = "RANDOM"
    DriverCalls = {"get_next_item"}
    Env = {"disable_fork", "stop_sequences"}
    MaxLocks = 1
    m_wait_for_sequences_count = 1
INVARIANTS
    NothingLeftBehind
CHECK_DEADLOCK FALSE
