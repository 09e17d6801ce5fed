-------------------------------- MODULE Sequencer --------------------------------
(***************************************************************************)
(* uvm_sequencer (src/src/seq/uvm_sequencer*.svh, uvm_sequence_base.svh):  *)
(* processes of sequences queue requests for a grant or for a lock; one    *)
(* driver asks for items.  Arbitration grants a request, the process sends *)
(* its item through a FIFO of depth 1, and waits until the driver reports  *)
(* it done.  Sequences form trees; a lock lets only its holder and the     *)
(* holder's descendants pass.                                              *)
(*                                                                         *)
(* SystemVerilog functions run without interleaving.  The loop of          *)
(* m_choose_next_request is modelled one entry per step (dpc = "scan"),    *)
(* during which nothing else moves; every other function is one step.      *)
(***************************************************************************)
EXTENDS Integers, Sequences, FiniteSets

CONSTANTS
    Seqs,           \* sequences that may run on the sequencer
    Ancestors,      \* the parents of a sequence, theirs, and so on
    Procs,          \* processes started by the bodies of the sequences
    SeqOf,          \* the sequence of a process
    Priorities,     \* item priorities
    m_arbitration,  \* "FIFO", "STRICT_FIFO" or "RANDOM" (also WEIGHTED and USER)
    m_wait_for_sequences_count, \* choices in a row before the driver gives up
    DriverCalls,    \* what the driver calls
    Env,            \* what else happens: see the actions that name it
    MaxLocks,       \* bound: locks one sequence holds or asks for
    None, Orphan    \* nobody; somebody whose sequence has been started anew

ASSUME SeqsAssumption ==
    /\ Ancestors \in [Seqs -> SUBSET Seqs]
    /\ SeqOf \in [Procs -> Seqs]
    /\ None \notin Seqs \cup Procs /\ Orphan \notin Seqs \cup Procs /\ None # Orphan

(* get_parent_sequence gives every sequence one chain of ancestors.        *)
ASSUME TreeAssumption ==
    /\ \A s \in Seqs : s \notin Ancestors[s]
    /\ \A s, t \in Seqs : t \in Ancestors[s] => Ancestors[t] \subseteq Ancestors[s]
    /\ \A s \in Seqs : \A t, u \in Ancestors[s] :
          t = u \/ t \in Ancestors[u] \/ u \in Ancestors[t]

ASSUME BoundsAssumption ==
    /\ Priorities \subseteq Nat \ {0} /\ Priorities # {}
    /\ MaxLocks \in Nat
    /\ m_wait_for_sequences_count \in Nat \ {0}
    /\ m_arbitration \in {"FIFO", "STRICT_FIFO", "RANDOM"}
    /\ DriverCalls \subseteq {"get_next_item", "try_next_item", "get", "peek"}
    /\ Env \subseteq {"kill", "disable_fork", "stop_sequences", "relevance", "slow"}

VARIABLES
    pc,                 \* where a process is
    running,            \* started sequences (m_sequence_process is not null)
    reg_sequences,      \* sequences registered with the sequencer
    irrelevant,         \* sequences whose is_relevant() returns 0
    arb_sequence_q,     \* queued requests
    arb_completed,      \* granted requests their processes have not noticed yet
    lock_list,          \* locks held, counted per sequence
    woken,              \* processes m_update_lists has woken, and that were granted
    list_changed,       \* m_arb_size differs from m_lock_arb_size
    is_relevant_entries,\* sequences whose wait_for_relevant the driver waits for
    m_req_fifo,         \* the process whose item is in the FIFO, or None
    m_wait_for_item_sequence_id,
    sequence_item_requested,
    get_next_item_called,
    dpc,                \* where the driver is
    dcall,              \* the call it is in
    first,              \* its first selection, not one of select_process
    tries,              \* choices made since the driver began to look for a request
    scan,               \* index of the loop in m_choose_next_request
    avail_sequences,    \* indices the loop has collected
    selected,           \* process granted by the last selection, or None
    got,                \* what the driver obtained and has not completed
    fatal               \* "none" or the fatal error that stopped the simulation

procVars   == <<pc, running, reg_sequences, irrelevant>>
queueVars  == <<arb_sequence_q, arb_completed, lock_list, woken, list_changed>>
itemVars   == <<m_req_fifo, m_wait_for_item_sequence_id>>
flagVars   == <<sequence_item_requested, get_next_item_called>>
selectVars == <<dpc, dcall, first, tries, scan, avail_sequences, selected,
                is_relevant_entries>>
vars       == <<procVars, queueVars, itemVars, flagVars, selectVars, got, fatal>>

(***************************************************************************)
(* Types                                                                   *)
(***************************************************************************)
Requests == [request : {"REQ", "LOCK", "PRELOCK"}, proc : Procs, pri : Priorities]

Ids == {"REQ", "LOCK", "PRELOCK"} \X Procs

TypeOK ==
    /\ pc \in [Procs -> {"off", "dead", "idle", "wait_req", "wait_lock",
                         "granted", "wait_item"}]
    /\ running \subseteq Seqs
    /\ reg_sequences \subseteq Seqs
    /\ irrelevant \subseteq Seqs
    /\ arb_sequence_q \in Seq(Requests)
    /\ arb_completed \subseteq Ids
    /\ lock_list \in [Seqs -> Nat]
    /\ woken \subseteq Procs
    /\ list_changed \in BOOLEAN
    /\ is_relevant_entries \subseteq Seqs
    /\ m_req_fifo \in Procs \cup {None, Orphan}
    /\ m_wait_for_item_sequence_id \in Seqs \cup {None}
    /\ sequence_item_requested \in BOOLEAN
    /\ get_next_item_called \in BOOLEAN
    /\ dpc \in {"idle", "select", "scan", "wait", "peek", "try"}
    /\ dcall \in {"get_next_item", "try_next_item", "get", "peek"}
    /\ first \in BOOLEAN
    /\ tries \in 0 .. m_wait_for_sequences_count
    /\ scan \in Nat
    /\ avail_sequences \in Seq(Nat)
    /\ selected \in Procs \cup {None, Orphan}
    /\ got \in {"none", "peeked", "item"}
    /\ fatal \in {"none", "SQRBADITMDN", "SQRSNDREQGNI", "null"}

(***************************************************************************)
(* Helpers                                                                 *)
(***************************************************************************)
is_child(parent, child) == parent \in Ancestors[child]

(* A sequence and all below it.                                            *)
Family(S) == {s \in Seqs : s \in S \/ \E t \in S : is_child(t, s)}

ProcsOf(S) == {p \in Procs : SeqOf[p] \in S}

SeqAt(q, i) == SeqOf[q[i].proc]

(* is_blocked under the locks l: some holder is neither s nor above s.     *)
is_blocked(l, s) == \E h \in Seqs : l[h] > 0 /\ h # s /\ ~is_child(h, s)

Id(r) == <<r.request, r.proc>>

(* The process of a queued request is KILLED.                              *)
Zombie(r) == pc[r.proc] = "dead"

RemoveAt(q, i) == [j \in 1 .. Len(q) - 1 |-> IF j < i THEN q[j] ELSE q[j + 1]]

FirstOf(I) == {i \in I : \A j \in I : i <= j}

(* The entries of q at the indices I, in their order.  (SelectSeq, in a    *)
(* form the provers can open: Rank numbers the indices that stay.)         *)
Rank(I, i) == Cardinality({j \in I : j <= i})

Kept(q, I) == [k \in 1 .. Cardinality(I) |-> q[CHOOSE i \in I : Rank(I, i) = k]]

(* Mutant: parent and child are confused.                                  *)
WithoutParents(q, S) ==
    Kept(q, {i \in DOMAIN q : SeqAt(q, i) \notin S \cup UNION {Ancestors[s] : s \in S}})

(* remove_sequence_from_queues for the sequences S: their requests and     *)
(* those of their descendants go ...                                       *)
WithoutRequests(q, S) == Kept(q, {i \in DOMAIN q : SeqAt(q, i) \notin Family(S)})

(* Mutant: the locks stay.                                                 *)
LocksKept(l, S) == l

(* ... and so do their locks.                                              *)
WithoutLocks(l, S) == [s \in Seqs |-> IF s \in Family(S) THEN 0 ELSE l[s]]

(* What p waits for in m_wait_for_arbitration_completed.                   *)
Awaited(at, p) ==
    CASE at[p] = "wait_req"  -> {<<"REQ", p>>}
      [] at[p] = "wait_lock" -> {<<"LOCK", p>>}
      [] OTHER               -> {}

(* Mutant: the processes that wait for their grant are not woken.          *)
WokenNobody(completed, changed) == {p \in woken : Awaited(pc', p) \cap completed # {}}

(* m_update_lists, and a process's own first look: whoever waits for a     *)
(* completed request will run.  (One that wakes for nothing waits again.)  *)
Woken(completed, changed) ==
    {p \in Procs : Awaited(pc', p) \cap completed # {} /\ (changed \/ p \in woken)}

(* The queues become q, l and completed.  pc' is known.  list_changed is   *)
(* looked at by a driver that waits, and reset when it starts to wait.     *)
SetQueues(q, l, completed, changed) ==
    /\ arb_sequence_q' = q
    /\ lock_list' = l
    /\ arb_completed' = completed
    /\ woken' = Woken(completed, changed)
    /\ list_changed' = (dpc = "wait" /\ (list_changed \/ changed))

(* grant_queued_locks, on the queues q, l and completed: zombies among the *)
(* lock requests take their sequences out; then the first unblocked lock   *)
(* request, wherever it stands in the queue, is granted.                   *)
LockZombies(q) ==
    {SeqAt(q, i) : i \in {j \in DOMAIN q : q[j].request # "REQ" /\ Zombie(q[j])}}

(* Mutants: a lock is granted although another one blocks it; only the     *)
(* front of the queue is looked at.                                        *)
GrantableBlocked(q, l) == {i \in DOMAIN q : q[i].request # "REQ"}

GrantableFront(q, l) ==
    {i \in DOMAIN q : i = 1 /\ q[i].request # "REQ" /\ ~is_blocked(l, SeqAt(q, i))}

Grantable(q, l) ==
    {i \in DOMAIN q : q[i].request # "REQ" /\ ~is_blocked(l, SeqAt(q, i))}

GrantLock(q, l, completed, changed) ==
    \/ /\ Grantable(q, l) = {}
       /\ SetQueues(q, l, completed, changed)
    \/ \E i \in FirstOf(Grantable(q, l)) :
          SetQueues(RemoveAt(q, i), [l EXCEPT ![SeqAt(q, i)] = @ + 1],
                    completed \cup {Id(q[i])}, TRUE)

grant_queued_locks(q, l, completed, changed) ==
    LET Z == LockZombies(q)
    IN  /\ reg_sequences' = reg_sequences \ Z
        /\ GrantLock(WithoutRequests(q, Z), WithoutLocks(l, Z), completed, changed \/ Z # {})

(***************************************************************************)
(* Who may move                                                            *)
(***************************************************************************)
Free == dpc # "scan" /\ fatal = "none"

ItemDoneFor(p) == pc[p] = "wait_item" /\ m_wait_for_item_sequence_id = SeqOf[p]

(* Mutant: nobody is waited for.                                           *)
SettledAlways == fatal = "none"

(* wait_for_sequences: in the NBA region every process that could run has. *)
(* One that has a grant has sent its item, unless its pre_do takes longer. *)
Settled ==
    /\ fatal = "none"
    /\ woken = {}
    /\ \A p \in Procs : ~ItemDoneFor(p)
    /\ "slow" \in Env \/ \A p \in Procs : pc[p] # "granted"

(* Mutant: nobody waits for the granted process.                           *)
GoneAlways(p) == p = Orphan \/ p \in Procs

(* The granted process has ended before it noticed or before it sent.      *)
Gone(p) == p = Orphan \/ (p \in Procs /\ pc[p] \in {"dead", "off"})

-----------------------------------------------------------------------------------
Init ==
    /\ pc = [p \in Procs |-> "off"]
    /\ running = {}
    /\ reg_sequences = {}
    /\ irrelevant = {}
    /\ arb_sequence_q = << >>
    /\ arb_completed = {}
    /\ lock_list = [s \in Seqs |-> 0]
    /\ woken = {}
    /\ list_changed = FALSE
    /\ is_relevant_entries = {}
    /\ m_req_fifo = None
    /\ m_wait_for_item_sequence_id = None
    /\ sequence_item_requested = FALSE
    /\ get_next_item_called = FALSE
    /\ dpc = "idle"
    /\ dcall = "get_next_item"
    /\ first = TRUE
    /\ tries = 0
    /\ scan = 0
    /\ avail_sequences = << >>
    /\ selected = None
    /\ got = "none"
    /\ fatal = "none"

(***************************************************************************)
(* Sequences: start, end, kill                                             *)
(***************************************************************************)

(* A sequence is registered anew, its processes are new processes: nothing *)
(* that carries the identifiers of an earlier run is about this one.       *)
Start(s) ==
    /\ Free
    /\ s \notin running
    /\ Ancestors[s] \subseteq running
    /\ running' = running \cup {s}
    /\ reg_sequences' = reg_sequences \cup {s}
    /\ pc' = [p \in Procs |-> IF SeqOf[p] = s THEN "idle" ELSE pc[p]]
    /\ arb_completed' = {id \in arb_completed : SeqOf[id[2]] # s}
    /\ selected' = IF selected \in ProcsOf({s}) THEN Orphan ELSE selected
    /\ m_req_fifo' = IF m_req_fifo \in ProcsOf({s}) THEN Orphan ELSE m_req_fifo
    /\ m_wait_for_item_sequence_id' =
          IF m_wait_for_item_sequence_id = s THEN None ELSE m_wait_for_item_sequence_id
    /\ UNCHANGED <<irrelevant, arb_sequence_q, lock_list, woken, list_changed, flagVars,
                   dpc, dcall, first, tries, scan, avail_sequences, is_relevant_entries, got,
                   fatal>>

(* remove_sequence_from_queues for S; whatever it takes out is reported to *)
(* the waiting processes, but no lock is granted in its place.             *)
remove_sequence_from_queues(S) ==
    SetQueues(WithoutRequests(arb_sequence_q, S), WithoutLocks(lock_list, S), arb_completed,
              \/ WithoutRequests(arb_sequence_q, S) # arb_sequence_q
              \/ WithoutLocks(lock_list, S) # lock_list)

(* The processes of S end, and S leaves the sequencer.                     *)
End(S) ==
    /\ running' = running \ S
    /\ reg_sequences' = reg_sequences \ S
    /\ pc' = [p \in Procs |-> IF SeqOf[p] \in S THEN "off" ELSE pc[p]]
    /\ remove_sequence_from_queues(S)

(* start() returns: the body and every child have ended.  A lock that is   *)
(* still held is an error (SEQFINERR) and removed.                         *)
Finish(s) ==
    /\ Free
    /\ s \in running
    /\ Family({s}) \cap running = {s}
    /\ \A p \in ProcsOf({s}) : pc[p] \in {"idle", "dead"}
    /\ End({s})
    /\ UNCHANGED <<irrelevant, itemVars, flagVars, selectVars, got, fatal>>

(* kill(): the sequence and its children, with whatever they were doing.   *)
Kill(s) ==
    /\ Free
    /\ "kill" \in Env
    /\ s \in running
    /\ End(Family({s}))
    /\ UNCHANGED <<irrelevant, itemVars, flagVars, selectVars, got, fatal>>

(* One process of a sequence is killed inside a call, by disable fork or   *)
(* process::kill, and the sequence goes on.                                *)
DisableFork(p) ==
    /\ Free
    /\ "disable_fork" \in Env
    /\ pc[p] \notin {"off", "dead", "idle"}
    /\ pc' = [pc EXCEPT ![p] = "dead"]
    /\ woken' = woken \ {p}
    /\ UNCHANGED <<running, reg_sequences, irrelevant, arb_sequence_q, arb_completed,
                   lock_list, list_changed, itemVars, flagVars, selectVars, got, fatal>>

(* stop_sequences: every registered sequence and its children are killed,  *)
(* the FIFO is flushed and the driver's flags are reset.                   *)
stop_sequences ==
    /\ Free
    /\ "stop_sequences" \in Env
    /\ End(Family(reg_sequences))
    /\ m_req_fifo' = None
    /\ sequence_item_requested' = FALSE
    /\ get_next_item_called' = FALSE
    /\ UNCHANGED <<irrelevant, m_wait_for_item_sequence_id, selectVars, got, fatal>>

(* A sequence that implements is_relevant changes its mind.                *)
ChangeRelevance(s) ==
    /\ Free
    /\ "relevance" \in Env
    /\ s \in running
    /\ irrelevant' = IF s \in irrelevant THEN irrelevant \ {s} ELSE irrelevant \cup {s}
    /\ UNCHANGED <<pc, running, reg_sequences, queueVars, itemVars, flagVars, selectVars,
                   got, fatal>>

(***************************************************************************)
(* Processes of sequences: requests, locks, items                          *)
(***************************************************************************)
Request(kind, p, pri) == [request |-> kind, proc |-> p, pri |-> pri]

(* The priority of a lock request is never looked at.                      *)
AnyPriority == CHOOSE pri \in Priorities : TRUE

LocksOf(s) ==
    lock_list[s] + Cardinality({i \in DOMAIN arb_sequence_q :
                       arb_sequence_q[i].request # "REQ" /\ SeqAt(arb_sequence_q, i) = s})

(* The caller is registered unless its identifier is still valid, which it *)
(* is until the sequence ends.                                             *)
Calls(p, at) ==
    /\ Free
    /\ pc[p] = "idle"
    /\ pc' = [pc EXCEPT ![p] = at]

(* The queue when p asks for a grant, with a lock in front if it wants one.*)
WithRequest(p, pri, lock_request) ==
    arb_sequence_q
        \o (IF lock_request THEN <<Request("PRELOCK", p, AnyPriority)>> ELSE << >>)
        \o <<Request("REQ", p, pri)>>

(* Mutant: the queue changes silently.                                     *)
WaitForGrantSilent(p, pri, lock_request) ==
    /\ Calls(p, "wait_req")
    /\ lock_request => LocksOf(SeqOf[p]) < MaxLocks
    /\ SetQueues(WithRequest(p, pri, lock_request), lock_list, arb_completed, FALSE)
    /\ UNCHANGED <<running, reg_sequences, irrelevant, itemVars, flagVars, selectVars, got, fatal>>

(* wait_for_grant, as start_item calls it or with a lock request, whose    *)
(* own grant nobody waits for.                                             *)
wait_for_grant(p, pri, lock_request) ==
    /\ Calls(p, "wait_req")
    /\ lock_request => LocksOf(SeqOf[p]) < MaxLocks
    /\ SetQueues(WithRequest(p, pri, lock_request), lock_list, arb_completed, TRUE)
    /\ UNCHANGED <<running, reg_sequences, irrelevant, itemVars, flagVars, selectVars, got, fatal>>

(* lock and grab: the request goes to the back or to the front, and the    *)
(* locks that can be granted at once are.                                  *)
m_lock_req(p, lock) ==
    /\ Calls(p, "wait_lock")
    /\ LocksOf(SeqOf[p]) < MaxLocks
    /\ IF lock THEN grant_queued_locks(Append(arb_sequence_q, Request("LOCK", p, AnyPriority)),
                                       lock_list, arb_completed, FALSE)
               ELSE grant_queued_locks(<<Request("LOCK", p, AnyPriority)>> \o arb_sequence_q,
                                       lock_list, arb_completed, TRUE)
    /\ UNCHANGED <<running, irrelevant, itemVars, flagVars, selectVars, got, fatal>>

(* m_wait_for_arbitration_completed returns.                               *)
ArbitrationCompleted(p) ==
    /\ Free
    /\ p \in woken
    /\ woken' = woken \ {p}
    /\ arb_completed' = arb_completed \ Awaited(pc, p)
    /\ pc' = [pc EXCEPT ![p] = IF @ = "wait_req" THEN "granted" ELSE "idle"]
    /\ UNCHANGED <<running, reg_sequences, irrelevant, arb_sequence_q, lock_list, list_changed,
                   itemVars, flagVars, selectVars, got, fatal>>

(* Mutant: whether there is a lock is not looked at.                       *)
HasLockAlways(s) == TRUE

has_lock(s) == lock_list[s] > 0

(* unlock and ungrab: one lock of the sequence goes, the next is granted.  *)
m_unlock_req(p) ==
    /\ Free
    /\ pc[p] = "idle"
    /\ has_lock(SeqOf[p])
    /\ UNCHANGED pc
    /\ grant_queued_locks(arb_sequence_q, [lock_list EXCEPT ![SeqOf[p]] = @ - 1],
                          arb_completed, TRUE)
    /\ UNCHANGED <<running, irrelevant, itemVars, flagVars, selectVars, got, fatal>>

(* finish_item: the item goes to the FIFO, and at once the process waits   *)
(* for its completion.  A full FIFO is fatal.                              *)
send_request(p) ==
    /\ Free
    /\ pc[p] = "granted"
    /\ IF m_req_fifo # None
         THEN /\ fatal' = "SQRSNDREQGNI"
              /\ UNCHANGED <<pc, reg_sequences, queueVars, itemVars>>
         ELSE /\ m_req_fifo' = p
              /\ pc' = [pc EXCEPT ![p] = "wait_item"]
              /\ grant_queued_locks(arb_sequence_q, lock_list, arb_completed, FALSE)
              /\ m_wait_for_item_sequence_id' = None
              /\ UNCHANGED fatal
    /\ UNCHANGED <<running, irrelevant, flagVars, selectVars, got>>

(* wait_for_item_done(-1) returns.                                         *)
ItemDoneSeen(p) ==
    /\ Free
    /\ ItemDoneFor(p)
    /\ pc' = [pc EXCEPT ![p] = "idle"]
    /\ UNCHANGED <<running, reg_sequences, irrelevant, queueVars, itemVars, flagVars,
                   selectVars, got, fatal>>

(***************************************************************************)
(* The driver's calls                                                      *)
(***************************************************************************)

(* The driver calls get_next_item, get or peek.  With an item requested    *)
(* before there is nothing to select.                                      *)
CallSelect(call) ==
    /\ Free
    /\ dpc = "idle"
    /\ call \in DriverCalls \ {"try_next_item"}
    /\ call = "get_next_item" => got # "item"
    /\ dcall' = call
    /\ IF sequence_item_requested
         THEN /\ dpc' = "peek"
              /\ first' = FALSE
              /\ get_next_item_called' = (get_next_item_called \/ call = "get_next_item")
         ELSE /\ dpc' = "select"
              /\ first' = TRUE
              /\ UNCHANGED get_next_item_called
    /\ selected' = None
    /\ tries' = 0
    /\ UNCHANGED <<procVars, queueVars, itemVars, sequence_item_requested, scan,
                   avail_sequences, is_relevant_entries, got, fatal>>

(* try_next_item, when it does not report that it was called twice.        *)
CallTry ==
    /\ Free
    /\ dpc = "idle"
    /\ "try_next_item" \in DriverCalls
    /\ got # "item"
    /\ ~get_next_item_called
    /\ dcall' = "try_next_item"
    /\ dpc' = "select"
    /\ first' = TRUE
    /\ selected' = None
    /\ tries' = 0
    /\ UNCHANGED <<procVars, queueVars, itemVars, flagVars, scan, avail_sequences,
                   is_relevant_entries, got, fatal>>

(***************************************************************************)
(* m_choose_next_request                                                   *)
(***************************************************************************)
BeginScan ==
    /\ dpc' = "scan"
    /\ scan' = 1
    /\ avail_sequences' = << >>
    /\ UNCHANGED <<pc, running, irrelevant>>

(* m_select_sequence and try_next_item start a choice each time            *)
(* wait_for_sequences has returned.                                        *)
StartScan ==
    /\ dpc = "select"
    /\ Settled
    /\ BeginScan
    /\ tries' = tries + 1
    /\ grant_queued_locks(arb_sequence_q, lock_list, arb_completed, FALSE)
    /\ UNCHANGED <<itemVars, flagVars, dcall, first, selected, is_relevant_entries, got, fatal>>

Scanning == dpc = "scan" /\ fatal = "none"

(* The entry's process was killed: its sequence leaves the queues and the  *)
(* loop looks at the same index again.                                     *)
ScanZombie ==
    /\ Scanning
    /\ scan <= Len(arb_sequence_q)
    /\ Zombie(arb_sequence_q[scan])
    /\ UNCHANGED pc
    /\ remove_sequence_from_queues({SeqAt(arb_sequence_q, scan)})
    /\ reg_sequences' = reg_sequences \ {SeqAt(arb_sequence_q, scan)}
    /\ UNCHANGED <<running, irrelevant, itemVars, flagVars, selectVars, got, fatal>>

(* Mutant: relevance is not asked for.                                     *)
AvailableIrrelevant(i) ==
    /\ arb_sequence_q[i].request = "REQ"
    /\ ~is_blocked(lock_list, SeqAt(arb_sequence_q, i))

Available(i) ==
    /\ arb_sequence_q[i].request = "REQ"
    /\ ~is_blocked(lock_list, SeqAt(arb_sequence_q, i))
    /\ SeqAt(arb_sequence_q, i) \notin irrelevant

(* The request at i is granted: its process will wake and send its item.   *)
(* The flags are set by the call itself, not by a later choice of its      *)
(* select_process; try_next_item sets them each time.                      *)
Grant(i) ==
    LET r == arb_sequence_q[i]
    IN  /\ UNCHANGED pc
        /\ SetQueues(RemoveAt(arb_sequence_q, i), lock_list, arb_completed \cup {Id(r)}, TRUE)
        /\ selected' = r.proc
        /\ dpc' = IF dcall = "try_next_item" THEN "try" ELSE "peek"
        /\ first' = FALSE
        /\ tries' = 0
        /\ sequence_item_requested' =
              (sequence_item_requested \/ first \/ dcall = "try_next_item")
        /\ get_next_item_called' =
              (get_next_item_called \/ dcall = "try_next_item"
                                    \/ (first /\ dcall = "get_next_item"))
        /\ scan' = 0
        /\ avail_sequences' = << >>
        /\ UNCHANGED <<running, reg_sequences, irrelevant, itemVars, dcall,
                       is_relevant_entries, got, fatal>>

(* Nothing can be granted.  After the last of the tries try_next_item      *)
(* returns null and m_select_sequence waits in                             *)
(* m_wait_for_available_sequence.                                          *)
GrantNothing ==
    LET last  == tries = m_wait_for_sequences_count
        waits == last /\ dcall # "try_next_item"
    IN  /\ dpc' = IF ~last THEN "select" ELSE IF waits THEN "wait" ELSE "idle"
        /\ is_relevant_entries' =
              {SeqAt(arb_sequence_q, i) : i \in
                  {j \in DOMAIN arb_sequence_q :
                      /\ waits
                      /\ arb_sequence_q[j].request = "REQ"
                      /\ ~is_blocked(lock_list, SeqAt(arb_sequence_q, j))
                      /\ SeqAt(arb_sequence_q, j) \in irrelevant}}
        /\ selected' = None
        /\ scan' = 0
        /\ avail_sequences' = << >>
        /\ UNCHANGED <<procVars, queueVars, itemVars, flagVars, dcall, first, tries, got, fatal>>

(* FIFO takes the first available request.                                 *)
ScanTake ==
    /\ Scanning
    /\ scan <= Len(arb_sequence_q)
    /\ ~Zombie(arb_sequence_q[scan])
    /\ Available(scan)
    /\ m_arbitration = "FIFO"
    /\ Grant(scan)

(* The other modes collect the available requests by their index.          *)
ScanNext ==
    /\ Scanning
    /\ scan <= Len(arb_sequence_q)
    /\ ~Zombie(arb_sequence_q[scan])
    /\ ~(Available(scan) /\ m_arbitration = "FIFO")
    /\ scan' = scan + 1
    /\ avail_sequences' = IF Available(scan) THEN Append(avail_sequences, scan)
                                             ELSE avail_sequences
    /\ UNCHANGED <<procVars, queueVars, itemVars, flagVars, dpc, dcall, first, tries, selected,
                   is_relevant_entries, got, fatal>>

Indices == {avail_sequences[k] : k \in DOMAIN avail_sequences}

(* Mutant: the last of the highest.                                        *)
HighestLast(I) ==
    {i \in I : \A j \in I : \/ arb_sequence_q[j].pri < arb_sequence_q[i].pri
                            \/ arb_sequence_q[j].pri = arb_sequence_q[i].pri /\ j <= i}

(* STRICT_FIFO: the first of those with the highest priority.              *)
Highest(I) ==
    {i \in I : \A j \in I : \/ arb_sequence_q[j].pri < arb_sequence_q[i].pri
                            \/ arb_sequence_q[j].pri = arb_sequence_q[i].pri /\ i <= j}

(* An index of the loop may point past the end when a zombie has left.     *)
Sound == {i \in Indices : i <= Len(arb_sequence_q)}

(* What the end of the function returns when two or more are available:    *)
(* one that a lock blocks is dropped first.                                *)
Choices ==
    LET I == {i \in Sound : ~is_blocked(lock_list, SeqAt(arb_sequence_q, i))}
    IN  IF m_arbitration = "STRICT_FIFO" THEN Highest(I) ELSE I

(* All the entries collected are looked at, not only the one returned.     *)
Compared ==
    /\ Cardinality(Indices) > 1
    /\ m_arbitration = "STRICT_FIFO" \/ \E s \in Seqs : has_lock(s)

ScanEnd ==
    /\ Scanning
    /\ scan > Len(arb_sequence_q)
    /\ \/ Indices = {} /\ GrantNothing
       \/ /\ Sound # Indices
          /\ fatal' = "null"
          /\ UNCHANGED <<procVars, queueVars, itemVars, flagVars, selectVars, got>>
       \/ /\ Sound # {}
          /\ Compared => Sound = Indices
          /\ IF Cardinality(Indices) = 1 THEN \E i \in Indices : Grant(i)
             ELSE IF Choices = {} THEN GrantNothing
             ELSE \E i \in Choices : Grant(i)

(* m_wait_for_available_sequence returns: the queues have changed, or a    *)
(* wait_for_relevant has.                                                  *)
m_wait_for_available_sequence ==
    /\ Free
    /\ dpc = "wait"
    /\ list_changed \/ is_relevant_entries \ irrelevant # {}
    /\ dpc' = "select"
    /\ list_changed' = FALSE
    /\ is_relevant_entries' = {}
    /\ tries' = 0
    /\ UNCHANGED <<procVars, arb_sequence_q, arb_completed, lock_list, woken, itemVars,
                   flagVars, dcall, first, scan, avail_sequences, selected, got, fatal>>

(***************************************************************************)
(* The item                                                                *)
(***************************************************************************)

(* Mutant: only one of the flags is reset.                                 *)
CalledReset ==
    get_next_item_called' = FALSE /\ UNCHANGED sequence_item_requested

FlagsReset == sequence_item_requested' = FALSE /\ get_next_item_called' = FALSE

(* m_req_fifo.peek leaves the item where it is.                            *)
ItemPeeked == UNCHANGED m_req_fifo

(* item_done with an item in the FIFO: its sequence is told.               *)
item_done ==
    /\ FlagsReset
    /\ m_req_fifo' = None
    /\ m_wait_for_item_sequence_id' =
          IF m_req_fifo \in Procs THEN SeqOf[m_req_fifo] ELSE None
    /\ UNCHANGED pc
    /\ grant_queued_locks(arb_sequence_q, lock_list, arb_completed, FALSE)

(* m_req_fifo.peek returns, which ends select_process; get also completes  *)
(* the item.                                                               *)
PeekItem ==
    /\ Free
    /\ dpc = "peek" \/ (~first /\ dpc \in {"select", "wait"} /\ dcall # "try_next_item")
    /\ m_req_fifo # None
    /\ dpc' = "idle"
    /\ selected' = None
    /\ is_relevant_entries' = {}
    /\ IF dcall = "get"
         THEN item_done /\ got' = "none"
         ELSE /\ got' = IF dcall = "get_next_item" \/ got = "item" THEN "item" ELSE "peeked"
              /\ ItemPeeked
              /\ UNCHANGED <<pc, reg_sequences, queueVars, m_wait_for_item_sequence_id, flagVars>>
    /\ UNCHANGED <<running, irrelevant, dcall, first, tries, scan, avail_sequences, fatal>>

(* select_process: the process that was granted is gone and has sent no    *)
(* item, so another request is chosen.                                     *)
Reselect ==
    /\ Free
    /\ dpc = "peek"
    /\ selected # None
    /\ Gone(selected)
    /\ m_req_fifo = None
    /\ arb_completed' = arb_completed \ {<<"REQ", selected>>}
    /\ dpc' = "select"
    /\ tries' = 0
    /\ UNCHANGED <<procVars, arb_sequence_q, lock_list, woken, list_changed, itemVars, flagVars,
                   dcall, first, scan, avail_sequences, selected, is_relevant_entries, got, fatal>>

(* try_next_item finds the item after wait_for_sequences.                  *)
TryFound ==
    /\ dpc = "try"
    /\ Settled
    /\ m_req_fifo # None
    /\ dpc' = "idle"
    /\ selected' = None
    /\ got' = "item"
    /\ UNCHANGED <<procVars, queueVars, itemVars, flagVars, dcall, first, tries, scan,
                   avail_sequences, is_relevant_entries, fatal>>

(* The granted process is gone: another choice, the only one.              *)
TryAgain ==
    /\ dpc = "try"
    /\ Settled
    /\ m_req_fifo = None
    /\ Gone(selected)
    /\ BeginScan
    /\ tries' = m_wait_for_sequences_count
    /\ grant_queued_locks(arb_sequence_q, lock_list, arb_completed \ {<<"REQ", selected>>}, FALSE)
    /\ UNCHANGED <<itemVars, flagVars, dcall, first, selected, is_relevant_entries, got, fatal>>

(* The granted process did not send its item in time: TRY_NEXT_BLOCKED.    *)
TryBlocked ==
    /\ dpc = "try"
    /\ Settled
    /\ m_req_fifo = None
    /\ ~Gone(selected)
    /\ dpc' = "idle"
    /\ selected' = None
    /\ UNCHANGED <<procVars, queueVars, itemVars, flagVars, dcall, first, tries, scan,
                   avail_sequences, is_relevant_entries, got, fatal>>

(* The driver reports the item it obtained as done.                        *)
ItemDone ==
    /\ Free
    /\ dpc = "idle"
    /\ got # "none"
    /\ IF m_req_fifo = None
         THEN /\ fatal' = "SQRBADITMDN"
              /\ UNCHANGED <<pc, reg_sequences, queueVars, itemVars, flagVars, got>>
         ELSE /\ item_done
              /\ got' = "none"
              /\ UNCHANGED fatal
    /\ UNCHANGED <<running, irrelevant, selectVars>>

-----------------------------------------------------------------------------------
SequenceStep ==
    \/ \E s \in Seqs : Start(s) \/ Finish(s) \/ Kill(s) \/ ChangeRelevance(s)
    \/ \E p \in Procs, pri \in Priorities : \E b \in BOOLEAN : wait_for_grant(p, pri, b)
    \/ \E p \in Procs, b \in BOOLEAN : m_lock_req(p, b)
    \/ \E p \in Procs :
          \/ DisableFork(p)
          \/ ArbitrationCompleted(p)
          \/ m_unlock_req(p)
          \/ send_request(p)
          \/ ItemDoneSeen(p)

Choose == StartScan \/ ScanZombie \/ ScanTake \/ ScanNext \/ ScanEnd

DriverStep ==
    \/ \E call \in DriverCalls : CallSelect(call)
    \/ CallTry
    \/ Choose
    \/ m_wait_for_available_sequence
    \/ PeekItem
    \/ Reselect
    \/ TryFound
    \/ TryAgain
    \/ TryBlocked
    \/ ItemDone

Next == SequenceStep \/ DriverStep \/ stop_sequences

Spec == Init /\ [][Next]_vars

(* The simulator runs every process that is ready; a process with a grant  *)
(* sends its item; the driver keeps calling and completes what it gets, as *)
(* its run_phase loop does.  Sequences need not end, ask, or unlock.       *)
Fairness ==
    /\ \A p \in Procs :
          /\ WF_vars(ArbitrationCompleted(p))
          /\ WF_vars(send_request(p))
          /\ WF_vars(ItemDoneSeen(p))
    /\ WF_vars(DriverStep)

FairSpec == Spec /\ Fairness

-----------------------------------------------------------------------------------
(***************************************************************************)
(* Safety                                                                  *)
(***************************************************************************)

Waits(p) == Awaited(pc, p) # {}

(* The step grants the request at i.                                       *)
Completes(i) == Id(arb_sequence_q[i]) \in arb_completed' \ arb_completed

(* The queued request i asks for a grant, no lock keeps it out, and its    *)
(* sequence wants it now.                                                  *)
MayBeGranted(i) ==
    /\ arb_sequence_q[i].request = "REQ"
    /\ \A h \in Seqs : lock_list[h] > 0 => SeqAt(arb_sequence_q, i) \in Family({h})
    /\ SeqAt(arb_sequence_q, i) \notin irrelevant

Queued(id) == {i \in DOMAIN arb_sequence_q : Id(arb_sequence_q[i]) = id}

(* Locks are exclusive: of two sequences that hold locks, one is above the *)
(* other, so the sequences that may pass are one branch of one tree, and   *)
(* current_grabber is its lowest holder.                                   *)
LocksNested ==
    \A s, t \in Seqs :
        lock_list[s] > 0 /\ lock_list[t] > 0 =>
            s = t \/ is_child(s, t) \/ is_child(t, s)

(* A sequence that has ended or was killed holds no lock.  A request in the*)
(* queue is of a process that waits for it, or of one that was killed alone*)
(* and keeps it until grant_queued_locks or the loop comes across it; or it*)
(* is the lock asked for with a grant, which nobody waits for.  And the    *)
(* loop of m_choose_next_request never meets a lock request of a killed    *)
(* process: grant_queued_locks has taken its sequence out.                 *)
NothingLeftBehind ==
    /\ \A s \in Seqs : lock_list[s] > 0 => s \in running
    /\ \A i \in DOMAIN arb_sequence_q :
          LET r == arb_sequence_q[i] IN
          \/ Id(r) \in Awaited(pc, r.proc)
          \/ Zombie(r)
          \/ r.request = "PRELOCK" /\ pc[r.proc] # "off"
    /\ dpc = "scan" => LockZombies(arb_sequence_q) = {}

(* A process that waits for a grant or a lock has its request in the queue *)
(* exactly once, or it is granted and the process woken: no kill, end or   *)
(* grant of another sequence takes it away ("to avoid a deadlock the       *)
(* sequence will be removed from the arbitration queues").                 *)
NoLostRequest ==
    \A p \in Procs : \A id \in Awaited(pc, p) :
        \/ Cardinality(Queued(id)) = 1 /\ id \notin arb_completed
        \/ Queued(id) = {} /\ id \in arb_completed /\ p \in woken

(* A full FIFO means "Concurrent calls to get_next_item() not supported":  *)
(* with the calls of one driver, one after the other, it never is.         *)
NoOverflow == fatal # "SQRSNDREQGNI"

(* At most one grant is out: what has been granted and not sent, and what  *)
(* lies in the FIFO, is one item, so send_request finds the FIFO empty.    *)
OneInFlight ==
    /\ Cardinality({p \in Procs : pc[p] = "granted" \/ (Waits(p) /\ <<"REQ", p>> \in arb_completed)}
                     \cup (IF m_req_fifo = None THEN {} ELSE {None})) <= 1
    /\ NoOverflow

(* The completion of an item is not lost: the process that sent it waits   *)
(* while the item is in the FIFO, and then finds its sequence named,       *)
(* although every send_request overwrites that name.                       *)
CompletionSeen ==
    \A p \in Procs : pc[p] = "wait_item" =>
        m_req_fifo = p \/ m_wait_for_item_sequence_id = SeqOf[p]

(* "The call will block until an item is available": a driver that waits   *)
(* in the peek of the FIFO waits for somebody.  A process that was granted *)
(* sends an item or will; or it is gone, and select_process chooses again. *)
(* The flag sequence_item_requested, which makes a call go to the peek at  *)
(* once, is never set while there is neither.                              *)
DriverFed ==
    dpc = "peek" /\ m_req_fifo = None /\ fatal = "none" =>
        \/ Gone(selected)
        \/ \E p \in Procs :
              pc[p] = "granted" \/ (pc[p] = "wait_req" /\ <<"REQ", p>> \in arb_completed)

(* A driver that waits has nothing to do: a request that became available  *)
(* by an unlock, a kill, a new request or a wait_for_relevant wakes it.    *)
DriverAwake ==
    dpc = "wait" /\ ~list_changed /\ is_relevant_entries \subseteq irrelevant =>
        \A i \in DOMAIN arb_sequence_q : ~MayBeGranted(i)

(* m_choose_next_request "must find the next available, unlocked, relevant *)
(* sequence": what a choice grants is a request, not a lock, of such a     *)
(* sequence, and is in the queue; and it grants nothing only where there is*)
(* no such request.  The other modes than FIFO collect the indices first;  *)
(* when the loop comes across a process that was killed alone it takes     *)
(* entries and locks out, and leaves what it has seen before as it was.    *)
GrantsAvailable ==
    [][dpc = "scan" =>
          /\ fatal' # "null"
          /\ \A i \in DOMAIN arb_sequence_q :
                /\ Completes(i) => MayBeGranted(i)
                /\ dpc' \in {"select", "wait", "idle"} => ~MayBeGranted(i)]_vars

(* STRICT_FIFO: what is granted has the highest priority of all that is    *)
(* available, and came first among those.                                  *)
StrictOrder ==
    [][\A i, j \in DOMAIN arb_sequence_q :
          dpc = "scan" /\ Completes(i) /\ MayBeGranted(j) =>
              \/ arb_sequence_q[j].pri < arb_sequence_q[i].pri
              \/ arb_sequence_q[j].pri = arb_sequence_q[i].pri /\ i <= j]_vars

(***************************************************************************)
(* Liveness                                                                *)
(***************************************************************************)

(* A request is not passed over for ever: while nothing blocks it and its  *)
(* sequence is relevant it is granted in the end (FIFO), also when granted *)
(* processes die before they send.                                         *)
Served ==
    \A p \in Procs :
        []<>(pc[p] # "wait_req" \/ is_blocked(lock_list, SeqOf[p]) \/ SeqOf[p] \in irrelevant)

(* "A grab is granted when no other grabs or locks are blocking this       *)
(* sequence", and a lock likewise.                                         *)
LockServed ==
    \A p \in Procs : []<>(pc[p] # "wait_lock" \/ is_blocked(lock_list, SeqOf[p]))

(* Every item sent is completed and its sender told.                       *)
ItemServed == \A p \in Procs : []<>(pc[p] # "wait_item")

==================================================================================
