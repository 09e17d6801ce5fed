------------------------------ MODULE SequencerDriver ----------------------------
(***************************************************************************)
(* The driver's side of Sequencer, for every sequencer: what               *)
(* m_choose_next_request grants, that a waiting driver is woken, that one  *)
(* item at a time is in flight and its completion seen, and that a driver  *)
(* waits at the FIFO only for somebody who sends.                          *)
(***************************************************************************)
EXTENDS SequencerProofs, WellFoundedInduction

(***************************************************************************)
(* What a choice looks at                                                  *)
(***************************************************************************)

(* A set of natural numbers has a least one.                               *)
LEMMA LeastNumber ==
    ASSUME NEW S \in SUBSET Nat, S # {}
    PROVE  \E n \in S : \A m \in S : n <= m
<1> DEFINE R == OpToRel(<, Nat)
<1>1. IsWellFoundedOn(R, Nat)
  BY NatLessThanWellFounded
<1>2. PICK n \in S : \A m \in S : ~(<<m, n>> \in R)
  <2> HIDE DEF R
  <2> QED
    BY <1>1, WFMin
<1>3. ASSUME NEW m \in S PROVE n <= m
  <2>1. m < n => <<m, n>> \in R
    BY DEF OpToRel
  <2> HIDE DEF R
  <2>2. ~(m < n)
    BY <1>2, <2>1
  <2> QED
    BY <2>2
<1> QED
  BY <1>3

(* Of some requests one has the highest priority and came first of those.  *)
LEMMA HighestExists ==
    ASSUME arb_sequence_q \in Seq(Requests), NEW I \in SUBSET DOMAIN arb_sequence_q, I # {}
    PROVE  Highest(I) # {}
<1> DEFINE n == Len(arb_sequence_q)
           pri(i) == arb_sequence_q[i].pri
           Better(j, i) == pri(i) < pri(j) \/ (pri(i) = pri(j) /\ j < i)
           Above(i) == {j \in I : Better(j, i)}
           N == {Cardinality(Above(i)) : i \in I}
<1>1. n \in Nat /\ I \in SUBSET (1 .. n)
  OBVIOUS
<1>2. \A i \in I : i \in Nat /\ pri(i) \in Nat
  <2>1. \A r \in Requests : r.pri \in Nat
    BY BoundsAssumption DEF Requests
  <2>2. \A i \in I : i \in Nat /\ arb_sequence_q[i] \in Requests
    BY <1>1
  <2> QED
    BY <2>1, <2>2
<1>3. \A i \in I : Above(i) \in SUBSET (1 .. n)
  BY <1>1
<1>4. \A i \in I : IsFiniteSet(Above(i)) /\ Cardinality(Above(i)) \in Nat
  <2> HIDE DEF Above
  <2> QED
    BY <1>1, <1>3, IndicesFinite
<1>5. N \in SUBSET Nat /\ N # {}
  BY <1>4
<1>6. PICK i \in I : \A j \in I : Cardinality(Above(i)) <= Cardinality(Above(j))
  <2>1. PICK c \in N : \A d \in N : c <= d
    <3> HIDE DEF N
    <3> QED
      BY <1>5, LeastNumber
  <2>2. PICK i \in I : c = Cardinality(Above(i))
    BY <2>1
  <2>3. \A j \in I : Cardinality(Above(j)) \in N
    OBVIOUS
  <2> HIDE DEF N, Above
  <2> QED
    BY <2>1, <2>2, <2>3
<1>7. ASSUME NEW j \in I, Better(j, i) PROVE FALSE
  <2>1. Above(j) \in SUBSET Above(i)
    BY <1>2, <1>7
  <2>2. j \in Above(i) /\ j \notin Above(j)
    BY <1>2, <1>7
  <2> HIDE DEF Above
  <2>3. Cardinality(Above(j)) <= Cardinality(Above(i)) /\ Cardinality(Above(j)) # Cardinality(Above(i))
    BY <1>4, <2>1, <2>2, FS_Subset
  <2> QED
    BY <1>4, <1>6, <2>3
<1>8. i \in Highest(I)
  BY <1>2, <1>7 DEF Highest
<1> QED
  BY <1>8

(* The loop has looked at the entries before scan, and collected those     *)
(* that are available; FIFO would have granted the first.                  *)
ScanOK ==
    dpc = "scan" =>
        /\ scan <= Len(arb_sequence_q) + 1
        /\ Indices = {i \in 1 .. scan - 1 : m_arbitration # "FIFO" /\ Available(i)}
        /\ m_arbitration = "FIFO" => \A i \in 1 .. scan - 1 : ~Available(i)

(* Where no process is killed alone the loop meets no zombie, so no index  *)
(* goes stale under it.                                                    *)
LEMMA NoScanZombie ==
    ASSUME SafeInv
    PROVE  ~ScanZombie
<1> SUFFICES ASSUME ScanZombie PROVE FALSE
  OBVIOUS
<1>1. scan \in DOMAIN arb_sequence_q /\ Zombie(arb_sequence_q[scan])
  BY ScanIndex DEF ScanZombie, SafeInv
<1> QED
  BY <1>1, IdType DEF SafeInv, TypeInv, QueueTypes, AttendInv, NoZombies, Zombie

(* The only steps into and within the loop.                                *)
LEMMA ScanSteps ==
    ASSUME SafeInv, [Next]_vars, dpc' = "scan"
    PROVE  \/ StartScan \/ TryAgain \/ ScanNext
           \/ UNCHANGED <<procVars, queueVars, itemVars, flagVars, selectVars, got>>
<1> USE DEF selectVars, Free
<1>1. CASE SequenceStep
  <2>1. dpc # "scan" /\ dpc' = dpc
    BY <1>1 DEF SequenceStep, Start, Finish, Kill, ChangeRelevance, wait_for_grant, m_lock_req,
                Calls, DisableFork, ArbitrationCompleted, m_unlock_req, send_request, ItemDoneSeen
  <2> QED
    BY <2>1
<1>2. CASE DriverStep
  <2>1. CASE ScanEnd
    BY <2>1, ScanEndCases DEF SafeInv, GrantNothing, Grant
  <2>2. ~ScanTake /\ ~ScanZombie
    BY NoScanZombie DEF ScanTake, Grant
  <2> QED
    BY <1>2, <2>1, <2>2 DEF DriverStep, Choose, CallSelect, CallTry,
         m_wait_for_available_sequence, PeekItem, Reselect, TryFound, TryBlocked, ItemDone
<1>3. CASE stop_sequences
  BY <1>3 DEF stop_sequences
<1>4. CASE UNCHANGED vars
  BY <1>4 DEF vars
<1> QED
  BY <1>1, <1>2, <1>3, <1>4 DEF Next

(* Every step keeps what the loop knows.                                   *)
LEMMA ScanNextKeeps ==
    ASSUME SafeInv, [Next]_vars, ScanOK
    PROVE  ScanOK'
<1> SUFFICES ASSUME dpc' = "scan"
             PROVE  /\ scan' <= Len(arb_sequence_q') + 1
                    /\ Indices' = {i \in 1 .. scan' - 1 : m_arbitration # "FIFO" /\ Available(i)'}
                    /\ m_arbitration = "FIFO" => \A i \in 1 .. scan' - 1 : ~Available(i)'
  BY DEF ScanOK
<1>1. CASE StartScan \/ TryAgain
  <2>1. scan' = 1 /\ avail_sequences' = << >>
    BY <1>1 DEF StartScan, TryAgain, BeginScan
  <2>2. Indices' = {}
    BY <2>1 DEF Indices
  <2>3. arb_sequence_q' \in Seq(Requests)
    BY TypeNext DEF SafeInv, TypeInv, QueueTypes
  <2>4. scan' <= Len(arb_sequence_q') + 1 /\ 1 .. scan' - 1 = {}
    BY <2>1, <2>3
  <2> QED
    BY <2>2, <2>4
<1>2. CASE ScanNext
  <2>1. /\ dpc = "scan" /\ scan <= Len(arb_sequence_q) /\ scan' = scan + 1
        /\ UNCHANGED <<arb_sequence_q, lock_list, irrelevant>>
        /\ ~(Available(scan) /\ m_arbitration = "FIFO")
        /\ avail_sequences' = IF Available(scan) THEN Append(avail_sequences, scan)
                                                 ELSE avail_sequences
    BY <1>2 DEF ScanNext, Scanning, procVars, queueVars
  <2>2. \A i : Available(i)' = Available(i)
    BY <2>1 DEF Available, SeqAt, is_blocked
  <2>3. scan \in Nat \ {0} /\ avail_sequences \in Seq(Nat \ {0}) /\ Len(arb_sequence_q) \in Nat
    BY <2>1 DEF SafeInv, TypeInv, ScanTypes, QueueTypes
  <2>4. Indices' = IF Available(scan) THEN Indices \cup {scan} ELSE Indices
    <3>1. CASE Available(scan)
      <4> DEFINE n == Len(avail_sequences)
                 m == Append(avail_sequences, scan)
      <4>1. /\ n \in Nat /\ DOMAIN avail_sequences = 1 .. n /\ DOMAIN m = 1 .. n + 1
            /\ m[n + 1] = scan /\ \A k \in 1 .. n : m[k] = avail_sequences[k]
        BY <2>3
      <4>2. {m[k] : k \in DOMAIN m} = Indices \cup {scan}
        <5> HIDE DEF m
        <5>1. \A k \in 1 .. n + 1 : k \in 1 .. n \/ k = n + 1
          BY <4>1
        <5>2. \A k \in 1 .. n : k \in 1 .. n + 1
          BY <4>1
        <5>3. n + 1 \in 1 .. n + 1
          BY <4>1
        <5> HIDE DEF n
        <5> QED
          BY <4>1, <5>1, <5>2, <5>3 DEF Indices
      <4> QED
        BY <2>1, <3>1, <4>2 DEF Indices
    <3>2. CASE ~Available(scan)
      BY <2>1, <3>2 DEF Indices
    <3> QED
      BY <3>1, <3>2
  <2>5. 1 .. scan' - 1 = (1 .. scan - 1) \cup {scan}
    BY <2>1, <2>3
  <2>6. scan' <= Len(arb_sequence_q') + 1
    BY <2>1, <2>3
  <2> QED
    BY <2>1, <2>2, <2>4, <2>5, <2>6 DEF ScanOK
<1>3. CASE UNCHANGED <<procVars, queueVars, itemVars, flagVars, selectVars, got>>
  <2>1. UNCHANGED <<dpc, scan, avail_sequences, arb_sequence_q, lock_list, irrelevant>>
    BY <1>3 DEF procVars, queueVars, selectVars
  <2>2. \A i : Available(i)' = Available(i)
    BY <2>1 DEF Available, SeqAt, is_blocked
  <2> QED
    BY <2>1, <2>2 DEF ScanOK, Indices
<1> QED
  BY <1>1, <1>2, <1>3, ScanSteps

(* At the end of the loop every index collected is in the queue, so no     *)
(* null is read; when nothing is granted, nothing is available.            *)
LEMMA EndOfScan ==
    ASSUME SafeInv, ScanOK, ScanEnd
    PROVE  /\ Sound = Indices
           /\ \A i \in DOMAIN arb_sequence_q : m_arbitration # "FIFO" /\ Available(i) => i \in Indices
           /\ m_arbitration = "FIFO" => \A i \in DOMAIN arb_sequence_q : ~Available(i)
           /\ \A i \in Indices : Available(i) /\ i \in DOMAIN arb_sequence_q
           /\ fatal' # "null"
<1>1. dpc = "scan" /\ fatal = "none" /\ scan > Len(arb_sequence_q)
  BY DEF ScanEnd, Scanning
<1>2. scan \in Nat /\ arb_sequence_q \in Seq(Requests)
  BY DEF SafeInv, TypeInv, ScanTypes, QueueTypes
<1>3. scan - 1 = Len(arb_sequence_q) /\ 1 .. scan - 1 = DOMAIN arb_sequence_q
  BY <1>1, <1>2 DEF ScanOK
<1>4. Indices = {i \in DOMAIN arb_sequence_q : m_arbitration # "FIFO" /\ Available(i)}
  BY <1>1, <1>3 DEF ScanOK
<1>5. Sound = Indices
  BY <1>2, <1>4 DEF Sound
<1>6. fatal' # "null"
  BY <1>1, <1>5 DEF ScanEnd, GrantNothing, Grant
<1> QED
  BY <1>1, <1>3, <1>4, <1>5, <1>6 DEF ScanOK

(* The end of the loop grants one of those collected, or nothing because   *)
(* nothing is available.                                                   *)
LEMMA NothingLeft ==
    ASSUME SafeInv, ScanOK, ScanEnd
    PROVE  \/ GrantNothing /\ \A i \in DOMAIN arb_sequence_q : ~Available(i)
           \/ \E i \in Indices : /\ Grant(i)
                                 /\ Cardinality(Indices) = 1 => Indices = {i}
                                 /\ Cardinality(Indices) # 1 => i \in Choices
<1>1. CASE Indices = {} /\ GrantNothing
  BY <1>1, EndOfScan
<1>2. CASE Indices # {} /\ Choices = {}
  <2> DEFINE I == {i \in Sound : ~is_blocked(lock_list, SeqAt(arb_sequence_q, i))}
  <2>1. I = Indices
    BY EndOfScan DEF Available
  <2>2. I \in SUBSET DOMAIN arb_sequence_q /\ I # {}
    BY <1>2, <2>1, EndOfScan
  <2>3. arb_sequence_q \in Seq(Requests)
    BY DEF SafeInv, TypeInv, QueueTypes
  <2>4. Choices = IF m_arbitration = "STRICT_FIFO" THEN Highest(I) ELSE I
    BY DEF Choices
  <2> HIDE DEF I
  <2>5. Highest(I) # {}
    BY <2>2, <2>3, HighestExists
  <2> QED
    BY <1>2, <2>2, <2>4, <2>5
<1>3. CASE Indices # {} /\ Choices # {}
  <2>1. \E i \in Indices : Grant(i)
    BY <1>3, EndOfScan DEF ScanEnd, Choices, Highest
  <2>2. Choices \subseteq Indices
    BY DEF Choices, Highest, Sound
  <2>3. IF Cardinality(Indices) = 1 THEN \E i \in Indices : Grant(i)
        ELSE \E i \in Choices : Grant(i)
    BY <1>3, EndOfScan DEF ScanEnd
  <2>4. Cardinality(Indices) = 1 => \E x : Indices = {x}
    BY IndicesType, FS_Singleton DEF SafeInv
  <2> QED
    BY <2>2, <2>3, <2>4
<1> QED
  BY <1>1, <1>2, <1>3, EndOfScan DEF ScanEnd

(* A step of the loop completes only the request that it grants.           *)
LEMMA ScanCompletes ==
    ASSUME SafeInv, NEW k \in DOMAIN arb_sequence_q, Grant(k), Available(k),
           NEW i \in DOMAIN arb_sequence_q, Completes(i)
    PROVE  i = k
<1>1. arb_completed' = arb_completed \cup {Id(arb_sequence_q[k])}
  BY DEF Grant, SetQueues
<1>2. Id(arb_sequence_q[i]) = Id(arb_sequence_q[k])
  BY <1>1 DEF Completes
<1>3. arb_sequence_q[k].request # "PRELOCK"
  BY DEF Available
<1> QED
  BY <1>2, <1>3 DEF SafeInv, QueueInv, QueueOK

(* MayBeGranted says of a request what the loop looks for.                 *)
LEMMA AvailableMay ==
    ASSUME TypeInv, NEW i \in DOMAIN arb_sequence_q
    PROVE  Available(i) <=> MayBeGranted(i)
<1>1. SeqAt(arb_sequence_q, i) \in Seqs
  BY IdType DEF TypeInv, QueueTypes, SeqAt
<1> QED
  BY <1>1 DEF Available, MayBeGranted, is_blocked, is_child, Family

(* What the loop does in a step.                                           *)
LEMMA LoopSteps ==
    ASSUME SafeInv, Next, dpc = "scan"
    PROVE  Choose /\ ~StartScan /\ ~ScanZombie
<1> USE DEF Free
<1>1. ~SequenceStep
  BY DEF SequenceStep, Start, Finish, Kill, ChangeRelevance, wait_for_grant, m_lock_req,
         Calls, DisableFork, ArbitrationCompleted, m_unlock_req, send_request, ItemDoneSeen
<1>2. ~stop_sequences
  BY DEF stop_sequences
<1>3. DriverStep => Choose
  BY DEF DriverStep, CallSelect, CallTry, m_wait_for_available_sequence, PeekItem, Reselect,
         TryFound, TryAgain, TryBlocked, ItemDone
<1> QED
  BY <1>1, <1>2, <1>3, NoScanZombie DEF Next, StartScan

(* What a step of the loop grants was available, and is the only one or a  *)
(* choice among all that are; a loop that ends without a grant leaves      *)
(* nothing that is.                                                        *)
LEMMA LoopGrants ==
    ASSUME SafeInv, ScanOK, Next, dpc = "scan"
    PROVE  /\ fatal' # "null"
           /\ \/ /\ arb_completed' = arb_completed
                 /\ dpc' # "scan" => \A i \in DOMAIN arb_sequence_q : ~Available(i)
              \/ \E k \in DOMAIN arb_sequence_q :
                    /\ Grant(k) /\ Available(k)
                    /\ m_arbitration # "FIFO" =>
                          /\ Cardinality(Indices) = 1 => Indices = {k}
                          /\ Cardinality(Indices) # 1 => k \in Choices
                          /\ Sound = Indices
                          /\ \A i \in DOMAIN arb_sequence_q : Available(i) => i \in Indices
<1>1. CASE ScanTake
  BY <1>1, ScanIndex DEF ScanTake, Scanning, Grant, SafeInv
<1>2. CASE ScanNext
  BY <1>2 DEF ScanNext, Scanning, queueVars
<1>3. CASE ScanEnd
  <2>1. CASE GrantNothing
    <3>1. arb_completed' = arb_completed
      BY <2>1 DEF GrantNothing, queueVars
    <3>2. \A i : ~Grant(i)
      BY <2>1 DEF GrantNothing, Grant
    <3>3. \A i \in DOMAIN arb_sequence_q : ~Available(i)
      BY <1>3, <3>2, NothingLeft
    <3> QED
      BY <1>3, <3>1, <3>3, EndOfScan
  <2>2. CASE \E i \in Indices : /\ Grant(i)
                                /\ Cardinality(Indices) = 1 => Indices = {i}
                                /\ Cardinality(Indices) # 1 => i \in Choices
    BY <1>3, <2>2, EndOfScan
  <2> QED
    BY <1>3, <2>1, <2>2, NothingLeft
<1> QED
  BY <1>1, <1>2, <1>3, LoopSteps DEF Choose

LEMMA GrantsAvailableStep ==
    ASSUME SafeInv, ScanOK, Next, dpc = "scan"
    PROVE  /\ fatal' # "null"
           /\ \A i \in DOMAIN arb_sequence_q :
                 /\ Completes(i) => MayBeGranted(i)
                 /\ dpc' \in {"select", "wait", "idle"} => ~MayBeGranted(i)
<1>1. ASSUME NEW i \in DOMAIN arb_sequence_q, Completes(i) PROVE MayBeGranted(i)
  BY <1>1, LoopGrants, ScanCompletes, AvailableMay DEF Completes, SafeInv
<1>2. ASSUME NEW i \in DOMAIN arb_sequence_q, dpc' \in {"select", "wait", "idle"}
      PROVE  ~MayBeGranted(i)
  <2>1. \A k : ~Grant(k)
    BY <1>2 DEF Grant
  <2>2. ~Available(i)
    BY <1>2, <2>1, LoopGrants
  <2> QED
    BY <2>2, AvailableMay DEF SafeInv
<1> QED
  BY <1>1, <1>2, LoopGrants

LEMMA StrictStep ==
    ASSUME SafeInv, ScanOK, Next, dpc = "scan", m_arbitration = "STRICT_FIFO",
           NEW i \in DOMAIN arb_sequence_q, NEW j \in DOMAIN arb_sequence_q,
           Completes(i), MayBeGranted(j)
    PROVE  \/ arb_sequence_q[j].pri < arb_sequence_q[i].pri
           \/ arb_sequence_q[j].pri = arb_sequence_q[i].pri /\ i <= j
<1>1. /\ Grant(i) /\ Available(i)
      /\ Cardinality(Indices) = 1 => Indices = {i}
      /\ Cardinality(Indices) # 1 => i \in Choices
      /\ Sound = Indices
      /\ j \in Indices
  BY LoopGrants, ScanCompletes, AvailableMay DEF Completes, SafeInv
<1>2. i \in Nat
  BY DEF SafeInv, TypeInv, QueueTypes
<1>3. CASE Cardinality(Indices) = 1
  BY <1>1, <1>2, <1>3
<1>4. CASE Cardinality(Indices) # 1
  <2>1. j \in {k \in Sound : ~is_blocked(lock_list, SeqAt(arb_sequence_q, k))}
    BY <1>1, AvailableMay DEF Available, SafeInv
  <2> QED
    BY <1>1, <1>4, <2>1 DEF Choices, Highest
<1> QED
  BY <1>3, <1>4

LEMMA ScanInit == Init => ScanOK
  BY DEF Init, ScanOK

(* m_choose_next_request grants only requests that no lock blocks, of      *)
(* relevant sequences, grants none only where there are no such requests,  *)
(* and never reads past the queue.  A process killed alone makes it false: *)
(* the loop that removes its sequence leaves the indices it has collected  *)
(* as they are, and does not look again at what a lock of that sequence    *)
(* has kept out.                                                           *)
THEOREM OnlyAvailableGranted ==
    ASSUME "disable_fork" \notin Env
    PROVE  Spec => GrantsAvailable
<1>1. SafeInv /\ ScanOK /\ [Next]_vars => (SafeInv /\ ScanOK)'
  BY SafeNext, ScanNextKeeps
<1>2. SafeInv /\ ScanOK /\ [Next]_vars =>
         [dpc = "scan" =>
            /\ fatal' # "null"
            /\ \A i \in DOMAIN arb_sequence_q :
                  /\ Completes(i) => MayBeGranted(i)
                  /\ dpc' \in {"select", "wait", "idle"} => ~MayBeGranted(i)]_vars
  BY GrantsAvailableStep
<1>3. Init => SafeInv /\ ScanOK
  BY SafeInit, ScanInit
<1> QED
  BY <1>1, <1>2, <1>3, PTL DEF Spec, GrantsAvailable

(* STRICT_FIFO grants the first of the available requests with the highest *)
(* priority, for any number of requests and any priorities.                *)
THEOREM StrictlyOrdered ==
    ASSUME "disable_fork" \notin Env, m_arbitration = "STRICT_FIFO"
    PROVE  Spec => StrictOrder
<1>1. SafeInv /\ ScanOK /\ [Next]_vars => (SafeInv /\ ScanOK)'
  BY SafeNext, ScanNextKeeps
<1>2. SafeInv /\ ScanOK /\ [Next]_vars =>
         [\A i, j \in DOMAIN arb_sequence_q :
            dpc = "scan" /\ Completes(i) /\ MayBeGranted(j) =>
              \/ arb_sequence_q[j].pri < arb_sequence_q[i].pri
              \/ arb_sequence_q[j].pri = arb_sequence_q[i].pri /\ i <= j]_vars
  BY StrictStep
<1>3. Init => SafeInv /\ ScanOK
  BY SafeInit, ScanInit
<1> QED
  BY <1>1, <1>2, <1>3, PTL DEF Spec, StrictOrder

(***************************************************************************)
(* A driver that waits is woken                                            *)
(***************************************************************************)

(* The sequences that no lock keeps out are waited for.                    *)
Covers(q, l, R) ==
    \A i \in DOMAIN q :
        q[i].request = "REQ" /\ ~is_blocked(l, SeqAt(q, i)) => SeqAt(q, i) \in R

AwakeInv ==
    dpc = "wait" /\ ~list_changed => Covers(arb_sequence_q, lock_list, is_relevant_entries)

CoversNow ==
    ~list_changed' => Covers(arb_sequence_q', lock_list', is_relevant_entries)

(* A change of the queues wakes the driver.                                *)
LEMMA SetQueuesAwake ==
    ASSUME dpc = "wait", NEW q, NEW l, NEW c, NEW ch, SetQueues(q, l, c, ch),
           ~list_changed /\ ~ch => Covers(q, l, is_relevant_entries)
    PROVE  CoversNow
  BY DEF SetQueues, CoversNow

(* grant_queued_locks wakes the driver if it changes anything.             *)
LEMMA GrantQueuedAwake ==
    ASSUME dpc = "wait", NEW q \in Seq(Requests), NEW l \in Locks, NEW c, NEW ch,
           grant_queued_locks(q, l, c, ch),
           ~list_changed /\ ~ch => Covers(q, l, is_relevant_entries)
    PROVE  CoversNow
<1> DEFINE Z == LockZombies(q)
           m == WithoutRequests(q, Z)
           k == WithoutLocks(l, Z)
           h == ch \/ Z # {}
<1>1. GrantLock(m, k, c, h)
  BY DEF grant_queued_locks
<1>2. Z = {} => m = q /\ k = l
  BY WithoutNobody DEF WithoutLocks, Family, Locks
<1>3. ~list_changed /\ ~h => Covers(m, k, is_relevant_entries)
  BY <1>2
<1> HIDE DEF m, k, h
<1>4. CASE SetQueues(m, k, c, h)
  BY <1>3, <1>4, SetQueuesAwake
<1>5. ASSUME NEW i, SetQueues(RemoveAt(m, i), [k EXCEPT ![SeqAt(m, i)] = @ + 1],
                              c \cup {Id(m[i])}, TRUE)
      PROVE  CoversNow
  BY <1>5, SetQueuesAwake
<1> QED
  BY <1>1, <1>4, <1>5 DEF GrantLock

(* remove_sequence_from_queues does too.                                   *)
LEMMA RemoveAwake ==
    ASSUME dpc = "wait", AwakeInv, NEW S, remove_sequence_from_queues(S)
    PROVE  CoversNow
<1> DEFINE m == WithoutRequests(arb_sequence_q, S)
           l == WithoutLocks(lock_list, S)
<1>1. SetQueues(m, l, arb_completed, m # arb_sequence_q \/ l # lock_list)
  BY DEF remove_sequence_from_queues
<1> HIDE DEF m, l
<1>2. ~list_changed /\ ~(m # arb_sequence_q \/ l # lock_list) => Covers(m, l, is_relevant_entries)
  BY DEF AwakeInv
<1> QED
  BY <1>1, <1>2, SetQueuesAwake

LEMMA CoversSame ==
    ASSUME dpc = "wait", AwakeInv, UNCHANGED <<arb_sequence_q, lock_list, list_changed>>
    PROVE  CoversNow
  BY DEF AwakeInv, CoversNow

(* A lock request wakes nobody and need not.                               *)
LEMMA LockAwake ==
    ASSUME SafeInv, AwakeInv, dpc = "wait", NEW p \in Procs, NEW b \in BOOLEAN, m_lock_req(p, b)
    PROVE  CoversNow
<1> DEFINE q == arb_sequence_q
           r == Request("LOCK", p, AnyPriority)
           m == Append(q, r)
<1>1. q \in Seq(Requests) /\ r \in Requests /\ r.request = "LOCK" /\ lock_list \in Locks
  BY RequestType, AnyPriorityType DEF SafeInv, TypeInv, QueueTypes, LocksInv, Request
<1> HIDE DEF r
<1>2. m \in Seq(Requests) /\ <<r>> \o q \in Seq(Requests)
  BY <1>1
<1>3. \A i \in DOMAIN m : (i \in DOMAIN q /\ m[i] = q[i]) \/ m[i] = r
  BY <1>1
<1> HIDE DEF m
<1>4. ~list_changed => Covers(m, lock_list, is_relevant_entries)
  BY <1>1, <1>3 DEF AwakeInv, Covers, SeqAt
<1>5. \/ grant_queued_locks(m, lock_list, arb_completed, FALSE)
      \/ grant_queued_locks(<<r>> \o q, lock_list, arb_completed, TRUE)
  BY DEF m_lock_req, m, r
<1> QED
  BY <1>1, <1>2, <1>4, <1>5, GrantQueuedAwake

(* No action of a sequence leaves the driver asleep.                       *)
LEMMA AwakeSequence ==
    ASSUME SafeInv, AwakeInv, dpc = "wait", SequenceStep
    PROVE  CoversNow
<1> USE DEF queueVars
<1>0. /\ arb_sequence_q \in Seq(Requests) /\ lock_list \in Locks
      /\ ~list_changed => Covers(arb_sequence_q, lock_list, is_relevant_entries)
  BY DEF SafeInv, TypeInv, QueueTypes, LocksInv, AwakeInv
<1>1. ASSUME NEW s \in Seqs, Start(s) PROVE CoversNow
  BY <1>1, CoversSame DEF Start
<1>2. ASSUME NEW s \in Seqs, Finish(s) \/ Kill(s) PROVE CoversNow
  BY <1>2, RemoveAwake DEF Finish, Kill, End
<1>3. ASSUME NEW s \in Seqs, ChangeRelevance(s) PROVE CoversNow
  BY <1>3, CoversSame DEF ChangeRelevance
<1>4. ASSUME NEW p \in Procs, NEW pri \in Priorities, NEW b \in BOOLEAN, wait_for_grant(p, pri, b)
      PROVE  CoversNow
  BY <1>4, SetQueuesAwake DEF wait_for_grant
<1>5. ASSUME NEW p \in Procs, DisableFork(p) \/ ArbitrationCompleted(p) \/ ItemDoneSeen(p)
      PROVE  CoversNow
  BY <1>5, CoversSame DEF DisableFork, ArbitrationCompleted, ItemDoneSeen
<1>6. ASSUME NEW p \in Procs, m_unlock_req(p) PROVE CoversNow
  <2> DEFINE m == [lock_list EXCEPT ![SeqOf[p]] = @ - 1]
  <2>1. lock_list \in [Seqs -> Nat] /\ SeqOf[p] \in Seqs /\ lock_list[SeqOf[p]] > 0
    BY <1>0, <1>6, SeqsAssumption DEF Locks, m_unlock_req, has_lock
  <2>2. m \in [Seqs -> Nat] /\ Fewer(m, lock_list)
    BY <2>1 DEF Fewer
  <2>3. m \in Locks
    BY <1>0, <2>2, FewerNested
  <2>4. grant_queued_locks(arb_sequence_q, m, arb_completed, TRUE)
    BY <1>6 DEF m_unlock_req
  <2> HIDE DEF m
  <2> QED
    BY <1>0, <2>3, <2>4, GrantQueuedAwake
<1>7. ASSUME NEW p \in Procs, send_request(p) PROVE CoversNow
  BY <1>0, <1>7, CoversSame, GrantQueuedAwake DEF send_request
<1> QED
  BY <1>1, <1>2, <1>3, <1>4, <1>5, <1>6, <1>7, LockAwake DEF SequenceStep

(* The driver begins to wait when nothing is available.                    *)
LEMMA WaitBegins ==
    ASSUME SafeInv, ScanOK, ScanEnd, dpc' = "wait"
    PROVE  AwakeInv'
<1>1. dpc = "scan"
  BY DEF ScanEnd, Scanning
<1>2. GrantNothing /\ \A i \in DOMAIN arb_sequence_q : ~Available(i)
  <2>1. ~UNCHANGED dpc /\ \A i : ~Grant(i)
    BY <1>1 DEF Grant
  <2> QED
    BY <2>1, NothingLeft
<1>3. tries = m_wait_for_sequences_count /\ dcall # "try_next_item"
  BY <1>2 DEF GrantNothing
<1>4. /\ UNCHANGED <<arb_sequence_q, lock_list>>
      /\ is_relevant_entries' =
              {SeqAt(arb_sequence_q, i) : i \in
                  {j \in DOMAIN arb_sequence_q :
                      /\ arb_sequence_q[j].request = "REQ"
                      /\ ~is_blocked(lock_list, SeqAt(arb_sequence_q, j))
                      /\ SeqAt(arb_sequence_q, j) \in irrelevant}}
  BY <1>2, <1>3 DEF GrantNothing, queueVars
<1>5. Covers(arb_sequence_q, lock_list, is_relevant_entries')
  BY <1>2, <1>4 DEF Covers, Available
<1> QED
  BY <1>4, <1>5 DEF AwakeInv

(* No step does.                                                           *)
LEMMA AwakeNext ==
    ASSUME SafeInv, ScanOK, AwakeInv, [Next]_vars
    PROVE  AwakeInv'
<1> SUFFICES ASSUME dpc' = "wait" PROVE AwakeInv'
  BY DEF AwakeInv
<1>1. CASE SequenceStep
  <2>1. dpc = "wait" /\ is_relevant_entries' = is_relevant_entries
    BY <1>1 DEF SequenceStep, Start, Finish, Kill, ChangeRelevance, wait_for_grant, m_lock_req,
                DisableFork, ArbitrationCompleted, m_unlock_req, send_request, ItemDoneSeen,
                selectVars
  <2> QED
    BY <1>1, <2>1, AwakeSequence DEF AwakeInv, CoversNow
<1>2. CASE DriverStep
  <2>1. ScanEnd
    BY <1>2 DEF DriverStep, Choose, StartScan, ScanZombie, ScanTake, ScanNext, BeginScan, Grant,
                CallSelect, CallTry, m_wait_for_available_sequence, PeekItem, Reselect,
                TryFound, TryAgain, TryBlocked, ItemDone, Scanning, selectVars
  <2> QED
    BY <2>1, WaitBegins
<1>3. CASE stop_sequences
  BY <1>3, RemoveAwake DEF stop_sequences, End, selectVars, AwakeInv, CoversNow
<1>4. CASE UNCHANGED vars
  BY <1>4 DEF vars, queueVars, selectVars, AwakeInv
<1> QED
  BY <1>1, <1>2, <1>3, <1>4 DEF Next

(* A driver in m_wait_for_available_sequence whose queues have not         *)
(* changed, and whose irrelevant sequences have not become relevant,       *)
(* misses nothing: no request may be granted.                              *)
THEOREM DriverWakes ==
    ASSUME "disable_fork" \notin Env
    PROVE  Spec => []DriverAwake
<1>1. SafeInv /\ ScanOK /\ AwakeInv /\ [Next]_vars => (SafeInv /\ ScanOK /\ AwakeInv)'
  BY SafeNext, ScanNextKeeps, AwakeNext
<1>2. Init => SafeInv /\ ScanOK /\ AwakeInv
  BY SafeInit, ScanInit DEF Init, AwakeInv
<1>3. AwakeInv => DriverAwake
  BY DEF AwakeInv, Covers, DriverAwake, MayBeGranted, is_blocked, is_child, Family
<1> QED
  BY <1>1, <1>2, <1>3, PTL DEF Spec

(***************************************************************************)
(* One item at a time                                                      *)
(***************************************************************************)

(* Who has a grant out, under the completed requests c and the places at.  *)
Out(c, at) ==
    {p \in Procs : at[p] = "granted" \/ (at[p] = "wait_req" /\ <<"REQ", p>> \in c)}

(* Who waits for an item that is no longer in the FIFO f.                  *)
Unseen(f, at) == {p \in Procs : at[p] = "wait_item" /\ f # p}

(* What a driver that is granted one request at a time keeps to: one grant *)
(* or item is out, none when it looks for the next, ...                    *)
FlightInv ==
    /\ \A p, r \in Out(arb_completed, pc) : p = r
    /\ m_req_fifo # None => Out(arb_completed, pc) = {}
    /\ dpc \in {"select", "scan", "wait"} => Out(arb_completed, pc) = {} /\ m_req_fifo = None
    /\ dpc = "idle" /\ ~sequence_item_requested => Out(arb_completed, pc) = {} /\ m_req_fifo = None
    /\ dpc \in {"peek", "try"} /\ selected # None => Out(arb_completed, pc) \subseteq {selected}

(* ... the flag is set when one is, ...                                    *)
RequestedInv ==
    /\ dpc \in {"peek", "try"} => sequence_item_requested
    /\ ~first /\ dpc \in {"select", "scan", "wait"} => sequence_item_requested
    /\ "try_next_item" \in DriverCalls /\ sequence_item_requested /\ ~get_next_item_called =>
          dcall = "get" /\ dpc # "idle"
    /\ dpc = "try" => dcall = "try_next_item" /\ selected # None
    /\ dcall \in DriverCalls \cup {"get_next_item"}

(* ... and whose item is done can see it until the next choice.            *)
SeenInv ==
    /\ Unseen(m_req_fifo, pc) # {} =>
          Out(arb_completed, pc) = {} /\ m_req_fifo = None /\ dpc # "scan"
    /\ \A p \in Unseen(m_req_fifo, pc) : m_wait_for_item_sequence_id = SeqOf[p]
    /\ fatal # "SQRSNDREQGNI"

ItemInv == FlightInv /\ RequestedInv /\ SeenInv

BaseInv == TypeInv /\ QueueInv

(* Locks granted are no requests granted.                                  *)
LEMMA GrantQueuedOut ==
    ASSUME NEW q, NEW l, NEW c, NEW ch, grant_queued_locks(q, l, c, ch), NEW at
    PROVE  Out(arb_completed', at) = Out(c, at)
<1> DEFINE Z == LockZombies(q)
           m == WithoutRequests(q, Z)
           k == WithoutLocks(l, Z)
<1>1. GrantLock(m, k, c, ch \/ Z # {})
  BY DEF grant_queued_locks
<1> HIDE DEF m, k
<1>2. \A p : <<"REQ", p>> \in arb_completed' <=> <<"REQ", p>> \in c
  <2>1. CASE arb_completed' = c
    BY <2>1
  <2>2. ASSUME NEW i \in FirstOf(Grantable(m, k)), arb_completed' = c \cup {Id(m[i])}
        PROVE  \A p : <<"REQ", p>> \in arb_completed' <=> <<"REQ", p>> \in c
    <3>1. m[i].request # "REQ"
      BY DEF FirstOf, Grantable
    <3>2. \A p : <<"REQ", p>> # Id(m[i])
      BY <3>1 DEF Id
    <3> QED
      BY <2>2, <3>2
  <2> QED
    BY <1>1, <2>1, <2>2 DEF GrantLock, SetQueues
<1> QED
  BY <1>2 DEF Out

(* Steps after which less is out, and the driver is where it was.          *)
LEMMA ItemLess ==
    ASSUME ItemInv,
           Out(arb_completed', pc') \subseteq Out(arb_completed, pc),
           Unseen(m_req_fifo', pc') \subseteq Unseen(m_req_fifo, pc),
           UNCHANGED <<m_req_fifo, m_wait_for_item_sequence_id, flagVars, dpc, dcall, first,
                       selected>>,
           fatal' # "SQRSNDREQGNI"
    PROVE  ItemInv'
<1>1. FlightInv'
  BY DEF ItemInv, FlightInv, flagVars
<1>2. RequestedInv'
  BY DEF ItemInv, RequestedInv, flagVars
<1>3. SeenInv'
  BY DEF ItemInv, SeenInv
<1> QED
  BY <1>1, <1>2, <1>3 DEF ItemInv

(* A sequence that starts anew: the item of its earlier run is an          *)
(* orphan's.                                                               *)
LEMMA Item_Start ==
    ASSUME BaseInv, ItemInv, NEW s \in Seqs, Start(s)
    PROVE  ItemInv'
<1> USE DEF BaseInv
<1>1. /\ pc' = [p \in Procs |-> IF SeqOf[p] = s THEN "idle" ELSE pc[p]]
      /\ arb_completed' = {id \in arb_completed : SeqOf[id[2]] # s}
      /\ selected' = IF selected \in ProcsOf({s}) THEN Orphan ELSE selected
      /\ m_req_fifo' = IF m_req_fifo \in ProcsOf({s}) THEN Orphan ELSE m_req_fifo
      /\ m_wait_for_item_sequence_id' =
            IF m_wait_for_item_sequence_id = s THEN None ELSE m_wait_for_item_sequence_id
      /\ UNCHANGED <<sequence_item_requested, get_next_item_called, dpc, dcall, first, fatal>>
  BY DEF Start, flagVars
<1>2. \A p \in Procs : SeqOf[p] = s => pc[p] = "off"
  BY DEF QueueInv, Alive, Start
<1>3. Out(arb_completed', pc') \subseteq Out(arb_completed, pc)
  BY <1>1 DEF Out
<1>4. Unseen(m_req_fifo', pc') \subseteq Unseen(m_req_fifo, pc)
  BY <1>1 DEF Unseen, ProcsOf
<1>5. m_req_fifo' = None => m_req_fifo = None
  BY <1>1, SeqsAssumption
<1>6. m_req_fifo = None => m_req_fifo' = None
  BY <1>1, SeqsAssumption DEF ProcsOf
<1>7. selected \in ProcsOf({s}) => selected \notin Out(arb_completed, pc)
  BY <1>2 DEF Out, ProcsOf
<1>8. FlightInv'
  <2>1. dpc \in {"peek", "try"} /\ selected' # None => Out(arb_completed', pc') \subseteq {selected'}
    <3>1. CASE selected \in ProcsOf({s})
      <4>1. selected # None
        BY <3>1, SeqsAssumption DEF ProcsOf
      <4> QED
        BY <1>3, <1>7, <3>1, <4>1 DEF ItemInv, FlightInv
    <3>2. CASE selected \notin ProcsOf({s})
      BY <1>1, <1>3, <3>2 DEF ItemInv, FlightInv
    <3> QED
      BY <3>1, <3>2
  <2> QED
    BY <1>1, <1>3, <1>5, <1>6, <2>1 DEF ItemInv, FlightInv
<1>9. RequestedInv'
  BY <1>1, SeqsAssumption DEF ItemInv, RequestedInv
<1>10. SeenInv'
  <2>1. ASSUME NEW p \in Unseen(m_req_fifo', pc') PROVE m_wait_for_item_sequence_id' = SeqOf[p]
    <3>1. p \in Unseen(m_req_fifo, pc) /\ p \in Procs /\ pc[p] = "wait_item"
      BY <1>4 DEF Unseen
    <3>2. SeqOf[p] # s
      BY <1>2, <3>1
    <3> QED
      BY <1>1, <3>1, <3>2 DEF ItemInv, SeenInv
  <2> QED
    BY <1>1, <1>3, <1>4, <1>6, <2>1 DEF ItemInv, SeenInv
<1> QED
  BY <1>8, <1>9, <1>10 DEF ItemInv

(* The end of sequences.                                                   *)
LEMMA EndItem ==
    ASSUME BaseInv, ItemInv, NEW S, End(S), UNCHANGED <<itemVars, flagVars, selectVars, fatal>>
    PROVE  ItemInv'
<1>1. pc' = [p \in Procs |-> IF SeqOf[p] \in S THEN "off" ELSE pc[p]] /\ arb_completed' = arb_completed
  BY DEF End, remove_sequence_from_queues, SetQueues
<1>2. Out(arb_completed', pc') \subseteq Out(arb_completed, pc)
  BY <1>1 DEF Out
<1>3. Unseen(m_req_fifo', pc') \subseteq Unseen(m_req_fifo, pc)
  BY <1>1 DEF Unseen, itemVars
<1> QED
  BY <1>2, <1>3, ItemLess DEF itemVars, selectVars, ItemInv, SeenInv

(* A process moves, and has no grant out and no item to wait for unless it *)
(* had before.                                                             *)
LEMMA MoveItem ==
    ASSUME BaseInv, ItemInv, NEW p \in Procs, NEW to, pc' = [pc EXCEPT ![p] = to],
           to \in {"dead", "idle", "wait_req", "wait_lock", "granted"},
           to = "granted" => p \in Out(arb_completed, pc),
           to = "wait_req" => <<"REQ", p>> \notin arb_completed',
           \A r : <<"REQ", r>> \in arb_completed' => <<"REQ", r>> \in arb_completed,
           UNCHANGED <<itemVars, flagVars, selectVars, fatal>>
    PROVE  ItemInv'
<1>1. pc'[p] = to /\ \A r \in Procs : r # p => pc'[r] = pc[r]
  BY DEF BaseInv, TypeInv, ProcTypes
<1>2. Out(arb_completed', pc') \subseteq Out(arb_completed, pc)
  <2>1. ASSUME NEW r \in Out(arb_completed', pc') PROVE r \in Out(arb_completed, pc)
    <3>1. CASE r = p
      BY <1>1, <3>1 DEF Out
    <3>2. CASE r # p
      BY <1>1, <3>2 DEF Out
    <3> QED
      BY <3>1, <3>2
  <2> QED
    BY <2>1
<1>3. Unseen(m_req_fifo', pc') \subseteq Unseen(m_req_fifo, pc)
  BY <1>1 DEF Unseen, itemVars
<1> QED
  BY <1>2, <1>3, ItemLess DEF itemVars, selectVars, ItemInv, SeenInv

(* The process with the grant sends its item, and finds the FIFO empty.    *)
LEMMA Item_send_request ==
    ASSUME BaseInv, ItemInv, NEW p \in Procs, send_request(p)
    PROVE  ItemInv'
<1>1. p \in Out(arb_completed, pc)
  BY DEF send_request, Out
<1>2. m_req_fifo = None
  BY <1>1 DEF ItemInv, FlightInv
<1>3. /\ m_req_fifo' = p /\ pc' = [pc EXCEPT ![p] = "wait_item"]
      /\ grant_queued_locks(arb_sequence_q, lock_list, arb_completed, FALSE)
      /\ UNCHANGED <<flagVars, selectVars, fatal>>
  BY <1>2 DEF send_request
<1>4. pc'[p] = "wait_item" /\ \A r \in Procs : r # p => pc'[r] = pc[r]
  BY <1>3 DEF BaseInv, TypeInv, ProcTypes
<1>5. Out(arb_completed', pc') = {}
  <2>1. Out(arb_completed', pc') = Out(arb_completed, pc')
    BY <1>3, GrantQueuedOut
  <2>2. ASSUME NEW r \in Out(arb_completed, pc') PROVE FALSE
    <3>1. r # p /\ r \in Out(arb_completed, pc)
      BY <1>4 DEF Out
    <3> QED
      BY <1>1, <3>1 DEF ItemInv, FlightInv
  <2> QED
    BY <2>1, <2>2
<1>6. Unseen(m_req_fifo', pc') = {}
  <2>1. Unseen(m_req_fifo, pc) = {}
    BY <1>1 DEF ItemInv, SeenInv
  <2>2. ASSUME NEW r \in Unseen(m_req_fifo', pc') PROVE FALSE
    <3>1. r # p /\ r \in Procs /\ pc[r] = "wait_item"
      BY <1>3, <1>4 DEF Unseen
    <3>2. r # None
      BY <3>1, SeqsAssumption
    <3> QED
      BY <1>2, <2>1, <3>1, <3>2 DEF Unseen
  <2> QED
    BY <2>2
<1>7. dpc \notin {"select", "scan", "wait"} /\ (dpc = "idle" => sequence_item_requested)
  BY <1>1 DEF ItemInv, FlightInv
<1>8. UNCHANGED <<sequence_item_requested, get_next_item_called, dpc, dcall, first, selected>>
  BY <1>3 DEF flagVars, selectVars
<1>9. FlightInv'
  BY <1>5, <1>7, <1>8 DEF FlightInv
<1>10. RequestedInv'
  BY <1>8 DEF ItemInv, RequestedInv
<1>11. SeenInv'
  BY <1>3, <1>6 DEF ItemInv, SeenInv
<1> QED
  BY <1>9, <1>10, <1>11 DEF ItemInv

(* The actions of sequences keep one item in flight.                       *)
LEMMA ItemSequence ==
    ASSUME BaseInv, ItemInv, SequenceStep
    PROVE  ItemInv'
<1>0. QueueInv
  BY DEF BaseInv
<1>1. ASSUME NEW s \in Seqs, Finish(s) \/ Kill(s) PROVE ItemInv'
  BY <1>1, EndItem DEF Finish, Kill
<1>2. ASSUME NEW s \in Seqs, ChangeRelevance(s) PROVE ItemInv'
  BY <1>2, ItemLess DEF ChangeRelevance, itemVars, queueVars, selectVars, ItemInv, SeenInv
<1>3. ASSUME NEW p \in Procs, NEW pri \in Priorities, NEW b \in BOOLEAN, wait_for_grant(p, pri, b)
      PROVE  ItemInv'
  <2>1. arb_completed' = arb_completed /\ pc[p] = "idle" /\ pc' = [pc EXCEPT ![p] = "wait_req"]
    BY <1>3 DEF wait_for_grant, Calls, SetQueues
  <2>2. <<"REQ", p>> \notin arb_completed
    BY <1>0, <2>1, NotAsking
  <2> QED
    BY <1>3, <2>1, <2>2, MoveItem DEF wait_for_grant
<1>4. ASSUME NEW p \in Procs, NEW b \in BOOLEAN, m_lock_req(p, b) PROVE ItemInv'
  <2>1. pc' = [pc EXCEPT ![p] = "wait_lock"]
    BY <1>4 DEF m_lock_req, Calls
  <2>2. \A at : Out(arb_completed', at) = Out(arb_completed, at)
    BY <1>4, GrantQueuedOut DEF m_lock_req
  <2>3. Out(arb_completed', pc') \subseteq Out(arb_completed, pc)
    <3>1. pc'[p] = "wait_lock" /\ \A r \in Procs : r # p => pc'[r] = pc[r]
      BY <2>1 DEF BaseInv, TypeInv, ProcTypes
    <3>2. Out(arb_completed, pc') \subseteq Out(arb_completed, pc)
      BY <3>1 DEF Out
    <3> QED
      BY <2>2, <3>2
  <2>4. Unseen(m_req_fifo', pc') \subseteq Unseen(m_req_fifo, pc)
    BY <1>4, <2>1 DEF m_lock_req, itemVars, Unseen, BaseInv, TypeInv, ProcTypes
  <2> QED
    BY <1>4, <2>3, <2>4, ItemLess DEF m_lock_req, itemVars, selectVars, ItemInv, SeenInv
<1>5. ASSUME NEW p \in Procs, DisableFork(p) PROVE ItemInv'
  BY <1>5, MoveItem DEF DisableFork
<1>6. ASSUME NEW p \in Procs, ArbitrationCompleted(p) PROVE ItemInv'
  <2> DEFINE to == IF pc[p] = "wait_req" THEN "granted" ELSE "idle"
  <2>1. pc' = [pc EXCEPT ![p] = to] /\ p \in woken /\ arb_completed' \subseteq arb_completed
    BY <1>6 DEF ArbitrationCompleted
  <2>2. pc[p] = "wait_req" => p \in Out(arb_completed, pc)
    BY <1>0, <2>1 DEF QueueInv, WokenOK, Awaited, Out
  <2> QED
    BY <1>6, <2>1, <2>2, MoveItem DEF ArbitrationCompleted
<1>7. ASSUME NEW p \in Procs, m_unlock_req(p) PROVE ItemInv'
  <2>1. pc' = pc /\ \A at : Out(arb_completed', at) = Out(arb_completed, at)
    BY <1>7, GrantQueuedOut DEF m_unlock_req
  <2>2. UNCHANGED <<itemVars, flagVars, selectVars, fatal>>
    BY <1>7 DEF m_unlock_req
  <2> QED
    BY <2>1, <2>2, ItemLess DEF itemVars, selectVars, ItemInv, SeenInv
<1>8. ASSUME NEW p \in Procs, ItemDoneSeen(p) PROVE ItemInv'
  BY <1>8, MoveItem DEF ItemDoneSeen, queueVars
<1> QED
  BY <1>1, <1>2, <1>3, <1>4, <1>5, <1>6, <1>7, <1>8, Item_Start, Item_send_request
     DEF SequenceStep

(* A driver of one kind: an item that was peeked at is not tried for.      *)
TriesNoPeek == ~("try_next_item" \in DriverCalls /\ "peek" \in DriverCalls)

(* Before a choice nothing is unseen.                                      *)
LEMMA SettledSeen ==
    ASSUME ItemInv, Settled
    PROVE  Unseen(m_req_fifo, pc) = {}
  BY DEF ItemInv, SeenInv, Settled, ItemDoneFor, Unseen

(* When the process that was granted is gone, nothing is out.              *)
LEMMA GoneOut ==
    ASSUME ItemInv, dpc \in {"peek", "try"}, selected # None, Gone(selected)
    PROVE  Out(arb_completed, pc) = {}
<1>1. Out(arb_completed, pc) \subseteq {selected}
  BY DEF ItemInv, FlightInv
<1>2. selected \notin Out(arb_completed, pc)
  BY SeqsAssumption DEF Gone, Out
<1> QED
  BY <1>1, <1>2

(* An item is completed: nothing is out, and its sender is named.          *)
LEMMA ItemCompleted ==
    ASSUME BaseInv, ItemInv, item_done, m_req_fifo # None, dpc' = "idle",
           UNCHANGED <<dcall, first, fatal>>
    PROVE  ItemInv'
<1>1. /\ sequence_item_requested' = FALSE /\ get_next_item_called' = FALSE /\ m_req_fifo' = None
      /\ m_wait_for_item_sequence_id' = IF m_req_fifo \in Procs THEN SeqOf[m_req_fifo] ELSE None
      /\ pc' = pc /\ grant_queued_locks(arb_sequence_q, lock_list, arb_completed, FALSE)
  BY DEF item_done, FlagsReset
<1>2. Out(arb_completed', pc') = {}
  BY <1>1, GrantQueuedOut DEF ItemInv, FlightInv
<1>3. ASSUME NEW p \in Unseen(m_req_fifo', pc') PROVE m_wait_for_item_sequence_id' = SeqOf[p]
  <2>1. p \in Procs /\ pc[p] = "wait_item" /\ p \notin Unseen(m_req_fifo, pc)
    BY <1>1, <1>3 DEF ItemInv, SeenInv, Unseen
  <2> QED
    BY <1>1, <2>1 DEF Unseen
<1>4. FlightInv'
  BY <1>1, <1>2 DEF FlightInv
<1>5. RequestedInv'
  BY <1>1 DEF ItemInv, RequestedInv
<1>6. SeenInv'
  BY <1>1, <1>2, <1>3 DEF ItemInv, SeenInv
<1> QED
  BY <1>4, <1>5, <1>6 DEF ItemInv

(* The driver's calls, grants and answers do too.                          *)
LEMMA Item_CallSelect ==
    ASSUME ItemInv, NEW call \in DriverCalls, CallSelect(call)
    PROVE  ItemInv'
<1>1. /\ dpc = "idle" /\ call # "try_next_item" /\ dcall' = call /\ selected' = None
      /\ UNCHANGED <<pc, arb_completed, m_req_fifo, m_wait_for_item_sequence_id,
                     sequence_item_requested, fatal>>
      /\ get_next_item_called => get_next_item_called'
  BY DEF CallSelect, procVars, queueVars, itemVars
<1>2. CASE sequence_item_requested
  <2>1. dpc' = "peek" /\ first' = FALSE
    BY <1>2 DEF CallSelect
  <2>2. FlightInv'
    BY <1>1, <2>1 DEF ItemInv, FlightInv
  <2>3. RequestedInv'
    BY <1>1, <1>2, <2>1 DEF ItemInv, RequestedInv
  <2>4. SeenInv'
    BY <1>1, <2>1 DEF ItemInv, SeenInv
  <2> QED
    BY <2>2, <2>3, <2>4 DEF ItemInv
<1>3. CASE ~sequence_item_requested
  <2>1. dpc' = "select" /\ first' = TRUE
    BY <1>3 DEF CallSelect
  <2>2. FlightInv'
    BY <1>1, <1>3, <2>1 DEF ItemInv, FlightInv
  <2>3. RequestedInv'
    BY <1>1, <1>3, <2>1 DEF ItemInv, RequestedInv
  <2>4. SeenInv'
    BY <1>1, <2>1 DEF ItemInv, SeenInv
  <2> QED
    BY <2>2, <2>3, <2>4 DEF ItemInv
<1> QED
  BY <1>2, <1>3

LEMMA Item_CallTry ==
    ASSUME ItemInv, CallTry
    PROVE  ItemInv'
<1>1. /\ dpc = "idle" /\ "try_next_item" \in DriverCalls /\ ~get_next_item_called
      /\ dcall' = "try_next_item" /\ dpc' = "select" /\ first' = TRUE /\ selected' = None
      /\ UNCHANGED <<pc, arb_completed, m_req_fifo, m_wait_for_item_sequence_id,
                     sequence_item_requested, get_next_item_called, fatal>>
  BY DEF CallTry, procVars, queueVars, itemVars, flagVars
<1>2. ~sequence_item_requested
  BY <1>1 DEF ItemInv, RequestedInv
<1>3. FlightInv'
  BY <1>1, <1>2 DEF ItemInv, FlightInv
<1>4. RequestedInv'
  BY <1>1, <1>2 DEF RequestedInv
<1>5. SeenInv'
  BY <1>1 DEF ItemInv, SeenInv
<1> QED
  BY <1>3, <1>4, <1>5 DEF ItemInv

(* A choice begins, for a driver that has nothing.                         *)
LEMMA ItemScan ==
    ASSUME BaseInv, ItemInv, Settled, BeginScan, m_req_fifo = None,
           Out(arb_completed, pc) = {}, dpc \in {"select", "peek", "try"},
           NEW c, c \subseteq arb_completed, grant_queued_locks(arb_sequence_q, lock_list, c, FALSE),
           UNCHANGED <<itemVars, flagVars, dcall, first, fatal>>
    PROVE  ItemInv'
<1>1. /\ dpc' = "scan" /\ pc' = pc
      /\ UNCHANGED <<m_req_fifo, m_wait_for_item_sequence_id, sequence_item_requested,
                     get_next_item_called, dcall, first, fatal>>
  BY DEF BeginScan, itemVars, flagVars
<1>2. Out(arb_completed', pc') = {}
  <2>1. Out(arb_completed', pc') = Out(c, pc')
    BY GrantQueuedOut
  <2> QED
    BY <1>1, <2>1 DEF Out
<1>3. Unseen(m_req_fifo', pc') = {}
  BY <1>1, SettledSeen
<1>4. FlightInv'
  BY <1>1, <1>2 DEF FlightInv
<1>5. RequestedInv'
  BY <1>1 DEF ItemInv, RequestedInv
<1>6. SeenInv'
  BY <1>1, <1>3 DEF ItemInv, SeenInv
<1> QED
  BY <1>4, <1>5, <1>6 DEF ItemInv

LEMMA Item_Grant ==
    ASSUME BaseInv, ItemInv, TriesNoPeek, NEW i \in DOMAIN arb_sequence_q, dpc = "scan", Grant(i)
    PROVE  ItemInv'
<1> DEFINE r == arb_sequence_q[i]
<1>1. r.proc \in Procs
  BY IdType DEF BaseInv, TypeInv, QueueTypes
<1>2. /\ selected' = r.proc /\ first' = FALSE
      /\ dpc' = IF dcall = "try_next_item" THEN "try" ELSE "peek"
      /\ sequence_item_requested' = (sequence_item_requested \/ first \/ dcall = "try_next_item")
      /\ get_next_item_called' = (get_next_item_called \/ dcall = "try_next_item"
                                    \/ (first /\ dcall = "get_next_item"))
      /\ arb_completed' = arb_completed \cup {Id(r)}
      /\ UNCHANGED <<pc, m_req_fifo, m_wait_for_item_sequence_id, dcall, fatal>>
  BY DEF Grant, SetQueues, itemVars
<1>3. Out(arb_completed, pc) = {} /\ m_req_fifo = None /\ Unseen(m_req_fifo, pc) = {}
  BY DEF ItemInv, FlightInv, SeenInv
<1>4. Out(arb_completed', pc') \subseteq {r.proc}
  BY <1>2, <1>3 DEF Out, Id
<1>5. sequence_item_requested'
  BY <1>2 DEF ItemInv, RequestedInv
<1>6. ASSUME "try_next_item" \in DriverCalls, ~get_next_item_called'
      PROVE  dcall = "get"
  <2>1. ~get_next_item_called /\ dcall # "try_next_item" /\ ~(first /\ dcall = "get_next_item")
    BY <1>2, <1>6
  <2>2. dcall # "peek"
    BY <1>6 DEF TriesNoPeek, ItemInv, RequestedInv
  <2>3. dcall = "get_next_item" => ~first /\ sequence_item_requested
    BY <2>1 DEF ItemInv, RequestedInv
  <2>4. dcall # "get_next_item"
    BY <1>6, <2>1, <2>3 DEF ItemInv, RequestedInv
  <2>5. dcall \in {"get_next_item", "try_next_item", "get", "peek"}
    BY DEF BaseInv, TypeInv, CallTypes
  <2> QED
    BY <2>1, <2>2, <2>4, <2>5
<1> HIDE DEF r
<1>7. FlightInv'
  BY <1>2, <1>3, <1>4 DEF FlightInv
<1>8. RequestedInv'
  <2>1. dpc' # "idle" /\ (dpc' = "try" => dcall' = "try_next_item" /\ selected' # None)
    BY <1>1, <1>2, SeqsAssumption
  <2>2. dcall' \in DriverCalls \cup {"get_next_item"}
    BY <1>2 DEF ItemInv, RequestedInv
  <2> QED
    BY <1>2, <1>5, <1>6, <2>1, <2>2 DEF RequestedInv
<1>9. SeenInv'
  BY <1>2, <1>3 DEF ItemInv, SeenInv
<1> QED
  BY <1>7, <1>8, <1>9 DEF ItemInv

LEMMA Item_GrantNothing ==
    ASSUME ItemInv, dpc = "scan", GrantNothing
    PROVE  ItemInv'
<1>1. /\ dpc' \in {"select", "wait", "idle"} /\ (dpc' = "idle" => dcall = "try_next_item")
      /\ UNCHANGED <<pc, arb_completed, m_req_fifo, m_wait_for_item_sequence_id,
                     sequence_item_requested, get_next_item_called, dcall, first, fatal>>
  BY DEF GrantNothing, procVars, queueVars, itemVars, flagVars
<1>2. FlightInv'
  BY <1>1 DEF ItemInv, FlightInv
<1>3. RequestedInv'
  BY <1>1 DEF ItemInv, RequestedInv
<1>4. SeenInv'
  BY <1>1 DEF ItemInv, SeenInv
<1> QED
  BY <1>2, <1>3, <1>4 DEF ItemInv

LEMMA ItemChoose ==
    ASSUME BaseInv, ItemInv, TriesNoPeek, Choose
    PROVE  ItemInv'
<1>1. CASE StartScan
  <2>1. dpc = "select" /\ m_req_fifo = None /\ Out(arb_completed, pc) = {}
    BY <1>1 DEF StartScan, ItemInv, FlightInv
  <2> QED
    BY <1>1, <2>1, ItemScan DEF StartScan
<1>2. CASE ScanZombie
  <2>1. arb_completed' = arb_completed /\ pc' = pc
    BY <1>2 DEF ScanZombie, remove_sequence_from_queues, SetQueues
  <2> QED
    BY <1>2, <2>1, ItemLess DEF ScanZombie, itemVars, selectVars, ItemInv, SeenInv
<1>3. CASE ScanTake
  BY <1>3, ScanIndex, Item_Grant DEF ScanTake, Scanning, BaseInv
<1>4. CASE ScanNext
  BY <1>4, ItemLess DEF ScanNext, procVars, queueVars, itemVars, ItemInv, SeenInv
<1>5. CASE ScanEnd
  <2>1. CASE fatal' = "null" /\ UNCHANGED <<procVars, queueVars, itemVars, flagVars, selectVars, got>>
    BY <2>1, ItemLess DEF procVars, queueVars, itemVars, selectVars
  <2>2. TypeInv /\ dpc = "scan"
    BY <1>5 DEF ScanEnd, Scanning, BaseInv
  <2>3. CASE \E i \in Sound : Grant(i)
    BY <2>2, <2>3, IndicesType, Item_Grant
  <2>4. CASE GrantNothing
    BY <2>2, <2>4, Item_GrantNothing
  <2> QED
    BY <1>5, <2>1, <2>2, <2>3, <2>4, ScanEndCases
<1> QED
  BY <1>1, <1>2, <1>3, <1>4, <1>5 DEF Choose

LEMMA Item_PeekItem ==
    ASSUME BaseInv, ItemInv, PeekItem
    PROVE  ItemInv'
<1>1. m_req_fifo # None /\ dpc' = "idle" /\ UNCHANGED <<dcall, first, fatal>>
  BY DEF PeekItem
<1>2. dpc = "peek"
  BY <1>1 DEF PeekItem, ItemInv, FlightInv
<1>3. CASE dcall = "get"
  BY <1>1, <1>3, ItemCompleted DEF PeekItem
<1>4. CASE dcall # "get"
  <2>1. UNCHANGED <<pc, arb_completed, m_req_fifo, m_wait_for_item_sequence_id,
                    sequence_item_requested, get_next_item_called>>
    BY <1>4 DEF PeekItem, ItemPeeked, queueVars, flagVars
  <2>2. sequence_item_requested
    BY <1>2 DEF ItemInv, RequestedInv
  <2>3. FlightInv'
    BY <1>1, <2>1, <2>2 DEF ItemInv, FlightInv
  <2>4. RequestedInv'
    BY <1>1, <1>4, <2>1 DEF ItemInv, RequestedInv
  <2>5. SeenInv'
    BY <1>1, <2>1 DEF ItemInv, SeenInv
  <2> QED
    BY <2>3, <2>4, <2>5 DEF ItemInv
<1> QED
  BY <1>3, <1>4

LEMMA Item_Reselect ==
    ASSUME BaseInv, ItemInv, Reselect
    PROVE  ItemInv'
<1>1. /\ dpc = "peek" /\ selected # None /\ Gone(selected) /\ m_req_fifo = None /\ dpc' = "select"
      /\ arb_completed' \subseteq arb_completed
      /\ UNCHANGED <<pc, m_req_fifo, m_wait_for_item_sequence_id, sequence_item_requested,
                     get_next_item_called, dcall, first, fatal>>
  BY DEF Reselect, procVars, itemVars, flagVars
<1>2. Out(arb_completed, pc) = {}
  BY <1>1, GoneOut
<1>3. Out(arb_completed', pc') = {}
  BY <1>1, <1>2 DEF Out
<1>4. FlightInv'
  BY <1>1, <1>3 DEF FlightInv
<1>5. RequestedInv'
  BY <1>1 DEF ItemInv, RequestedInv
<1>6. SeenInv'
  BY <1>1, <1>3 DEF ItemInv, SeenInv
<1> QED
  BY <1>4, <1>5, <1>6 DEF ItemInv

LEMMA Item_Try ==
    ASSUME BaseInv, ItemInv, TryFound \/ TryBlocked
    PROVE  ItemInv'
<1>1. /\ dpc = "try" /\ dpc' = "idle"
      /\ UNCHANGED <<pc, arb_completed, m_req_fifo, m_wait_for_item_sequence_id,
                     sequence_item_requested, get_next_item_called, dcall, first, fatal>>
  BY DEF TryFound, TryBlocked, procVars, queueVars, itemVars, flagVars
<1>2. sequence_item_requested /\ dcall = "try_next_item"
  BY <1>1 DEF ItemInv, RequestedInv
<1>3. FlightInv'
  BY <1>1, <1>2 DEF ItemInv, FlightInv
<1>4. RequestedInv'
  BY <1>1, <1>2 DEF ItemInv, RequestedInv
<1>5. SeenInv'
  BY <1>1 DEF ItemInv, SeenInv
<1> QED
  BY <1>3, <1>4, <1>5 DEF ItemInv

LEMMA Item_TryAgain ==
    ASSUME BaseInv, ItemInv, TryAgain
    PROVE  ItemInv'
<1>1. /\ dpc = "try" /\ Settled /\ m_req_fifo = None /\ Gone(selected) /\ BeginScan
      /\ UNCHANGED <<itemVars, flagVars, dcall, first, fatal>>
      /\ grant_queued_locks(arb_sequence_q, lock_list,
                            arb_completed \ {<<"REQ", selected>>}, FALSE)
  BY DEF TryAgain
<1>2. selected # None
  BY <1>1 DEF ItemInv, RequestedInv
<1>3. Out(arb_completed, pc) = {}
  BY <1>1, <1>2, GoneOut
<1> QED
  BY <1>1, <1>3, ItemScan

LEMMA Item_wait ==
    ASSUME ItemInv, m_wait_for_available_sequence
    PROVE  ItemInv'
<1>1. /\ dpc = "wait" /\ dpc' = "select"
      /\ UNCHANGED <<pc, arb_completed, m_req_fifo, m_wait_for_item_sequence_id,
                     sequence_item_requested, get_next_item_called, dcall, first, fatal>>
  BY DEF m_wait_for_available_sequence, procVars, itemVars, flagVars
<1>2. FlightInv'
  BY <1>1 DEF ItemInv, FlightInv
<1>3. RequestedInv'
  BY <1>1 DEF ItemInv, RequestedInv
<1>4. SeenInv'
  BY <1>1 DEF ItemInv, SeenInv
<1> QED
  BY <1>2, <1>3, <1>4 DEF ItemInv

LEMMA Item_ItemDone ==
    ASSUME BaseInv, ItemInv, ItemDone
    PROVE  ItemInv'
<1>1. CASE m_req_fifo = None
  BY <1>1, ItemLess DEF ItemDone, queueVars, itemVars, selectVars
<1>2. CASE m_req_fifo # None
  BY <1>2, ItemCompleted DEF ItemDone, selectVars
<1> QED
  BY <1>1, <1>2

(* Every step does, unless the flags are reset under a driver that has an  *)
(* item, or it tries for another item after peeking at one.                *)
LEMMA ItemNext ==
    ASSUME "stop_sequences" \notin Env, TriesNoPeek, BaseInv, ItemInv, [Next]_vars
    PROVE  ItemInv'
<1>1. CASE DriverStep
  BY <1>1, ItemChoose, Item_CallSelect, Item_CallTry, Item_wait, Item_PeekItem, Item_Reselect,
     Item_Try, Item_TryAgain, Item_ItemDone DEF DriverStep
<1>2. CASE UNCHANGED vars
  BY <1>2, ItemLess DEF vars, procVars, queueVars, itemVars, selectVars, ItemInv, SeenInv
<1> QED
  BY <1>1, <1>2, ItemSequence DEF Next, stop_sequences

(* At the start nothing is out.                                            *)
LEMMA ItemInit == Init => ItemInv
  BY DEF Init, ItemInv, FlightInv, RequestedInv, SeenInv, Out, Unseen

(* The types and the queue, which ItemInv rests on, are kept.              *)
LEMMA BaseNext == BaseInv /\ [Next]_vars => BaseInv'
  BY TypeNext, QueueNext DEF BaseInv

LEMMA BaseInit == Init => BaseInv
  BY TypeInit, QueueInit DEF BaseInv

(* What OneInFlight counts is what is out, and the item in the FIFO.       *)
LEMMA OneOut ==
    ASSUME BaseInv, ItemInv
    PROVE  OneInFlight
<1> DEFINE A == {p \in Procs : pc[p] = "granted" \/ (Waits(p) /\ <<"REQ", p>> \in arb_completed)}
           B == IF m_req_fifo = None THEN {} ELSE {None}
<1>1. A = Out(arb_completed, pc)
  BY DEF BaseInv, QueueInv, DoneOK, Out, Waits, Awaited
<1>2. \A p, r \in A : p = r
  BY <1>1 DEF ItemInv, FlightInv
<1>3. A = {} \/ \E p : A = {p}
  <2> HIDE DEF A
  <2> QED
    BY <1>2
<1>4. A = {} \/ B = {}
  BY <1>1 DEF ItemInv, FlightInv
<1>5. A \cup B = {} \/ \E p : A \cup B = {p}
  <2> HIDE DEF A
  <2> QED
    BY <1>3, <1>4
<1>6. Cardinality(A \cup B) <= 1
  <2> HIDE DEF A, B
  <2>1. CASE A \cup B = {}
    BY <2>1, FS_EmptySet
  <2>2. ASSUME NEW p, A \cup B = {p} PROVE Cardinality(A \cup B) = 1
    BY <2>2, FS_Singleton
  <2> QED
    BY <1>5, <2>1, <2>2
<1> QED
  BY <1>6 DEF OneInFlight, NoOverflow, ItemInv, SeenInv

(* A process whose item has left the FIFO finds its sequence named.        *)
LEMMA DoneSeen == ItemInv => CompletionSeen
  BY DEF ItemInv, SeenInv, CompletionSeen, Unseen

(* One grant or item is out at a time, so no send_request finds the FIFO   *)
(* full, on every sequencer with one driver, also when processes or        *)
(* sequences are killed while they have a grant.  stop_sequences resets    *)
(* the flags under a driver that has an item; and a driver that has peeked *)
(* at an item may not try for the next one: then it is false.              *)
THEOREM OneItemInFlight ==
    ASSUME "stop_sequences" \notin Env, TriesNoPeek
    PROVE  Spec => []OneInFlight
<1>1. BaseInv /\ ItemInv /\ [Next]_vars => (BaseInv /\ ItemInv)'
  BY BaseNext, ItemNext
<1>2. Init => BaseInv /\ ItemInv
  BY BaseInit, ItemInit
<1> QED
  BY <1>1, <1>2, OneOut, PTL DEF Spec

(* The completion of an item is not lost: whoever waits for it has its     *)
(* item in the FIFO or finds its sequence named, although every            *)
(* send_request overwrites the name.                                       *)
THEOREM NoCompletionLost ==
    ASSUME "stop_sequences" \notin Env, TriesNoPeek
    PROVE  Spec => []CompletionSeen
<1>1. BaseInv /\ ItemInv /\ [Next]_vars => (BaseInv /\ ItemInv)'
  BY BaseNext, ItemNext
<1>2. Init => BaseInv /\ ItemInv
  BY BaseInit, ItemInit
<1> QED
  BY <1>1, <1>2, DoneSeen, PTL DEF Spec

(***************************************************************************)
(* A driver at the FIFO                                                    *)
(***************************************************************************)

(* Whoever is granted, s, has a grant out, under the completed requests c  *)
(* and the places at; or is gone.                                          *)
Sends(s, c, at) ==
    s = Orphan \/ (s \in Procs /\ at[s] \in {"dead", "off"}) \/ s \in Out(c, at)

(* A call that finds sequence_item_requested set finds the item in the     *)
(* FIFO; a call that has selected somebody waits for him.                  *)
FedInv ==
    /\ dcall # "try_next_item" /\ dpc # "try"
    /\ dpc = "idle" /\ sequence_item_requested => m_req_fifo # None
    /\ dpc = "peek" /\ m_req_fifo = None => Sends(selected, arb_completed, pc)

LEMMA SendsGone == ASSUME NEW c PROVE Sends(selected, c, pc) <=> Gone(selected) \/ selected \in Out(c, pc)
  BY DEF Sends, Gone

(* Steps of the sequences.                                                 *)
LEMMA FedSame ==
    ASSUME FedInv, UNCHANGED <<m_req_fifo, sequence_item_requested, dpc, dcall, selected>>,
           Sends(selected, arb_completed, pc) => Sends(selected, arb_completed', pc')
    PROVE  FedInv'
  BY DEF FedInv

(* A process moves that is not granted, or sees that it is.                *)
LEMMA FedMove ==
    ASSUME TypeInv, FedInv, NEW p \in Procs, NEW to, pc' = [pc EXCEPT ![p] = to],
           UNCHANGED <<m_req_fifo, sequence_item_requested, dpc, dcall, selected>>,
           Sends(p, arb_completed, pc) => to = "granted",
           \A r \in Procs : r # p /\ <<"REQ", r>> \in arb_completed => <<"REQ", r>> \in arb_completed'
    PROVE  FedInv'
<1>1. pc'[p] = to /\ \A r \in Procs : r # p => pc'[r] = pc[r]
  BY DEF TypeInv, ProcTypes
<1>2. Sends(selected, arb_completed, pc) => Sends(selected, arb_completed', pc')
  <2>1. CASE selected = p
    BY <1>1, <2>1 DEF Sends, Out
  <2>2. CASE selected # p
    BY <1>1, <2>2 DEF Sends, Out
  <2> QED
    BY <2>1, <2>2
<1> QED
  BY <1>2, FedSame

LEMMA FedGrantQueued ==
    ASSUME NEW q, NEW l, NEW c, NEW ch, grant_queued_locks(q, l, c, ch)
    PROVE  \A r \in Procs : <<"REQ", r>> \in c => <<"REQ", r>> \in arb_completed'
<1> DEFINE at == [r \in Procs |-> "wait_req"]
<1>1. Out(arb_completed', at) = Out(c, at)
  BY GrantQueuedOut
<1>2. \A r \in Procs : at[r] = "wait_req"
  OBVIOUS
<1> HIDE DEF at
<1>3. ASSUME NEW r \in Procs, <<"REQ", r>> \in c PROVE <<"REQ", r>> \in arb_completed'
  <2>1. r \in Out(c, at) /\ at[r] = "wait_req"
    BY <1>2, <1>3 DEF Out
  <2>2. r \in Out(arb_completed', at)
    BY <1>1, <2>1
  <2> QED
    BY <2>1, <2>2 DEF Out
<1> QED
  BY <1>3

LEMMA FedEnd ==
    ASSUME FedInv, NEW S, End(S),
           UNCHANGED <<m_req_fifo, sequence_item_requested, dpc, dcall, selected>>
    PROVE  FedInv'
<1>1. pc' = [p \in Procs |-> IF SeqOf[p] \in S THEN "off" ELSE pc[p]] /\ arb_completed' = arb_completed
  BY DEF End, remove_sequence_from_queues, SetQueues
<1>2. Sends(selected, arb_completed, pc) => Sends(selected, arb_completed', pc')
  BY <1>1 DEF Sends, Out
<1> QED
  BY <1>2, FedSame

(* A granted sequence that starts anew leaves an orphan.                   *)
LEMMA FedStart ==
    ASSUME FedInv, NEW s \in Seqs, Start(s)
    PROVE  FedInv'
<1>1. /\ pc' = [p \in Procs |-> IF SeqOf[p] = s THEN "idle" ELSE pc[p]]
      /\ arb_completed' = {id \in arb_completed : SeqOf[id[2]] # s}
      /\ selected' = IF selected \in ProcsOf({s}) THEN Orphan ELSE selected
      /\ m_req_fifo' = IF m_req_fifo \in ProcsOf({s}) THEN Orphan ELSE m_req_fifo
      /\ UNCHANGED <<sequence_item_requested, dpc, dcall>>
  BY DEF Start, flagVars
<1>2. m_req_fifo' = None <=> m_req_fifo = None
  BY <1>1, SeqsAssumption DEF ProcsOf
<1>3. Sends(selected, arb_completed, pc) => Sends(selected', arb_completed', pc')
  <2>1. CASE selected \in ProcsOf({s})
    BY <1>1, <2>1 DEF Sends
  <2>2. CASE selected \in Procs \ ProcsOf({s})
    BY <1>1, <2>2 DEF Sends, Out, ProcsOf
  <2>3. CASE selected \notin Procs
    BY <1>1, <2>3 DEF Sends, Out, ProcsOf
  <2> QED
    BY <2>1, <2>2, <2>3 DEF ProcsOf
<1> QED
  BY <1>1, <1>2, <1>3 DEF FedInv

LEMMA FedSequence ==
    ASSUME SafeInv, FedInv, "disable_fork" \notin Env, SequenceStep
    PROVE  FedInv'
<1>0. TypeInv /\ QueueInv
  BY DEF SafeInv
<1>1. ASSUME NEW s \in Seqs, Finish(s) \/ Kill(s) PROVE FedInv'
  BY <1>1, FedEnd DEF Finish, Kill, itemVars, flagVars, selectVars
<1>2. ASSUME NEW s \in Seqs, ChangeRelevance(s) PROVE FedInv'
  BY <1>2, FedSame DEF ChangeRelevance, queueVars, itemVars, flagVars, selectVars
<1>3. ASSUME NEW p \in Procs, NEW pri \in Priorities, NEW b \in BOOLEAN, wait_for_grant(p, pri, b)
      PROVE  FedInv'
  <2>1. /\ arb_completed' = arb_completed /\ pc[p] = "idle" /\ pc' = [pc EXCEPT ![p] = "wait_req"]
        /\ UNCHANGED <<m_req_fifo, sequence_item_requested, dpc, dcall, selected>>
    BY <1>3 DEF wait_for_grant, Calls, SetQueues, itemVars, flagVars, selectVars
  <2>2. ~Sends(p, arb_completed, pc)
    BY <2>1, SeqsAssumption DEF Sends, Out
  <2> QED
    BY <1>0, <2>1, <2>2, FedMove
<1>4. ASSUME NEW p \in Procs, NEW b \in BOOLEAN, m_lock_req(p, b) PROVE FedInv'
  <2>1. /\ pc[p] = "idle" /\ pc' = [pc EXCEPT ![p] = "wait_lock"]
        /\ UNCHANGED <<m_req_fifo, sequence_item_requested, dpc, dcall, selected>>
    BY <1>4 DEF m_lock_req, Calls, itemVars, flagVars, selectVars
  <2>2. \A r \in Procs : <<"REQ", r>> \in arb_completed => <<"REQ", r>> \in arb_completed'
    BY <1>4, FedGrantQueued DEF m_lock_req
  <2>3. ~Sends(p, arb_completed, pc)
    BY <2>1, SeqsAssumption DEF Sends, Out
  <2> QED
    BY <1>0, <2>1, <2>2, <2>3, FedMove
<1>5. ASSUME NEW p \in Procs, ArbitrationCompleted(p) PROVE FedInv'
  <2> DEFINE to == IF pc[p] = "wait_req" THEN "granted" ELSE "idle"
  <2>1. /\ p \in woken /\ pc' = [pc EXCEPT ![p] = to]
        /\ arb_completed' = arb_completed \ Awaited(pc, p)
        /\ UNCHANGED <<m_req_fifo, sequence_item_requested, dpc, dcall, selected>>
    BY <1>5 DEF ArbitrationCompleted, itemVars, flagVars, selectVars
  <2>2. pc[p] \in {"wait_req", "wait_lock"}
    BY <1>0, <2>1 DEF QueueInv, WokenOK, Awaited
  <2>3. Sends(p, arb_completed, pc) => to = "granted"
    BY <2>2, SeqsAssumption DEF Sends, Out
  <2>4. \A r \in Procs : r # p /\ <<"REQ", r>> \in arb_completed => <<"REQ", r>> \in arb_completed'
    BY <2>1 DEF Awaited
  <2> HIDE DEF to
  <2> QED
    BY <1>0, <2>1, <2>3, <2>4, FedMove
<1>6. ASSUME NEW p \in Procs, m_unlock_req(p) PROVE FedInv'
  <2>1. /\ pc' = pc
        /\ UNCHANGED <<m_req_fifo, sequence_item_requested, dpc, dcall, selected>>
    BY <1>6 DEF m_unlock_req, itemVars, flagVars, selectVars
  <2>2. Out(arb_completed', pc) = Out(arb_completed, pc)
    BY <1>6, GrantQueuedOut DEF m_unlock_req
  <2> QED
    BY <2>1, <2>2, FedSame DEF Sends
<1>7. ASSUME NEW p \in Procs, send_request(p) PROVE FedInv'
  <2>1. UNCHANGED <<sequence_item_requested, dpc, dcall, selected>>
    BY <1>7 DEF send_request, flagVars, selectVars
  <2>2. CASE m_req_fifo # None
    BY <1>7, <2>1, <2>2, FedSame DEF send_request, queueVars, itemVars
  <2>3. CASE m_req_fifo = None
    <3>1. m_req_fifo' # None
      BY <1>7, <2>3, SeqsAssumption DEF send_request
    <3> QED
      BY <2>1, <3>1 DEF FedInv
  <2> QED
    BY <2>2, <2>3
<1>8. ASSUME NEW p \in Procs, ItemDoneSeen(p) PROVE FedInv'
  <2>1. /\ pc[p] = "wait_item" /\ pc' = [pc EXCEPT ![p] = "idle"] /\ arb_completed' = arb_completed
        /\ UNCHANGED <<m_req_fifo, sequence_item_requested, dpc, dcall, selected>>
    BY <1>8 DEF ItemDoneSeen, ItemDoneFor, queueVars, itemVars, flagVars, selectVars
  <2>2. ~Sends(p, arb_completed, pc)
    BY <2>1, SeqsAssumption DEF Sends, Out
  <2> QED
    BY <1>0, <2>1, <2>2, FedMove
<1>9. \A p : ~DisableFork(p)
  BY DEF DisableFork
<1> QED
  BY <1>1, <1>2, <1>3, <1>4, <1>5, <1>6, <1>7, <1>8, <1>9, FedStart DEF SequenceStep

(* A choice grants a request, not a lock, of a process that waits for it   *)
(* or is gone.                                                             *)
LEMMA FedGrant ==
    ASSUME SafeInv, FedInv, NEW k \in DOMAIN arb_sequence_q, Grant(k), Available(k)
    PROVE  FedInv'
<1> DEFINE r == arb_sequence_q[k]
<1>1. r \in Requests /\ r.proc \in Procs /\ r.request = "REQ" /\ EntryOK(r, arb_completed, pc)
  BY IdType DEF SafeInv, TypeInv, QueueTypes, QueueInv, QueueOK, Available
<1>2. /\ selected' = r.proc /\ pc' = pc /\ dpc' = "peek" /\ dcall' = dcall
      /\ arb_completed' = arb_completed \cup {Id(r)}
  BY DEF Grant, SetQueues, FedInv
<1>3. Id(r) = <<"REQ", r.proc>> /\ pc[r.proc] \in {"wait_req", "dead"}
  BY <1>1 DEF EntryOK, Id
<1> HIDE DEF r
<1>4. Sends(selected', arb_completed', pc')
  BY <1>1, <1>2, <1>3 DEF Sends, Out
<1> QED
  BY <1>2, <1>4 DEF FedInv

LEMMA FedChoose ==
    ASSUME SafeInv, ScanOK, FedInv, Choose
    PROVE  FedInv'
<1>1. CASE StartScan
  BY <1>1 DEF StartScan, BeginScan, FedInv
<1>2. ~ScanZombie
  BY NoScanZombie
<1>3. CASE ScanTake
  BY <1>3, ScanIndex, FedGrant DEF ScanTake, Scanning, SafeInv
<1>4. CASE ScanNext
  BY <1>4 DEF ScanNext, Scanning, FedInv
<1>5. CASE ScanEnd
  <2>1. CASE GrantNothing
    BY <2>1 DEF GrantNothing, FedInv
  <2>2. ASSUME NEW i \in Indices, Grant(i) PROVE FedInv'
    BY <1>5, <2>2, EndOfScan, FedGrant
  <2> QED
    BY <1>5, <2>1, <2>2, NothingLeft
<1> QED
  BY <1>1, <1>2, <1>3, <1>4, <1>5 DEF Choose

LEMMA FedDriver ==
    ASSUME SafeInv, ScanOK, FedInv, "try_next_item" \notin DriverCalls, DriverStep
    PROVE  FedInv'
<1>1. ASSUME NEW call \in DriverCalls, CallSelect(call) PROVE FedInv'
  <2>1. dpc = "idle" /\ call # "try_next_item" /\ dcall' = call /\ m_req_fifo' = m_req_fifo
    BY <1>1 DEF CallSelect, itemVars
  <2>2. IF sequence_item_requested THEN dpc' = "peek" ELSE dpc' = "select"
    BY <1>1 DEF CallSelect
  <2> QED
    BY <2>1, <2>2 DEF FedInv
<1>2. CASE m_wait_for_available_sequence \/ Reselect
  BY <1>2 DEF m_wait_for_available_sequence, Reselect, FedInv
<1>3. CASE PeekItem
  <2>1. m_req_fifo # None /\ dpc' = "idle" /\ dcall' = dcall
    BY <1>3 DEF PeekItem
  <2>2. ~sequence_item_requested' \/ m_req_fifo' = m_req_fifo
    BY <1>3 DEF PeekItem, item_done, FlagsReset, ItemPeeked
  <2> QED
    BY <2>1, <2>2 DEF FedInv
<1>4. CASE ItemDone
  <2>1. dpc = "idle" /\ dpc' = "idle" /\ dcall' = dcall
    BY <1>4 DEF ItemDone, selectVars
  <2>2. \/ ~sequence_item_requested'
        \/ UNCHANGED <<m_req_fifo, sequence_item_requested>>
    BY <1>4 DEF ItemDone, item_done, FlagsReset, itemVars, flagVars
  <2> QED
    BY <2>1, <2>2 DEF FedInv
<1>5. ~CallTry /\ ~TryFound /\ ~TryAgain /\ ~TryBlocked
  BY DEF CallTry, TryFound, TryAgain, TryBlocked, FedInv
<1> QED
  BY <1>1, <1>2, <1>3, <1>4, <1>5, FedChoose DEF DriverStep

(* A driver that waits at the FIFO waits for a process that was granted    *)
(* and sends its item, or for one that is gone, and then chooses again,    *)
(* for the calls get_next_item, get and peek in any order.  try_next_item  *)
(* makes it false: it returns null and leaves sequence_item_requested set. *)
(* A process killed alone makes it false too: at a stale index a choice    *)
(* may grant a lock as if it were a request.                               *)
THEOREM DriverIsFed ==
    ASSUME "try_next_item" \notin DriverCalls, "stop_sequences" \notin Env,
           "disable_fork" \notin Env
    PROVE  Spec => []DriverFed
<1> DEFINE Inv == SafeInv /\ ScanOK /\ FedInv
<1>1. Inv /\ [Next]_vars => Inv'
  <2> SUFFICES ASSUME Inv, [Next]_vars PROVE FedInv'
    BY SafeNext, ScanNextKeeps
  <2>1. CASE UNCHANGED vars
    BY <2>1, FedSame DEF vars, procVars, queueVars, itemVars, flagVars, selectVars
  <2> QED
    BY <2>1, FedSequence, FedDriver DEF Next, stop_sequences
<1>2. Init => Inv
  BY SafeInit, ScanInit DEF Init, FedInv
<1>3. Inv => DriverFed
  BY SendsGone DEF FedInv, DriverFed, Out
<1> HIDE DEF Inv
<1> QED
  BY <1>1, <1>2, <1>3, PTL DEF Spec
==================================================================================
