----------------------------- MODULE SequencerProofs -----------------------------
(***************************************************************************)
(* Sequencer, for every tree of sequences, number of processes and mode of *)
(* arbitration.  Locks are exclusive: one is granted only when every       *)
(* holder is the sequence or above it, and all the other steps take locks  *)
(* away.  The queues are those of processes that live (QueueInv), and      *)
(* whoever waits is attended to (AttendInv).                               *)
(***************************************************************************)
EXTENDS Sequencer, TLAPS, FiniteSetTheorems, SequenceTheorems

(***************************************************************************)
(* Locks                                                                   *)
(***************************************************************************)
Nested(l) ==
    \A s, t \in Seqs :
        l[s] > 0 /\ l[t] > 0 => s = t \/ is_child(s, t) \/ is_child(t, s)

Locks == {l \in [Seqs -> Nat] : Nested(l)}

(* The inductive invariant: LocksNested, and that locks are counted.       *)
LocksInv == lock_list \in Locks

(* Who holds a lock in m held one in l.                                    *)
Fewer(m, l) == \A s \in Seqs : m[s] > 0 => l[s] > 0

(* Taking locks away keeps the others nested.                              *)
LEMMA FewerNested ==
    ASSUME NEW l \in Locks, NEW m \in [Seqs -> Nat], Fewer(m, l)
    PROVE  m \in Locks
  BY DEF Locks, Nested, Fewer

(* remove_sequence_from_queues takes locks away.                           *)
LEMMA WithoutNested ==
    ASSUME NEW l \in Locks, NEW S
    PROVE  WithoutLocks(l, S) \in Locks
<1>1. WithoutLocks(l, S) \in [Seqs -> Nat]
  BY DEF WithoutLocks, Locks
<1>2. Fewer(WithoutLocks(l, S), l)
  BY DEF WithoutLocks, Fewer
<1> QED
  BY <1>1, <1>2, FewerNested

(* A lock for a sequence that nothing blocks goes below the others.        *)
LEMMA GrantNested ==
    ASSUME NEW l \in Locks, NEW s, ~is_blocked(l, s)
    PROVE  [l EXCEPT ![s] = @ + 1] \in Locks
<1> DEFINE m == [l EXCEPT ![s] = @ + 1]
<1>1. l \in [Seqs -> Nat] /\ Nested(l)
  BY DEF Locks
<1>2. CASE s \notin Seqs
  BY <1>1, <1>2, m = l DEF Locks
<1>3. CASE s \in Seqs
  <2>1. m \in [Seqs -> Nat] /\ \A t \in Seqs : t # s => m[t] = l[t]
    BY <1>1, <1>3
  <2>2. \A h \in Seqs : l[h] > 0 => h = s \/ is_child(h, s)
    BY DEF is_blocked
  <2>3. ASSUME NEW t \in Seqs, NEW u \in Seqs, m[t] > 0, m[u] > 0
        PROVE  t = u \/ is_child(t, u) \/ is_child(u, t)
    <3>1. CASE t = s
      BY <2>1, <2>2, <2>3, <3>1
    <3>2. CASE u = s
      BY <2>1, <2>2, <2>3, <3>2
    <3>3. CASE t # s /\ u # s
      BY <1>1, <2>1, <2>3, <3>3 DEF Nested
    <3> QED
      BY <3>1, <3>2, <3>3
  <2> QED
    BY <2>1, <2>3 DEF Locks, Nested
<1> QED
  BY <1>2, <1>3

(* grant_queued_locks keeps locks nested, on any queue.                    *)
LEMMA GrantLockKeeps ==
    ASSUME NEW q, NEW l \in Locks, NEW c, NEW ch, GrantLock(q, l, c, ch)
    PROVE  lock_list' \in Locks
<1>1. CASE SetQueues(q, l, c, ch)
  BY <1>1 DEF SetQueues
<1>2. ASSUME NEW i \in FirstOf(Grantable(q, l)),
             SetQueues(RemoveAt(q, i), [l EXCEPT ![SeqAt(q, i)] = @ + 1], c \cup {Id(q[i])}, TRUE)
      PROVE  lock_list' \in Locks
  <2>1. ~is_blocked(l, SeqAt(q, i))
    BY DEF FirstOf, Grantable
  <2>2. lock_list' = [l EXCEPT ![SeqAt(q, i)] = @ + 1]
    BY <1>2 DEF SetQueues
  <2> QED
    BY <2>1, <2>2, GrantNested
<1> QED
  BY <1>1, <1>2 DEF GrantLock

LEMMA GrantQueuedKeeps ==
    ASSUME NEW q, NEW l \in Locks, NEW c, NEW ch, grant_queued_locks(q, l, c, ch)
    PROVE  lock_list' \in Locks
<1> DEFINE Z == LockZombies(q)
<1>1. WithoutLocks(l, Z) \in Locks
  BY WithoutNested
<1>2. GrantLock(WithoutRequests(q, Z), WithoutLocks(l, Z), c, ch \/ Z # {})
  BY DEF grant_queued_locks
<1> QED
  BY <1>1, <1>2, GrantLockKeeps

LEMMA RemoveKeeps ==
    ASSUME LocksInv, NEW S, remove_sequence_from_queues(S)
    PROVE  LocksInv'
  BY WithoutNested DEF LocksInv, remove_sequence_from_queues, SetQueues

LEMMA LocksInit == Init => LocksInv
  BY DEF Init, LocksInv, Locks, Nested

(* One lock less of the sequence that unlocks.                             *)
LEMMA UnlockKeeps ==
    ASSUME LocksInv, NEW p \in Procs, m_unlock_req(p)
    PROVE  LocksInv'
<1> DEFINE s == SeqOf[p]
           m == [lock_list EXCEPT ![s] = @ - 1]
<1>1. lock_list \in [Seqs -> Nat] /\ s \in Seqs /\ lock_list[s] > 0
  BY SeqsAssumption DEF LocksInv, Locks, m_unlock_req, has_lock
<1>2. m \in [Seqs -> Nat]
  BY <1>1
<1>3. Fewer(m, lock_list)
  BY <1>1 DEF Fewer
<1>4. m \in Locks
  BY <1>2, <1>3, FewerNested DEF LocksInv
<1> QED
  BY <1>4, GrantQueuedKeeps DEF m_unlock_req, LocksInv

(* What the processes of sequences do.                                     *)
LEMMA SequenceStepKeeps == LocksInv /\ SequenceStep => LocksInv'
<1> SUFFICES ASSUME LocksInv, SequenceStep PROVE LocksInv'
  OBVIOUS
<1> USE DEF LocksInv
<1>1. ASSUME NEW s \in Seqs, Start(s) PROVE LocksInv'
  BY <1>1 DEF Start
<1>2. ASSUME NEW s \in Seqs, Finish(s) PROVE LocksInv'
  BY <1>2, RemoveKeeps DEF Finish, End
<1>3. ASSUME NEW s \in Seqs, Kill(s) PROVE LocksInv'
  BY <1>3, RemoveKeeps DEF Kill, End
<1>4. ASSUME NEW s \in Seqs, ChangeRelevance(s) PROVE LocksInv'
  BY <1>4 DEF ChangeRelevance, queueVars
<1>5. ASSUME NEW p \in Procs, NEW pri \in Priorities, NEW b \in BOOLEAN, wait_for_grant(p, pri, b)
      PROVE  LocksInv'
  BY <1>5 DEF wait_for_grant, SetQueues
<1>6. ASSUME NEW p \in Procs, NEW b \in BOOLEAN, m_lock_req(p, b) PROVE LocksInv'
  BY <1>6, GrantQueuedKeeps DEF m_lock_req
<1>7. ASSUME NEW p \in Procs, DisableFork(p) PROVE LocksInv'
  BY <1>7 DEF DisableFork
<1>8. ASSUME NEW p \in Procs, ArbitrationCompleted(p) PROVE LocksInv'
  BY <1>8 DEF ArbitrationCompleted
<1>9. ASSUME NEW p \in Procs, m_unlock_req(p) PROVE LocksInv'
  BY <1>9, UnlockKeeps
<1>10. ASSUME NEW p \in Procs, send_request(p) PROVE LocksInv'
  BY <1>10, GrantQueuedKeeps DEF send_request, queueVars
<1>11. ASSUME NEW p \in Procs, ItemDoneSeen(p) PROVE LocksInv'
  BY <1>11 DEF ItemDoneSeen, queueVars
<1> QED
  BY <1>1, <1>2, <1>3, <1>4, <1>5, <1>6, <1>7, <1>8, <1>9, <1>10, <1>11 DEF SequenceStep

(* A grant of a request moves no lock, nor does finding nothing to grant.  *)
LEMMA GrantKeeps ==
    ASSUME LocksInv, NEW i, Grant(i) \/ GrantNothing
    PROVE  LocksInv'
  BY DEF LocksInv, Grant, GrantNothing, SetQueues, queueVars

(* The choice of the next request.                                         *)
LEMMA ChooseKeeps == LocksInv /\ Choose => LocksInv'
<1> SUFFICES ASSUME LocksInv, Choose PROVE LocksInv'
  OBVIOUS
<1>1. CASE StartScan
  BY <1>1, GrantQueuedKeeps DEF StartScan, LocksInv
<1>2. CASE ScanZombie
  BY <1>2, RemoveKeeps DEF ScanZombie
<1>3. CASE ScanTake
  BY <1>3, GrantKeeps DEF ScanTake
<1>4. CASE ScanNext
  BY <1>4 DEF ScanNext, queueVars, LocksInv
<1>5. CASE ScanEnd
  <2>1. CASE GrantNothing
    BY <2>1, GrantKeeps
  <2>2. CASE UNCHANGED queueVars
    BY <2>2 DEF queueVars, LocksInv
  <2>3. CASE \E i : Grant(i)
    BY <2>3, GrantKeeps
  <2> QED
    BY <1>5, <2>1, <2>2, <2>3 DEF ScanEnd
<1> QED
  BY <1>1, <1>2, <1>3, <1>4, <1>5 DEF Choose

(* item_done gives queued locks a chance.                                  *)
LEMMA DoneKeeps ==
    ASSUME LocksInv, item_done
    PROVE  LocksInv'
  BY GrantQueuedKeeps DEF item_done, LocksInv

LEMMA DriverStepKeeps == LocksInv /\ DriverStep => LocksInv'
<1> SUFFICES ASSUME LocksInv, DriverStep PROVE LocksInv'
  OBVIOUS
<1> USE DEF queueVars
<1>1. ASSUME NEW call \in DriverCalls, CallSelect(call) PROVE LocksInv'
  BY <1>1 DEF CallSelect, LocksInv
<1>2. CASE CallTry
  BY <1>2 DEF CallTry, LocksInv
<1>3. CASE Choose
  BY <1>3, ChooseKeeps
<1>4. CASE m_wait_for_available_sequence
  BY <1>4 DEF m_wait_for_available_sequence, LocksInv
<1>5. CASE PeekItem
  <2>1. CASE item_done
    BY <2>1, DoneKeeps
  <2>2. CASE UNCHANGED queueVars
    BY <2>2 DEF LocksInv
  <2> QED
    BY <1>5, <2>1, <2>2 DEF PeekItem
<1>6. CASE Reselect
  BY <1>6 DEF Reselect, LocksInv
<1>7. CASE TryFound
  BY <1>7 DEF TryFound, LocksInv
<1>8. CASE TryAgain
  BY <1>8, GrantQueuedKeeps DEF TryAgain, LocksInv
<1>9. CASE TryBlocked
  BY <1>9 DEF TryBlocked, LocksInv
<1>10. CASE ItemDone
  <2>1. CASE item_done
    BY <2>1, DoneKeeps
  <2>2. CASE UNCHANGED queueVars
    BY <2>2 DEF LocksInv
  <2> QED
    BY <1>10, <2>1, <2>2 DEF ItemDone
<1> QED
  BY <1>1, <1>2, <1>3, <1>4, <1>5, <1>6, <1>7, <1>8, <1>9, <1>10 DEF DriverStep

LEMMA LocksNext == LocksInv /\ [Next]_vars => LocksInv'
<1> SUFFICES ASSUME LocksInv, [Next]_vars PROVE LocksInv'
  OBVIOUS
<1>1. CASE SequenceStep
  BY <1>1, SequenceStepKeeps
<1>2. CASE DriverStep
  BY <1>2, DriverStepKeeps
<1>3. CASE stop_sequences
  BY <1>3, RemoveKeeps DEF stop_sequences, End
<1>4. CASE UNCHANGED vars
  BY <1>4 DEF vars, queueVars, LocksInv
<1> QED
  BY <1>1, <1>2, <1>3, <1>4 DEF Next

(* Whoever holds a lock is on one branch of the tree of sequences, in      *)
(* every instance of the sequencer (grant_queued_locks, m_lock_req,        *)
(* m_unlock_req, remove_sequence_from_queues).                             *)
THEOREM LocksExclusive == Spec => []LocksNested
<1>1. LocksInv => LocksNested
  BY DEF LocksInv, Locks, Nested, LocksNested
<1> QED
  BY <1>1, LocksInit, LocksNext, PTL DEF Spec

(* Where the k-th of the indices I is.                                     *)
Pos(I, k) == CHOOSE i \in I : Rank(I, i) = k

(* A set of indices is finite.                                             *)
LEMMA IndicesFinite ==
    ASSUME NEW n \in Nat, NEW I \in SUBSET (1 .. n)
    PROVE  IsFiniteSet(I) /\ Cardinality(I) \in Nat
<1>1. IsFiniteSet(1 .. n)
  BY FS_Interval
<1>2. IsFiniteSet(I)
  BY <1>1, FS_Subset
<1> QED
  BY <1>2, FS_CardinalityType

(* The ranks of n indices are 1 .. n.                                      *)
LEMMA RankType ==
    ASSUME NEW n \in Nat, NEW I \in SUBSET (1 .. n), NEW i \in I
    PROVE  Rank(I, i) \in 1 .. Cardinality(I)
<1> DEFINE J == {j \in I : j <= i}
<1>1. IsFiniteSet(I) /\ Cardinality(I) \in Nat
  BY IndicesFinite
<1>2. IsFiniteSet(J) /\ Cardinality(J) \in Nat /\ Cardinality(J) <= Cardinality(I)
  <2>1. J \in SUBSET I
    OBVIOUS
  <2>2. IsFiniteSet(J) /\ Cardinality(J) <= Cardinality(I)
    BY <1>1, <2>1, FS_Subset
  <2> QED
    BY <2>2, FS_CardinalityType
<1>3. J # {}
  OBVIOUS
<1>4. Cardinality(J) # 0
  BY <1>2, <1>3, FS_EmptySet
<1> QED
  BY <1>1, <1>2, <1>4 DEF Rank

(* Of two indices that stay, the later has the higher rank.                *)
LEMMA RankGrows ==
    ASSUME NEW n \in Nat, NEW I \in SUBSET (1 .. n), NEW i \in I, NEW j \in I, i < j
    PROVE  Rank(I, i) < Rank(I, j)
<1> DEFINE A == {k \in I : k <= i}
           B == {k \in I : k <= j}
<1>1. B \in SUBSET (1 .. n) /\ A \in SUBSET (1 .. n)
  OBVIOUS
<1>2. IsFiniteSet(B) /\ Cardinality(B) \in Nat /\ Cardinality(A) \in Nat
  BY <1>1, IndicesFinite
<1>3. A \in SUBSET B /\ j \in B /\ j \notin A
  <2>1. i \in Nat /\ j \in Nat /\ \A k \in I : k \in Nat
    OBVIOUS
  <2>2. \A k \in I : k <= i => k <= j
    BY <2>1
  <2>3. ~(j <= i) /\ j <= j
    BY <2>1
  <2> QED
    BY <2>2, <2>3, Zenon
<1>4. Cardinality(A) <= Cardinality(B) /\ Cardinality(A) # Cardinality(B)
  <2> HIDE DEF A, B
  <2> QED
    BY <1>2, <1>3, FS_Subset
<1> QED
  BY <1>2, <1>4 DEF Rank

(* No two indices have the same rank.                                      *)
LEMMA RankInjective ==
    ASSUME NEW n \in Nat, NEW I \in SUBSET (1 .. n), NEW i \in I, NEW j \in I,
           Rank(I, i) = Rank(I, j)
    PROVE  i = j
<1>1. Rank(I, i) \in Nat
  <2>1. Rank(I, i) \in 1 .. Cardinality(I)
    BY RankType
  <2>2. Cardinality(I) \in Nat
    BY IndicesFinite
  <2> QED
    BY <2>1, <2>2
<1>2. ASSUME i < j PROVE FALSE
  <2>1. Rank(I, i) < Rank(I, j)
    BY <1>2, RankGrows
  <2> QED
    BY <1>1, <2>1
<1>3. ASSUME j < i PROVE FALSE
  <2>1. Rank(I, j) < Rank(I, i)
    BY <1>3, RankGrows
  <2> QED
    BY <1>1, <2>1
<1>4. i \in Nat /\ j \in Nat
  OBVIOUS
<1> QED
  BY <1>2, <1>3, <1>4

(* Every rank is taken: as many ranks as indices, and no two alike.        *)
LEMMA RankOnto ==
    ASSUME NEW n \in Nat, NEW I \in SUBSET (1 .. n), NEW k \in 1 .. Cardinality(I)
    PROVE  \E i \in I : Rank(I, i) = k
<1> DEFINE c == Cardinality(I)
           f == [i \in I |-> Rank(I, i)]
<1>1. IsFiniteSet(I) /\ c \in Nat
  BY IndicesFinite
<1>2. f \in [I -> 1 .. c]
  BY RankType
<1>3. ASSUME NEW i \in I, NEW j \in I, f[i] = f[j]
      PROVE  i = j
  BY <1>3, RankInjective
<1>4. f \in Injection(I, 1 .. c)
  BY <1>2, <1>3, Zenon DEF Injection, IsInjective
<1>5. IsFiniteSet(1 .. c) /\ Cardinality(1 .. c) = c
  BY <1>1, FS_Interval
<1>6. f \in Surjection(I, 1 .. c)
  BY <1>4, <1>5, FS_Injection
<1> QED
  BY <1>6 DEF Surjection

(* The position k of what is kept has an index of its own ...              *)
LEMMA PosType ==
    ASSUME NEW n \in Nat, NEW I \in SUBSET (1 .. n), NEW k \in 1 .. Cardinality(I)
    PROVE  Pos(I, k) \in I /\ Rank(I, Pos(I, k)) = k
  BY RankOnto DEF Pos

(* ... and every index that stays is at its rank.                          *)
LEMMA PosOfRank ==
    ASSUME NEW n \in Nat, NEW I \in SUBSET (1 .. n), NEW i \in I
    PROVE  Pos(I, Rank(I, i)) = i
<1> DEFINE k == Rank(I, i)
           j == Pos(I, k)
<1>1. k \in 1 .. Cardinality(I)
  BY RankType
<1>2. j \in I /\ Rank(I, j) = k
  BY <1>1, PosType
<1> QED
  BY <1>2, RankInjective

(* m consists of the entries of q at the indices I, each once.             *)
Draws(m, q, I) ==
    /\ m \in Seq(Requests)
    /\ \E f \in [DOMAIN m -> I] :
          /\ \A k, h \in DOMAIN m : f[k] = f[h] => k = h
          /\ \A i \in I : \E k \in DOMAIN m : f[k] = i
          /\ \A k \in DOMAIN m : m[k] = q[f[k]]

(* Kept draws the entries at I from q, each once, and all of them.         *)
LEMMA KeptDraws ==
    ASSUME NEW q \in Seq(Requests), NEW I \in SUBSET DOMAIN q
    PROVE  Draws(Kept(q, I), q, I)
<1> DEFINE n == Len(q)
           c == Cardinality(I)
           m == Kept(q, I)
           f == [k \in 1 .. c |-> Pos(I, k)]
<1>1. n \in Nat /\ DOMAIN q = 1 .. n /\ I \in SUBSET (1 .. n)
  OBVIOUS
<1>2. c \in Nat
  BY <1>1, IndicesFinite
<1>3. m = [k \in 1 .. c |-> q[Pos(I, k)]]
  BY DEF Kept, Pos
<1> HIDE DEF m
<1>4. \A k \in 1 .. c : Pos(I, k) \in I /\ Rank(I, Pos(I, k)) = k
  BY <1>1, PosType
<1>5. \A k \in 1 .. c : q[Pos(I, k)] \in Requests
  BY <1>1, <1>4
<1>6. m \in [1 .. c -> Requests] /\ DOMAIN m = 1 .. c
  BY <1>3, <1>5
<1>7. m \in Seq(Requests)
  BY <1>2, <1>6, SeqDef
<1>8. f \in [DOMAIN m -> I]
  BY <1>4, <1>6
<1>9. \A k, h \in DOMAIN m : f[k] = f[h] => k = h
  BY <1>4, <1>6
<1>10. \A i \in I : \E k \in DOMAIN m : f[k] = i
  BY <1>1, <1>6, RankType, PosOfRank
<1>11. \A k \in DOMAIN m : m[k] = q[f[k]]
  BY <1>3, <1>6
<1> HIDE DEF f
<1>12. Draws(m, q, I)
  BY <1>7, <1>8, <1>9, <1>10, <1>11, Zenon DEF Draws
<1> QED
  BY <1>12 DEF m

(* Keeping all the entries changes nothing.                                *)
LEMMA KeptAll ==
    ASSUME NEW q \in Seq(Requests)
    PROVE  Kept(q, DOMAIN q) = q
<1> DEFINE n == Len(q)
           I == DOMAIN q
<1>1. n \in Nat /\ I = 1 .. n
  OBVIOUS
<1>2. Cardinality(I) = n
  BY <1>1, FS_Interval
<1>3. ASSUME NEW i \in I PROVE Rank(I, i) = i
  <2>1. {j \in I : j <= i} = 1 .. i
    BY <1>1
  <2>2. Cardinality(1 .. i) = i
    BY <1>1, FS_Interval
  <2> QED
    BY <2>1, <2>2 DEF Rank
<1>4. \A k \in 1 .. n : Pos(I, k) = k
  BY <1>1, <1>3, PosOfRank
<1>5. Kept(q, I) = [k \in 1 .. Cardinality(I) |-> q[Pos(I, k)]]
  BY DEF Kept, Pos
<1>6. Kept(q, I) = [k \in 1 .. n |-> q[k]]
  <2> HIDE DEF I
  <2> QED
    BY <1>2, <1>4, <1>5
<1> QED
  BY <1>1, <1>6

(* RemoveAt draws all the entries but the one at i.                        *)
LEMMA RemoveDraws ==
    ASSUME NEW q \in Seq(Requests), NEW i \in DOMAIN q
    PROVE  Draws(RemoveAt(q, i), q, DOMAIN q \ {i})
<1> DEFINE n == Len(q)
           m == RemoveAt(q, i)
           I == DOMAIN q \ {i}
           f == [k \in 1 .. n - 1 |-> IF k < i THEN k ELSE k + 1]
<1>1. n \in Nat /\ DOMAIN q = 1 .. n /\ i \in 1 .. n /\ n - 1 \in Nat
  OBVIOUS
<1>2. m = [k \in 1 .. n - 1 |-> q[f[k]]]
  BY <1>1 DEF RemoveAt
<1> HIDE DEF m
<1>3. f \in [1 .. n - 1 -> I]
  BY <1>1
<1>4. m \in [1 .. n - 1 -> Requests] /\ DOMAIN m = 1 .. n - 1
  BY <1>1, <1>2, <1>3
<1>5. m \in Seq(Requests)
  BY <1>1, <1>4, SeqDef
<1>6. \A k, h \in DOMAIN m : f[k] = f[h] => k = h
  BY <1>1, <1>4
<1>7. ASSUME NEW j \in I PROVE \E k \in DOMAIN m : f[k] = j
  <2>1. CASE j < i
    BY <2>1, <1>1, <1>4
  <2>2. CASE j > i
    <3>1. j - 1 \in 1 .. n - 1 /\ f[j - 1] = j
      BY <2>2, <1>1
    <3> QED
      BY <3>1, <1>4
  <2> QED
    BY <2>1, <2>2, <1>1
<1>8. \A k \in DOMAIN m : m[k] = q[f[k]]
  BY <1>2, <1>4
<1>9. f \in [DOMAIN m -> I]
  BY <1>3, <1>4
<1> HIDE DEF f
<1>10. Draws(m, q, I)
  BY <1>5, <1>6, <1>7, <1>8, <1>9, Zenon DEF Draws
<1> QED
  BY <1>10 DEF m

(* The parts of TypeOK, one for each group of variables.                   *)
ProcTypes ==
    /\ pc \in [Procs -> {"off", "dead", "idle", "wait_req", "wait_lock",
                         "granted", "wait_item"}]
    /\ running \subseteq Seqs
    /\ reg_sequences \subseteq Seqs
    /\ irrelevant \subseteq Seqs

QueueTypes ==
    /\ arb_sequence_q \in Seq(Requests)
    /\ arb_completed \subseteq Ids
    /\ woken \subseteq Procs
    /\ list_changed \in BOOLEAN

ItemTypes ==
    /\ m_req_fifo \in Procs \cup {None, Orphan}
    /\ m_wait_for_item_sequence_id \in Seqs \cup {None}

FlagTypes == sequence_item_requested \in BOOLEAN /\ get_next_item_called \in BOOLEAN

CallTypes ==
    /\ dpc \in {"idle", "select", "scan", "wait", "peek", "try"}
    /\ dcall \in {"get_next_item", "try_next_item", "get", "peek"}
    /\ first \in BOOLEAN
    /\ selected \in Procs \cup {None, Orphan}
    /\ got \in {"none", "peeked", "item"}
    /\ fatal \in {"none", "SQRBADITMDN", "SQRSNDREQGNI", "null"}

(* A choice begins only while tries are left.                              *)
SelectTries == dpc = "select" => tries < m_wait_for_sequences_count

ScanTypes ==
    /\ tries \in 0 .. m_wait_for_sequences_count
    /\ scan \in Nat
    /\ dpc = "scan" => scan # 0
    /\ avail_sequences \in Seq(Nat \ {0})
    /\ is_relevant_entries \subseteq Seqs
    /\ SelectTries

TypeInv ==
    /\ LocksInv
    /\ ProcTypes /\ QueueTypes /\ ItemTypes /\ FlagTypes /\ CallTypes /\ ScanTypes

(* The invariant implies the types of TypeOK.                              *)
LEMMA TypeInvTypes == TypeInv => TypeOK
<1> SUFFICES ASSUME TypeInv PROVE TypeOK
  OBVIOUS
<1>1. lock_list \in [Seqs -> Nat]
  BY DEF TypeInv, LocksInv, Locks
<1>2. ProcTypes /\ QueueTypes /\ ItemTypes /\ FlagTypes /\ CallTypes /\ ScanTypes
  BY DEF TypeInv
<1>3. avail_sequences \in Seq(Nat)
  BY <1>2, SeqMonotonic DEF ScanTypes
<1> QED
  BY <1>1, <1>2, <1>3, Zenon
     DEF TypeOK, ProcTypes, QueueTypes, ItemTypes, FlagTypes, CallTypes, ScanTypes

(* It holds at the start.                                                  *)
LEMMA TypeInit == Init => TypeInv
<1> SUFFICES ASSUME Init PROVE TypeInv
  OBVIOUS
<1> USE DEF Init
<1>1. ProcTypes
  BY DEF ProcTypes
<1>2. QueueTypes
  BY EmptySeq, Zenon DEF QueueTypes
<1>3. ItemTypes
  BY DEF ItemTypes
<1>4. FlagTypes
  BY DEF FlagTypes
<1>5. CallTypes
  BY Zenon DEF CallTypes
<1>6. ScanTypes
  <2>1. m_wait_for_sequences_count \in Nat \ {0}
    BY BoundsAssumption
  <2>2. avail_sequences \in Seq(Nat \ {0})
    BY EmptySeq
  <2> QED
    BY <2>1, <2>2 DEF ScanTypes, SelectTries
<1> QED
  BY <1>1, <1>2, <1>3, <1>4, <1>5, <1>6, LocksInit DEF TypeInv

(***************************************************************************)
(* Requests and queues                                                     *)
(***************************************************************************)

LEMMA RequestType ==
    ASSUME NEW kind \in {"REQ", "LOCK", "PRELOCK"}, NEW p \in Procs, NEW pri \in Priorities
    PROVE  Request(kind, p, pri) \in Requests
  BY DEF Request, Requests

LEMMA AnyPriorityType == AnyPriority \in Priorities
  BY BoundsAssumption DEF AnyPriority

LEMMA IdType ==
    ASSUME NEW r \in Requests
    PROVE  Id(r) \in Ids /\ r.proc \in Procs /\ SeqOf[r.proc] \in Seqs
  BY SeqsAssumption DEF Id, Ids, Requests

(* remove_sequence_from_queues draws the entries of the other families.    *)
LEMMA WithoutDraws ==
    ASSUME NEW q \in Seq(Requests), NEW S
    PROVE  Draws(WithoutRequests(q, S), q, {i \in DOMAIN q : SeqAt(q, i) \notin Family(S)})
<1> {i \in DOMAIN q : SeqAt(q, i) \notin Family(S)} \in SUBSET DOMAIN q
  OBVIOUS
<1> QED
  BY KeptDraws DEF WithoutRequests

LEMMA WithoutType ==
    ASSUME NEW q \in Seq(Requests), NEW S
    PROVE  WithoutRequests(q, S) \in Seq(Requests)
  BY WithoutDraws DEF Draws

LEMMA RemoveType ==
    ASSUME NEW q \in Seq(Requests), NEW i \in DOMAIN q
    PROVE  RemoveAt(q, i) \in Seq(Requests)
  BY RemoveDraws DEF Draws

(* Nobody's requests are no requests.                                      *)
LEMMA WithoutNobody ==
    ASSUME NEW q \in Seq(Requests)
    PROVE  WithoutRequests(q, {}) = q
<1>1. Family({}) = {}
  BY DEF Family
<1>2. {i \in DOMAIN q : SeqAt(q, i) \notin Family({})} = DOMAIN q
  BY <1>1
<1> QED
  BY <1>2, KeptAll DEF WithoutRequests

LEMMA WithRequestType ==
    ASSUME arb_sequence_q \in Seq(Requests), NEW p \in Procs, NEW pri \in Priorities,
           NEW b \in BOOLEAN
    PROVE  WithRequest(p, pri, b) \in Seq(Requests)
<1>1. <<Request("REQ", p, pri)>> \in Seq(Requests)
  BY RequestType
<1>2. <<Request("PRELOCK", p, AnyPriority)>> \in Seq(Requests)
  BY RequestType, AnyPriorityType
<1>3. (IF b THEN <<Request("PRELOCK", p, AnyPriority)>> ELSE << >>) \in Seq(Requests)
  BY <1>2
<1> QED
  BY <1>1, <1>3 DEF WithRequest

LEMMA LockRequestType ==
    ASSUME NEW q \in Seq(Requests), NEW p \in Procs
    PROVE  /\ Append(q, Request("LOCK", p, AnyPriority)) \in Seq(Requests)
           /\ <<Request("LOCK", p, AnyPriority)>> \o q \in Seq(Requests)
<1>1. Request("LOCK", p, AnyPriority) \in Requests
  BY RequestType, AnyPriorityType
<1> QED
  BY <1>1

(* Whatever the queues become, the types of the other queue variables      *)
(* follow.                                                                 *)
LEMMA SetQueuesTypes ==
    ASSUME NEW q \in Seq(Requests), NEW l, NEW c \in SUBSET Ids, NEW ch, SetQueues(q, l, c, ch)
    PROVE  QueueTypes'
<1>1. woken' \subseteq Procs
  BY DEF SetQueues, Woken
<1>2. list_changed' \in BOOLEAN
  BY Zenon DEF SetQueues
<1>3. arb_sequence_q' \in Seq(Requests) /\ arb_completed' \subseteq Ids
  BY DEF SetQueues
<1> QED
  BY <1>1, <1>2, <1>3 DEF QueueTypes

(* Granting a lock, and all that grant_queued_locks does, leaves the       *)
(* queues well typed.                                                      *)
LEMMA GrantLockTypes ==
    ASSUME NEW q \in Seq(Requests), NEW l, NEW c \in SUBSET Ids, NEW ch, GrantLock(q, l, c, ch)
    PROVE  QueueTypes'
<1>1. CASE SetQueues(q, l, c, ch)
  BY <1>1, SetQueuesTypes
<1>2. ASSUME NEW i \in FirstOf(Grantable(q, l)),
             SetQueues(RemoveAt(q, i), [l EXCEPT ![SeqAt(q, i)] = @ + 1], c \cup {Id(q[i])}, TRUE)
      PROVE  QueueTypes'
  <2>1. i \in DOMAIN q /\ q[i] \in Requests
    BY DEF FirstOf, Grantable
  <2>2. RemoveAt(q, i) \in Seq(Requests) /\ c \cup {Id(q[i])} \in SUBSET Ids
    BY <2>1, RemoveType, IdType
  <2> QED
    BY <1>2, <2>2, SetQueuesTypes
<1> QED
  BY <1>1, <1>2 DEF GrantLock

LEMMA GrantQueuedTypes ==
    ASSUME NEW q \in Seq(Requests), NEW l, NEW c \in SUBSET Ids, NEW ch,
           grant_queued_locks(q, l, c, ch)
    PROVE  QueueTypes'
<1> DEFINE Z == LockZombies(q)
<1>1. GrantLock(WithoutRequests(q, Z), WithoutLocks(l, Z), c, ch \/ Z # {})
  BY DEF grant_queued_locks
<1> QED
  BY <1>1, WithoutType, GrantLockTypes

LEMMA RemoveTypes ==
    ASSUME QueueTypes, NEW S, remove_sequence_from_queues(S)
    PROVE  QueueTypes'
<1>1. WithoutRequests(arb_sequence_q, S) \in Seq(Requests) /\ arb_completed \in SUBSET Ids
  BY WithoutType DEF QueueTypes
<1> QED
  BY <1>1, SetQueuesTypes DEF remove_sequence_from_queues

(* A killed lock request takes its sequence out.                           *)
LEMMA GrantQueuedLeaves ==
    ASSUME NEW q, NEW l, NEW c, NEW ch, grant_queued_locks(q, l, c, ch)
    PROVE  reg_sequences' \subseteq reg_sequences
  BY DEF grant_queued_locks

(* Every action keeps the types: those of sequences and their processes    *)
(* ...                                                                     *)
LEMMA Types_Start ==
    ASSUME TypeInv, NEW s \in Seqs, Start(s)
    PROVE  TypeInv'
<1>1. ProcTypes'
  BY DEF Start, procVars, ProcTypes, TypeInv
<1>2. QueueTypes'
  BY DEF Start, queueVars, QueueTypes, TypeInv
<1>3. ItemTypes'
  BY DEF Start, itemVars, ItemTypes, TypeInv
<1>4. FlagTypes'
  BY DEF Start, flagVars, FlagTypes, TypeInv
<1>5. CallTypes'
  BY DEF Start, selectVars, CallTypes, TypeInv
<1>6. ScanTypes'
  BY DEF Start, selectVars, ScanTypes, TypeInv, SelectTries
<1> QED
  BY <1>1, <1>2, <1>3, <1>4, <1>5, <1>6, LocksNext DEF TypeInv, Next, SequenceStep

LEMMA Types_Finish ==
    ASSUME TypeInv, NEW s \in Seqs, Finish(s)
    PROVE  TypeInv'
<1>1. ProcTypes'
  BY DEF Finish, End, procVars, ProcTypes, TypeInv
<1>2. QueueTypes'
  BY RemoveTypes DEF Finish, End, QueueTypes, TypeInv
<1>3. ItemTypes'
  BY DEF Finish, End, itemVars, ItemTypes, TypeInv
<1>4. FlagTypes'
  BY DEF Finish, End, flagVars, FlagTypes, TypeInv
<1>5. CallTypes'
  BY DEF Finish, End, selectVars, CallTypes, TypeInv
<1>6. ScanTypes'
  BY DEF Finish, End, selectVars, ScanTypes, TypeInv, SelectTries
<1> QED
  BY <1>1, <1>2, <1>3, <1>4, <1>5, <1>6, LocksNext DEF TypeInv, Next, SequenceStep

LEMMA Types_Kill ==
    ASSUME TypeInv, NEW s \in Seqs, Kill(s)
    PROVE  TypeInv'
<1>1. ProcTypes'
  BY DEF Kill, End, procVars, ProcTypes, TypeInv
<1>2. QueueTypes'
  BY RemoveTypes DEF Kill, End, QueueTypes, TypeInv
<1>3. ItemTypes'
  BY DEF Kill, End, itemVars, ItemTypes, TypeInv
<1>4. FlagTypes'
  BY DEF Kill, End, flagVars, FlagTypes, TypeInv
<1>5. CallTypes'
  BY DEF Kill, End, selectVars, CallTypes, TypeInv
<1>6. ScanTypes'
  BY DEF Kill, End, selectVars, ScanTypes, TypeInv, SelectTries
<1> QED
  BY <1>1, <1>2, <1>3, <1>4, <1>5, <1>6, LocksNext DEF TypeInv, Next, SequenceStep

LEMMA Types_ChangeRelevance ==
    ASSUME TypeInv, NEW s \in Seqs, ChangeRelevance(s)
    PROVE  TypeInv'
<1>1. ProcTypes'
  BY DEF ChangeRelevance, procVars, ProcTypes, TypeInv
<1>2. QueueTypes'
  BY DEF ChangeRelevance, queueVars, QueueTypes, TypeInv
<1>3. ItemTypes'
  BY DEF ChangeRelevance, itemVars, ItemTypes, TypeInv
<1>4. FlagTypes'
  BY DEF ChangeRelevance, flagVars, FlagTypes, TypeInv
<1>5. CallTypes'
  BY DEF ChangeRelevance, selectVars, CallTypes, TypeInv
<1>6. ScanTypes'
  BY DEF ChangeRelevance, selectVars, ScanTypes, TypeInv, SelectTries
<1> QED
  BY <1>1, <1>2, <1>3, <1>4, <1>5, <1>6, LocksNext DEF TypeInv, Next, SequenceStep

LEMMA Types_wait_for_grant ==
    ASSUME TypeInv, NEW p \in Procs, NEW pri \in Priorities, NEW b \in BOOLEAN, wait_for_grant(p, pri, b)
    PROVE  TypeInv'
<1>1. ProcTypes'
  BY DEF wait_for_grant, Calls, procVars, ProcTypes, TypeInv
<1>2. QueueTypes'
  <2>1. WithRequest(p, pri, b) \in Seq(Requests) /\ arb_completed \in SUBSET Ids
    BY WithRequestType DEF TypeInv, QueueTypes
  <2> QED
    BY <2>1, SetQueuesTypes DEF wait_for_grant
<1>3. ItemTypes'
  BY DEF wait_for_grant, Calls, itemVars, ItemTypes, TypeInv
<1>4. FlagTypes'
  BY DEF wait_for_grant, Calls, flagVars, FlagTypes, TypeInv
<1>5. CallTypes'
  BY DEF wait_for_grant, Calls, selectVars, CallTypes, TypeInv
<1>6. ScanTypes'
  BY DEF wait_for_grant, Calls, selectVars, ScanTypes, TypeInv, SelectTries
<1> QED
  BY <1>1, <1>2, <1>3, <1>4, <1>5, <1>6, LocksNext DEF TypeInv, Next, SequenceStep

LEMMA Types_m_lock_req ==
    ASSUME TypeInv, NEW p \in Procs, NEW b \in BOOLEAN, m_lock_req(p, b)
    PROVE  TypeInv'
<1>1. ProcTypes'
  BY GrantQueuedLeaves DEF m_lock_req, Calls, ProcTypes, TypeInv
<1>2. QueueTypes'
  BY LockRequestType, GrantQueuedTypes DEF m_lock_req, TypeInv, QueueTypes
<1>3. ItemTypes'
  BY DEF m_lock_req, Calls, itemVars, ItemTypes, TypeInv
<1>4. FlagTypes'
  BY DEF m_lock_req, Calls, flagVars, FlagTypes, TypeInv
<1>5. CallTypes'
  BY DEF m_lock_req, Calls, selectVars, CallTypes, TypeInv
<1>6. ScanTypes'
  BY DEF m_lock_req, Calls, selectVars, ScanTypes, TypeInv, SelectTries
<1> QED
  BY <1>1, <1>2, <1>3, <1>4, <1>5, <1>6, LocksNext DEF TypeInv, Next, SequenceStep

LEMMA Types_DisableFork ==
    ASSUME TypeInv, NEW p \in Procs, DisableFork(p)
    PROVE  TypeInv'
<1>1. ProcTypes'
  BY DEF DisableFork, procVars, ProcTypes, TypeInv
<1>2. QueueTypes'
  BY DEF DisableFork, queueVars, QueueTypes, TypeInv
<1>3. ItemTypes'
  BY DEF DisableFork, itemVars, ItemTypes, TypeInv
<1>4. FlagTypes'
  BY DEF DisableFork, flagVars, FlagTypes, TypeInv
<1>5. CallTypes'
  BY DEF DisableFork, selectVars, CallTypes, TypeInv
<1>6. ScanTypes'
  BY DEF DisableFork, selectVars, ScanTypes, TypeInv, SelectTries
<1> QED
  BY <1>1, <1>2, <1>3, <1>4, <1>5, <1>6, LocksNext DEF TypeInv, Next, SequenceStep

LEMMA Types_ArbitrationCompleted ==
    ASSUME TypeInv, NEW p \in Procs, ArbitrationCompleted(p)
    PROVE  TypeInv'
<1>1. ProcTypes'
  BY DEF ArbitrationCompleted, procVars, ProcTypes, TypeInv
<1>2. QueueTypes'
  BY DEF ArbitrationCompleted, queueVars, QueueTypes, TypeInv
<1>3. ItemTypes'
  BY DEF ArbitrationCompleted, itemVars, ItemTypes, TypeInv
<1>4. FlagTypes'
  BY DEF ArbitrationCompleted, flagVars, FlagTypes, TypeInv
<1>5. CallTypes'
  BY DEF ArbitrationCompleted, selectVars, CallTypes, TypeInv
<1>6. ScanTypes'
  BY DEF ArbitrationCompleted, selectVars, ScanTypes, TypeInv, SelectTries
<1> QED
  BY <1>1, <1>2, <1>3, <1>4, <1>5, <1>6, LocksNext DEF TypeInv, Next, SequenceStep

LEMMA Types_m_unlock_req ==
    ASSUME TypeInv, NEW p \in Procs, m_unlock_req(p)
    PROVE  TypeInv'
<1>1. ProcTypes'
  BY GrantQueuedLeaves DEF m_unlock_req, ProcTypes, TypeInv
<1>2. QueueTypes'
  BY GrantQueuedTypes DEF m_unlock_req, QueueTypes, TypeInv
<1>3. ItemTypes'
  BY DEF m_unlock_req, itemVars, ItemTypes, TypeInv
<1>4. FlagTypes'
  BY DEF m_unlock_req, flagVars, FlagTypes, TypeInv
<1>5. CallTypes'
  BY DEF m_unlock_req, selectVars, CallTypes, TypeInv
<1>6. ScanTypes'
  BY DEF m_unlock_req, selectVars, ScanTypes, TypeInv, SelectTries
<1> QED
  BY <1>1, <1>2, <1>3, <1>4, <1>5, <1>6, LocksNext DEF TypeInv, Next, SequenceStep

LEMMA Types_send_request ==
    ASSUME TypeInv, NEW p \in Procs, send_request(p)
    PROVE  TypeInv'
<1>1. ProcTypes'
  BY GrantQueuedLeaves DEF send_request, ProcTypes, TypeInv
<1>2. QueueTypes'
  BY GrantQueuedTypes DEF send_request, queueVars, QueueTypes, TypeInv
<1>3. ItemTypes'
  BY DEF send_request, itemVars, ItemTypes, TypeInv
<1>4. FlagTypes'
  BY DEF send_request, flagVars, FlagTypes, TypeInv
<1>5. CallTypes'
  BY DEF send_request, selectVars, CallTypes, TypeInv
<1>6. ScanTypes'
  BY DEF send_request, selectVars, ScanTypes, TypeInv, SelectTries
<1> QED
  BY <1>1, <1>2, <1>3, <1>4, <1>5, <1>6, LocksNext DEF TypeInv, Next, SequenceStep

LEMMA Types_ItemDoneSeen ==
    ASSUME TypeInv, NEW p \in Procs, ItemDoneSeen(p)
    PROVE  TypeInv'
<1>1. ProcTypes'
  BY DEF ItemDoneSeen, procVars, ProcTypes, TypeInv
<1>2. QueueTypes'
  BY DEF ItemDoneSeen, queueVars, QueueTypes, TypeInv
<1>3. ItemTypes'
  BY DEF ItemDoneSeen, itemVars, ItemTypes, TypeInv
<1>4. FlagTypes'
  BY DEF ItemDoneSeen, flagVars, FlagTypes, TypeInv
<1>5. CallTypes'
  BY DEF ItemDoneSeen, selectVars, CallTypes, TypeInv
<1>6. ScanTypes'
  BY DEF ItemDoneSeen, selectVars, ScanTypes, TypeInv, SelectTries
<1> QED
  BY <1>1, <1>2, <1>3, <1>4, <1>5, <1>6, LocksNext DEF TypeInv, Next, SequenceStep

(* ... those of the driver ...                                             *)
LEMMA Types_CallSelect ==
    ASSUME TypeInv, NEW call \in DriverCalls, CallSelect(call)
    PROVE  TypeInv'
<1>1. ProcTypes'
  BY DEF CallSelect, procVars, ProcTypes, TypeInv
<1>2. QueueTypes'
  BY DEF CallSelect, queueVars, QueueTypes, TypeInv
<1>3. ItemTypes'
  BY DEF CallSelect, itemVars, ItemTypes, TypeInv
<1>4. FlagTypes'
  BY DEF CallSelect, flagVars, FlagTypes, TypeInv
<1>5. CallTypes'
  <2>1. call \in {"get_next_item", "try_next_item", "get", "peek"}
    BY BoundsAssumption
  <2>2. first' \in BOOLEAN
    BY DEF CallSelect
  <2>3. dpc' \in {"idle", "select", "scan", "wait", "peek", "try"}
    BY DEF CallSelect
  <2> QED
    BY <2>1, <2>2, <2>3, Zenon DEF CallSelect, CallTypes, TypeInv
<1>6. ScanTypes'
  BY BoundsAssumption DEF CallSelect, selectVars, ScanTypes, TypeInv, SelectTries
<1> QED
  BY <1>1, <1>2, <1>3, <1>4, <1>5, <1>6, LocksNext DEF TypeInv, Next, DriverStep

LEMMA Types_CallTry ==
    ASSUME TypeInv, CallTry
    PROVE  TypeInv'
<1>1. ProcTypes'
  BY DEF CallTry, procVars, ProcTypes, TypeInv
<1>2. QueueTypes'
  BY DEF CallTry, queueVars, QueueTypes, TypeInv
<1>3. ItemTypes'
  BY DEF CallTry, itemVars, ItemTypes, TypeInv
<1>4. FlagTypes'
  BY DEF CallTry, flagVars, FlagTypes, TypeInv
<1>5. CallTypes'
  BY DEF CallTry, selectVars, CallTypes, TypeInv
<1>6. ScanTypes'
  BY BoundsAssumption DEF CallTry, selectVars, ScanTypes, TypeInv, SelectTries
<1> QED
  BY <1>1, <1>2, <1>3, <1>4, <1>5, <1>6, LocksNext DEF TypeInv, Next, DriverStep

LEMMA Types_StartScan ==
    ASSUME TypeInv, StartScan
    PROVE  TypeInv'
<1>1. ProcTypes'
  BY GrantQueuedLeaves DEF StartScan, BeginScan, ProcTypes, TypeInv
<1>2. QueueTypes'
  BY GrantQueuedTypes DEF StartScan, QueueTypes, TypeInv
<1>3. ItemTypes'
  BY DEF StartScan, BeginScan, itemVars, ItemTypes, TypeInv
<1>4. FlagTypes'
  BY DEF StartScan, BeginScan, flagVars, FlagTypes, TypeInv
<1>5. CallTypes'
  BY DEF StartScan, BeginScan, selectVars, CallTypes, TypeInv
<1>6. ScanTypes'
  <2>1. tries < m_wait_for_sequences_count /\ m_wait_for_sequences_count \in Nat
    BY BoundsAssumption DEF StartScan, TypeInv, ScanTypes, SelectTries
  <2>2. avail_sequences' \in Seq(Nat \ {0})
    BY EmptySeq DEF StartScan, BeginScan
  <2> QED
    BY <2>1, <2>2 DEF StartScan, BeginScan, TypeInv, ScanTypes, SelectTries
<1> QED
  BY <1>1, <1>2, <1>3, <1>4, <1>5, <1>6, LocksNext DEF TypeInv, Next, DriverStep, Choose

LEMMA Types_ScanZombie ==
    ASSUME TypeInv, ScanZombie
    PROVE  TypeInv'
<1>1. ProcTypes'
  BY DEF ScanZombie, procVars, ProcTypes, TypeInv
<1>2. QueueTypes'
  BY RemoveTypes DEF ScanZombie, QueueTypes, TypeInv
<1>3. ItemTypes'
  BY DEF ScanZombie, itemVars, ItemTypes, TypeInv
<1>4. FlagTypes'
  BY DEF ScanZombie, flagVars, FlagTypes, TypeInv
<1>5. CallTypes'
  BY DEF ScanZombie, selectVars, CallTypes, TypeInv
<1>6. ScanTypes'
  BY DEF ScanZombie, selectVars, ScanTypes, TypeInv, SelectTries
<1> QED
  BY <1>1, <1>2, <1>3, <1>4, <1>5, <1>6, LocksNext DEF TypeInv, Next, DriverStep, Choose

LEMMA Types_ScanNext ==
    ASSUME TypeInv, ScanNext
    PROVE  TypeInv'
<1>1. ProcTypes'
  BY DEF ScanNext, procVars, ProcTypes, TypeInv
<1>2. QueueTypes'
  BY DEF ScanNext, queueVars, QueueTypes, TypeInv
<1>3. ItemTypes'
  BY DEF ScanNext, itemVars, ItemTypes, TypeInv
<1>4. FlagTypes'
  BY DEF ScanNext, flagVars, FlagTypes, TypeInv
<1>5. CallTypes'
  BY DEF ScanNext, selectVars, CallTypes, TypeInv
<1>6. ScanTypes'
  <2>1. scan \in Nat \ {0} /\ avail_sequences \in Seq(Nat \ {0})
    BY DEF ScanNext, Scanning, TypeInv, ScanTypes
  <2>2. avail_sequences' \in Seq(Nat \ {0}) /\ scan' = scan + 1
    BY <2>1 DEF ScanNext
  <2>3. tries' = tries /\ dpc' = "scan" /\ is_relevant_entries' = is_relevant_entries
    BY DEF ScanNext, Scanning
  <2> QED
    BY <2>1, <2>2, <2>3 DEF ScanTypes, TypeInv, SelectTries
<1> QED
  BY <1>1, <1>2, <1>3, <1>4, <1>5, <1>6, LocksNext DEF TypeInv, Next, DriverStep, Choose

LEMMA Types_Grant ==
    ASSUME TypeInv, NEW i \in DOMAIN arb_sequence_q, Grant(i)
    PROVE  TypeInv'
<1>1. ProcTypes'
  BY DEF Grant, procVars, ProcTypes, TypeInv
<1>2. QueueTypes'
  <2>1. arb_sequence_q \in Seq(Requests) /\ arb_sequence_q[i] \in Requests
    BY DEF TypeInv, QueueTypes
  <2>2. RemoveAt(arb_sequence_q, i) \in Seq(Requests)
    BY <2>1, RemoveType
  <2>3. arb_completed \cup {Id(arb_sequence_q[i])} \in SUBSET Ids
    BY <2>1, IdType DEF TypeInv, QueueTypes
  <2> QED
    BY <2>2, <2>3, SetQueuesTypes DEF Grant
<1>3. ItemTypes'
  BY DEF Grant, itemVars, ItemTypes, TypeInv
<1>4. FlagTypes'
  BY DEF Grant, flagVars, FlagTypes, TypeInv
<1>5. CallTypes'
  <2>1. arb_sequence_q[i].proc \in Procs
    BY IdType DEF TypeInv, QueueTypes
  <2> QED
    BY <2>1 DEF Grant, CallTypes, TypeInv
<1>6. ScanTypes'
  <2>1. m_wait_for_sequences_count \in Nat
    BY BoundsAssumption
  <2>2. avail_sequences' \in Seq(Nat \ {0})
    BY EmptySeq DEF Grant
  <2> QED
    BY <2>1, <2>2 DEF Grant, TypeInv, ScanTypes, SelectTries
<1> QED
  BY <1>1, <1>2, <1>3, <1>4, <1>5, <1>6, GrantKeeps
     DEF TypeInv, Next, SequenceStep, DriverStep, Choose

LEMMA Types_GrantNothing ==
    ASSUME TypeInv, GrantNothing
    PROVE  TypeInv'
<1>1. ProcTypes'
  BY DEF GrantNothing, procVars, ProcTypes, TypeInv
<1>2. QueueTypes'
  BY DEF GrantNothing, queueVars, QueueTypes, TypeInv
<1>3. ItemTypes'
  BY DEF GrantNothing, itemVars, ItemTypes, TypeInv
<1>4. FlagTypes'
  BY DEF GrantNothing, flagVars, FlagTypes, TypeInv
<1>5. CallTypes'
  BY DEF GrantNothing, selectVars, CallTypes, TypeInv
<1>6. ScanTypes'
  <2>1. m_wait_for_sequences_count \in Nat
    BY BoundsAssumption
  <2>2. avail_sequences' \in Seq(Nat \ {0})
    BY EmptySeq DEF GrantNothing
  <2>3. is_relevant_entries' \subseteq Seqs
    BY IdType DEF GrantNothing, SeqAt, TypeInv, QueueTypes
  <2> QED
    BY <2>1, <2>2, <2>3 DEF GrantNothing, TypeInv, ScanTypes, SelectTries
<1> QED
  BY <1>1, <1>2, <1>3, <1>4, <1>5, <1>6, GrantKeeps
     DEF TypeInv, Next, SequenceStep, DriverStep, Choose

LEMMA Types_m_wait_for_available_sequence ==
    ASSUME TypeInv, m_wait_for_available_sequence
    PROVE  TypeInv'
<1>1. ProcTypes'
  BY DEF m_wait_for_available_sequence, procVars, ProcTypes, TypeInv
<1>2. QueueTypes'
  BY DEF m_wait_for_available_sequence, queueVars, QueueTypes, TypeInv
<1>3. ItemTypes'
  BY DEF m_wait_for_available_sequence, itemVars, ItemTypes, TypeInv
<1>4. FlagTypes'
  BY DEF m_wait_for_available_sequence, flagVars, FlagTypes, TypeInv
<1>5. CallTypes'
  BY DEF m_wait_for_available_sequence, selectVars, CallTypes, TypeInv
<1>6. ScanTypes'
  BY BoundsAssumption
     DEF m_wait_for_available_sequence, selectVars, ScanTypes, TypeInv, SelectTries
<1> QED
  BY <1>1, <1>2, <1>3, <1>4, <1>5, <1>6, LocksNext DEF TypeInv, Next, DriverStep

LEMMA Types_PeekItem ==
    ASSUME TypeInv, PeekItem
    PROVE  TypeInv'
<1>1. ProcTypes'
  BY GrantQueuedLeaves DEF PeekItem, item_done, ProcTypes, TypeInv
<1>2. QueueTypes'
  BY GrantQueuedTypes
     DEF PeekItem, item_done, FlagsReset, ItemPeeked, queueVars, QueueTypes, TypeInv
<1>3. ItemTypes'
  BY SeqsAssumption
     DEF PeekItem, item_done, FlagsReset, ItemPeeked, itemVars, ItemTypes, TypeInv
<1>4. FlagTypes'
  BY DEF PeekItem, item_done, FlagsReset, ItemPeeked, flagVars, FlagTypes, TypeInv
<1>5. CallTypes'
  BY DEF PeekItem, item_done, FlagsReset, ItemPeeked, selectVars, CallTypes, TypeInv
<1>6. ScanTypes'
  BY
     DEF PeekItem, item_done, FlagsReset, ItemPeeked, selectVars, ScanTypes, TypeInv, SelectTries
<1> QED
  BY <1>1, <1>2, <1>3, <1>4, <1>5, <1>6, LocksNext DEF TypeInv, Next, DriverStep

LEMMA Types_Reselect ==
    ASSUME TypeInv, Reselect
    PROVE  TypeInv'
<1>1. ProcTypes'
  BY DEF Reselect, procVars, ProcTypes, TypeInv
<1>2. QueueTypes'
  BY DEF Reselect, queueVars, QueueTypes, TypeInv
<1>3. ItemTypes'
  BY DEF Reselect, itemVars, ItemTypes, TypeInv
<1>4. FlagTypes'
  BY DEF Reselect, flagVars, FlagTypes, TypeInv
<1>5. CallTypes'
  BY DEF Reselect, selectVars, CallTypes, TypeInv
<1>6. ScanTypes'
  BY BoundsAssumption DEF Reselect, selectVars, ScanTypes, TypeInv, SelectTries
<1> QED
  BY <1>1, <1>2, <1>3, <1>4, <1>5, <1>6, LocksNext DEF TypeInv, Next, DriverStep

LEMMA Types_TryFound ==
    ASSUME TypeInv, TryFound
    PROVE  TypeInv'
<1>1. ProcTypes'
  BY DEF TryFound, procVars, ProcTypes, TypeInv
<1>2. QueueTypes'
  BY DEF TryFound, queueVars, QueueTypes, TypeInv
<1>3. ItemTypes'
  BY DEF TryFound, itemVars, ItemTypes, TypeInv
<1>4. FlagTypes'
  BY DEF TryFound, flagVars, FlagTypes, TypeInv
<1>5. CallTypes'
  BY DEF TryFound, selectVars, CallTypes, TypeInv
<1>6. ScanTypes'
  BY DEF TryFound, selectVars, ScanTypes, TypeInv, SelectTries
<1> QED
  BY <1>1, <1>2, <1>3, <1>4, <1>5, <1>6, LocksNext DEF TypeInv, Next, DriverStep

LEMMA Types_TryAgain ==
    ASSUME TypeInv, TryAgain
    PROVE  TypeInv'
<1>1. ProcTypes'
  BY GrantQueuedLeaves DEF TryAgain, BeginScan, ProcTypes, TypeInv
<1>2. QueueTypes'
  BY GrantQueuedTypes DEF TryAgain, QueueTypes, TypeInv
<1>3. ItemTypes'
  BY DEF TryAgain, BeginScan, itemVars, ItemTypes, TypeInv
<1>4. FlagTypes'
  BY DEF TryAgain, BeginScan, flagVars, FlagTypes, TypeInv
<1>5. CallTypes'
  BY DEF TryAgain, BeginScan, selectVars, CallTypes, TypeInv
<1>6. ScanTypes'
  <2>1. m_wait_for_sequences_count \in Nat
    BY BoundsAssumption
  <2>2. avail_sequences' \in Seq(Nat \ {0})
    BY EmptySeq DEF TryAgain, BeginScan
  <2> QED
    BY <2>1, <2>2 DEF TryAgain, BeginScan, TypeInv, ScanTypes, SelectTries
<1> QED
  BY <1>1, <1>2, <1>3, <1>4, <1>5, <1>6, LocksNext DEF TypeInv, Next, DriverStep

LEMMA Types_TryBlocked ==
    ASSUME TypeInv, TryBlocked
    PROVE  TypeInv'
<1>1. ProcTypes'
  BY DEF TryBlocked, procVars, ProcTypes, TypeInv
<1>2. QueueTypes'
  BY DEF TryBlocked, queueVars, QueueTypes, TypeInv
<1>3. ItemTypes'
  BY DEF TryBlocked, itemVars, ItemTypes, TypeInv
<1>4. FlagTypes'
  BY DEF TryBlocked, flagVars, FlagTypes, TypeInv
<1>5. CallTypes'
  BY DEF TryBlocked, selectVars, CallTypes, TypeInv
<1>6. ScanTypes'
  BY DEF TryBlocked, selectVars, ScanTypes, TypeInv, SelectTries
<1> QED
  BY <1>1, <1>2, <1>3, <1>4, <1>5, <1>6, LocksNext DEF TypeInv, Next, DriverStep

LEMMA Types_ItemDone ==
    ASSUME TypeInv, ItemDone
    PROVE  TypeInv'
<1>1. ProcTypes'
  BY GrantQueuedLeaves DEF ItemDone, item_done, ProcTypes, TypeInv
<1>2. QueueTypes'
  BY GrantQueuedTypes DEF ItemDone, item_done, FlagsReset, queueVars, QueueTypes, TypeInv
<1>3. ItemTypes'
  BY SeqsAssumption DEF ItemDone, item_done, FlagsReset, itemVars, ItemTypes, TypeInv
<1>4. FlagTypes'
  BY DEF ItemDone, item_done, FlagsReset, flagVars, FlagTypes, TypeInv
<1>5. CallTypes'
  BY DEF ItemDone, item_done, FlagsReset, selectVars, CallTypes, TypeInv
<1>6. ScanTypes'
  BY DEF ItemDone, item_done, FlagsReset, selectVars, ScanTypes, TypeInv, SelectTries
<1> QED
  BY <1>1, <1>2, <1>3, <1>4, <1>5, <1>6, LocksNext DEF TypeInv, Next, DriverStep

(* ... and stop_sequences.                                                 *)
LEMMA Types_stop_sequences ==
    ASSUME TypeInv, stop_sequences
    PROVE  TypeInv'
<1>1. ProcTypes'
  BY DEF stop_sequences, End, procVars, ProcTypes, TypeInv
<1>2. QueueTypes'
  BY RemoveTypes DEF stop_sequences, End, QueueTypes, TypeInv
<1>3. ItemTypes'
  BY DEF stop_sequences, End, itemVars, ItemTypes, TypeInv
<1>4. FlagTypes'
  BY DEF stop_sequences, End, flagVars, FlagTypes, TypeInv
<1>5. CallTypes'
  BY DEF stop_sequences, End, selectVars, CallTypes, TypeInv
<1>6. ScanTypes'
  BY DEF stop_sequences, End, selectVars, ScanTypes, TypeInv, SelectTries
<1> QED
  BY <1>1, <1>2, <1>3, <1>4, <1>5, <1>6, LocksNext DEF TypeInv, Next

(* Indices are indices.                                                    *)
LEMMA ScanIndex ==
    ASSUME TypeInv, Scanning, scan <= Len(arb_sequence_q)
    PROVE  scan \in DOMAIN arb_sequence_q
<1>1. scan \in Nat /\ scan # 0 /\ arb_sequence_q \in Seq(Requests)
  BY DEF TypeInv, ScanTypes, QueueTypes, Scanning
<1> QED
  BY <1>1

(* What the loop has collected are finitely many indices.                  *)
LEMMA IndicesType ==
    ASSUME TypeInv
    PROVE  /\ Indices \subseteq Nat \ {0} /\ IsFiniteSet(Indices)
           /\ Sound \subseteq DOMAIN arb_sequence_q
<1> DEFINE n == Len(avail_sequences)
<1>1. avail_sequences \in Seq(Nat \ {0}) /\ arb_sequence_q \in Seq(Requests)
  BY DEF TypeInv, ScanTypes, QueueTypes
<1>2. n \in Nat /\ DOMAIN avail_sequences = 1 .. n
  BY <1>1
<1>3. Indices \subseteq Nat \ {0}
  BY <1>1 DEF Indices
<1>4. avail_sequences \in Surjection(1 .. n, Indices)
  BY <1>1, <1>2 DEF Surjection, Indices
<1>5. IsFiniteSet(1 .. n)
  BY <1>2, FS_Interval
<1>6. IsFiniteSet(Indices)
  BY <1>4, <1>5, FS_Surjection
<1>7. ASSUME NEW i \in Sound PROVE i \in DOMAIN arb_sequence_q
  <2>1. i \in Nat /\ i # 0 /\ i <= Len(arb_sequence_q)
    BY <1>3 DEF Sound
  <2> QED
    BY <1>1, <2>1
<1> QED
  BY <1>3, <1>6, <1>7

(* What the end of the loop does: nothing to grant, the null it reads, or  *)
(* a grant of one of the indices in the queue.                             *)
LEMMA ScanEndCases ==
    ASSUME TypeInv, ScanEnd
    PROVE  \/ GrantNothing
           \/ Sound # Indices /\ fatal' = "null" /\ UNCHANGED <<procVars, queueVars, itemVars,
                                                              flagVars, selectVars, got>>
           \/ \E i \in Sound : /\ Grant(i)
                               /\ Cardinality(Indices) = 1 => Indices = {i}
                               /\ Cardinality(Indices) # 1 => i \in Choices
<1>1. ASSUME NEW i \in Indices, Cardinality(Indices) = 1, Sound # {}
      PROVE  i \in Sound /\ Indices = {i}
  <2>1. \E x : Indices = {x}
    BY <1>1, IndicesType, FS_Singleton
  <2> QED
    BY <1>1, <2>1 DEF Sound
<1>2. Choices \subseteq Sound
  BY DEF Choices, Highest
<1> QED
  BY <1>1, <1>2 DEF ScanEnd

(* The end of the loop keeps the types, whatever it returns.               *)
LEMMA EndTypes ==
    ASSUME TypeInv, ScanEnd
    PROVE  TypeInv'
<1>1. CASE GrantNothing
  BY <1>1, Types_GrantNothing
<1>2. CASE fatal' = "null" /\ UNCHANGED <<procVars, queueVars, itemVars, flagVars, selectVars, got>>
  <2>1. ProcTypes' /\ ItemTypes' /\ FlagTypes'
    BY <1>2 DEF TypeInv, ProcTypes, ItemTypes, FlagTypes, procVars, itemVars, flagVars
  <2>2. QueueTypes'
    BY <1>2 DEF TypeInv, QueueTypes, queueVars
  <2>3. CallTypes'
    BY <1>2 DEF TypeInv, CallTypes, selectVars
  <2>4. ScanTypes'
    BY <1>2 DEF TypeInv, ScanTypes, SelectTries, selectVars
  <2>5. LocksInv'
    BY <1>2 DEF TypeInv, LocksInv, queueVars
  <2> QED
    BY <2>1, <2>2, <2>3, <2>4, <2>5 DEF TypeInv
<1>3. CASE \E i \in Sound : Grant(i)
  BY <1>3, IndicesType, Types_Grant
<1> QED
  BY <1>1, <1>2, <1>3, ScanEndCases

LEMMA TypeSequence == TypeInv /\ SequenceStep => TypeInv'
  BY Types_Start, Types_Finish, Types_Kill, Types_ChangeRelevance, Types_wait_for_grant,
     Types_m_lock_req, Types_DisableFork, Types_ArbitrationCompleted, Types_m_unlock_req,
     Types_send_request, Types_ItemDoneSeen
     DEF SequenceStep

LEMMA TypeChoose == TypeInv /\ Choose => TypeInv'
<1> SUFFICES ASSUME TypeInv, Choose PROVE TypeInv'
  OBVIOUS
<1>1. CASE StartScan
  BY <1>1, Types_StartScan
<1>2. CASE ScanZombie
  BY <1>2, Types_ScanZombie
<1>3. CASE ScanTake
  BY <1>3, Types_Grant, ScanIndex DEF ScanTake
<1>4. CASE ScanNext
  BY <1>4, Types_ScanNext
<1>5. CASE ScanEnd
  BY <1>5, EndTypes
<1> QED
  BY <1>1, <1>2, <1>3, <1>4, <1>5 DEF Choose

LEMMA TypeDriver == TypeInv /\ DriverStep => TypeInv'
  BY TypeChoose, Types_CallSelect, Types_CallTry, Types_m_wait_for_available_sequence,
     Types_PeekItem, Types_Reselect, Types_TryFound, Types_TryAgain, Types_TryBlocked,
     Types_ItemDone
     DEF DriverStep

(* Every step keeps the types.                                             *)
LEMMA TypeNext == TypeInv /\ [Next]_vars => TypeInv'
<1> SUFFICES ASSUME TypeInv, [Next]_vars PROVE TypeInv'
  OBVIOUS
<1>1. CASE SequenceStep
  BY <1>1, TypeSequence
<1>2. CASE DriverStep
  BY <1>2, TypeDriver
<1>3. CASE stop_sequences
  BY <1>3, Types_stop_sequences
<1>4. CASE UNCHANGED vars
  <2> USE <1>4 DEF vars, TypeInv
  <2>1. ProcTypes'
    BY DEF ProcTypes, procVars
  <2>2. QueueTypes'
    BY DEF QueueTypes, queueVars
  <2>3. ItemTypes' /\ FlagTypes'
    BY DEF ItemTypes, FlagTypes, itemVars, flagVars
  <2>4. CallTypes'
    BY DEF CallTypes, selectVars
  <2>5. ScanTypes'
    BY DEF ScanTypes, SelectTries, selectVars
  <2> QED
    BY <2>1, <2>2, <2>3, <2>4, <2>5, LocksNext
<1> QED
  BY <1>1, <1>2, <1>3, <1>4 DEF Next

(* TypeOK holds on every sequencer.  Part of it is not obvious: the        *)
(* indices of the loop of m_choose_next_request, the number of locks that  *)
(* m_unlock_req takes away, and the tries of m_select_sequence.            *)
THEOREM SequencerTypes == Spec => []TypeOK
<1> QED
  BY TypeInit, TypeNext, TypeInvTypes, PTL DEF Spec

(***************************************************************************)
(* The queue and the processes that wait                                   *)
(***************************************************************************)

(* The process of a sequence that does not run is off; so are its locks.   *)
Alive(at, r) == \A p \in Procs : at[p] # "off" => SeqOf[p] \in r

Held(l, r) == \A s \in Seqs : l[s] > 0 => s \in r

(* A queued request is somebody's, who waits for it or was killed while he *)
(* did, and it has not been granted already.  (Nobody waits for the lock   *)
(* of wait_for_grant, so it says nothing of its process.)                  *)
EntryOK(r, c, at) ==
    /\ at[r.proc] # "off"
    /\ r.request # "PRELOCK" => Id(r) \notin c
    /\ r.request = "REQ" => at[r.proc] \in {"wait_req", "dead"}
    /\ r.request = "LOCK" => at[r.proc] \in {"wait_lock", "dead"}

QueueOK(q, c, at) ==
    /\ \A i \in DOMAIN q : EntryOK(q[i], c, at)
    /\ \A i, j \in DOMAIN q : q[i].request # "PRELOCK" /\ Id(q[i]) = Id(q[j]) => i = j

(* A completed request is that of a process that waits for it or is gone.  *)
DoneOK(c, at) ==
    \A p \in Procs :
        /\ <<"REQ", p>> \in c => at[p] \in {"wait_req", "dead", "off"}
        /\ <<"LOCK", p>> \in c => at[p] \in {"wait_lock", "dead", "off"}

WokenOK(w, c, at) == \A p \in w : Awaited(at, p) \cap c # {}

QueueInv ==
    /\ Alive(pc, running)
    /\ Held(lock_list, running)
    /\ QueueOK(arb_sequence_q, arb_completed, pc)
    /\ DoneOK(arb_completed, pc)
    /\ WokenOK(woken, arb_completed, pc)

(* Whatever is drawn from a queue that is in order is in order.            *)
LEMMA DrawsOK ==
    ASSUME NEW q \in Seq(Requests), NEW I \in SUBSET DOMAIN q, NEW m, Draws(m, q, I), NEW c, NEW at,
           QueueOK(q, c, at)
    PROVE  QueueOK(m, c, at)
<1>1. PICK f \in [DOMAIN m -> I] :
         /\ \A k, h \in DOMAIN m : f[k] = f[h] => k = h
         /\ \A k \in DOMAIN m : m[k] = q[f[k]]
  BY Zenon DEF Draws
<1>2. \A k \in DOMAIN m : f[k] \in DOMAIN q
  BY <1>1
<1> QED
  BY <1>1, <1>2 DEF QueueOK

LEMMA WithoutOK ==
    ASSUME NEW q \in Seq(Requests), NEW S, NEW c, NEW at, QueueOK(q, c, at)
    PROVE  QueueOK(WithoutRequests(q, S), c, at)
<1> DEFINE I == {i \in DOMAIN q : SeqAt(q, i) \notin Family(S)}
<1>1. I \in SUBSET DOMAIN q /\ Draws(WithoutRequests(q, S), q, I)
  BY WithoutDraws
<1> QED
  BY <1>1, DrawsOK

LEMMA WithoutHeld ==
    ASSUME NEW l \in Locks, NEW S, NEW r, Held(l, r)
    PROVE  Held(WithoutLocks(l, S), r)
  BY DEF Held, WithoutLocks, Locks

(* SetQueues wakes only processes whose request is completed.              *)
LEMMA SetQueuesOK ==
    ASSUME NEW q, NEW l, NEW c, NEW ch, SetQueues(q, l, c, ch),
           Alive(pc', running'), Held(l, running'), QueueOK(q, c, pc'), DoneOK(c, pc')
    PROVE  QueueInv'
<1>1. arb_sequence_q' = q /\ lock_list' = l /\ arb_completed' = c /\ woken' = Woken(c, ch)
  BY DEF SetQueues
<1>2. WokenOK(Woken(c, ch), c, pc')
  BY DEF WokenOK, Woken
<1> QED
  BY <1>1, <1>2 DEF QueueInv

(* A request that is granted leaves the queue and is completed.            *)
LEMMA CompleteOK ==
    ASSUME NEW q \in Seq(Requests), NEW i \in DOMAIN q, NEW c, NEW at,
           QueueOK(q, c, at), DoneOK(c, at)
    PROVE  /\ QueueOK(RemoveAt(q, i), c \cup {Id(q[i])}, at)
           /\ DoneOK(c \cup {Id(q[i])}, at)
<1> DEFINE r == q[i]
           m == RemoveAt(q, i)
           d == c \cup {Id(r)}
           I == DOMAIN q \ {i}
<1>1. r \in Requests /\ EntryOK(r, c, at)
  BY DEF QueueOK
<1>2. DoneOK(d, at)
  <2>1. ASSUME NEW p \in Procs, <<"LOCK", p>> = Id(r)
        PROVE  at[p] \in {"wait_lock", "dead"}
    BY <1>1, <2>1 DEF EntryOK, Id
  <2>2. ASSUME NEW p \in Procs, <<"REQ", p>> = Id(r)
        PROVE  at[p] \in {"wait_req", "dead"}
    BY <1>1, <2>2 DEF EntryOK, Id
  <2> QED
    BY <2>1, <2>2 DEF DoneOK
<1>3. Draws(m, q, I) /\ I \in SUBSET DOMAIN q
  BY RemoveDraws
<1>4. QueueOK(m, c, at)
  BY <1>3, DrawsOK
<1>5. ASSUME NEW k \in DOMAIN m, m[k].request # "PRELOCK"
      PROVE  Id(m[k]) # Id(r)
  <2>1. PICK j \in I : m[k] = q[j]
    BY <1>3, Zenon DEF Draws
  <2> QED
    BY <1>5, <2>1 DEF QueueOK
<1>6. \A k \in DOMAIN m : EntryOK(m[k], d, at)
  BY <1>4, <1>5 DEF QueueOK, EntryOK
<1>7. QueueOK(m, d, at)
  BY <1>4, <1>6 DEF QueueOK
<1> QED
  BY <1>2, <1>7

(* A lock that is granted was asked for by a process that runs.            *)
LEMMA GrantLockOK ==
    ASSUME NEW q \in Seq(Requests), NEW l \in Locks, NEW c, NEW ch, GrantLock(q, l, c, ch),
           Alive(pc', running'), Held(l, running'), QueueOK(q, c, pc'), DoneOK(c, pc')
    PROVE  QueueInv'
<1>1. CASE SetQueues(q, l, c, ch)
  BY <1>1, SetQueuesOK
<1>2. ASSUME NEW i \in FirstOf(Grantable(q, l)),
             SetQueues(RemoveAt(q, i), [l EXCEPT ![SeqAt(q, i)] = @ + 1], c \cup {Id(q[i])}, TRUE)
      PROVE  QueueInv'
  <2>1. i \in DOMAIN q
    BY DEF FirstOf, Grantable
  <2>2. EntryOK(q[i], c, pc')
    BY <2>1 DEF QueueOK
  <2>3. Held([l EXCEPT ![SeqAt(q, i)] = @ + 1], running')
    <3>1. SeqAt(q, i) \in running'
      BY <2>1, <2>2, IdType DEF Alive, EntryOK, SeqAt
    <3>2. l \in [Seqs -> Nat]
      BY DEF Locks
    <3> QED
      BY <3>1, <3>2 DEF Held
  <2> QED
    BY <1>2, <2>1, <2>3, CompleteOK, SetQueuesOK
<1> QED
  BY <1>1, <1>2 DEF GrantLock

(* So do all the locks grant_queued_locks grants, and the zombies it       *)
(* removes.                                                                *)
LEMMA GrantQueuedOK ==
    ASSUME NEW q \in Seq(Requests), NEW l \in Locks, NEW c, NEW ch,
           grant_queued_locks(q, l, c, ch),
           Alive(pc', running'), Held(l, running'), QueueOK(q, c, pc'), DoneOK(c, pc')
    PROVE  QueueInv'
<1> DEFINE Z == LockZombies(q)
           m == WithoutRequests(q, Z)
           k == WithoutLocks(l, Z)
<1>1. GrantLock(m, k, c, ch \/ Z # {})
  BY DEF grant_queued_locks
<1>2. m \in Seq(Requests) /\ k \in Locks
  BY WithoutType, WithoutNested
<1>3. QueueOK(m, c, pc') /\ Held(k, running')
  BY WithoutOK, WithoutHeld
<1> HIDE DEF m, k
<1> QED
  BY <1>1, <1>2, <1>3, GrantLockOK

(* What a sequence has in the queues leaves with it.                       *)
LEMMA EndOK ==
    ASSUME TypeInv, QueueInv, NEW S, End(S)
    PROVE  QueueInv'
<1> DEFINE m == WithoutRequests(arb_sequence_q, S)
           l == WithoutLocks(lock_list, S)
           I == {i \in DOMAIN arb_sequence_q : SeqAt(arb_sequence_q, i) \notin Family(S)}
<1>1. arb_sequence_q \in Seq(Requests) /\ lock_list \in [Seqs -> Nat]
  BY DEF TypeInv, QueueTypes, LocksInv, Locks
<1>2. pc' = [p \in Procs |-> IF SeqOf[p] \in S THEN "off" ELSE pc[p]] /\ running' = running \ S
  BY DEF End
<1>3. Alive(pc', running')
  BY <1>2 DEF QueueInv, Alive
<1>4. \A s \in Seqs : s \in S => s \in Family(S)
  BY DEF Family
<1>5. Held(l, running')
  BY <1>1, <1>2, <1>4 DEF QueueInv, Held, WithoutLocks
<1>6. DoneOK(arb_completed, pc')
  BY <1>2 DEF QueueInv, DoneOK
<1>7. Draws(m, arb_sequence_q, I) /\ I \in SUBSET DOMAIN arb_sequence_q
  BY <1>1, WithoutDraws
<1>8. QueueOK(m, arb_completed, pc)
  BY <1>1, <1>7, DrawsOK DEF QueueInv
<1>9. ASSUME NEW k \in DOMAIN m PROVE pc'[m[k].proc] = pc[m[k].proc]
  <2>1. PICK i \in I : m[k] = arb_sequence_q[i]
    BY <1>7, Zenon DEF Draws
  <2>2. m[k].proc \in Procs /\ SeqOf[m[k].proc] \in Seqs
    BY <1>1, <2>1, IdType
  <2> QED
    BY <1>2, <1>4, <2>1, <2>2 DEF SeqAt
<1>10. QueueOK(m, arb_completed, pc')
  BY <1>8, <1>9 DEF QueueOK, EntryOK
<1> HIDE DEF m, l
<1>11. PICK ch : SetQueues(m, l, arb_completed, ch)
  BY DEF End, remove_sequence_from_queues, m, l
<1> QED
  BY <1>3, <1>5, <1>6, <1>10, <1>11, SetQueuesOK

(* The queue grows at its back or at its front.                            *)
LEMMA AddOK ==
    ASSUME NEW q \in Seq(Requests), NEW r \in Requests, NEW c, NEW at,
           QueueOK(q, c, at), EntryOK(r, c, at),
           r.request # "PRELOCK" => \A i \in DOMAIN q : Id(q[i]) # Id(r)
    PROVE  QueueOK(q \o <<r>>, c, at) /\ QueueOK(<<r>> \o q, c, at)
<1> DEFINE n == Len(q)
           b == q \o <<r>>
           f == <<r>> \o q
<1>1. n \in Nat /\ DOMAIN q = 1 .. n
  OBVIOUS
<1>2. DOMAIN b = 1 .. n + 1 /\ (\A i \in 1 .. n : b[i] = q[i]) /\ b[n + 1] = r
  OBVIOUS
<1>3. DOMAIN f = 1 .. n + 1 /\ f[1] = r /\ \A i \in 1 .. n + 1 : i # 1 => i - 1 \in 1 .. n /\ f[i] = q[i - 1]
  OBVIOUS
<1>4. QueueOK(b, c, at)
  <2> HIDE DEF b
  <2>1. \A i \in DOMAIN b : i # n + 1 => i \in DOMAIN q /\ b[i] = q[i]
    BY <1>1, <1>2
  <2> HIDE DEF n
  <2>2. \A i \in DOMAIN b : EntryOK(b[i], c, at)
    BY <1>2, <2>1 DEF QueueOK
  <2>3. ASSUME NEW i \in DOMAIN b, NEW j \in DOMAIN b, b[i].request # "PRELOCK", Id(b[i]) = Id(b[j])
        PROVE  i = j
    <3>1. b[i].request = b[j].request
      BY <2>3 DEF Id
    <3>2. CASE i = n + 1 /\ j # n + 1
      BY <1>2, <2>1, <2>3, <3>1, <3>2
    <3>3. CASE i # n + 1 /\ j = n + 1
      BY <1>2, <2>1, <2>3, <3>1, <3>3
    <3>4. CASE i # n + 1 /\ j # n + 1
      BY <2>1, <2>3, <3>4 DEF QueueOK
    <3> QED
      BY <3>2, <3>3, <3>4
  <2> QED
    BY <2>2, <2>3 DEF QueueOK
<1>5. QueueOK(f, c, at)
  <2> HIDE DEF f, n
  <2>1. \A i \in DOMAIN f : EntryOK(f[i], c, at)
    BY <1>1, <1>3 DEF QueueOK
  <2>2. ASSUME NEW i \in DOMAIN f, NEW j \in DOMAIN f, f[i].request # "PRELOCK", Id(f[i]) = Id(f[j])
        PROVE  i = j
    <3>1. CASE i = 1 /\ j = 1
      BY <3>1
    <3>2. CASE i = 1 /\ j # 1
      <4>1. j - 1 \in DOMAIN q /\ f[j] = q[j - 1] /\ f[i] = r
        BY <1>1, <1>3, <3>2
      <4> QED
        BY <2>2, <4>1
    <3>3. CASE i # 1 /\ j = 1
      <4>1. i - 1 \in DOMAIN q /\ f[i] = q[i - 1] /\ f[j] = r
        BY <1>1, <1>3, <3>3
      <4>2. r.request = f[i].request
        BY <2>2, <4>1 DEF Id
      <4> QED
        BY <2>2, <4>1, <4>2
    <3>4. CASE i # 1 /\ j # 1
      <4>1. i - 1 \in DOMAIN q /\ f[i] = q[i - 1] /\ j - 1 \in DOMAIN q /\ f[j] = q[j - 1]
        BY <1>1, <1>3, <3>4
      <4>2. i - 1 = j - 1
        BY <2>2, <4>1 DEF QueueOK
      <4> QED
        BY <1>1, <1>3, <4>2
    <3> QED
      BY <3>1, <3>2, <3>3, <3>4
  <2> QED
    BY <2>1, <2>2 DEF QueueOK
<1> QED
  BY <1>4, <1>5

(* A process that waits for no grant has asked for none.                   *)
LEMMA NotAsking ==
    ASSUME QueueInv, NEW p \in Procs, pc[p] \in {"idle", "granted", "wait_item"}
    PROVE  /\ \A i \in DOMAIN arb_sequence_q :
                 arb_sequence_q[i].proc = p => arb_sequence_q[i].request \notin {"REQ", "LOCK"}
           /\ <<"REQ", p>> \notin arb_completed /\ <<"LOCK", p>> \notin arb_completed
           /\ p \notin woken
<1>1. ASSUME NEW i \in DOMAIN arb_sequence_q, arb_sequence_q[i].proc = p
      PROVE  arb_sequence_q[i].request \notin {"REQ", "LOCK"}
  BY <1>1 DEF QueueInv, QueueOK, EntryOK
<1>2. <<"REQ", p>> \notin arb_completed /\ <<"LOCK", p>> \notin arb_completed
  BY DEF QueueInv, DoneOK
<1>3. p \notin woken
  BY DEF QueueInv, WokenOK, Awaited
<1> QED
  BY <1>1, <1>2, <1>3

(* Such a process may go on to whatever comes next.                        *)
LEMMA MoveOK ==
    ASSUME TypeInv, QueueInv, NEW p \in Procs, pc[p] \in {"idle", "granted", "wait_item"},
           NEW to, to # "off", pc' = [pc EXCEPT ![p] = to], running' = running
    PROVE  /\ Alive(pc', running')
           /\ QueueOK(arb_sequence_q, arb_completed, pc')
           /\ DoneOK(arb_completed, pc')
           /\ WokenOK(woken, arb_completed, pc')
<1>1. pc \in [Procs -> {"off", "dead", "idle", "wait_req", "wait_lock", "granted", "wait_item"}]
  BY DEF TypeInv, ProcTypes
<1>2. pc'[p] = to /\ \A r \in Procs : r # p => pc'[r] = pc[r]
  BY <1>1
<1>3. Alive(pc', running')
  BY <1>1, <1>2 DEF QueueInv, Alive
<1>4. QueueOK(arb_sequence_q, arb_completed, pc')
  <2>1. ASSUME NEW i \in DOMAIN arb_sequence_q
        PROVE  EntryOK(arb_sequence_q[i], arb_completed, pc')
    <3>1. arb_sequence_q[i].proc \in Procs
      BY IdType DEF TypeInv, QueueTypes
    <3>2. EntryOK(arb_sequence_q[i], arb_completed, pc)
      BY DEF QueueInv, QueueOK
    <3> QED
      BY <1>2, <3>1, <3>2, NotAsking DEF EntryOK
  <2> QED
    BY <2>1 DEF QueueInv, QueueOK
<1>5. DoneOK(arb_completed, pc')
  BY <1>2, NotAsking DEF QueueInv, DoneOK
<1>6. WokenOK(woken, arb_completed, pc')
  <2>1. \A r \in woken : r \in Procs /\ r # p
    BY NotAsking DEF TypeInv, QueueTypes
  <2> QED
    BY <1>2, <2>1 DEF QueueInv, WokenOK, Awaited
<1> QED
  BY <1>3, <1>4, <1>5, <1>6

(* Every action keeps the queue in order: those of the sequences ...       *)
LEMMA Queue_Start ==
    ASSUME TypeInv, QueueInv, NEW s \in Seqs, Start(s)
    PROVE  QueueInv'
<1>1. pc' = [p \in Procs |-> IF SeqOf[p] = s THEN "idle" ELSE pc[p]]
  BY DEF Start
<1>2. arb_completed' = {id \in arb_completed : SeqOf[id[2]] # s} /\ running' = running \cup {s}
  BY DEF Start
<1>3. \A p \in Procs : SeqOf[p] = s => pc[p] = "off"
  BY DEF QueueInv, Alive, Start
<1>4. Alive(pc', running') /\ Held(lock_list', running')
  BY <1>1, <1>2 DEF QueueInv, Alive, Held, Start
<1>5. ASSUME NEW i \in DOMAIN arb_sequence_q
      PROVE  EntryOK(arb_sequence_q[i], arb_completed', pc')
  <2>1. arb_sequence_q[i].proc \in Procs
    BY IdType DEF TypeInv, QueueTypes
  <2>2. EntryOK(arb_sequence_q[i], arb_completed, pc)
    BY DEF QueueInv, QueueOK
  <2> QED
    BY <1>1, <1>2, <1>3, <2>1, <2>2 DEF EntryOK
<1>6. QueueOK(arb_sequence_q, arb_completed', pc')
  BY <1>5 DEF QueueInv, QueueOK
<1>7. DoneOK(arb_completed', pc')
  BY <1>1, <1>2 DEF QueueInv, DoneOK
<1>8. WokenOK(woken, arb_completed', pc')
  <2>1. ASSUME NEW p \in woken PROVE Awaited(pc', p) \cap arb_completed' # {}
    <3>1. p \in Procs /\ Awaited(pc, p) \cap arb_completed # {}
      BY DEF QueueInv, WokenOK, TypeInv, QueueTypes
    <3>2. pc[p] # "off"
      BY <3>1 DEF Awaited
    <3>3. SeqOf[p] # s
      BY <1>3, <3>1, <3>2
    <3>4. Awaited(pc', p) = Awaited(pc, p)
      BY <1>1, <3>1, <3>3 DEF Awaited
    <3>5. \A id \in Awaited(pc, p) : id[2] = p
      BY DEF Awaited
    <3> QED
      BY <1>2, <3>1, <3>3, <3>4, <3>5
  <2> QED
    BY <2>1 DEF WokenOK
<1>9. UNCHANGED <<arb_sequence_q, woken>>
  BY DEF Start
<1> QED
  BY <1>4, <1>6, <1>7, <1>8, <1>9 DEF QueueInv

LEMMA Queue_wait_for_grant ==
    ASSUME TypeInv, QueueInv, NEW p \in Procs, NEW pri \in Priorities, NEW b \in BOOLEAN,
           wait_for_grant(p, pri, b)
    PROVE  QueueInv'
<1> DEFINE q == arb_sequence_q
           c == arb_completed
           pre == Request("PRELOCK", p, AnyPriority)
           req == Request("REQ", p, pri)
           m == q \o (IF b THEN <<pre>> ELSE << >>)
<1>1. pc[p] = "idle" /\ pc' = [pc EXCEPT ![p] = "wait_req"] /\ running' = running
  BY DEF wait_for_grant, Calls
<1>2. pc'[p] = "wait_req"
  BY <1>1 DEF TypeInv, ProcTypes
<1>3. /\ Alive(pc', running')
      /\ QueueOK(q, c, pc')
      /\ DoneOK(c, pc')
  BY <1>1, MoveOK
<1>4. q \in Seq(Requests) /\ pre \in Requests /\ req \in Requests
  BY RequestType, AnyPriorityType DEF TypeInv, QueueTypes
<1>5. /\ pre.request = "PRELOCK" /\ pre.proc = p /\ Id(pre) = <<"PRELOCK", p>>
      /\ req.request = "REQ" /\ req.proc = p /\ Id(req) = <<"REQ", p>>
  BY DEF Request, Id
<1> HIDE DEF pre, req
<1>6. /\ \A i \in DOMAIN q : q[i].proc = p => q[i].request # "REQ"
      /\ <<"REQ", p>> \notin c
  BY <1>1, NotAsking
<1>7. EntryOK(pre, c, pc') /\ EntryOK(req, c, pc')
  BY <1>2, <1>5, <1>6 DEF EntryOK
<1>8. m \in Seq(Requests) /\ QueueOK(m, c, pc')
  <2>1. CASE b
    <3>1. m = q \o <<pre>>
      BY <2>1
    <3>2. m \in Seq(Requests)
      BY <1>4, <3>1
    <3> QED
      BY <1>3, <1>4, <1>5, <1>7, <3>1, <3>2, AddOK
  <2>2. CASE ~b
    BY <1>3, <1>4, <2>2
  <2> QED
    BY <2>1, <2>2
<1>9. \A i \in DOMAIN m : Id(m[i]) # Id(req)
  <2>1. ASSUME NEW i \in DOMAIN q PROVE Id(q[i]) # Id(req)
    BY <1>5, <1>6 DEF Id
  <2>2. CASE b
    <3>1. m = q \o <<pre>>
      BY <2>2
    <3>2. \A i \in DOMAIN m : (i \in DOMAIN q /\ m[i] = q[i]) \/ m[i] = pre
      BY <1>4, <3>1
    <3> QED
      BY <1>5, <2>1, <3>2
  <2>3. CASE ~b
    BY <1>4, <2>1, <2>3
  <2> QED
    BY <2>2, <2>3
<1>10. QueueOK(m \o <<req>>, c, pc')
  <2> HIDE DEF m
  <2> QED
    BY <1>4, <1>7, <1>8, <1>9, AddOK
<1>11. Held(lock_list, running')
  BY <1>1 DEF QueueInv
<1>12. SetQueues(m \o <<req>>, lock_list, c, TRUE)
  BY DEF wait_for_grant, WithRequest, pre, req
<1> HIDE DEF m
<1> QED
  BY <1>3, <1>10, <1>11, <1>12, SetQueuesOK

LEMMA Queue_m_lock_req ==
    ASSUME TypeInv, QueueInv, NEW p \in Procs, NEW b \in BOOLEAN, m_lock_req(p, b)
    PROVE  QueueInv'
<1> DEFINE q == arb_sequence_q
           c == arb_completed
           r == Request("LOCK", p, AnyPriority)
<1>1. pc[p] = "idle" /\ pc' = [pc EXCEPT ![p] = "wait_lock"] /\ running' = running
  BY DEF m_lock_req, Calls
<1>2. pc'[p] = "wait_lock"
  BY <1>1 DEF TypeInv, ProcTypes
<1>3. Alive(pc', running') /\ QueueOK(q, c, pc') /\ DoneOK(c, pc')
  BY <1>1, MoveOK
<1>4. q \in Seq(Requests) /\ r \in Requests
  BY RequestType, AnyPriorityType DEF TypeInv, QueueTypes
<1>5. r.request = "LOCK" /\ r.proc = p /\ Id(r) = <<"LOCK", p>>
  BY DEF Request, Id
<1>6. /\ \A i \in DOMAIN q : q[i].proc = p => q[i].request # "LOCK"
      /\ <<"LOCK", p>> \notin c
  BY <1>1, NotAsking
<1> HIDE DEF r
<1>7. EntryOK(r, c, pc')
  BY <1>2, <1>5, <1>6 DEF EntryOK
<1>8. \A i \in DOMAIN q : Id(q[i]) # Id(r)
  BY <1>5, <1>6 DEF Id
<1>9. QueueOK(q \o <<r>>, c, pc') /\ QueueOK(<<r>> \o q, c, pc')
  BY <1>3, <1>4, <1>7, <1>8, AddOK
<1>10. q \o <<r>> \in Seq(Requests) /\ <<r>> \o q \in Seq(Requests) /\ Append(q, r) = q \o <<r>>
  BY <1>4
<1>11. Held(lock_list, running') /\ lock_list \in Locks
  BY <1>1 DEF QueueInv, TypeInv, LocksInv
<1>12. \/ grant_queued_locks(Append(q, r), lock_list, c, FALSE)
       \/ grant_queued_locks(<<r>> \o q, lock_list, c, TRUE)
  BY DEF m_lock_req, r
<1> QED
  BY <1>3, <1>9, <1>10, <1>11, <1>12, GrantQueuedOK

LEMMA Queue_DisableFork ==
    ASSUME TypeInv, QueueInv, NEW p \in Procs, DisableFork(p)
    PROVE  QueueInv'
<1>1. /\ pc' = [pc EXCEPT ![p] = "dead"] /\ pc[p] # "off" /\ woken' = woken \ {p}
      /\ UNCHANGED <<running, arb_sequence_q, arb_completed, lock_list>>
  BY DEF DisableFork
<1>2. pc'[p] = "dead" /\ \A r \in Procs : r # p => pc'[r] = pc[r]
  BY <1>1 DEF TypeInv, ProcTypes
<1>3. Alive(pc', running') /\ Held(lock_list', running')
  BY <1>1, <1>2 DEF QueueInv, Alive
<1>4. ASSUME NEW i \in DOMAIN arb_sequence_q
      PROVE  EntryOK(arb_sequence_q[i], arb_completed, pc')
  <2>1. arb_sequence_q[i].proc \in Procs
    BY IdType DEF TypeInv, QueueTypes
  <2> QED
    BY <1>2, <2>1 DEF QueueInv, QueueOK, EntryOK
<1>5. QueueOK(arb_sequence_q', arb_completed', pc')
  BY <1>1, <1>4 DEF QueueInv, QueueOK
<1>6. DoneOK(arb_completed', pc')
  BY <1>1, <1>2 DEF QueueInv, DoneOK
<1>7. WokenOK(woken', arb_completed', pc')
  BY <1>1, <1>2 DEF QueueInv, WokenOK, Awaited, TypeInv, QueueTypes
<1> QED
  BY <1>3, <1>5, <1>6, <1>7 DEF QueueInv

LEMMA Queue_ArbitrationCompleted ==
    ASSUME TypeInv, QueueInv, NEW p \in Procs, ArbitrationCompleted(p)
    PROVE  QueueInv'
<1> DEFINE to == IF pc[p] = "wait_req" THEN "granted" ELSE "idle"
<1>1. /\ p \in woken /\ woken' = woken \ {p}
      /\ arb_completed' = arb_completed \ Awaited(pc, p)
      /\ UNCHANGED <<running, arb_sequence_q, lock_list>>
  BY DEF ArbitrationCompleted
<1>2. pc' = [pc EXCEPT ![p] = to] /\ to # "off"
  BY DEF ArbitrationCompleted
<1> HIDE DEF to
<1>3. pc'[p] = to /\ \A r \in Procs : r # p => pc'[r] = pc[r]
  BY <1>2 DEF TypeInv, ProcTypes
<1>4. \/ pc[p] = "wait_req" /\ Awaited(pc, p) = {<<"REQ", p>>} /\ <<"REQ", p>> \in arb_completed
      \/ pc[p] = "wait_lock" /\ Awaited(pc, p) = {<<"LOCK", p>>} /\ <<"LOCK", p>> \in arb_completed
  BY <1>1 DEF QueueInv, WokenOK, Awaited
<1>5. Alive(pc', running') /\ Held(lock_list', running')
  BY <1>1, <1>3, <1>4 DEF QueueInv, Alive
<1>6. ASSUME NEW i \in DOMAIN arb_sequence_q
      PROVE  EntryOK(arb_sequence_q[i], arb_completed', pc')
  <2> DEFINE r == arb_sequence_q[i]
  <2>1. r \in Requests
    BY DEF TypeInv, QueueTypes
  <2>2. EntryOK(r, arb_completed, pc)
    BY DEF QueueInv, QueueOK
  <2> HIDE DEF r
  <2>3. r.proc \in Procs /\ r.request \in {"REQ", "LOCK", "PRELOCK"}
    BY <2>1 DEF Requests
  <2>4. r.proc = p => r.request = "PRELOCK"
    BY <1>4, <2>2, <2>3 DEF EntryOK, Id
  <2>5. EntryOK(r, arb_completed', pc')
    BY <1>1, <1>2, <1>3, <2>2, <2>3, <2>4 DEF EntryOK
  <2> QED
    BY <2>5 DEF r
<1>7. QueueOK(arb_sequence_q', arb_completed', pc')
  BY <1>1, <1>6 DEF QueueInv, QueueOK
<1>8. DoneOK(arb_completed', pc')
  <2>1. <<"REQ", p>> \notin arb_completed' /\ <<"LOCK", p>> \notin arb_completed'
    BY <1>1, <1>4 DEF QueueInv, DoneOK
  <2> QED
    BY <1>1, <1>3, <2>1 DEF QueueInv, DoneOK
<1>9. WokenOK(woken', arb_completed', pc')
  <2>1. ASSUME NEW r \in woken' PROVE Awaited(pc', r) \cap arb_completed' # {}
    <3>1. r \in Procs /\ r # p /\ Awaited(pc, r) \cap arb_completed # {}
      BY <1>1 DEF QueueInv, WokenOK, TypeInv, QueueTypes
    <3>2. Awaited(pc', r) = Awaited(pc, r)
      BY <1>3, <3>1 DEF Awaited
    <3>3. Awaited(pc, r) \cap Awaited(pc, p) = {}
      BY <3>1 DEF Awaited
    <3> QED
      BY <1>1, <3>1, <3>2, <3>3
  <2> QED
    BY <2>1 DEF WokenOK
<1> QED
  BY <1>5, <1>7, <1>8, <1>9 DEF QueueInv

(* Steps that leave the queue and the processes as they are.               *)
LEMMA QueueSame ==
    ASSUME QueueInv, UNCHANGED <<pc, running, arb_sequence_q, arb_completed, lock_list, woken>>
    PROVE  QueueInv'
  BY DEF QueueInv

(* Steps that only give locks a chance.                                    *)
LEMMA QueueGrant ==
    ASSUME TypeInv, QueueInv, NEW ch, UNCHANGED <<pc, running>>,
           grant_queued_locks(arb_sequence_q, lock_list, arb_completed, ch)
    PROVE  QueueInv'
<1>1. arb_sequence_q \in Seq(Requests) /\ lock_list \in Locks
  BY DEF TypeInv, QueueTypes, LocksInv
<1> QED
  BY <1>1, GrantQueuedOK DEF QueueInv

LEMMA Queue_m_unlock_req ==
    ASSUME TypeInv, QueueInv, NEW p \in Procs, m_unlock_req(p)
    PROVE  QueueInv'
<1> DEFINE s == SeqOf[p]
           m == [lock_list EXCEPT ![s] = @ - 1]
<1>1. lock_list \in [Seqs -> Nat] /\ s \in Seqs /\ lock_list[s] > 0
  BY SeqsAssumption DEF TypeInv, LocksInv, Locks, m_unlock_req, has_lock
<1>2. m \in [Seqs -> Nat] /\ Fewer(m, lock_list)
  BY <1>1 DEF Fewer
<1>3. m \in Locks /\ Held(m, running)
  <2> HIDE DEF m
  <2> QED
    BY <1>2, FewerNested DEF TypeInv, LocksInv, QueueInv, Held, Fewer
<1>4. UNCHANGED <<pc, running>> /\ grant_queued_locks(arb_sequence_q, m, arb_completed, TRUE)
  BY DEF m_unlock_req
<1>5. arb_sequence_q \in Seq(Requests)
  BY DEF TypeInv, QueueTypes
<1> HIDE DEF m
<1> QED
  BY <1>3, <1>4, <1>5, GrantQueuedOK DEF QueueInv

LEMMA Queue_send_request ==
    ASSUME TypeInv, QueueInv, NEW p \in Procs, send_request(p)
    PROVE  QueueInv'
<1>1. CASE UNCHANGED <<pc, queueVars>>
  BY <1>1, QueueSame DEF send_request, queueVars
<1>2. CASE ~UNCHANGED <<pc, queueVars>>
  <2>1. pc[p] = "granted" /\ pc' = [pc EXCEPT ![p] = "wait_item"] /\ running' = running
    BY <1>2 DEF send_request
  <2>2. grant_queued_locks(arb_sequence_q, lock_list, arb_completed, FALSE)
    BY <1>2 DEF send_request
  <2>3. /\ Alive(pc', running')
        /\ QueueOK(arb_sequence_q, arb_completed, pc')
        /\ DoneOK(arb_completed, pc')
    BY <2>1, MoveOK
  <2>4. arb_sequence_q \in Seq(Requests) /\ lock_list \in Locks /\ Held(lock_list, running')
    BY <2>1 DEF TypeInv, QueueTypes, LocksInv, QueueInv
  <2> QED
    BY <2>2, <2>3, <2>4, GrantQueuedOK
<1> QED
  BY <1>1, <1>2

LEMMA Queue_ItemDoneSeen ==
    ASSUME TypeInv, QueueInv, NEW p \in Procs, ItemDoneSeen(p)
    PROVE  QueueInv'
<1>1. /\ pc[p] = "wait_item" /\ pc' = [pc EXCEPT ![p] = "idle"]
      /\ UNCHANGED <<running, arb_sequence_q, arb_completed, lock_list, woken>>
  BY DEF ItemDoneSeen, ItemDoneFor, queueVars
<1>2. /\ Alive(pc', running')
      /\ QueueOK(arb_sequence_q, arb_completed, pc')
      /\ DoneOK(arb_completed, pc')
      /\ WokenOK(woken, arb_completed, pc')
  BY <1>1, MoveOK
<1> QED
  BY <1>1, <1>2 DEF QueueInv

LEMMA QueueSequence == TypeInv /\ QueueInv /\ SequenceStep => QueueInv'
<1> SUFFICES ASSUME TypeInv, QueueInv, SequenceStep PROVE QueueInv'
  OBVIOUS
<1>1. ASSUME NEW s \in Seqs, Finish(s) PROVE QueueInv'
  BY <1>1, EndOK DEF Finish
<1>2. ASSUME NEW s \in Seqs, Kill(s) PROVE QueueInv'
  BY <1>2, EndOK DEF Kill
<1>3. ASSUME NEW s \in Seqs, ChangeRelevance(s) PROVE QueueInv'
  BY <1>3, QueueSame DEF ChangeRelevance, queueVars
<1> QED
  BY <1>1, <1>2, <1>3, Queue_Start, Queue_wait_for_grant, Queue_m_lock_req, Queue_DisableFork,
     Queue_ArbitrationCompleted, Queue_m_unlock_req, Queue_send_request, Queue_ItemDoneSeen
     DEF SequenceStep

(* ... the grant of a request ...                                          *)
LEMMA Queue_Grant ==
    ASSUME TypeInv, QueueInv, NEW i \in DOMAIN arb_sequence_q, Grant(i)
    PROVE  QueueInv'
<1>1. arb_sequence_q \in Seq(Requests) /\ UNCHANGED <<pc, running>>
  BY DEF TypeInv, QueueTypes, Grant
<1>2. /\ QueueOK(RemoveAt(arb_sequence_q, i), arb_completed \cup {Id(arb_sequence_q[i])}, pc')
      /\ DoneOK(arb_completed \cup {Id(arb_sequence_q[i])}, pc')
  BY <1>1, CompleteOK DEF QueueInv
<1>3. SetQueues(RemoveAt(arb_sequence_q, i), lock_list,
                arb_completed \cup {Id(arb_sequence_q[i])}, TRUE)
  BY DEF Grant
<1>4. Alive(pc', running') /\ Held(lock_list, running')
  BY <1>1 DEF QueueInv
<1> QED
  BY <1>2, <1>3, <1>4, SetQueuesOK

(* ... the other steps of the loop ...                                     *)
LEMMA QueueChoose == TypeInv /\ QueueInv /\ Choose => QueueInv'
<1> SUFFICES ASSUME TypeInv, QueueInv, Choose PROVE QueueInv'
  OBVIOUS
<1>1. CASE StartScan
  BY <1>1, QueueGrant DEF StartScan, BeginScan
<1>2. CASE ScanZombie
  <2> DEFINE S == {SeqAt(arb_sequence_q, scan)}
             m == WithoutRequests(arb_sequence_q, S)
             l == WithoutLocks(lock_list, S)
  <2>1. UNCHANGED <<pc, running>> /\ remove_sequence_from_queues(S)
    BY <1>2 DEF ScanZombie
  <2>2. arb_sequence_q \in Seq(Requests) /\ lock_list \in Locks
    BY DEF TypeInv, QueueTypes, LocksInv
  <2>3. /\ Alive(pc', running') /\ Held(l, running')
        /\ QueueOK(m, arb_completed, pc') /\ DoneOK(arb_completed, pc')
    BY <2>1, <2>2, WithoutOK, WithoutHeld DEF QueueInv
  <2>4. PICK ch : SetQueues(m, l, arb_completed, ch)
    BY <2>1 DEF remove_sequence_from_queues
  <2> HIDE DEF m, l
  <2> QED
    BY <2>3, <2>4, SetQueuesOK
<1>3. CASE ScanTake
  BY <1>3, ScanIndex, Queue_Grant DEF ScanTake
<1>4. CASE ScanNext
  BY <1>4, QueueSame DEF ScanNext, procVars, queueVars
<1>5. CASE ScanEnd
  <2>1. CASE GrantNothing
    BY <2>1, QueueSame DEF GrantNothing, procVars, queueVars
  <2>2. CASE UNCHANGED <<procVars, queueVars, itemVars, flagVars, selectVars, got>>
    BY <2>2, QueueSame DEF procVars, queueVars
  <2>3. CASE \E i \in Sound : Grant(i)
    BY <2>3, IndicesType, Queue_Grant
  <2> QED
    BY <1>5, <2>1, <2>2, <2>3, ScanEndCases
<1> QED
  BY <1>1, <1>2, <1>3, <1>4, <1>5 DEF Choose

(* The grant of a process that is gone is forgotten.                       *)
LEMMA ForgetOK ==
    ASSUME TypeInv, QueueInv, Gone(selected)
    PROVE  /\ QueueOK(arb_sequence_q, arb_completed \ {<<"REQ", selected>>}, pc)
           /\ DoneOK(arb_completed \ {<<"REQ", selected>>}, pc)
           /\ WokenOK(woken, arb_completed \ {<<"REQ", selected>>}, pc)
<1>1. \A p \in Procs : p = selected => pc[p] \in {"dead", "off"}
  BY SeqsAssumption DEF Gone
<1>2. WokenOK(woken, arb_completed \ {<<"REQ", selected>>}, pc)
  <2>1. ASSUME NEW p \in woken
        PROVE  Awaited(pc, p) \cap (arb_completed \ {<<"REQ", selected>>}) # {}
    <3>1. p \in Procs /\ Awaited(pc, p) \cap arb_completed # {}
      BY DEF QueueInv, WokenOK, TypeInv, QueueTypes
    <3>2. p # selected
      BY <1>1, <3>1 DEF Awaited
    <3>3. \A id \in Awaited(pc, p) : id[2] = p
      BY DEF Awaited
    <3> QED
      BY <3>1, <3>2, <3>3
  <2> QED
    BY <2>1 DEF WokenOK
<1> QED
  BY <1>2 DEF QueueInv, QueueOK, EntryOK, DoneOK

(* ... and the driver's.                                                   *)
LEMMA QueueDriver == TypeInv /\ QueueInv /\ DriverStep => QueueInv'
<1> SUFFICES ASSUME TypeInv, QueueInv, DriverStep PROVE QueueInv'
  OBVIOUS
<1> USE DEF procVars, queueVars
<1>1. ASSUME NEW call \in DriverCalls, CallSelect(call) PROVE QueueInv'
  BY <1>1, QueueSame DEF CallSelect
<1>2. CASE CallTry
  BY <1>2, QueueSame DEF CallTry
<1>3. CASE Choose
  BY <1>3, QueueChoose
<1>4. CASE m_wait_for_available_sequence
  BY <1>4, QueueSame DEF m_wait_for_available_sequence
<1>5. CASE PeekItem
  <2>1. UNCHANGED <<pc, running>>
    BY <1>5 DEF PeekItem, item_done
  <2> QED
    BY <1>5, <2>1, QueueSame, QueueGrant DEF PeekItem, item_done
<1>6. CASE Reselect
  BY <1>6, ForgetOK DEF Reselect, QueueInv
<1>7. CASE TryFound
  BY <1>7, QueueSame DEF TryFound
<1>8. CASE TryAgain
  <2>1. /\ UNCHANGED <<pc, running>> /\ Gone(selected)
        /\ grant_queued_locks(arb_sequence_q, lock_list, arb_completed \ {<<"REQ", selected>>}, FALSE)
    BY <1>8 DEF TryAgain, BeginScan
  <2>2. arb_sequence_q \in Seq(Requests) /\ lock_list \in Locks
    BY DEF TypeInv, QueueTypes, LocksInv
  <2> QED
    BY <2>1, <2>2, ForgetOK, GrantQueuedOK DEF QueueInv
<1>9. CASE TryBlocked
  BY <1>9, QueueSame DEF TryBlocked
<1>10. CASE ItemDone
  BY <1>10, QueueSame, QueueGrant DEF ItemDone, item_done
<1> QED
  BY <1>1, <1>2, <1>3, <1>4, <1>5, <1>6, <1>7, <1>8, <1>9, <1>10 DEF DriverStep

(* Every step does.                                                        *)
LEMMA QueueNext == TypeInv /\ QueueInv /\ [Next]_vars => QueueInv'
<1> SUFFICES ASSUME TypeInv, QueueInv, [Next]_vars PROVE QueueInv'
  OBVIOUS
<1>1. CASE stop_sequences
  BY <1>1, EndOK DEF stop_sequences
<1>2. CASE UNCHANGED vars
  BY <1>2, QueueSame DEF vars, procVars, queueVars
<1> QED
  BY <1>1, <1>2, QueueSequence, QueueDriver DEF Next

LEMMA QueueInit == Init => QueueInv
  BY DEF Init, QueueInv, Alive, Held, QueueOK, DoneOK, WokenOK

(* The loop of m_choose_next_request begins with grant_queued_locks, which *)
(* takes the lock requests of killed processes out, and while it runs      *)
(* nobody asks for a lock and nobody is killed.                            *)
ScanClean == dpc = "scan" => LockZombies(arb_sequence_q) = {}

(* What is drawn from a queue holds no more of them.                       *)
LEMMA ZombiesDrawn ==
    ASSUME NEW q \in Seq(Requests), NEW I \in SUBSET DOMAIN q, NEW m, Draws(m, q, I)
    PROVE  \A k \in DOMAIN m : m[k].request # "REQ" /\ Zombie(m[k]) =>
              \E i \in I : m[k] = q[i] /\ SeqAt(q, i) \in LockZombies(q)
<1> SUFFICES ASSUME NEW k \in DOMAIN m, m[k].request # "REQ", Zombie(m[k])
             PROVE  \E i \in I : m[k] = q[i] /\ SeqAt(q, i) \in LockZombies(q)
  OBVIOUS
<1>1. PICK i \in I : m[k] = q[i]
  BY Zenon DEF Draws
<1> QED
  BY <1>1 DEF LockZombies

LEMMA DrawsClean ==
    ASSUME NEW q \in Seq(Requests), NEW I \in SUBSET DOMAIN q, NEW m, Draws(m, q, I),
           \A i \in I : SeqAt(q, i) \notin LockZombies(q)
    PROVE  LockZombies(m) = {}
<1>1. \A k \in DOMAIN m : ~(m[k].request # "REQ" /\ Zombie(m[k]))
  BY ZombiesDrawn
<1> QED
  BY <1>1 DEF LockZombies

(* grant_queued_locks leaves none in the queue.                            *)
LEMMA WithoutZombies ==
    ASSUME NEW q \in Seq(Requests)
    PROVE  LockZombies(WithoutRequests(q, LockZombies(q))) = {}
<1> DEFINE Z == LockZombies(q)
           I == {i \in DOMAIN q : SeqAt(q, i) \notin Family(Z)}
<1>1. Draws(WithoutRequests(q, Z), q, I) /\ I \in SUBSET DOMAIN q
  BY WithoutDraws
<1>2. ASSUME NEW i \in I PROVE SeqAt(q, i) \notin Z
  <2>1. SeqAt(q, i) \in Seqs
    BY IdType DEF SeqAt
  <2> QED
    BY <2>1 DEF Family
<1> HIDE DEF I
<1> QED
  BY <1>1, <1>2, DrawsClean

LEMMA GrantQueuedClean ==
    ASSUME NEW q \in Seq(Requests), NEW l, NEW c, NEW ch, grant_queued_locks(q, l, c, ch),
           UNCHANGED pc
    PROVE  LockZombies(arb_sequence_q)' = {}
<1> DEFINE m == WithoutRequests(q, LockZombies(q))
<1>1. m \in Seq(Requests) /\ LockZombies(m) = {}
  BY WithoutType, WithoutZombies
<1>2. arb_sequence_q' = m \/ \E i \in DOMAIN m : arb_sequence_q' = RemoveAt(m, i)
  <2>1. PICK k, h : GrantLock(m, k, c, h)
    BY DEF grant_queued_locks
  <2> HIDE DEF m
  <2> QED
    BY <2>1 DEF GrantLock, SetQueues, FirstOf, Grantable
<1> HIDE DEF m
<1>3. LockZombies(arb_sequence_q') = {}
  <2>1. ASSUME NEW i \in DOMAIN m PROVE LockZombies(RemoveAt(m, i)) = {}
    <3>1. Draws(RemoveAt(m, i), m, DOMAIN m \ {i})
      BY <1>1, RemoveDraws
    <3> QED
      BY <1>1, <3>1, DrawsClean
  <2> QED
    BY <1>1, <1>2, <2>1
<1> QED
  BY <1>3 DEF LockZombies, Zombie, SeqAt

LEMMA CleanNext == TypeInv /\ ScanClean /\ [Next]_vars => ScanClean'
<1> SUFFICES ASSUME TypeInv, ScanClean, [Next]_vars, dpc' = "scan"
             PROVE  LockZombies(arb_sequence_q)' = {}
  BY DEF ScanClean
<1>1. arb_sequence_q \in Seq(Requests)
  BY DEF TypeInv, QueueTypes
<1>2. CASE StartScan
  BY <1>1, <1>2, GrantQueuedClean DEF StartScan, BeginScan
<1>3. CASE TryAgain
  BY <1>1, <1>3, GrantQueuedClean DEF TryAgain, BeginScan
<1>4. CASE ScanZombie
  <2> DEFINE S == {SeqAt(arb_sequence_q, scan)}
             m == WithoutRequests(arb_sequence_q, S)
             I == {i \in DOMAIN arb_sequence_q : SeqAt(arb_sequence_q, i) \notin Family(S)}
  <2>1. arb_sequence_q' = m /\ pc' = pc /\ LockZombies(arb_sequence_q) = {}
    BY <1>4 DEF ScanZombie, Scanning, remove_sequence_from_queues, SetQueues, ScanClean
  <2>2. Draws(m, arb_sequence_q, I) /\ I \in SUBSET DOMAIN arb_sequence_q
    BY <1>1, WithoutDraws
  <2> HIDE DEF I, m
  <2>3. LockZombies(m) = {}
    BY <1>1, <2>1, <2>2, DrawsClean
  <2> QED
    BY <2>1, <2>3 DEF LockZombies, Zombie, SeqAt
<1>5. CASE ScanNext
  BY <1>5 DEF ScanNext, Scanning, ScanClean, procVars, queueVars, LockZombies, Zombie, SeqAt
<1>6. CASE ScanTake
  BY <1>6 DEF ScanTake, Grant
<1>7. CASE ScanEnd
  <2>1. ASSUME GrantNothing PROVE dpc' # "scan"
    BY <2>1 DEF GrantNothing
  <2>2. ASSUME NEW i, Grant(i) PROVE dpc' # "scan"
    BY <2>2 DEF Grant
  <2>3. CASE UNCHANGED <<procVars, queueVars, selectVars>>
    BY <1>7, <2>3 DEF ScanEnd, Scanning, ScanClean, procVars, queueVars, selectVars,
                     LockZombies, Zombie, SeqAt
  <2> QED
    BY <1>7, <2>1, <2>2, <2>3 DEF ScanEnd
<1>8. CASE SequenceStep
  BY <1>8 DEF SequenceStep, Start, Finish, Kill, ChangeRelevance, wait_for_grant, m_lock_req, Calls,
              DisableFork, ArbitrationCompleted, m_unlock_req, send_request, ItemDoneSeen,
              Free, selectVars
<1>9. CASE stop_sequences
  BY <1>9 DEF stop_sequences, Free, selectVars
<1>10. CASE UNCHANGED vars
  BY <1>10 DEF vars, procVars, queueVars, selectVars, ScanClean, LockZombies, Zombie, SeqAt
<1>11. ASSUME NEW call \in DriverCalls, CallSelect(call) PROVE dpc' # "scan"
  BY <1>11 DEF CallSelect
<1>12. CallTry \/ m_wait_for_available_sequence \/ PeekItem \/ Reselect => dpc' # "scan"
  BY DEF CallTry, m_wait_for_available_sequence, PeekItem, Reselect
<1>13. TryFound \/ TryBlocked \/ ItemDone => dpc' # "scan"
  BY DEF TryFound, TryBlocked, ItemDone, selectVars
<1> QED
  BY <1>2, <1>3, <1>4, <1>5, <1>6, <1>7, <1>8, <1>9, <1>10, <1>11, <1>12, <1>13
     DEF Next, DriverStep, Choose

(* Locks are held by running sequences only; a request in the queue is of  *)
(* a process that waits for it, or of one that was killed alone; and no    *)
(* lock request of such a process is left when the loop of                 *)
(* m_choose_next_request begins.  On every sequencer and whatever happens  *)
(* to it: kill, disable fork, stop_sequences (remove_sequence_from_queues, *)
(* m_unregister_sequence, grant_queued_locks).                             *)
THEOREM QueuesAlive == Spec => []NothingLeftBehind
<1>1. TypeInv /\ QueueInv /\ ScanClean => NothingLeftBehind
  <2> SUFFICES ASSUME TypeInv, QueueInv, ScanClean PROVE NothingLeftBehind
    OBVIOUS
  <2>1. ASSUME NEW i \in DOMAIN arb_sequence_q
        PROVE  LET r == arb_sequence_q[i] IN
               \/ Id(r) \in Awaited(pc, r.proc)
               \/ Zombie(r)
               \/ r.request = "PRELOCK" /\ pc[r.proc] # "off"
    <3> DEFINE r == arb_sequence_q[i]
    <3>1. r \in Requests /\ EntryOK(r, arb_completed, pc)
      BY DEF TypeInv, QueueTypes, QueueInv, QueueOK
    <3>2. r.request \in {"REQ", "LOCK", "PRELOCK"}
      BY <3>1 DEF Requests
    <3> QED
      BY <3>1, <3>2 DEF EntryOK, Awaited, Id, Zombie
  <2> QED
    BY <2>1 DEF QueueInv, Held, ScanClean, NothingLeftBehind
<1>2. Init => ScanClean
  BY DEF Init, ScanClean
<1> QED
  BY <1>1, <1>2, TypeInit, TypeNext, QueueInit, QueueNext, CleanNext, PTL DEF Spec

(***************************************************************************)
(* No request is lost while no process is killed inside a call             *)
(***************************************************************************)

NoZombies(at) == \A p \in Procs : at[p] # "dead"

InQueue(q, id) == \E i \in DOMAIN q : Id(q[i]) = id

(* Whoever waits is queued, or granted and woken.                          *)
Attended(q, c, w, at) ==
    \A p \in Procs : \A id \in Awaited(at, p) : InQueue(q, id) \/ (id \in c /\ p \in w)

AttendInv ==
    NoZombies(pc) /\ Attended(arb_sequence_q, arb_completed, woken, pc)

SafeInv == TypeInv /\ QueueInv /\ AttendInv

(* Where no process is killed alone there are no zombies:                  *)
(* grant_queued_locks removes nobody.                                      *)
LEMMA NoLockZombies ==
    ASSUME NoZombies(pc), NEW q \in Seq(Requests)
    PROVE  LockZombies(q) = {}
<1>1. ASSUME NEW j \in DOMAIN q PROVE ~Zombie(q[j])
  <2>1. q[j].proc \in Procs
    BY IdType
  <2> QED
    BY <2>1 DEF NoZombies, Zombie
<1> QED
  BY <1>1 DEF LockZombies

(* SetQueues wakes whoever's request is completed.                         *)
LEMMA SetQueuesAttended ==
    ASSUME NEW q, NEW l, NEW c, NEW ch, SetQueues(q, l, c, ch), NoZombies(pc'),
           Attended(q, c, IF ch THEN Procs ELSE woken, pc')
    PROVE  AttendInv'
<1>1. arb_sequence_q' = q /\ arb_completed' = c /\ woken' = Woken(c, ch)
  BY DEF SetQueues
<1>2. ASSUME NEW p \in Procs, NEW id \in Awaited(pc', p), ~InQueue(q, id)
      PROVE  id \in c /\ p \in Woken(c, ch)
  BY <1>2 DEF Attended, Woken
<1> QED
  BY <1>1, <1>2 DEF AttendInv, Attended

(* A queue drawn from the others' entries keeps every request of the       *)
(* others.                                                                 *)
LEMMA DrawsAll ==
    ASSUME NEW m, NEW q, NEW I, Draws(m, q, I), NEW i \in I
    PROVE  \E k \in DOMAIN m : m[k] = q[i]
<1>1. PICK f \in [DOMAIN m -> I] :
         /\ \A j \in I : \E k \in DOMAIN m : f[k] = j
         /\ \A k \in DOMAIN m : m[k] = q[f[k]]
  BY Zenon DEF Draws
<1>2. PICK k \in DOMAIN m : f[k] = i
  BY <1>1
<1> QED
  BY <1>1, <1>2

(* A granted request is completed instead of queued.                       *)
LEMMA CompleteAttended ==
    ASSUME NEW q \in Seq(Requests), NEW i \in DOMAIN q, NEW c, NEW w, NEW at, Attended(q, c, w, at)
    PROVE  Attended(RemoveAt(q, i), c \cup {Id(q[i])}, w \cup Procs, at)
<1> DEFINE m == RemoveAt(q, i)
           I == DOMAIN q \ {i}
<1>1. Draws(m, q, I)
  BY RemoveDraws
<1>2. ASSUME NEW id, InQueue(q, id), id # Id(q[i]) PROVE InQueue(m, id)
  <2>1. PICK j \in DOMAIN q : Id(q[j]) = id
    BY <1>2 DEF InQueue
  <2>2. j \in I
    BY <1>2, <2>1
  <2>3. \E k \in DOMAIN m : m[k] = q[j]
    BY <1>1, <2>2, DrawsAll
  <2> QED
    BY <2>1, <2>3 DEF InQueue
<1> HIDE DEF m
<1>3. Attended(m, c \cup {Id(q[i])}, w \cup Procs, at)
  BY <1>2 DEF Attended
<1> QED
  BY <1>3 DEF m

(* A lock is granted: its process is woken, and nobody else loses          *)
(* anything.                                                               *)
LEMMA GrantQueuedAttended ==
    ASSUME NEW q \in Seq(Requests), NEW l \in Locks, NEW c, NEW ch, grant_queued_locks(q, l, c, ch),
           NoZombies(pc), NoZombies(pc'), Attended(q, c, woken, pc')
    PROVE  AttendInv'
<1> DEFINE k == WithoutLocks(l, {})
           h == ch \/ {} # {}
<1>1. GrantLock(q, k, c, h)
  BY NoLockZombies, WithoutNobody DEF grant_queued_locks
<1> HIDE DEF k, h
<1>2. CASE SetQueues(q, k, c, h)
  <2>1. Attended(q, c, IF h THEN Procs ELSE woken, pc')
    BY DEF Attended
  <2> QED
    BY <1>2, <2>1, SetQueuesAttended
<1>3. ASSUME NEW i \in FirstOf(Grantable(q, k)),
             SetQueues(RemoveAt(q, i), [k EXCEPT ![SeqAt(q, i)] = @ + 1], c \cup {Id(q[i])}, TRUE)
      PROVE  AttendInv'
  <2>1. i \in DOMAIN q
    BY DEF FirstOf, Grantable
  <2>2. Attended(RemoveAt(q, i), c \cup {Id(q[i])}, woken \cup Procs, pc')
    BY <2>1, CompleteAttended
  <2>3. Attended(RemoveAt(q, i), c \cup {Id(q[i])}, Procs, pc')
    BY <2>2 DEF Attended
  <2> QED
    BY <1>3, <2>3, SetQueuesAttended
<1> QED
  BY <1>1, <1>2, <1>3 DEF GrantLock

(* Whoever is below a member of a family belongs to it.                    *)
LEMMA FamilyTwice ==
    ASSUME NEW S
    PROVE  Family(Family(S)) \subseteq Family(S)
  BY SeqsAssumption, TreeAssumption DEF Family, is_child

(* Of the processes that leave the queues with S none waits on.            *)
LEMMA EndAttended ==
    ASSUME SafeInv, NEW S, End(S), Family(S) \cap running \subseteq S
    PROVE  AttendInv'
<1> DEFINE q == arb_sequence_q
           m == WithoutRequests(q, S)
           I == {i \in DOMAIN q : SeqAt(q, i) \notin Family(S)}
<1>1. q \in Seq(Requests) /\ pc' = [p \in Procs |-> IF SeqOf[p] \in S THEN "off" ELSE pc[p]]
  BY DEF SafeInv, TypeInv, QueueTypes, End
<1>2. NoZombies(pc')
  BY <1>1 DEF SafeInv, AttendInv, NoZombies
<1>3. Draws(m, q, I)
  BY <1>1, WithoutDraws
<1>4. ASSUME NEW p \in Procs, NEW id \in Awaited(pc', p)
      PROVE  InQueue(m, id) \/ (id \in arb_completed /\ p \in woken)
  <2>1. pc'[p] = pc[p] /\ pc[p] # "off" /\ SeqOf[p] \notin S
    BY <1>1, <1>4 DEF Awaited
  <2>2. id \in Awaited(pc, p) /\ id[2] = p
    BY <1>4, <2>1 DEF Awaited
  <2>3. SeqOf[p] \notin Family(S)
    BY <2>1 DEF SafeInv, QueueInv, Alive
  <2>4. ASSUME NEW i \in DOMAIN q, Id(q[i]) = id PROVE InQueue(m, id)
    <3>1. q[i].proc = p
      BY <2>2, <2>4 DEF Id
    <3>2. i \in I
      BY <2>3, <3>1 DEF SeqAt
    <3>3. \E k \in DOMAIN m : m[k] = q[i]
      BY <1>3, <3>2, DrawsAll
    <3> QED
      BY <2>4, <3>3 DEF InQueue
  <2>5. InQueue(q, id) \/ (id \in arb_completed /\ p \in woken)
    BY <2>2 DEF SafeInv, AttendInv, Attended
  <2> QED
    BY <2>4, <2>5 DEF InQueue
<1>5. PICK ch : SetQueues(m, WithoutLocks(lock_list, S), arb_completed, ch)
  BY DEF End, remove_sequence_from_queues
<1> HIDE DEF m
<1>6. Attended(m, arb_completed, IF ch THEN Procs ELSE woken, pc')
  BY <1>4 DEF Attended
<1> QED
  BY <1>2, <1>5, <1>6, SetQueuesAttended

(* One process starts to wait, or stops waiting.                           *)
LEMMA AwaitedElsewhere ==
    ASSUME NEW at, NEW to, at \in [Procs -> {"off", "dead", "idle", "wait_req", "wait_lock",
                                             "granted", "wait_item"}],
           NEW p \in Procs, NEW r \in Procs, r # p
    PROVE  Awaited([at EXCEPT ![p] = to], r) = Awaited(at, r)
  BY DEF Awaited

(* Steps that touch neither the processes nor the queues.                  *)
LEMMA AttendSame ==
    ASSUME AttendInv, UNCHANGED <<pc, arb_sequence_q, arb_completed, woken>>
    PROVE  AttendInv'
  BY DEF AttendInv, Attended, Awaited

(* Steps that grant locks and move no process.                             *)
LEMMA AttendGrant ==
    ASSUME SafeInv, NEW l \in Locks, NEW ch, UNCHANGED pc,
           grant_queued_locks(arb_sequence_q, l, arb_completed, ch)
    PROVE  AttendInv'
<1>1. arb_sequence_q \in Seq(Requests)
  BY DEF SafeInv, TypeInv, QueueTypes
<1>2. NoZombies(pc) /\ Attended(arb_sequence_q, arb_completed, woken, pc)
  BY DEF SafeInv, AttendInv
<1>3. NoZombies(pc') /\ Attended(arb_sequence_q, arb_completed, woken, pc')
  BY <1>2 DEF NoZombies, Attended, Awaited
<1> QED
  BY <1>1, <1>2, <1>3, GrantQueuedAttended

(* A process that does not wait moves on to something else.                *)
LEMMA MoveAttended ==
    ASSUME SafeInv, NEW p \in Procs, NEW to, to # "dead", pc' = [pc EXCEPT ![p] = to]
    PROVE  /\ NoZombies(pc') /\ pc'[p] = to
           /\ \A r \in Procs : r # p => \A id \in Awaited(pc', r) :
                 \/ InQueue(arb_sequence_q, id)
                 \/ id \in arb_completed /\ r \in woken
<1>1. pc'[p] = to /\ \A r \in Procs : r # p => pc'[r] = pc[r]
  BY DEF SafeInv, TypeInv, ProcTypes
<1>2. \A r \in Procs : r # p => Awaited(pc', r) = Awaited(pc, r)
  BY <1>1 DEF Awaited
<1> QED
  BY <1>1, <1>2 DEF SafeInv, AttendInv, NoZombies, Attended

(* Every action attends to whoever waits: those of the sequences ...       *)
LEMMA Attend_Start ==
    ASSUME SafeInv, NEW s \in Seqs, Start(s)
    PROVE  AttendInv'
<1>1. /\ pc' = [p \in Procs |-> IF SeqOf[p] = s THEN "idle" ELSE pc[p]]
      /\ arb_completed' = {id \in arb_completed : SeqOf[id[2]] # s}
      /\ UNCHANGED <<arb_sequence_q, woken>>
  BY DEF Start
<1>2. NoZombies(pc')
  BY <1>1 DEF SafeInv, AttendInv, NoZombies
<1>3. ASSUME NEW p \in Procs, NEW id \in Awaited(pc', p)
      PROVE  InQueue(arb_sequence_q, id) \/ (id \in arb_completed' /\ p \in woken)
  <2>1. SeqOf[p] # s /\ id \in Awaited(pc, p) /\ id[2] = p
    BY <1>1, <1>3 DEF Awaited
  <2> QED
    BY <1>1, <2>1 DEF SafeInv, AttendInv, Attended
<1> QED
  BY <1>1, <1>2, <1>3 DEF AttendInv, Attended

LEMMA Attend_wait_for_grant ==
    ASSUME SafeInv, NEW p \in Procs, NEW pri \in Priorities, NEW b \in BOOLEAN,
           wait_for_grant(p, pri, b)
    PROVE  AttendInv'
<1> DEFINE q == arb_sequence_q
           req == Request("REQ", p, pri)
           e == (IF b THEN <<Request("PRELOCK", p, AnyPriority)>> ELSE << >>)
           m == WithRequest(p, pri, b)
<1>1. pc' = [pc EXCEPT ![p] = "wait_req"]
  BY DEF wait_for_grant, Calls
<1>2. q \in Seq(Requests) /\ e \in Seq(Requests) /\ req \in Requests /\ Id(req) = <<"REQ", p>>
  BY RequestType, AnyPriorityType DEF SafeInv, TypeInv, QueueTypes, Request, Id
<1>3. m = (q \o e) \o <<req>>
  BY DEF WithRequest
<1> HIDE DEF e, req, m
<1>4. m[Len(q) + Len(e) + 1] = req /\ Len(q) + Len(e) + 1 \in DOMAIN m
  BY <1>2, <1>3
<1>5. \A i \in DOMAIN q : i \in DOMAIN m /\ m[i] = q[i]
  BY <1>2, <1>3
<1>6. \A id : InQueue(q, id) => InQueue(m, id)
  BY <1>5 DEF InQueue
<1>7. InQueue(m, <<"REQ", p>>)
  BY <1>2, <1>4 DEF InQueue
<1>8. NoZombies(pc') /\ Attended(m, arb_completed, Procs, pc')
  <2>1. Awaited(pc', p) = {<<"REQ", p>>}
    BY <1>1, MoveAttended DEF Awaited
  <2> QED
    BY <1>1, <1>6, <1>7, <2>1, MoveAttended DEF Attended
<1>9. SetQueues(m, lock_list, arb_completed, TRUE)
  BY DEF wait_for_grant, m
<1> QED
  BY <1>8, <1>9, SetQueuesAttended

LEMMA Attend_m_lock_req ==
    ASSUME SafeInv, NEW p \in Procs, NEW b \in BOOLEAN, m_lock_req(p, b)
    PROVE  AttendInv'
<1> DEFINE q == arb_sequence_q
           r == Request("LOCK", p, AnyPriority)
           back == Append(q, r)
           front == <<r>> \o q
<1>1. pc' = [pc EXCEPT ![p] = "wait_lock"]
  BY DEF m_lock_req, Calls
<1>2. q \in Seq(Requests) /\ r \in Requests /\ Id(r) = <<"LOCK", p>>
  BY RequestType, AnyPriorityType DEF SafeInv, TypeInv, QueueTypes, Request, Id
<1> HIDE DEF r
<1>3. back \in Seq(Requests) /\ front \in Seq(Requests)
  BY <1>2
<1>4. \A id : InQueue(q, id) \/ id = Id(r) => InQueue(back, id)
  <2>1. Len(q) + 1 \in DOMAIN back /\ back[Len(q) + 1] = r
    BY <1>2
  <2>2. \A i \in DOMAIN q : i \in DOMAIN back /\ back[i] = q[i]
    BY <1>2
  <2> HIDE DEF back
  <2> QED
    BY <2>1, <2>2 DEF InQueue
<1>5. \A id : InQueue(q, id) \/ id = Id(r) => InQueue(front, id)
  <2>1. 1 \in DOMAIN front /\ front[1] = r
    BY <1>2
  <2>2. \A i \in DOMAIN q : i + 1 \in DOMAIN front /\ front[i + 1] = q[i]
    BY <1>2
  <2> HIDE DEF front
  <2> QED
    BY <2>1, <2>2 DEF InQueue
<1>6. Awaited(pc', p) = {Id(r)}
  BY <1>1, <1>2, MoveAttended DEF Awaited
<1> HIDE DEF back, front
<1>7. /\ NoZombies(pc')
      /\ Attended(back, arb_completed, woken, pc')
      /\ Attended(front, arb_completed, woken, pc')
  BY <1>1, <1>4, <1>5, <1>6, MoveAttended DEF Attended
<1>8. \/ grant_queued_locks(back, lock_list, arb_completed, FALSE)
      \/ grant_queued_locks(front, lock_list, arb_completed, TRUE)
  BY DEF m_lock_req, back, front, r
<1>9. lock_list \in Locks /\ NoZombies(pc)
  BY DEF SafeInv, TypeInv, LocksInv, AttendInv
<1> QED
  BY <1>3, <1>7, <1>8, <1>9, GrantQueuedAttended

LEMMA Attend_ArbitrationCompleted ==
    ASSUME SafeInv, NEW p \in Procs, ArbitrationCompleted(p)
    PROVE  AttendInv'
<1> DEFINE to == IF pc[p] = "wait_req" THEN "granted" ELSE "idle"
<1>1. /\ woken' = woken \ {p} /\ arb_sequence_q' = arb_sequence_q
      /\ arb_completed' = arb_completed \ Awaited(pc, p)
      /\ pc' = [pc EXCEPT ![p] = to] /\ to \in {"granted", "idle"}
  BY DEF ArbitrationCompleted
<1> HIDE DEF to
<1>2. NoZombies(pc') /\ Awaited(pc', p) = {}
  BY <1>1, MoveAttended DEF Awaited
<1>3. ASSUME NEW r \in Procs, NEW id \in Awaited(pc', r)
      PROVE  InQueue(arb_sequence_q, id) \/ (id \in arb_completed' /\ r \in woken')
  <2>1. r # p
    BY <1>2, <1>3
  <2>2. id[2] = r /\ \A jd \in Awaited(pc, p) : jd[2] = p
    BY <1>3 DEF Awaited
  <2>3. id \notin Awaited(pc, p)
    BY <2>1, <2>2
  <2> QED
    BY <1>1, <1>3, <2>1, <2>3, MoveAttended
<1> QED
  BY <1>1, <1>2, <1>3 DEF AttendInv, Attended

LEMMA Attend_send_request ==
    ASSUME SafeInv, NEW p \in Procs, send_request(p)
    PROVE  AttendInv'
<1>1. CASE UNCHANGED <<pc, queueVars>>
  BY <1>1, AttendSame DEF SafeInv, queueVars
<1>2. CASE ~UNCHANGED <<pc, queueVars>>
  <2>1. /\ pc' = [pc EXCEPT ![p] = "wait_item"]
        /\ grant_queued_locks(arb_sequence_q, lock_list, arb_completed, FALSE)
    BY <1>2 DEF send_request
  <2>2. NoZombies(pc') /\ Awaited(pc', p) = {}
    BY <2>1, MoveAttended DEF Awaited
  <2>3. Attended(arb_sequence_q, arb_completed, woken, pc')
    BY <2>1, <2>2, MoveAttended DEF Attended
  <2>4. arb_sequence_q \in Seq(Requests) /\ lock_list \in Locks /\ NoZombies(pc)
    BY DEF SafeInv, TypeInv, QueueTypes, LocksInv, AttendInv
  <2> QED
    BY <2>1, <2>2, <2>3, <2>4, GrantQueuedAttended
<1> QED
  BY <1>1, <1>2

LEMMA Attend_ItemDoneSeen ==
    ASSUME SafeInv, NEW p \in Procs, ItemDoneSeen(p)
    PROVE  AttendInv'
<1>1. pc' = [pc EXCEPT ![p] = "idle"] /\ UNCHANGED <<arb_sequence_q, arb_completed, woken>>
  BY DEF ItemDoneSeen, queueVars
<1>2. NoZombies(pc') /\ Awaited(pc', p) = {}
  BY <1>1, MoveAttended DEF Awaited
<1> QED
  BY <1>1, <1>2, MoveAttended DEF AttendInv, Attended

LEMMA AttendSequence ==
    ASSUME "disable_fork" \notin Env, SafeInv, SequenceStep
    PROVE  AttendInv'
<1>1. ASSUME NEW s \in Seqs, Finish(s) PROVE AttendInv'
  BY <1>1, EndAttended DEF Finish
<1>2. ASSUME NEW s \in Seqs, Kill(s) PROVE AttendInv'
  BY <1>2, EndAttended, FamilyTwice DEF Kill
<1>3. ASSUME NEW s \in Seqs, ChangeRelevance(s) PROVE AttendInv'
  BY <1>3, AttendSame DEF ChangeRelevance, queueVars, SafeInv
<1>4. ASSUME NEW p \in Procs, m_unlock_req(p) PROVE AttendInv'
  <2> DEFINE m == [lock_list EXCEPT ![SeqOf[p]] = @ - 1]
  <2>1. lock_list \in [Seqs -> Nat] /\ SeqOf[p] \in Seqs /\ lock_list[SeqOf[p]] > 0
    BY <1>4, SeqsAssumption DEF SafeInv, TypeInv, LocksInv, Locks, m_unlock_req, has_lock
  <2>2. m \in [Seqs -> Nat] /\ Fewer(m, lock_list)
    BY <2>1 DEF Fewer
  <2>3. m \in Locks
    BY <2>2, FewerNested DEF SafeInv, TypeInv, LocksInv
  <2> QED
    BY <1>4, <2>3, AttendGrant DEF m_unlock_req
<1>5. ASSUME NEW p \in Procs, DisableFork(p) PROVE FALSE
  BY <1>5 DEF DisableFork
<1> QED
  BY <1>1, <1>2, <1>3, <1>4, <1>5, Attend_Start, Attend_wait_for_grant, Attend_m_lock_req,
     Attend_ArbitrationCompleted, Attend_send_request, Attend_ItemDoneSeen
     DEF SequenceStep

(* ... the grant of a request ...                                          *)
LEMMA Attend_Grant ==
    ASSUME SafeInv, NEW i \in DOMAIN arb_sequence_q, Grant(i)
    PROVE  AttendInv'
<1> DEFINE m == RemoveAt(arb_sequence_q, i)
           d == arb_completed \cup {Id(arb_sequence_q[i])}
<1>1. arb_sequence_q \in Seq(Requests) /\ pc' = pc
  BY DEF SafeInv, TypeInv, QueueTypes, Grant
<1>2. Attended(m, d, woken \cup Procs, pc)
  BY <1>1, CompleteAttended DEF SafeInv, AttendInv
<1>3. SetQueues(m, lock_list, d, TRUE)
  BY DEF Grant
<1> HIDE DEF m, d
<1>4. NoZombies(pc') /\ Attended(m, d, Procs, pc')
  BY <1>1, <1>2 DEF SafeInv, AttendInv, NoZombies, Attended, Awaited
<1> QED
  BY <1>3, <1>4, SetQueuesAttended

(* ... the other steps of the loop ...                                     *)
LEMMA AttendChoose ==
    ASSUME SafeInv, Choose
    PROVE  AttendInv'
<1> USE DEF SafeInv
<1>1. CASE StartScan
  BY <1>1, AttendGrant DEF StartScan, BeginScan, TypeInv, LocksInv
<1>2. CASE ScanZombie
  <2>1. scan \in DOMAIN arb_sequence_q /\ Zombie(arb_sequence_q[scan])
    BY <1>2, ScanIndex DEF ScanZombie
  <2> QED
    BY <2>1, IdType DEF TypeInv, QueueTypes, AttendInv, NoZombies, Zombie
<1>3. CASE ScanTake
  BY <1>3, ScanIndex, Attend_Grant DEF ScanTake
<1>4. CASE ScanNext
  BY <1>4, AttendSame DEF ScanNext, procVars, queueVars
<1>5. CASE ScanEnd
  <2>1. CASE GrantNothing
    BY <2>1, AttendSame DEF GrantNothing, procVars, queueVars
  <2>2. CASE UNCHANGED <<procVars, queueVars, itemVars, flagVars, selectVars, got>>
    BY <2>2, AttendSame DEF procVars, queueVars
  <2>3. CASE \E i \in Sound : Grant(i)
    BY <2>3, IndicesType, Attend_Grant
  <2> QED
    BY <1>5, <2>1, <2>2, <2>3, ScanEndCases
<1> QED
  BY <1>1, <1>2, <1>3, <1>4, <1>5 DEF Choose

LEMMA ForgetAttended ==
    ASSUME SafeInv, Gone(selected)
    PROVE  Attended(arb_sequence_q, arb_completed \ {<<"REQ", selected>>}, woken, pc)
<1>1. ASSUME NEW p \in Procs, NEW id \in Awaited(pc, p) PROVE id # <<"REQ", selected>>
  <2>1. pc[p] \in {"wait_req", "wait_lock"} /\ id[2] = p
    BY <1>1 DEF Awaited
  <2>2. p # selected
    BY <2>1, SeqsAssumption DEF Gone
  <2> QED
    BY <2>1, <2>2
<1> QED
  BY <1>1 DEF SafeInv, AttendInv, Attended

(* ... and the driver's.                                                   *)
LEMMA AttendDriver ==
    ASSUME SafeInv, DriverStep
    PROVE  AttendInv'
<1> USE DEF procVars, queueVars, SafeInv
<1>0. lock_list \in Locks /\ arb_sequence_q \in Seq(Requests)
  BY DEF TypeInv, LocksInv, QueueTypes
<1>1. ASSUME NEW call \in DriverCalls, CallSelect(call) PROVE AttendInv'
  BY <1>1, AttendSame DEF CallSelect
<1>2. CASE CallTry
  BY <1>2, AttendSame DEF CallTry
<1>3. CASE Choose
  BY <1>3, AttendChoose
<1>4. CASE m_wait_for_available_sequence
  BY <1>4, AttendSame DEF m_wait_for_available_sequence
<1>5. CASE PeekItem
  BY <1>0, <1>5, AttendSame, AttendGrant DEF PeekItem, item_done
<1>6. CASE Reselect
  BY <1>6, ForgetAttended DEF Reselect, AttendInv
<1>7. CASE TryFound
  BY <1>7, AttendSame DEF TryFound
<1>8. CASE TryAgain
  <2>1. /\ pc' = pc /\ Gone(selected)
        /\ grant_queued_locks(arb_sequence_q, lock_list, arb_completed \ {<<"REQ", selected>>}, FALSE)
    BY <1>8 DEF TryAgain, BeginScan
  <2>2. NoZombies(pc) /\ Attended(arb_sequence_q, arb_completed \ {<<"REQ", selected>>}, woken, pc)
    BY <2>1, ForgetAttended DEF AttendInv
  <2>3. NoZombies(pc') /\ Attended(arb_sequence_q, arb_completed \ {<<"REQ", selected>>}, woken, pc')
    BY <2>1, <2>2 DEF NoZombies, Attended, Awaited
  <2> QED
    BY <1>0, <2>1, <2>2, <2>3, GrantQueuedAttended
<1>9. CASE TryBlocked
  BY <1>9, AttendSame DEF TryBlocked
<1>10. CASE ItemDone
  BY <1>0, <1>10, AttendSame, AttendGrant DEF ItemDone, item_done
<1> QED
  BY <1>1, <1>2, <1>3, <1>4, <1>5, <1>6, <1>7, <1>8, <1>9, <1>10 DEF DriverStep

(* The invariants together are inductive.                                  *)
LEMMA SafeNext ==
    ASSUME "disable_fork" \notin Env, SafeInv, [Next]_vars
    PROVE  SafeInv'
<1>1. TypeInv' /\ QueueInv'
  BY TypeNext, QueueNext DEF SafeInv
<1>2. AttendInv'
  <2>1. CASE stop_sequences
    BY <2>1, EndAttended, FamilyTwice DEF stop_sequences
  <2>2. CASE UNCHANGED vars
    BY <2>2, AttendSame DEF SafeInv, vars, procVars, queueVars
  <2> QED
    BY <2>1, <2>2, AttendSequence, AttendDriver DEF Next
<1> QED
  BY <1>1, <1>2 DEF SafeInv

LEMMA SafeInit == Init => SafeInv
<1> SUFFICES ASSUME Init PROVE SafeInv
  OBVIOUS
<1>1. AttendInv
  BY DEF Init, AttendInv, NoZombies, Attended, Awaited
<1> QED
  BY <1>1, TypeInit, QueueInit DEF SafeInv

(* They imply that no request is lost.                                     *)
LEMMA SafeLost == SafeInv => NoLostRequest
<1> SUFFICES ASSUME SafeInv, NEW p \in Procs, NEW id \in Awaited(pc, p)
             PROVE  \/ Cardinality(Queued(id)) = 1 /\ id \notin arb_completed
                    \/ Queued(id) = {} /\ id \in arb_completed /\ p \in woken
  BY DEF NoLostRequest
<1>1. id[1] \in {"REQ", "LOCK"}
  BY DEF Awaited
<1>2. CASE InQueue(arb_sequence_q, id)
  <2>1. PICK i \in DOMAIN arb_sequence_q : Id(arb_sequence_q[i]) = id
    BY <1>2 DEF InQueue
  <2>2. arb_sequence_q[i].request # "PRELOCK"
    BY <1>1, <2>1 DEF Id
  <2>3. Queued(id) = {i}
    BY <2>1, <2>2 DEF SafeInv, QueueInv, QueueOK, Queued
  <2>4. id \notin arb_completed
    BY <2>1, <2>2 DEF SafeInv, QueueInv, QueueOK, EntryOK
  <2> QED
    BY <2>3, <2>4, FS_Singleton
<1>3. CASE ~InQueue(arb_sequence_q, id)
  BY <1>3 DEF SafeInv, AttendInv, Attended, InQueue, Queued
<1> QED
  BY <1>2, <1>3

(* No request is lost: a process that waits for a grant or a lock has its  *)
(* request in the queue once, or is granted and woken (wait_for_grant,     *)
(* m_lock_req, grant_queued_locks, m_wait_for_arbitration_completed).      *)
(* Where a single process may be killed this is false: the zombie takes    *)
(* the requests of its siblings out of the queue.                          *)
THEOREM RequestsKept ==
    ASSUME "disable_fork" \notin Env
    PROVE  Spec => []NoLostRequest
<1>1. SafeInv /\ [Next]_vars => SafeInv'
  BY SafeNext
<1> QED
  BY <1>1, SafeInit, SafeLost, PTL DEF Spec
==================================================================================
