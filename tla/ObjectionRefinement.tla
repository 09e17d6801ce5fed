--------------------------- MODULE ObjectionRefinement ---------------------------
(***************************************************************************)
(* What the drains of uvm_objection promise, for every finite tree of      *)
(* objects: each forked context has a process to serve it, an entry whose  *)
(* count is zero stays only while its drain is on the way, and the whole   *)
(* implements ObjectionContract.                                           *)
(***************************************************************************)
EXTENDS ObjectionProofs

(***************************************************************************)
(* No context is stranded                                                  *)
(***************************************************************************)

(* delete(idx) makes a list shorter by one.                                *)
LEMMA DeletedLen ==
    ASSUME NEW list \in Seq(Objects), NEW o, Listed(list, o)
    PROVE  Len(Deleted(list, o)) = Len(list) - 1
<1>1. Len(list) \in Nat /\ Len(list) > 0
  BY DEF Listed
<1> QED BY <1>1 DEF Deleted

(* A raise never makes the forked list longer.                             *)
LEMMA RaiseForked ==
    ASSUME TypeOK, NEW o \in Objects, NEW own \in BOOLEAN, NEW count \in Nat,
           m_raise(o, own, count)
    PROVE  Len(m_forked_list') <= Len(m_forked_list)
<1>1. m_forked_list \in Seq(Objects) /\ Len(m_forked_list) \in Nat
  BY DEF TypeOK
<1>2. CASE m_forked_list' = m_forked_list
  BY <1>1, <1>2
<1>3. CASE Listed(m_forked_list, o) /\ m_forked_list' = Deleted(m_forked_list, o)
  BY <1>1, <1>3, DeletedLen
<1> QED
  BY <1>2, <1>3 DEF m_raise, CatchContext, CatchScheduled, CatchForked, CatchDrain, contexts

(* Every step leaves a process for every context in the forked list.       *)
LEMMA NoStrandedStep ==
    ASSUME TypeOK, TypeOK', NoStrandedContext, [Next]_vars
    PROVE  NoStrandedContext'
<1> USE DEF NoStrandedContext
<1>0. /\ m_forked_list \in Seq(Objects) /\ m_scheduled_list \in Seq(Objects)
      /\ Len(m_forked_list) \in Nat /\ Len(m_forked_list') \in Nat
      /\ forks \in Nat
  BY DEF TypeOK
<1>1. CASE Len(m_forked_list') <= Len(m_forked_list) /\ forks' = forks
  BY <1>0, <1>1
<1>2. CASE m_forked_list' = m_forked_list /\ forks' = forks
  BY <1>0, <1>2
<1>3. ASSUME NEW o \in Objects, NEW n \in 0 .. MaxCount, RaiseObjection(o, n)
      PROVE  NoStrandedContext'
  <2>1. CASE n = 0
    BY <1>2, <1>3, <2>1 DEF RaiseObjection, contexts
  <2>2. CASE n # 0
    <3>1. n \in Nat
      BY BoundsAssumption
    <3>2. m_raise(o, TRUE, n) /\ forks' = forks
      BY <1>3, <2>2 DEF RaiseObjection
    <3> QED BY <1>1, <3>1, <3>2, RaiseForked
  <2> QED BY <2>1, <2>2
<1>4. CASE PropagateRaise
  <2>1. walk.at \in Objects /\ walk.count \in Nat
    BY DEF TypeOK, Walks
  <2>2. m_raise(walk.at, FALSE, walk.count) /\ forks' = forks
    BY <1>4 DEF PropagateRaise
  <2> QED BY <1>1, <2>1, <2>2, RaiseForked
<1>5. ASSUME NEW o \in Objects, NEW n \in 1 .. MaxCount, DropObjection(o, n)
      PROVE  NoStrandedContext'
  BY <1>2, <1>5 DEF DropObjection, DropBelowZero, m_drop, contexts
<1>6. CASE PropagateDrop
  BY <1>2, <1>6 DEF PropagateDrop, DropBelowZero, m_drop, contexts
<1>7. CASE m_execute_scheduled_forks
  <2>1. /\ m_forked_list' = Append(m_forked_list, Head(m_scheduled_list))
        /\ m_scheduled_list # << >>
        /\ forks' = forks + 1
    BY <1>7 DEF m_execute_scheduled_forks
  <2>2. Len(m_forked_list') = Len(m_forked_list) + 1
    BY <1>0, <2>1
  <2> QED BY <1>0, <2>1, <2>2
<1>8. CASE StartDrain
  <2>1. forks' = forks - 1 /\ forks > 0
    BY <1>8 DEF StartDrain
  <2>2. CASE m_forked_list = << >>
    <3>1. Len(m_forked_list') = 0
      BY <1>8, <2>2 DEF StartDrain
    <3> QED BY <1>0, <2>1, <3>1
  <2>3. CASE m_forked_list # << >>
    <3>1. m_forked_list' = Tail(m_forked_list)
      BY <1>8, <2>3 DEF StartDrain
    <3>2. Len(m_forked_list') = Len(m_forked_list) - 1
      BY <1>0, <2>3, <3>1
    <3> QED BY <1>0, <2>1, <3>2
  <2> QED BY <2>2, <2>3
<1>9. ASSUME NEW o \in Objects,
             DrainTimeElapsed(o) \/ AllDropped(o) \/ PropagateDrain(o) \/ EndDrain(o)
                \/ WaitFor(o)
      PROVE  NoStrandedContext'
  BY <1>2, <1>9 DEF DrainTimeElapsed, AllDropped, PropagateDrain, EndDrain, WaitFor,
                    contexts
<1>10. CASE Clear
  <2>1. Len(m_forked_list') = 0 /\ forks' = forks
    BY <1>10 DEF Clear
  <2> QED BY <1>0, <2>1
<1>11. ASSUME NEW mode \in BOOLEAN, SetPropagateMode(mode)
       PROVE  NoStrandedContext'
  BY <1>2, <1>11 DEF SetPropagateMode, contexts
<1>12. CASE UNCHANGED vars
  BY <1>2, <1>12 DEF vars, contexts
<1> QED BY <1>3, <1>4, <1>5, <1>6, <1>7, <1>8, <1>9, <1>10, <1>11, <1>12 DEF Next

(* Every context in the forked list has a forked process that will serve   *)
(* it, whichever contexts raises take out of the middle of the list.       *)
THEOREM NoStrandedContextCorrect == Spec => []NoStrandedContext
<1>1. Init => NoStrandedContext
  BY DEF Init, NoStrandedContext
<1>2. TypeOK /\ TypeOK' /\ NoStrandedContext /\ [Next]_vars => NoStrandedContext'
  BY NoStrandedStep
<1> QED BY <1>1, <1>2, TypeCorrect, PTL DEF Spec

-----------------------------------------------------------------------------------
(***************************************************************************)
(* The entries of the counts                                               *)
(***************************************************************************)

(* A drain that goes up has deleted its object's entry, and nothing made a *)
(* new one since: this is why EntriesDrain survives the end of the drain.  *)
DrainForgets ==
    \A o \in Objects : m_drain_proc[o] = "propagate" => o \notin m_total_keys

EInv == IInv /\ EntriesDrain /\ DrainForgets

(* Every object counts at most its total.                                  *)
LEMMA SourceCovered ==
    ASSUME TypeOK, WalkOK, Conservation, NEW o \in Objects
    PROVE  m_source_count[o] <= m_total_count[o]
<1>1. m_total_count[o] = m_source_count[o] + Sum(Charge, Kids(o))
  BY DEF Conservation
<1>2. Sum(Charge, Kids(o)) \in Nat
  BY KidsType, ChargeType, SumType
<1>3. m_total_count[o] \in Nat /\ m_source_count[o] \in Nat
  BY DEF TypeOK
<1> QED BY <1>1, <1>2, <1>3

(* What EntriesDrain says of one object.                                   *)
EntryOK(o) ==
    IF o \in m_total_keys
      THEN m_total_count[o] > 0 \/ Pending(o)
      ELSE m_total_count[o] = 0 /\ m_source_count[o] = 0

(* m_raise makes the entry of its object and leaves the others alone.      *)
LEMMA RaiseEntries ==
    ASSUME TypeOK, OneContext, EntriesDrain, DrainForgets,
           NEW o \in Objects, NEW own \in BOOLEAN, NEW count \in Nat, count >= 1,
           m_raise(o, own, count), \A q \in Objects : m_drain_proc[q] # "propagate"
    PROVE  EntriesDrain' /\ DrainForgets'
<1>1. o \in m_total_keys' /\ \A q \in Objects : q # o => (q \in m_total_keys' <=> q \in m_total_keys)
  BY DEF m_raise
<1>2. m_total_count'[o] > 0
  <2>1. m_total_count'[o] >= 1
    BY RaiseOneContext
  <2>2. m_total_count'[o] = m_total_count[o] + count /\ m_total_count[o] \in Nat
    BY DEF m_raise, TypeOK
  <2> QED BY <2>1, <2>2
<1>3. \A q \in Objects : q # o =>
         /\ m_total_count'[q] = m_total_count[q]
         /\ m_source_count'[q] = m_source_count[q]
  BY DEF m_raise, TypeOK
<1>4. \A q \in Objects : q # o => (Pending(q)' <=> Pending(q))
  <2>1. CASE UNCHANGED contexts
    BY <2>1 DEF contexts, Pending
  <2>2. CASE CatchContext(o)
    BY <2>2, CatchEffect DEF Pending
  <2> QED BY <2>1, <2>2 DEF m_raise
<1>5. \A q \in Objects : m_drain_proc'[q] # "propagate"
  <2>1. CASE UNCHANGED contexts
    BY <2>1 DEF contexts
  <2>2. CASE CatchContext(o)
    BY <2>2, CatchEffect
  <2> QED BY <2>1, <2>2 DEF m_raise
<1>6. \A q \in Objects : EntryOK(q)'
  BY <1>1, <1>2, <1>3, <1>4 DEF EntryOK, EntriesDrain
<1> QED BY <1>5, <1>6 DEF EntryOK, EntriesDrain, DrainForgets

(* m_drop keeps the entry of an object that reaches zero: it is pending.   *)
LEMMA DropEntries ==
    ASSUME TypeOK, OneContext, EntriesDrain, DrainForgets,
           NEW o \in Objects, NEW own \in BOOLEAN, NEW count \in Nat, count >= 1,
           ~BelowZero(o, own, count), m_drop(o, own, count)
    PROVE  EntriesDrain' /\ DrainForgets'
<1>1. /\ m_total_keys' = m_total_keys
      /\ m_forked_list' = m_forked_list /\ m_drain_proc' = m_drain_proc
  BY DEF m_drop
<1>2. /\ m_total_count[o] \in Nat /\ count <= m_total_count[o]
      /\ m_total_count'[o] = m_total_count[o] - count
  BY DEF m_drop, BelowZero, TypeOK
<1>3. \A q \in Objects : q # o =>
         /\ m_total_count'[q] = m_total_count[q]
         /\ m_source_count'[q] = m_source_count[q]
  BY DEF m_drop, TypeOK
<1>4. o \in m_total_keys
  BY <1>2 DEF EntriesDrain
<1>5. CASE count # m_total_count[o]
  <2>1. m_scheduled_list' = m_scheduled_list
    BY <1>5 DEF m_drop
  <2>2. \A q \in Objects : Pending(q)' <=> Pending(q)
    BY <1>1, <2>1 DEF Pending
  <2>3. m_total_count'[o] > 0
    BY <1>2, <1>5
  <2>4. \A q \in Objects : EntryOK(q)'
    BY <1>1, <1>3, <1>4, <2>2, <2>3 DEF EntryOK, EntriesDrain
  <2> QED BY <1>1, <2>4 DEF EntryOK, EntriesDrain, DrainForgets
<1>6. CASE count = m_total_count[o]
  <2>1. m_scheduled_list' = Append(m_scheduled_list, o)
    BY <1>6 DEF m_drop, ScheduleDrain
  <2>2. \A q : Listed(m_scheduled_list', q) <=> q = o \/ Listed(m_scheduled_list, q)
    BY <2>1, ListedAppend DEF TypeOK
  <2>3. \A q \in Objects : Pending(q)' <=> q = o \/ Pending(q)
    BY <1>1, <2>2 DEF Pending
  <2>4. \A q \in Objects : EntryOK(q)'
    BY <1>1, <1>3, <1>4, <2>3 DEF EntryOK, EntriesDrain
  <2> QED BY <1>1, <2>4 DEF EntryOK, EntriesDrain, DrainForgets
<1> QED BY <1>5, <1>6

(* Every step keeps the entries that are needed, and no other for long.    *)
LEMMA EntriesStep ==
    ASSUME IInv, EntriesDrain, DrainForgets, [Next]_vars
    PROVE  EntriesDrain' /\ DrainForgets'
<1> USE DEF IInv, counts, contexts
<1>1. ASSUME UNCHANGED <<m_total_count, m_source_count, m_total_keys>>,
             \A q \in Objects : Pending(q)' <=> Pending(q),
             \A q \in Objects : m_drain_proc'[q] = "propagate" => m_drain_proc[q] = "propagate"
      PROVE  EntriesDrain' /\ DrainForgets'
  <2>1. \A q \in Objects : EntryOK(q)'
    BY <1>1 DEF EntryOK, EntriesDrain
  <2> QED BY <1>1, <2>1 DEF EntryOK, EntriesDrain, DrainForgets
<1>2. ASSUME UNCHANGED <<counts, contexts>>
      PROVE  EntriesDrain' /\ DrainForgets'
  <2>1. \A q \in Objects : Pending(q)' <=> Pending(q)
    BY <1>2 DEF Pending
  <2> QED BY <1>1, <1>2, <2>1
<1>3. ASSUME NEW o \in Objects, NEW n \in 0 .. MaxCount, RaiseObjection(o, n)
      PROVE  EntriesDrain' /\ DrainForgets'
  <2>1. CASE n = 0
    BY <1>2, <1>3, <2>1 DEF RaiseObjection
  <2>2. CASE n # 0
    <3>1. n \in Nat /\ n >= 1
      BY <2>2, BoundsAssumption
    <3>2. m_raise(o, TRUE, n) /\ \A q \in Objects : m_drain_proc[q] # "propagate"
      BY <1>3, <2>2 DEF RaiseObjection, Quiet
    <3> QED BY <3>1, <3>2, RaiseEntries
  <2> QED BY <2>1, <2>2
<1>4. CASE PropagateRaise
  <2>1. walk.at \in Objects /\ walk.count \in Nat /\ walk.count >= 1
    BY <1>4 DEF PropagateRaise, TypeOK, Walks, WalkOK
  <2>2. m_raise(walk.at, FALSE, walk.count) /\ \A q \in Objects : m_drain_proc[q] # "propagate"
    BY <1>4 DEF PropagateRaise, WalkOK
  <2> QED BY <2>1, <2>2, RaiseEntries
<1>5. ASSUME NEW o \in Objects, NEW n \in 1 .. MaxCount, DropObjection(o, n)
      PROVE  EntriesDrain' /\ DrainForgets'
  <2>1. CASE BelowZero(o, TRUE, n)
    BY <1>2, <1>5, <2>1 DEF DropObjection, DropBelowZero
  <2>2. CASE ~BelowZero(o, TRUE, n)
    <3>1. n \in Nat /\ n >= 1
      BY BoundsAssumption
    <3>2. m_drop(o, TRUE, n)
      BY <1>5, <2>2 DEF DropObjection
    <3> QED BY <2>2, <3>1, <3>2, DropEntries
  <2> QED BY <2>1, <2>2
<1>6. CASE PropagateDrop
  <2>1. walk.at \in Objects /\ walk.count \in Nat /\ walk.count >= 1 /\ walk.dir = "drop"
    BY <1>6 DEF PropagateDrop, TypeOK, Walks, WalkOK
  <2>2. ~BelowZero(walk.at, FALSE, walk.count)
    BY <2>1, NoUnderflow
  <2>3. m_drop(walk.at, FALSE, walk.count)
    BY <1>6, <2>2 DEF PropagateDrop
  <2> QED BY <2>1, <2>2, <2>3, DropEntries
<1>7. CASE m_execute_scheduled_forks
  <2>1. /\ m_scheduled_list # << >>
        /\ m_scheduled_list' = Tail(m_scheduled_list)
        /\ m_forked_list' = Append(m_forked_list, Head(m_scheduled_list))
        /\ UNCHANGED <<counts, m_drain_proc>>
    BY <1>7 DEF m_execute_scheduled_forks
  <2>2. /\ Listed(m_scheduled_list, Head(m_scheduled_list))
        /\ \A q : Listed(m_scheduled_list', q)
                     <=> q # Head(m_scheduled_list) /\ Listed(m_scheduled_list, q)
        /\ \A q : Listed(m_forked_list', q)
                     <=> q = Head(m_scheduled_list) \/ Listed(m_forked_list, q)
    BY <2>1, ListedTail, ListedAppend DEF TypeOK, OneContext
  <2>3. \A q \in Objects : Pending(q)' <=> Pending(q)
    BY <2>1, <2>2 DEF Pending
  <2> QED BY <1>1, <2>1, <2>3
<1>8. CASE StartDrain
  <2>1. CASE m_forked_list = << >>
    <3>1. UNCHANGED <<counts, contexts>>
      BY <1>8, <2>1 DEF StartDrain
    <3> QED BY <1>2, <3>1
  <2>2. CASE m_forked_list # << >>
    <3>1. /\ m_forked_list' = Tail(m_forked_list)
          /\ m_drain_proc' = [m_drain_proc EXCEPT ![Head(m_forked_list)] = "delay"]
          /\ UNCHANGED <<counts, m_scheduled_list>>
      BY <1>8, <2>2 DEF StartDrain
    <3>2. /\ Head(m_forked_list) \in Objects
          /\ Listed(m_forked_list, Head(m_forked_list))
          /\ \A q : Listed(m_forked_list', q)
                       <=> q # Head(m_forked_list) /\ Listed(m_forked_list, q)
      BY <2>2, <3>1, ListedTail DEF TypeOK, OneContext
    <3>3. \A q \in Objects : m_drain_proc'[q] =
             IF q = Head(m_forked_list) THEN "delay" ELSE m_drain_proc[q]
      BY <3>1, <3>2 DEF TypeOK
    <3>4. \A q \in Objects : Pending(q)' <=> Pending(q)
      BY <3>1, <3>2, <3>3 DEF Pending
    <3> QED BY <1>1, <3>1, <3>3, <3>4
  <2> QED BY <2>1, <2>2
<1>9. ASSUME NEW o \in Objects, DrainTimeElapsed(o) \/ AllDropped(o)
      PROVE  EntriesDrain' /\ DrainForgets'
  <2>1. /\ m_drain_proc[o] # "none"
        /\ \A q \in Objects : q # o => m_drain_proc'[q] = m_drain_proc[q]
        /\ m_drain_proc'[o] \in {"all_dropped", "wait_fork"}
        /\ UNCHANGED <<counts, m_scheduled_list, m_forked_list>>
    BY <1>9 DEF DrainTimeElapsed, AllDropped, TypeOK
  <2>2. \A q \in Objects : Pending(q)' <=> Pending(q)
    BY <2>1 DEF Pending
  <2>3. \A q \in Objects : m_drain_proc'[q] = "propagate" => m_drain_proc[q] = "propagate"
    BY <2>1
  <2> QED BY <1>1, <2>1, <2>2, <2>3
<1>10. ASSUME NEW o \in Objects, PropagateDrain(o)
       PROVE  EntriesDrain' /\ DrainForgets'
  <2>1. /\ m_drain_proc[o] = "wait_fork"
        /\ \A q \in Objects : m_drain_proc'[q] = IF q = o THEN "propagate" ELSE m_drain_proc[q]
        /\ m_total_keys' = IF m_total_count[o] = 0 THEN m_total_keys \ {o} ELSE m_total_keys
        /\ UNCHANGED <<m_total_count, m_source_count, m_scheduled_list, m_forked_list>>
    BY <1>10 DEF PropagateDrain, DeleteZeroEntries, TypeOK
  <2>2. m_total_count[o] = 0
    BY <2>1 DEF OneContext, Pending
  <2>3. m_source_count[o] = 0
    BY <2>2, SourceCovered DEF TypeOK
  <2>4. \A q \in Objects : Pending(q)' <=> Pending(q)
    BY <2>1 DEF Pending
  <2>5. \A q \in Objects : EntryOK(q)'
    BY <2>1, <2>2, <2>3, <2>4 DEF EntryOK, EntriesDrain
  <2> QED BY <2>1, <2>2, <2>5 DEF EntryOK, EntriesDrain, DrainForgets
<1>11. ASSUME NEW o \in Objects, EndDrain(o)
       PROVE  EntriesDrain' /\ DrainForgets'
  <2>1. /\ m_drain_proc[o] = "propagate"
        /\ \A q \in Objects : m_drain_proc'[q] = IF q = o THEN "none" ELSE m_drain_proc[q]
        /\ UNCHANGED <<counts, m_scheduled_list, m_forked_list>>
    BY <1>11 DEF EndDrain, TypeOK
  <2>2. o \notin m_total_keys
    BY <2>1 DEF DrainForgets
  <2>3. \A q \in Objects : q # o => (Pending(q)' <=> Pending(q))
    BY <2>1 DEF Pending
  <2>4. \A q \in Objects : EntryOK(q)'
    BY <2>1, <2>2, <2>3 DEF EntryOK, EntriesDrain
  <2> QED BY <2>1, <2>4 DEF EntryOK, EntriesDrain, DrainForgets
<1>12. CASE Clear
  <2>1. \A q \in Objects : /\ q \notin m_total_keys'
                           /\ m_total_count'[q] = 0 /\ m_source_count'[q] = 0
    BY <1>12 DEF Clear
  <2> QED BY <2>1 DEF EntriesDrain, DrainForgets
<1>13. ASSUME NEW mode \in BOOLEAN, SetPropagateMode(mode)
       PROVE  EntriesDrain' /\ DrainForgets'
  BY <1>2, <1>13 DEF SetPropagateMode
<1>14. ASSUME NEW o \in Objects, WaitFor(o)
       PROVE  EntriesDrain' /\ DrainForgets'
  BY <1>2, <1>14 DEF WaitFor
<1>15. CASE UNCHANGED vars
  BY <1>2, <1>15 DEF vars
<1> QED BY <1>3, <1>4, <1>5, <1>6, <1>7, <1>8, <1>9, <1>10, <1>11, <1>12, <1>13,
           <1>14, <1>15 DEF Next

(* An entry whose count is zero is left only where a drain is on its way,  *)
(* so a process in wait_for_total_count(o, 0) is never forgotten.          *)
THEOREM EntriesDrainCorrect == Spec => []EntriesDrain
<1>1. Init => EInv
  <2> SUFFICES ASSUME Init PROVE EntriesDrain /\ DrainForgets
    BY InvInit DEF EInv
  <2> QED BY DEF Init, EntriesDrain, DrainForgets
<1>2. EInv /\ [Next]_vars => EInv'
  BY InvStep, EntriesStep DEF EInv
<1>3. EInv => EntriesDrain
  BY DEF EInv
<1> QED BY <1>1, <1>2, <1>3, PTL DEF Spec

-----------------------------------------------------------------------------------
(***************************************************************************)
(* The contract                                                            *)
(***************************************************************************)

(* The all_dropped of Top is on its way, in one of the three places.       *)
TopDrains ==
    \/ Listed(m_scheduled_list, Top)
    \/ Listed(m_forked_list, Top)
    \/ m_drain_proc[Top] \in {"delay", "all_dropped"}

(* What ObjectionContract allows a step to do, in the words of the         *)
(* detailed specification.                                                 *)
ContractStep ==
    \/ UNCHANGED <<m_source_count, m_top_all_dropped, fatal>> /\ (Owed' <=> Owed)
    \/ /\ fatal = "none"
       /\ fatal' = fatal
       /\ \E o \in Objects, n \in 0 .. MaxCount :
             /\ m_source_count' = [m_source_count EXCEPT ![o] = @ + n]
             /\ Owed' <=> Owed \/ n > 0
             /\ m_top_all_dropped' = FALSE
    \/ /\ fatal = "none"
       /\ UNCHANGED <<m_top_all_dropped, fatal>>
       /\ Owed' <=> Owed
       /\ \E o \in Objects, n \in 0 .. MaxCount :
             /\ n <= m_source_count[o]
             /\ m_source_count' = [m_source_count EXCEPT ![o] = @ - n]
    \/ /\ fatal = "none"
       /\ fatal' # "none"
       /\ UNCHANGED <<m_source_count, m_top_all_dropped>>
       /\ Owed' <=> Owed
       /\ \E o \in Objects, n \in 0 .. MaxCount : n > m_source_count[o]
    \/ /\ fatal = "none"
       /\ UNCHANGED <<m_source_count, fatal>>
       /\ Owed /\ ~Owed'
       /\ Nobody
       /\ m_top_all_dropped' = TRUE
    \/ /\ fatal = "none"
       /\ fatal' = fatal
       /\ m_source_count' = [o \in Objects |-> 0]
       /\ ~Owed'
       /\ m_top_all_dropped' = FALSE

(* Such a step is a step of the contract or a stutter.                     *)
LEMMA ContractStepIs == ContractStep => [Contract!CNext]_Contract!cvars
<1> SUFFICES ASSUME ContractStep PROVE [Contract!CNext]_Contract!cvars
  OBVIOUS
<1>0. Owed \in BOOLEAN /\ Owed' \in BOOLEAN
  BY DEF Owed
<1>1. CASE UNCHANGED <<m_source_count, m_top_all_dropped, fatal>> /\ (Owed' <=> Owed)
  <2>1. Owed' = Owed
    BY <1>0, <1>1
  <2> QED BY <1>1, <2>1 DEF Contract!cvars
<1>2. ASSUME fatal = "none", fatal' = fatal, NEW o \in Objects, NEW n \in 0 .. MaxCount,
             m_source_count' = [m_source_count EXCEPT ![o] = @ + n],
             Owed' <=> Owed \/ n > 0,
             m_top_all_dropped' = FALSE
      PROVE  Contract!CNext
  <2>1. Owed' = (Owed \/ n > 0)
    BY <1>0, <1>2
  <2>2. Contract!Raise(o, n)
    BY <1>2, <2>1 DEF Contract!Raise
  <2> QED BY <2>2 DEF Contract!CNext
<1>3. ASSUME fatal = "none", UNCHANGED <<m_top_all_dropped, fatal>>, Owed' <=> Owed,
             NEW o \in Objects, NEW n \in 0 .. MaxCount,
             n <= m_source_count[o],
             m_source_count' = [m_source_count EXCEPT ![o] = @ - n]
      PROVE  Contract!CNext
  <2>1. Owed' = Owed
    BY <1>0, <1>3
  <2>2. Contract!Drop(o, n)
    BY <1>3, <2>1 DEF Contract!Drop
  <2> QED BY <2>2 DEF Contract!CNext
<1>4. ASSUME fatal = "none", fatal' # "none",
             UNCHANGED <<m_source_count, m_top_all_dropped>>, Owed' <=> Owed,
             NEW o \in Objects, NEW n \in 0 .. MaxCount, n > m_source_count[o]
      PROVE  Contract!CNext
  <2>1. Owed' = Owed
    BY <1>0, <1>4
  <2>2. Contract!Abort(o, n)
    BY <1>4, <2>1 DEF Contract!Abort
  <2> QED BY <2>2 DEF Contract!CNext
<1>5. ASSUME fatal = "none", UNCHANGED <<m_source_count, fatal>>, Owed, ~Owed', Nobody,
             m_top_all_dropped' = TRUE
      PROVE  Contract!CNext
  <2>1. Owed' = FALSE
    BY <1>0, <1>5
  <2>2. Contract!Announce
    BY <1>5, <2>1 DEF Contract!Announce, Contract!Nobody, Nobody
  <2> QED BY <2>2 DEF Contract!CNext
<1>6. ASSUME fatal = "none", fatal' = fatal, m_source_count' = [o \in Objects |-> 0],
             ~Owed', m_top_all_dropped' = FALSE
      PROVE  Contract!CNext
  <2>1. Owed' = FALSE
    BY <1>0, <1>6
  <2>2. Contract!Clear
    BY <1>6, <2>1 DEF Contract!Clear
  <2> QED BY <2>2 DEF Contract!CNext
<1> QED BY <1>1, <1>2, <1>3, <1>4, <1>5, <1>6 DEF ContractStep

(* What one level of m_drop takes leaves the all_dropped of Top owed: its  *)
(* own total, or that of the next hop that still counts what is held back, *)
(* is above zero, or the context of Top is queued.                         *)
LEMMA DropOwes ==
    ASSUME IInv, NEW o \in Objects, NEW own \in BOOLEAN, NEW count \in Nat,
           count >= 1, ~BelowZero(o, own, count), m_drop(o, own, count),
           InFlight(o) = 0
    PROVE  Owed /\ Owed'
<1> USE DEF IInv
<1>1. /\ m_total_count[o] \in Nat /\ count <= m_total_count[o]
      /\ m_total_count'[o] = m_total_count[o] - count
      /\ \A q \in Objects : q # o => m_total_count'[q] = m_total_count[q]
  BY DEF BelowZero, TypeOK, m_drop
<1>2. Owed
  BY <1>1 DEF Owed
<1>3. CASE count # m_total_count[o]
  BY <1>1, <1>2, <1>3 DEF Owed
<1>4. CASE count = m_total_count[o] /\ o = Top
  <2>1. m_scheduled_list' = Append(m_scheduled_list, o)
    BY <1>4 DEF m_drop, ScheduleDrain
  <2>2. Listed(m_scheduled_list', o)
    BY <2>1, ListedAppend DEF TypeOK
  <2> QED BY <1>2, <1>4, <2>2 DEF Owed
<1>5. CASE count = m_total_count[o] /\ o # Top
  <2>1. /\ NextHop(o) \in Objects /\ NextHop(o) # o
        /\ Charge[o] <= m_total_count[NextHop(o)]
    BY <1>5, NextHopType, NextHopOther, TotalCovers
  <2>2. Charge[o] = Base(o)
    BY ChargeType
  <2>3. ctxt_count[o] \in Nat /\ Base(o) \in Nat
    BY ChargeType DEF TypeOK
  <2>4. Base(o) >= m_total_count[o]
    BY <1>1, <2>3 DEF Base
  <2>5. m_total_count[NextHop(o)] \in Nat
    BY <2>1 DEF TypeOK
  <2>6. m_total_count'[NextHop(o)] > 0
    BY <1>1, <2>1, <2>2, <2>3, <2>4, <2>5
  <2> QED BY <1>2, <2>1, <2>6 DEF Owed
<1> QED BY <1>3, <1>4, <1>5

(* While a call is under way something is counted, so Top is owed.         *)
LEMMA WalkOwes ==
    ASSUME IInv, walk.dir # "idle"
    PROVE  Owed
<1> USE DEF IInv
<1>1. walk.at \in Objects /\ walk.from \in Objects /\ walk.count \in Nat
  BY DEF TypeOK, Walks
<1>2. walk.dir \in {"raise", "drop"}
  BY DEF TypeOK, Walks
<1>3. \A o \in Objects : m_total_count[o] \in Nat
  BY DEF TypeOK
<1>4. CASE walk.dir = "raise"
  <2>1. walk.count >= 1 /\ walk.count <= m_total_count[walk.from]
    BY <1>4 DEF WalkOK
  <2> QED BY <1>1, <1>3, <2>1 DEF Owed
<1>5. CASE walk.dir = "drop"
  <2>1. m_total_count[walk.at] >= 1
    BY <1>5, NoUnderflow
  <2> QED BY <1>1, <1>3, <2>1 DEF Owed
<1> QED BY <1>2, <1>4, <1>5

(* One level of m_raise leaves something counted.                          *)
LEMMA RaiseOwes ==
    ASSUME IInv, NEW o \in Objects, NEW own \in BOOLEAN, NEW count \in Nat,
           count >= 1, m_raise(o, own, count)
    PROVE  Owed'
<1>1. m_total_count'[o] >= 1
  BY RaiseOneContext DEF IInv
<1>2. m_total_count'[o] = m_total_count[o] + count /\ m_total_count[o] \in Nat
  BY DEF m_raise, IInv, TypeOK
<1> QED BY <1>1, <1>2 DEF Owed

(* Every step of the detailed specification is one the contract allows.    *)
LEMMA StepImplements == IInv /\ IInv' /\ [Next]_vars => ContractStep
<1> SUFFICES ASSUME IInv, IInv', [Next]_vars PROVE ContractStep
  OBVIOUS
<1> USE DEF counts, flags, contexts
<1>1. ASSUME UNCHANGED <<m_source_count, m_total_count, m_top_all_dropped, fatal>>,
             TopDrains' <=> TopDrains
      PROVE  ContractStep
  <2>1. Owed' <=> Owed
    BY <1>1 DEF Owed, TopDrains
  <2> QED BY <1>1, <2>1 DEF ContractStep
<1>2. ASSUME UNCHANGED <<counts, contexts, m_top_all_dropped, fatal>>
      PROVE  ContractStep
  BY <1>1, <1>2 DEF TopDrains
<1>3. ASSUME NEW o \in Objects, NEW n \in 0 .. MaxCount, RaiseObjection(o, n)
      PROVE  ContractStep
  <2>1. fatal = "none" /\ fatal' = fatal /\ m_top_all_dropped' = FALSE
    BY <1>3 DEF RaiseObjection, Quiet, RaiseFlags
  <2>2. CASE n = 0
    <3>1. UNCHANGED <<counts, contexts>>
      BY <1>3, <2>2 DEF RaiseObjection
    <3>2. m_source_count' = [m_source_count EXCEPT ![o] = @ + n]
      BY <2>2, <3>1 DEF IInv, TypeOK
    <3>3. Owed' <=> Owed \/ n > 0
      BY <2>2, <3>1 DEF Owed
    <3> QED BY <2>1, <3>2, <3>3 DEF ContractStep
  <2>3. CASE n # 0
    <3>1. m_raise(o, TRUE, n) /\ n \in Nat /\ n >= 1
      <4>1. n \in Nat /\ n >= 1
        BY <2>3, BoundsAssumption
      <4> QED BY <1>3, <2>3, <4>1 DEF RaiseObjection
    <3>2. m_source_count' = [m_source_count EXCEPT ![o] = @ + n]
      BY <3>1 DEF m_raise
    <3>3. Owed'
      BY <3>1, RaiseOwes
    <3>4. Owed' <=> Owed \/ n > 0
      BY <3>1, <3>3
    <3> QED BY <2>1, <3>2, <3>4 DEF ContractStep
  <2> QED BY <2>2, <2>3
<1>4. ASSUME NEW o \in Objects, NEW n \in 1 .. MaxCount, DropObjection(o, n)
      PROVE  ContractStep
  <2>1. fatal = "none" /\ walk = Idle /\ m_top_all_dropped' = m_top_all_dropped
    BY <1>4 DEF DropObjection, Quiet
  <2>2. n \in Nat /\ n >= 1 /\ n \in 0 .. MaxCount
    BY BoundsAssumption
  <2>3. m_source_count[o] \in Nat /\ m_total_count[o] \in Nat
    BY DEF IInv, TypeOK
  <2>4. CASE BelowZero(o, TRUE, n)
    <3>1. UNCHANGED <<counts, contexts>>
      BY <1>4, <2>4 DEF DropObjection, DropBelowZero
    <3>2. m_source_count[o] <= m_total_count[o]
      BY SourceCovered DEF IInv
    <3>3. n > m_source_count[o]
      BY <2>2, <2>3, <2>4, <3>2 DEF BelowZero
    <3>4. CASE fatal' = fatal
      BY <1>2, <2>1, <3>1, <3>4
    <3>5. CASE fatal' = "source"
      <4>1. Owed' <=> Owed
        BY <3>1 DEF Owed
      <4> QED BY <2>1, <2>2, <3>1, <3>3, <3>5, <4>1 DEF ContractStep
    <3> QED BY <1>4, <2>4, <3>4, <3>5 DEF DropObjection, DropBelowZero
  <2>5. CASE ~BelowZero(o, TRUE, n)
    <3>1. m_drop(o, TRUE, n)
      BY <1>4, <2>5 DEF DropObjection
    <3>2. InFlight(o) = 0
      BY <2>1 DEF InFlight, Idle
    <3>3. Owed' <=> Owed
      BY <2>2, <2>5, <3>1, <3>2, DropOwes
    <3>4. fatal' = fatal /\ m_source_count' = [m_source_count EXCEPT ![o] = @ - n]
      BY <3>1 DEF m_drop
    <3>5. n <= m_source_count[o]
      BY <2>2, <2>3, <2>5 DEF BelowZero
    <3> QED BY <2>1, <2>2, <3>3, <3>4, <3>5 DEF ContractStep
  <2> QED BY <2>4, <2>5
<1>5. CASE PropagateRaise
  <2>1. /\ walk.dir = "raise" /\ m_raise(walk.at, FALSE, walk.count)
        /\ UNCHANGED <<m_top_all_dropped, fatal>>
    BY <1>5 DEF PropagateRaise
  <2>2. walk.at \in Objects /\ walk.count \in Nat /\ walk.count >= 1
    BY <2>1 DEF IInv, TypeOK, Walks, WalkOK
  <2>3. Owed /\ Owed'
    BY <2>1, <2>2, WalkOwes, RaiseOwes
  <2>4. m_source_count' = m_source_count
    BY <2>1 DEF m_raise
  <2> QED BY <2>1, <2>3, <2>4 DEF ContractStep
<1>6. CASE PropagateDrop
  <2>1. walk.dir = "drop" /\ m_top_all_dropped' = m_top_all_dropped
    BY <1>6 DEF PropagateDrop
  <2>2. /\ walk.at \in Objects /\ walk.count \in Nat /\ walk.count >= 1
        /\ walk.from \in Objects /\ walk.from # Top /\ walk.at = NextHop(walk.from)
    BY <2>1 DEF IInv, TypeOK, Walks, WalkOK
  <2>3. ~BelowZero(walk.at, FALSE, walk.count)
    BY <2>1, NoUnderflow DEF IInv
  <2>4. m_drop(walk.at, FALSE, walk.count)
    BY <1>6, <2>3 DEF PropagateDrop
  <2>5. walk.from # walk.at
    BY <2>2, NextHopOther DEF IInv
  <2>6. InFlight(walk.at) = 0
    BY <2>5 DEF InFlight
  <2>7. Owed' <=> Owed
    BY <2>2, <2>3, <2>4, <2>6, DropOwes
  <2>8. m_source_count' = m_source_count /\ fatal' = fatal
    BY <2>4 DEF m_drop
  <2> QED BY <2>1, <2>7, <2>8 DEF ContractStep
<1>7. CASE m_execute_scheduled_forks
  <2>1. /\ m_scheduled_list # << >>
        /\ m_scheduled_list' = Tail(m_scheduled_list)
        /\ m_forked_list' = Append(m_forked_list, Head(m_scheduled_list))
        /\ UNCHANGED <<counts, m_top_all_dropped, m_drain_proc, fatal>>
    BY <1>7 DEF m_execute_scheduled_forks
  <2>2. /\ Listed(m_scheduled_list, Head(m_scheduled_list))
        /\ \A q : Listed(m_scheduled_list', q)
                     <=> q # Head(m_scheduled_list) /\ Listed(m_scheduled_list, q)
        /\ \A q : Listed(m_forked_list', q)
                     <=> q = Head(m_scheduled_list) \/ Listed(m_forked_list, q)
    BY <2>1, ListedTail, ListedAppend DEF IInv, TypeOK, OneContext
  <2>3. TopDrains' <=> TopDrains
    BY <2>1, <2>2 DEF TopDrains
  <2> QED BY <1>1, <2>1, <2>3
<1>8. CASE StartDrain
  <2>1. UNCHANGED <<counts, m_top_all_dropped, m_scheduled_list, fatal>>
    BY <1>8 DEF StartDrain
  <2>2. CASE m_forked_list = << >>
    BY <1>2, <1>8, <2>2 DEF StartDrain
  <2>3. CASE m_forked_list # << >>
    <3>1. /\ m_forked_list' = Tail(m_forked_list)
          /\ m_drain_proc' = [m_drain_proc EXCEPT ![Head(m_forked_list)] = "delay"]
      BY <1>8, <2>3 DEF StartDrain
    <3>2. /\ Head(m_forked_list) \in Objects
          /\ Listed(m_forked_list, Head(m_forked_list))
          /\ \A q : Listed(m_forked_list', q)
                       <=> q # Head(m_forked_list) /\ Listed(m_forked_list, q)
      BY <2>3, <3>1, ListedTail DEF IInv, TypeOK, OneContext
    <3>3. m_drain_proc'[Top] = IF Top = Head(m_forked_list) THEN "delay" ELSE m_drain_proc[Top]
      BY <3>1, <3>2, ObjectsAssumption DEF IInv, TypeOK
    <3>4. TopDrains' <=> TopDrains
      BY <2>1, <3>2, <3>3 DEF TopDrains
    <3> QED BY <1>1, <2>1, <3>4
  <2> QED BY <2>2, <2>3
<1>9. ASSUME NEW o \in Objects, DrainTimeElapsed(o)
      PROVE  ContractStep
  <2>1. /\ UNCHANGED <<counts, m_top_all_dropped, m_scheduled_list, m_forked_list, fatal>>
        /\ m_drain_proc[o] = "delay"
        /\ m_drain_proc'[Top] = IF Top = o THEN "all_dropped" ELSE m_drain_proc[Top]
    BY <1>9, ObjectsAssumption DEF DrainTimeElapsed, IInv, TypeOK
  <2>2. TopDrains' <=> TopDrains
    BY <2>1 DEF TopDrains
  <2> QED BY <1>1, <2>1, <2>2
<1>10. ASSUME NEW o \in Objects, AllDropped(o)
       PROVE  ContractStep
  <2>1. /\ UNCHANGED <<counts, m_scheduled_list, m_forked_list, fatal>>
        /\ fatal = "none" /\ walk = Idle
        /\ m_drain_proc[o] = "all_dropped"
        /\ m_drain_proc'[Top] = IF Top = o THEN "wait_fork" ELSE m_drain_proc[Top]
        /\ m_top_all_dropped' = IF o = Top THEN TRUE ELSE m_top_all_dropped
    BY <1>10, ObjectsAssumption DEF AllDropped, Quiet, IInv, TypeOK
  <2>2. CASE o # Top
    <3>1. TopDrains' <=> TopDrains
      BY <2>1, <2>2 DEF TopDrains
    <3> QED BY <1>1, <2>1, <2>2, <3>1
  <2>3. CASE o = Top
    <3>1. m_total_count[Top] = 0 /\ ~Listed(m_scheduled_list, Top) /\ ~Listed(m_forked_list, Top)
      BY <2>1, <2>3 DEF IInv, OneContext, Pending
    <3>2. \A q \in Objects : m_total_count[q] = 0 /\ m_source_count[q] = 0
      BY <2>1, <3>1, AllZero DEF IInv, Idle
    <3>3. Owed /\ ~Owed'
      BY <2>1, <2>3, <3>1, <3>2 DEF Owed
    <3>4. Nobody
      BY <3>2 DEF Nobody
    <3> QED BY <2>1, <2>3, <3>3, <3>4 DEF ContractStep
  <2> QED BY <2>2, <2>3
<1>11. ASSUME NEW o \in Objects, PropagateDrain(o) \/ EndDrain(o)
       PROVE  ContractStep
  <2>1. /\ UNCHANGED <<m_source_count, m_total_count, m_top_all_dropped,
                       m_scheduled_list, m_forked_list, fatal>>
        /\ m_drain_proc[o] \in {"wait_fork", "propagate"}
        /\ m_drain_proc'[o] \in {"none", "propagate"}
        /\ \A q \in Objects : q # o => m_drain_proc'[q] = m_drain_proc[q]
    BY <1>11 DEF PropagateDrain, EndDrain, IInv, TypeOK
  <2>2. TopDrains' <=> TopDrains
    BY <2>1, ObjectsAssumption DEF TopDrains
  <2> QED BY <1>1, <2>1, <2>2
<1>12. CASE Clear
  <2>1. /\ fatal = "none" /\ fatal' = fatal
        /\ m_source_count' = [o \in Objects |-> 0]
        /\ m_top_all_dropped' = FALSE
    BY <1>12 DEF Clear, Quiet
  <2>2. /\ \A o \in Objects : m_total_count'[o] = 0 /\ m_drain_proc'[o] = "none"
        /\ m_scheduled_list' = << >> /\ m_forked_list' = << >>
    BY <1>12 DEF Clear
  <2>3. \A q : ~Listed(<< >>, q)
    BY DEF Listed
  <2>4. ~Owed'
    BY <2>2, <2>3, ObjectsAssumption DEF Owed
  <2> QED BY <2>1, <2>4 DEF ContractStep
<1>13. ASSUME NEW mode \in BOOLEAN, SetPropagateMode(mode)
       PROVE  ContractStep
  BY <1>2, <1>13 DEF SetPropagateMode
<1>14. ASSUME NEW o \in Objects, WaitFor(o)
       PROVE  ContractStep
  BY <1>2, <1>14 DEF WaitFor
<1>15. CASE UNCHANGED vars
  BY <1>2, <1>15 DEF vars
<1> QED BY <1>3, <1>4, <1>5, <1>6, <1>7, <1>8, <1>9, <1>10, <1>11, <1>12, <1>13,
           <1>14, <1>15 DEF Next

(* The object tree, the drains, the background processes and the contexts  *)
(* that raises take back are invisible: objections count per source, and   *)
(* all_dropped of Top comes once for all of them and only when nobody      *)
(* objects (the safety part of ImplementsContract; TLC checks the rest).   *)
THEOREM RefinesContract == Spec => Contract!CSpec
<1>1. Init => Contract!CInit
  <2> SUFFICES ASSUME Init PROVE Contract!CInit
    OBVIOUS
  <2>1. /\ m_source_count = [o \in Objects |-> 0]
        /\ m_top_all_dropped = FALSE /\ fatal = "none"
    BY DEF Init
  <2>2. /\ \A o \in Objects : m_total_count[o] = 0 /\ m_drain_proc[o] = "none"
        /\ m_scheduled_list = << >> /\ m_forked_list = << >>
    BY DEF Init
  <2>3. \A q : ~Listed(<< >>, q)
    BY DEF Listed
  <2>4. ~Owed
    BY <2>2, <2>3, ObjectsAssumption DEF Owed
  <2>5. Owed = FALSE
    <3>1. Owed \in BOOLEAN
      BY DEF Owed
    <3> QED BY <2>4, <3>1
  <2> QED BY <2>1, <2>5 DEF Contract!CInit
<1>2. IInv /\ IInv' /\ [Next]_vars => [Contract!CNext]_Contract!cvars
  BY StepImplements, ContractStepIs
<1> QED BY <1>1, <1>2, InvCorrect, PTL DEF Spec, Contract!CSpec

==================================================================================
