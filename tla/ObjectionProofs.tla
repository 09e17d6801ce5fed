----------------------------- MODULE ObjectionProofs -----------------------------
(***************************************************************************)
(* Proofs about uvm_objection for every finite tree of objects, every      *)
(* bound on the counts and either propagation mode.                        *)
(***************************************************************************)
EXTENDS Objection, SumTheorems

(***************************************************************************)
(* The lists of contexts                                                   *)
(***************************************************************************)

(* push_back adds one object to those listed.                              *)
LEMMA ListedAppend ==
    ASSUME NEW list \in Seq(Objects), NEW o \in Objects
    PROVE  /\ Append(list, o) \in Seq(Objects)
           /\ \A q : Listed(Append(list, o), q) <=> q = o \/ Listed(list, q)
           /\ Distinct(list) /\ ~Listed(list, o) => Distinct(Append(list, o))
<1> DEFINE a == Append(list, o)
           n == Len(list)
<1>1. /\ a \in Seq(Objects)
      /\ DOMAIN list = 1 .. n
      /\ DOMAIN a = 1 .. n + 1
      /\ n \in Nat
      /\ \A i \in 1 .. n : a[i] = list[i]
      /\ a[n + 1] = o
  OBVIOUS
<1> HIDE DEF a, n
<1>2. \A q : Listed(a, q) <=> q = o \/ Listed(list, q)
  BY <1>1 DEF Listed
<1>3. Distinct(list) /\ ~Listed(list, o) => Distinct(a)
  BY <1>1 DEF Listed, Distinct
<1> QED BY <1>1, <1>2, <1>3 DEF a

(* pop_front takes the head away, for good when the list has no duplicate. *)
LEMMA ListedTail ==
    ASSUME NEW list \in Seq(Objects), list # << >>
    PROVE  /\ Head(list) \in Objects
           /\ Listed(list, Head(list))
           /\ Tail(list) \in Seq(Objects)
           /\ Distinct(list) =>
                 /\ Distinct(Tail(list))
                 /\ \A q : Listed(Tail(list), q) <=> q # Head(list) /\ Listed(list, q)
<1> DEFINE t == Tail(list)
           n == Len(list)
           h == Head(list)
<1>1. /\ t \in Seq(Objects)
      /\ h \in Objects
      /\ h = list[1]
      /\ n \in Nat /\ n >= 1
      /\ DOMAIN list = 1 .. n
      /\ DOMAIN t = 1 .. n - 1
      /\ \A i \in 1 .. n - 1 : t[i] = list[i + 1]
  OBVIOUS
<1> HIDE DEF t, n, h
<1>2. Listed(list, h)
  BY <1>1 DEF Listed
<1>3. ASSUME Distinct(list)
      PROVE  /\ Distinct(t)
             /\ \A q : Listed(t, q) => q # h /\ Listed(list, q)
  <2>1. \A i \in DOMAIN t : i + 1 \in DOMAIN list /\ i + 1 # 1 /\ t[i] = list[i + 1]
    BY <1>1
  <2>2. \A i, j \in DOMAIN t : t[i] = t[j] => i = j
    <3> SUFFICES ASSUME NEW i \in DOMAIN t, NEW j \in DOMAIN t, t[i] = t[j]
                 PROVE  i = j
      OBVIOUS
    <3>1. i + 1 = j + 1
      BY <2>1, <1>3 DEF Distinct
    <3> QED BY <3>1, <1>1
  <2>3. \A i \in DOMAIN t : t[i] # h
    BY <2>1, <1>1, <1>3 DEF Distinct
  <2> QED BY <2>1, <2>2, <2>3 DEF Listed, Distinct
<1>4. ASSUME NEW q, q # h, Listed(list, q)
      PROVE  Listed(t, q)
  <2>1. PICK i \in 1 .. n : list[i] = q
    BY <1>1, <1>4 DEF Listed
  <2>2. i - 1 \in 1 .. n - 1 /\ t[i - 1] = q
    BY <1>1, <1>4, <2>1
  <2> QED BY <1>1, <2>2 DEF Listed
<1> QED BY <1>1, <1>2, <1>3, <1>4 DEF t, h

(* delete(idx) takes exactly the object looked for away.                   *)
LEMMA ListedDeleted ==
    ASSUME NEW list \in Seq(Objects), NEW o \in Objects, Listed(list, o),
           Distinct(list)
    PROVE  /\ Deleted(list, o) \in Seq(Objects)
           /\ Distinct(Deleted(list, o))
           /\ \A q : Listed(Deleted(list, o), q) <=> q # o /\ Listed(list, q)
<1> DEFINE First(i) == list[i] = o /\ \A j \in DOMAIN list : list[j] = o => i <= j
           k == CHOOSE i \in DOMAIN list : First(i)
           d == [j \in 1 .. Len(list) - 1 |-> IF j < k THEN list[j] ELSE list[j + 1]]
<1>1. k \in 1 .. Len(list) /\ list[k] = o
  <2>1. PICK i \in DOMAIN list : list[i] = o
    BY DEF Listed
  <2>2. First(i)
    BY <2>1 DEF Distinct
  <2> HIDE DEF First
  <2>3. k \in DOMAIN list /\ First(k)
    BY <2>1, <2>2
  <2> QED BY <2>3 DEF First
<1>2. Deleted(list, o) = d
  BY DEF Deleted
<1> HIDE DEF k
<1>3. d \in Seq(Objects) /\ Len(d) = Len(list) - 1
  BY <1>1
<1>4. \A i, j \in DOMAIN d : d[i] = d[j] => i = j
  BY <1>1, <1>3 DEF Distinct
<1>5. \A i \in DOMAIN d : d[i] # o /\ Listed(list, d[i])
  BY <1>1, <1>3 DEF Distinct, Listed
<1>6. ASSUME NEW q, q # o, Listed(list, q)
      PROVE  \E i \in DOMAIN d : d[i] = q
  <2>1. PICK i \in DOMAIN list : list[i] = q
    BY <1>6 DEF Listed
  <2>2. i # k
    BY <1>1, <1>6, <2>1
  <2>3. CASE i < k
    BY <1>1, <1>3, <2>1, <2>3
  <2>4. CASE i > k
    <3>1. i - 1 \in DOMAIN d /\ d[i - 1] = list[i]
      BY <1>1, <1>3, <2>1, <2>4
    <3> QED BY <3>1, <2>1
  <2> QED BY <1>1, <2>1, <2>2, <2>3, <2>4
<1> HIDE DEF d
<1>7. \A q : Listed(d, q) <=> q # o /\ Listed(list, q)
  BY <1>5, <1>6 DEF Listed
<1> QED BY <1>2, <1>3, <1>4, <1>7 DEF Distinct

-----------------------------------------------------------------------------------
(***************************************************************************)
(* Types                                                                   *)
(***************************************************************************)

(* The next hop of an object other than Top is an object.                  *)
LEMMA NextHopType ==
    ASSUME TypeOK, NEW o \in Objects, o # Top
    PROVE  NextHop(o) \in Objects
BY ObjectsAssumption, ParentAssumption DEF NextHop

(* A call that goes up is a walk.                                          *)
LEMMA UpType ==
    ASSUME TypeOK, NEW o \in Objects, NEW dir \in {"raise", "drop"}, NEW n \in Nat
    PROVE  Up(o, dir, n) \in Walks
BY NextHopType, ObjectsAssumption DEF Up, Walks, Idle

(* delete(idx) of an object that is listed leaves a list.                  *)
LEMMA DeletedType ==
    ASSUME NEW list \in Seq(Objects), NEW o, Listed(list, o)
    PROVE  Deleted(list, o) \in Seq(Objects)
<1>1. Len(list) \in Nat /\ Len(list) > 0
  BY DEF Listed
<1> QED BY <1>1 DEF Deleted

(* Catching a context keeps the types of the places it may be in.          *)
LEMMA CatchType ==
    ASSUME TypeOK, NEW o \in Objects, CatchContext(o)
    PROVE  /\ m_scheduled_list' \in Seq(Objects)
           /\ m_forked_list' \in Seq(Objects)
           /\ m_drain_proc' \in [Objects -> Stages]
<1> USE DEF TypeOK
<1>1. CASE Listed(m_scheduled_list, o)
  BY <1>1, DeletedType DEF CatchContext, CatchScheduled, CatchForked, CatchDrain
<1>2. CASE ~Listed(m_scheduled_list, o) /\ Listed(m_forked_list, o)
  BY <1>2, DeletedType DEF CatchContext, CatchScheduled, CatchForked, CatchDrain
<1>3. CASE ~Listed(m_scheduled_list, o) /\ ~Listed(m_forked_list, o)
  <2>1. "none" \in Stages
    BY DEF Stages
  <2> QED BY <1>3, <2>1 DEF CatchContext, CatchScheduled, CatchForked, CatchDrain
<1> QED BY <1>1, <1>2, <1>3

(* One level of m_raise keeps the types.                                   *)
LEMMA RaiseType ==
    ASSUME TypeOK, NEW o \in Objects, NEW own \in BOOLEAN,
           NEW count \in Nat, m_raise(o, own, count)
    PROVE  /\ m_source_count' \in [Objects -> Nat]
           /\ m_total_count' \in [Objects -> Nat]
           /\ m_source_keys' \in SUBSET Objects
           /\ m_total_keys' \in SUBSET Objects
           /\ m_scheduled_list' \in Seq(Objects)
           /\ m_forked_list' \in Seq(Objects)
           /\ m_drain_proc' \in [Objects -> Stages]
           /\ ctxt_count' \in [Objects -> Nat]
           /\ walk' \in Walks
<1> USE DEF TypeOK
<1>1. /\ m_source_count' \in [Objects -> Nat]
      /\ m_total_count' \in [Objects -> Nat]
      /\ m_source_keys' \in SUBSET Objects
      /\ m_total_keys' \in SUBSET Objects
  BY DEF m_raise
<1>2. CASE ~Pending(o) /\ walk' = Up(o, "raise", count) /\ UNCHANGED contexts
  BY <1>1, <1>2, UpType DEF contexts
<1>3. CASE /\ CatchContext(o)
           /\ walk' = IF count >= ctxt_count[o]
                        THEN Up(o, "raise", count - ctxt_count[o])
                        ELSE Up(o, "drop", ctxt_count[o] - count)
           /\ ctxt_count' = [ctxt_count EXCEPT ![o] = 0]
  <2>1. walk' \in Walks
    <3>1. CASE count >= ctxt_count[o]
      BY <1>3, <3>1, UpType
    <3>2. CASE ~(count >= ctxt_count[o])
      BY <1>3, <3>2, UpType
    <3> QED BY <3>1, <3>2
  <2>2. /\ m_scheduled_list' \in Seq(Objects)
        /\ m_forked_list' \in Seq(Objects)
        /\ m_drain_proc' \in [Objects -> Stages]
    BY <1>3, CatchType
  <2> QED BY <1>1, <1>3, <2>1, <2>2
<1> QED BY <1>2, <1>3 DEF m_raise, Difference

(* One level of m_drop keeps the types.                                    *)
LEMMA DropType ==
    ASSUME TypeOK, NEW o \in Objects, NEW own \in BOOLEAN, NEW count \in Nat,
           NEW level \in {"source", "ancestor"},
           IF BelowZero(o, own, count) THEN DropBelowZero(level)
                                       ELSE m_drop(o, own, count)
    PROVE  /\ m_source_count' \in [Objects -> Nat]
           /\ m_total_count' \in [Objects -> Nat]
           /\ m_source_keys' \in SUBSET Objects
           /\ m_total_keys' \in SUBSET Objects
           /\ m_scheduled_list' \in Seq(Objects)
           /\ m_forked_list' \in Seq(Objects)
           /\ m_drain_proc' \in [Objects -> Stages]
           /\ ctxt_count' \in [Objects -> Nat]
           /\ walk' \in Walks
           /\ fatal' \in {"none", "source", "ancestor"}
<1> USE DEF TypeOK
<1>1. CASE BelowZero(o, own, count)
  <2>1. Idle \in Walks
    BY ObjectsAssumption DEF Idle, Walks
  <2> QED BY <1>1, <2>1 DEF DropBelowZero, counts, contexts
<1>2. CASE ~BelowZero(o, own, count)
  <2>1. m_drop(o, own, count)
    BY <1>2
  <2>2. /\ m_source_count' \in [Objects -> Nat]
        /\ m_total_count' \in [Objects -> Nat]
    BY <1>2, <2>1 DEF BelowZero, m_drop, ScheduleDrain
  <2>3. CASE count # m_total_count[o]
    BY <2>1, <2>2, <2>3, UpType DEF m_drop, ScheduleDrain
  <2>4. CASE count = m_total_count[o]
    <3>1. Idle \in Walks
      BY ObjectsAssumption DEF Idle, Walks
    <3>2. m_scheduled_list' = Append(m_scheduled_list, o)
      BY <2>1, <2>4 DEF m_drop, ScheduleDrain
    <3>3. m_scheduled_list' \in Seq(Objects)
      BY <3>2, ListedAppend
    <3> QED BY <2>1, <2>2, <2>4, <3>1, <3>3 DEF m_drop, ScheduleDrain
  <2> QED BY <2>3, <2>4
<1> QED BY <1>1, <1>2

(* The initial state is well typed.                                        *)
LEMMA TypeInit == Init => TypeOK
<1> SUFFICES ASSUME Init PROVE TypeOK
  OBVIOUS
<1>1. << >> \in Seq(Objects)
  OBVIOUS
<1>2. Idle \in Walks
  BY ObjectsAssumption DEF Walks, Idle
<1>3. /\ [o \in Objects |-> 0] \in [Objects -> Nat]
      /\ [o \in Objects |-> "none"] \in [Objects -> Stages]
  BY DEF Stages
<1>4. m_scheduled_list \in Seq(Objects) /\ m_forked_list \in Seq(Objects)
  BY <1>1 DEF Init
<1>5. walk \in Walks
  BY <1>2 DEF Init
<1>6. /\ m_source_count \in [Objects -> Nat]
      /\ m_total_count \in [Objects -> Nat]
      /\ ctxt_count \in [Objects -> Nat]
      /\ m_drain_proc \in [Objects -> Stages]
  BY <1>3 DEF Init
<1>7. /\ m_source_keys \in SUBSET Objects /\ m_total_keys \in SUBSET Objects
      /\ m_prop_mode \in BOOLEAN /\ m_cleared \in BOOLEAN
      /\ m_top_all_dropped \in BOOLEAN
      /\ forks \in Nat
      /\ waiting \in SUBSET Objects
      /\ fatal \in {"none", "source", "ancestor"}
  BY DEF Init
<1> QED BY <1>4, <1>5, <1>6, <1>7 DEF TypeOK

(* Every step keeps the types.                                             *)
LEMMA TypeStep == TypeOK /\ [Next]_vars => TypeOK'
<1> SUFFICES ASSUME TypeOK, [Next]_vars PROVE TypeOK'
  OBVIOUS
<1> USE DEF counts, flags, contexts
<1>1. ASSUME NEW o \in Objects, NEW n \in 0 .. MaxCount, RaiseObjection(o, n)
      PROVE  TypeOK'
  <2>1. n \in Nat
    BY BoundsAssumption
  <2>2. CASE n = 0
    BY <1>1, <2>2 DEF RaiseObjection, RaiseFlags, TypeOK
  <2>3. CASE n # 0
    <3>1. m_raise(o, TRUE, n)
      BY <1>1, <2>3 DEF RaiseObjection
    <3> QED BY <1>1, <2>1, <3>1, RaiseType DEF RaiseObjection, RaiseFlags, TypeOK
  <2> QED BY <2>2, <2>3
<1>2. ASSUME NEW o \in Objects, NEW n \in 1 .. MaxCount, DropObjection(o, n)
      PROVE  TypeOK'
  <2>1. n \in Nat
    BY BoundsAssumption
  <2>2. IF BelowZero(o, TRUE, n) THEN DropBelowZero("source") ELSE m_drop(o, TRUE, n)
    BY <1>2 DEF DropObjection
  <2> QED BY <1>2, <2>1, <2>2, DropType DEF DropObjection, TypeOK
<1>3. CASE PropagateRaise
  <2>1. walk.at \in Objects /\ walk.count \in Nat
    BY DEF TypeOK, Walks
  <2> QED BY <1>3, <2>1, RaiseType DEF PropagateRaise, TypeOK
<1>4. CASE PropagateDrop
  <2>1. walk.at \in Objects /\ walk.count \in Nat
    BY DEF TypeOK, Walks
  <2>2. IF BelowZero(walk.at, FALSE, walk.count) THEN DropBelowZero("ancestor")
                                                 ELSE m_drop(walk.at, FALSE, walk.count)
    BY <1>4 DEF PropagateDrop
  <2> QED BY <1>4, <2>1, <2>2, DropType DEF PropagateDrop, TypeOK
<1>5. CASE m_execute_scheduled_forks
  <2>1. /\ m_scheduled_list \in Seq(Objects) /\ m_scheduled_list # << >>
        /\ m_forked_list \in Seq(Objects)
    BY <1>5 DEF m_execute_scheduled_forks, TypeOK
  <2>2. Tail(m_scheduled_list) \in Seq(Objects) /\ Head(m_scheduled_list) \in Objects
    BY <2>1, ListedTail
  <2>3. Append(m_forked_list, Head(m_scheduled_list)) \in Seq(Objects)
    BY <2>1, <2>2, ListedAppend
  <2> QED BY <1>5, <2>2, <2>3 DEF m_execute_scheduled_forks, TypeOK
<1>6. CASE StartDrain
  <2>1. CASE m_forked_list = << >>
    BY <1>6, <2>1 DEF StartDrain, TypeOK
  <2>2. CASE m_forked_list # << >>
    <3>1. Tail(m_forked_list) \in Seq(Objects) /\ Head(m_forked_list) \in Objects
      BY <2>2, ListedTail DEF TypeOK
    <3>2. m_forked_list' \in Seq(Objects)
      BY <1>6, <2>2, <3>1 DEF StartDrain
    <3>3. m_drain_proc' \in [Objects -> Stages]
      BY <1>6, <2>2, <3>1 DEF StartDrain, TypeOK, Stages
    <3> QED BY <1>6, <3>2, <3>3 DEF StartDrain, TypeOK
  <2> QED BY <2>1, <2>2
<1>7. ASSUME NEW o \in Objects, DrainTimeElapsed(o)
      PROVE  TypeOK'
  BY <1>7 DEF DrainTimeElapsed, TypeOK, Stages
<1>8. ASSUME NEW o \in Objects, AllDropped(o)
      PROVE  TypeOK'
  BY <1>8 DEF AllDropped, Trigger, TypeOK, Stages
<1>9. ASSUME NEW o \in Objects, PropagateDrain(o)
      PROVE  TypeOK'
  <2>1. ctxt_count[o] \in Nat
    BY DEF TypeOK
  <2>2. walk' \in Walks
    BY <1>9, <2>1, UpType DEF PropagateDrain
  <2> QED BY <1>9, <2>2 DEF PropagateDrain, DeleteZeroEntries, TypeOK, Stages
<1>10. ASSUME NEW o \in Objects, EndDrain(o)
       PROVE  TypeOK'
  BY <1>10 DEF EndDrain, TypeOK, Stages
<1>11. CASE Clear
  <2>1. << >> \in Seq(Objects)
    OBVIOUS
  <2> QED BY <1>11, <2>1 DEF Clear, Trigger, TypeOK, Stages
<1>12. ASSUME NEW mode \in BOOLEAN, SetPropagateMode(mode)
       PROVE  TypeOK'
  BY <1>12 DEF SetPropagateMode, TypeOK
<1>13. ASSUME NEW o \in Objects, WaitFor(o)
       PROVE  TypeOK'
  BY <1>13 DEF WaitFor, TypeOK
<1>14. CASE UNCHANGED vars
  BY <1>14 DEF vars, TypeOK
<1> QED BY <1>1, <1>2, <1>3, <1>4, <1>5, <1>6, <1>7, <1>8, <1>9, <1>10, <1>11,
           <1>12, <1>13, <1>14 DEF Next

(* Every variable of the objection keeps its type: no count ever becomes   *)
(* negative, whatever is raised, dropped, cancelled or cleared.            *)
THEOREM TypeCorrect == Spec => []TypeOK
<1>1. Init => TypeOK
  BY TypeInit
<1>2. TypeOK /\ [Next]_vars => TypeOK'
  BY TypeStep
<1> QED BY <1>1, <1>2, PTL DEF Spec

-----------------------------------------------------------------------------------
(***************************************************************************)
(* The inductive invariant                                                 *)
(***************************************************************************)

(* The call under way goes from an object to its next hop and carries      *)
(* something; a raise carries no more than was raised, and never runs on   *)
(* behalf of a drain.                                                      *)
WalkOK ==
    /\ walk.dir = "idle" => walk = Idle
    /\ walk.dir # "idle" =>
          /\ walk.from # Top
          /\ walk.at = NextHop(walk.from)
          /\ walk.count >= 1
    /\ walk.dir = "raise" =>
          /\ walk.count <= m_total_count[walk.from]
          /\ \A o \in Objects : m_drain_proc[o] # "propagate"

(* While all_dropped stands for Top, nothing is counted there.             *)
TopFlag == m_top_all_dropped => m_total_count[Top] = 0 /\ walk = Idle

IInv ==
    /\ TypeOK
    /\ WalkOK
    /\ OneContext
    /\ Conservation
    /\ TopFlag
    /\ NoAncestorBelowZero

(* An object other than Top is not its own next hop.                       *)
LEMMA NextHopOther ==
    ASSUME TypeOK, NEW o \in Objects, o # Top
    PROVE  NextHop(o) # o
<1>1. {o} \in SUBSET (Objects \ {Top}) /\ {o} # {}
  OBVIOUS
<1>2. Parent[o] # o
  BY <1>1, TreeAssumption
<1> QED BY <1>2 DEF NextHop

(* What an object has charged is a natural number.                         *)
LEMMA ChargeType ==
    ASSUME TypeOK, WalkOK
    PROVE  /\ \A x \in Objects : Charge[x] = Base(x) + InFlight(x)
           /\ \A x \in Objects : Base(x) \in Nat /\ InFlight(x) \in Int
           /\ \A x \in Objects : Charge[x] \in Nat
<1>1. \A x \in Objects : Charge[x] = Base(x) + InFlight(x)
  BY DEF Charge
<1>2. /\ walk.count \in Nat
      /\ m_total_count \in [Objects -> Nat]
      /\ ctxt_count \in [Objects -> Nat]
  BY DEF TypeOK, Walks
<1>3. ASSUME NEW x \in Objects
      PROVE  Base(x) \in Nat /\ InFlight(x) \in Int /\ Base(x) + InFlight(x) \in Nat
  <2>1. Base(x) \in Nat /\ Base(x) >= m_total_count[x] /\ m_total_count[x] \in Nat
    BY <1>2 DEF Base
  <2>2. InFlight(x) \in Int
    BY <1>2 DEF InFlight
  <2>3. InFlight(x) >= 0 - m_total_count[x]
    BY <1>2, <2>1 DEF InFlight, WalkOK
  <2> QED BY <2>1, <2>2, <2>3
<1> QED BY <1>1, <1>3

(* The children of an object are finitely many objects other than Top.     *)
LEMMA KidsType ==
    ASSUME NEW p
    PROVE  Kids(p) \subseteq Objects \ {Top} /\ IsFiniteSet(Kids(p))
<1>1. Kids(p) \in SUBSET Objects /\ Kids(p) \subseteq Objects \ {Top}
  BY DEF Kids
<1> QED BY <1>1, ObjectsAssumption, FS_Subset

(* A total is at least what any child has charged, and at least the        *)
(* object's own count.                                                     *)
LEMMA TotalCovers ==
    ASSUME TypeOK, WalkOK, Conservation, NEW c \in Objects, c # Top
    PROVE  /\ Charge[c] <= m_total_count[NextHop(c)]
           /\ m_source_count[c] <= m_total_count[c]
           /\ m_source_count[Top] <= m_total_count[Top]
<1>1. \A p \in Objects : Sum(Charge, Kids(p)) \in Nat
  BY KidsType, ChargeType, SumType
<1>2. NextHop(c) \in Objects /\ c \in Kids(NextHop(c))
  BY NextHopType DEF Kids
<1>3. Charge[c] <= Sum(Charge, Kids(NextHop(c)))
  BY <1>2, KidsType, ChargeType, SumMember
<1>4. \A p \in Objects : m_source_count[p] \in Nat /\ m_total_count[p] \in Nat
  BY DEF TypeOK
<1>5. Charge[c] \in Nat
  BY ChargeType
<1>6. \A p \in Objects : m_total_count[p] = m_source_count[p] + Sum(Charge, Kids(p))
  BY DEF Conservation
<1> HIDE DEF Conservation, TypeOK, WalkOK
<1>7. Charge[c] <= m_total_count[NextHop(c)]
  BY <1>1, <1>2, <1>3, <1>4, <1>5, <1>6
<1>8. \A p \in Objects : m_source_count[p] <= m_total_count[p]
  BY <1>1, <1>4, <1>6
<1> QED BY <1>7, <1>8, ObjectsAssumption

(* When nothing is counted at Top and no call is under way, nothing is     *)
(* counted anywhere and nothing is held back below Top.                    *)
LEMMA AllZero ==
    ASSUME TypeOK, WalkOK, Conservation, m_total_count[Top] = 0, walk.dir = "idle"
    PROVE  /\ \A o \in Objects : m_total_count[o] = 0 /\ m_source_count[o] = 0
           /\ \A o \in Objects \ {Top} : Charge[o] = 0
<1> DEFINE S == {o \in Objects \ {Top} : Charge[o] # 0}
<1>1. \A o \in Objects \ {Top} : m_total_count[o] <= Charge[o]
  <2> SUFFICES ASSUME NEW o \in Objects \ {Top} PROVE m_total_count[o] <= Charge[o]
    OBVIOUS
  <2>1. InFlight(o) = 0
    BY DEF InFlight
  <2>2. m_total_count[o] \in Nat /\ ctxt_count[o] \in Nat
    BY DEF TypeOK
  <2>3. Base(o) \in Nat /\ m_total_count[o] <= Base(o)
    BY <2>2 DEF Base
  <2>4. Charge[o] = Base(o) + InFlight(o)
    BY ChargeType
  <2> QED BY <2>1, <2>3, <2>4
<1>2. \A o \in Objects : m_total_count[o] \in Nat /\ m_source_count[o] \in Nat
  BY DEF TypeOK
<1>3. \A o \in Objects : Charge[o] \in Nat
  BY ChargeType
<1>4. \A o \in Objects \ {Top} : Charge[o] <= m_total_count[NextHop(o)]
  BY TotalCovers
<1>5. S = {}
  <2> SUFFICES ASSUME S # {} PROVE FALSE
    OBVIOUS
  <2>1. PICK o \in S : Parent[o] \notin S
    BY TreeAssumption
  <2>2. o \in Objects \ {Top} /\ NextHop(o) \in Objects
    BY NextHopType
  <2>3. NextHop(o) = Top \/ NextHop(o) \notin S
    BY <2>1 DEF NextHop
  <2>4. m_total_count[NextHop(o)] = 0
    <3>1. CASE NextHop(o) = Top
      BY <3>1
    <3>2. CASE NextHop(o) # Top
      <4>1. Charge[NextHop(o)] = 0
        BY <2>2, <2>3, <3>2
      <4> QED BY <1>1, <1>2, <2>2, <3>2, <4>1
    <3> QED BY <3>1, <3>2
  <2> QED BY <1>3, <1>4, <2>1, <2>2, <2>4
<1>6. \A o \in Objects \ {Top} : Charge[o] = 0
  BY <1>5
<1>7. \A o \in Objects : m_total_count[o] = 0
  BY <1>1, <1>2, <1>6
<1>8. \A o \in Objects : m_source_count[o] <= m_total_count[o]
  <2> SUFFICES ASSUME NEW o \in Objects PROVE m_source_count[o] <= m_total_count[o]
    OBVIOUS
  <2>1. m_total_count[o] = m_source_count[o] + Sum(Charge, Kids(o))
    BY DEF Conservation
  <2>2. Sum(Charge, Kids(o)) \in Nat
    BY KidsType, ChargeType, SumType
  <2> QED BY <1>2, <2>1, <2>2
<1> QED BY <1>2, <1>6, <1>7, <1>8

-----------------------------------------------------------------------------------
(***************************************************************************)
(* One context per object                                                  *)
(***************************************************************************)

(* Catching the context of o takes it from the only place it is in.        *)
LEMMA CatchEffect ==
    ASSUME TypeOK, OneContext, NEW o \in Objects, CatchContext(o)
    PROVE  /\ Distinct(m_scheduled_list')
           /\ Distinct(m_forked_list')
           /\ \A q \in Objects :
                 /\ Listed(m_scheduled_list', q) <=> q # o /\ Listed(m_scheduled_list, q)
                 /\ Listed(m_forked_list', q) <=> q # o /\ Listed(m_forked_list, q)
                 /\ m_drain_proc'[q] = IF q = o THEN "none" ELSE m_drain_proc[q]
<1>1. /\ m_scheduled_list \in Seq(Objects) /\ Distinct(m_scheduled_list)
      /\ m_forked_list \in Seq(Objects) /\ Distinct(m_forked_list)
      /\ m_drain_proc \in [Objects -> Stages]
  BY DEF TypeOK, OneContext
<1>2. /\ Listed(m_scheduled_list, o) => ~Listed(m_forked_list, o)
      /\ m_drain_proc[o] # "none" =>
            ~Listed(m_scheduled_list, o) /\ ~Listed(m_forked_list, o)
  BY DEF OneContext
<1>3. CASE Listed(m_scheduled_list, o)
  <2>1. /\ m_scheduled_list' = Deleted(m_scheduled_list, o)
        /\ m_forked_list' = m_forked_list
        /\ m_drain_proc' = m_drain_proc
    BY <1>3 DEF CatchContext, CatchScheduled, CatchForked, CatchDrain
  <2>2. /\ Distinct(Deleted(m_scheduled_list, o))
        /\ \A q : Listed(Deleted(m_scheduled_list, o), q)
                     <=> q # o /\ Listed(m_scheduled_list, q)
    BY <1>1, <1>3, ListedDeleted
  <2> QED BY <1>1, <1>2, <1>3, <2>1, <2>2
<1>4. CASE ~Listed(m_scheduled_list, o) /\ Listed(m_forked_list, o)
  <2>1. /\ m_scheduled_list' = m_scheduled_list
        /\ m_forked_list' = Deleted(m_forked_list, o)
        /\ m_drain_proc' = m_drain_proc
    BY <1>4 DEF CatchContext, CatchScheduled, CatchForked, CatchDrain
  <2>2. /\ Distinct(Deleted(m_forked_list, o))
        /\ \A q : Listed(Deleted(m_forked_list, o), q) <=> q # o /\ Listed(m_forked_list, q)
    BY <1>1, <1>4, ListedDeleted
  <2> QED BY <1>1, <1>2, <1>4, <2>1, <2>2
<1>5. CASE ~Listed(m_scheduled_list, o) /\ ~Listed(m_forked_list, o)
  <2>1. /\ m_scheduled_list' = m_scheduled_list
        /\ m_forked_list' = m_forked_list
        /\ m_drain_proc' = [m_drain_proc EXCEPT ![o] = "none"]
    BY <1>5 DEF CatchContext, CatchScheduled, CatchForked, CatchDrain
  <2> QED BY <1>1, <1>5, <2>1
<1> QED BY <1>3, <1>4, <1>5

(* After m_raise at o, o has no context and something is counted at it;    *)
(* the other objects keep theirs.                                          *)
LEMMA RaiseOneContext ==
    ASSUME TypeOK, OneContext, NEW o \in Objects, NEW own \in BOOLEAN,
           NEW count \in Nat, count >= 1, m_raise(o, own, count)
    PROVE  OneContext' /\ ~Pending(o)' /\ m_total_count'[o] >= 1
<1>1. /\ m_total_count \in [Objects -> Nat]
      /\ m_total_count' = [m_total_count EXCEPT ![o] = @ + count]
  BY DEF TypeOK, m_raise
<1>2. m_total_count'[o] >= 1 /\ \A q \in Objects : q # o => m_total_count'[q] = m_total_count[q]
  BY <1>1
<1>3. /\ ctxt_count \in [Objects -> Nat]
      /\ m_drain_proc \in [Objects -> Stages]
  BY DEF TypeOK
<1>4. CASE ~Pending(o) /\ UNCHANGED contexts
  <2>1. \A q \in Objects : (Pending(q) <=> Pending(q)')
    BY <1>4 DEF contexts, Pending
  <2>2. OneContext'
    BY <1>2, <1>4, <2>1 DEF OneContext, contexts
  <2> QED BY <1>2, <1>4, <2>1, <2>2
<1>5. CASE CatchContext(o) /\ ctxt_count' = [ctxt_count EXCEPT ![o] = 0]
  <2>1. \A q \in Objects : Pending(q)' <=> q # o /\ Pending(q)
    BY <1>5, CatchEffect DEF Pending
  <2>2. \A q \in Objects : ctxt_count'[q] = IF q = o THEN 0 ELSE ctxt_count[q]
    BY <1>3, <1>5
  <2>3. OneContext'
    BY <1>2, <1>5, <2>1, <2>2, CatchEffect DEF OneContext
  <2> QED BY <1>2, <2>1, <2>3
<1> QED BY <1>4, <1>5 DEF m_raise

(* A drop that takes the total of o to zero gives o its one context.       *)
LEMMA DropOneContext ==
    ASSUME TypeOK, OneContext, NEW o \in Objects, NEW own \in BOOLEAN,
           NEW count \in Nat, count >= 1, ~BelowZero(o, own, count),
           m_drop(o, own, count)
    PROVE  OneContext'
<1>1. /\ m_total_count \in [Objects -> Nat]
      /\ m_total_count' = [m_total_count EXCEPT ![o] = @ - count]
      /\ m_total_count[o] >= count
  BY DEF TypeOK, m_drop, ScheduleDrain, BelowZero
<1>2. /\ m_total_count'[o] = m_total_count[o] - count
      /\ \A q \in Objects : q # o => m_total_count'[q] = m_total_count[q]
  BY <1>1
<1>3. ~Pending(o) /\ m_drain_proc[o] = "none"
  BY <1>1 DEF OneContext, Pending
<1>4. m_forked_list' = m_forked_list /\ m_drain_proc' = m_drain_proc
  BY DEF m_drop, ScheduleDrain
<1>5. CASE count # m_total_count[o]
  <2>1. m_scheduled_list' = m_scheduled_list /\ ctxt_count' = ctxt_count
    BY <1>5 DEF m_drop, ScheduleDrain
  <2>2. \A q \in Objects : Pending(q)' <=> Pending(q)
    BY <1>4, <2>1 DEF Pending
  <2> QED BY <1>2, <1>3, <1>4, <2>1, <2>2 DEF OneContext
<1>6. CASE count = m_total_count[o]
  <2>1. /\ m_scheduled_list' = Append(m_scheduled_list, o)
        /\ ctxt_count' = [ctxt_count EXCEPT ![o] = count]
    BY <1>6 DEF m_drop, ScheduleDrain
  <2>2. /\ m_scheduled_list \in Seq(Objects)
        /\ Distinct(m_scheduled_list)
        /\ ~Listed(m_scheduled_list, o)
        /\ ~Listed(m_forked_list, o)
    BY <1>3 DEF TypeOK, OneContext, Pending
  <2>3. /\ Distinct(m_scheduled_list')
        /\ \A q : Listed(m_scheduled_list', q) <=> q = o \/ Listed(m_scheduled_list, q)
    BY <2>1, <2>2, ListedAppend
  <2>4. \A q \in Objects : Pending(q)' <=> q = o \/ Pending(q)
    BY <1>4, <2>3 DEF Pending
  <2>5. \A q \in Objects : ctxt_count'[q] = IF q = o THEN count ELSE ctxt_count[q]
    BY <2>1 DEF TypeOK
  <2>6. m_total_count'[o] = 0
    BY <1>1, <1>2, <1>6
  <2> QED BY <1>2, <1>3, <1>4, <2>2, <2>3, <2>4, <2>5, <2>6 DEF OneContext
<1> QED BY <1>5, <1>6

(* Every step keeps one context per object.                                *)
LEMMA OneContextStep ==
    ASSUME TypeOK, WalkOK, OneContext, [Next]_vars
    PROVE  OneContext'
<1> USE DEF counts, flags, contexts
<1>0. /\ m_scheduled_list \in Seq(Objects) /\ Distinct(m_scheduled_list)
      /\ m_forked_list \in Seq(Objects) /\ Distinct(m_forked_list)
      /\ m_drain_proc \in [Objects -> Stages]
      /\ ctxt_count \in [Objects -> Nat]
  BY DEF TypeOK, OneContext
<1>1. ASSUME NEW o \in Objects, NEW n \in 0 .. MaxCount, RaiseObjection(o, n)
      PROVE  OneContext'
  <2>1. CASE n = 0
    BY <1>1, <2>1 DEF RaiseObjection, OneContext, Pending
  <2>2. CASE n # 0
    <3>1. m_raise(o, TRUE, n)
      BY <1>1, <2>2 DEF RaiseObjection
    <3>2. n \in Nat /\ n >= 1
      BY <2>2, BoundsAssumption
    <3> QED BY <3>1, <3>2, RaiseOneContext
  <2> QED BY <2>1, <2>2
<1>2. ASSUME NEW o \in Objects, NEW n \in 1 .. MaxCount, DropObjection(o, n)
      PROVE  OneContext'
  <2>1. CASE BelowZero(o, TRUE, n)
    BY <1>2, <2>1 DEF DropObjection, DropBelowZero, OneContext, Pending
  <2>2. CASE ~BelowZero(o, TRUE, n)
    <3>1. m_drop(o, TRUE, n)
      BY <1>2, <2>2 DEF DropObjection
    <3>2. n \in Nat /\ n >= 1
      BY BoundsAssumption
    <3> QED BY <2>2, <3>1, <3>2, DropOneContext
  <2> QED BY <2>1, <2>2
<1>3. CASE PropagateRaise
  <2>1. walk.at \in Objects /\ walk.count \in Nat /\ walk.count >= 1
    BY <1>3 DEF PropagateRaise, TypeOK, Walks, WalkOK
  <2>2. m_raise(walk.at, FALSE, walk.count)
    BY <1>3 DEF PropagateRaise
  <2> QED BY <2>1, <2>2, RaiseOneContext
<1>4. CASE PropagateDrop
  <2>1. walk.at \in Objects /\ walk.count \in Nat /\ walk.count >= 1
    BY <1>4 DEF PropagateDrop, TypeOK, Walks, WalkOK
  <2>2. CASE BelowZero(walk.at, FALSE, walk.count)
    BY <1>4, <2>2 DEF PropagateDrop, DropBelowZero, OneContext, Pending
  <2>3. CASE ~BelowZero(walk.at, FALSE, walk.count)
    <3>1. m_drop(walk.at, FALSE, walk.count)
      BY <1>4, <2>3 DEF PropagateDrop
    <3> QED BY <2>1, <2>3, <3>1, DropOneContext
  <2> QED BY <2>2, <2>3
<1>5. CASE m_execute_scheduled_forks
  <2> DEFINE h == Head(m_scheduled_list)
  <2>1. /\ m_scheduled_list # << >>
        /\ m_scheduled_list' = Tail(m_scheduled_list)
        /\ m_forked_list' = Append(m_forked_list, h)
        /\ UNCHANGED <<m_total_count, m_drain_proc, ctxt_count>>
    BY <1>5 DEF m_execute_scheduled_forks
  <2>2. /\ h \in Objects
        /\ Listed(m_scheduled_list, h)
        /\ Distinct(Tail(m_scheduled_list))
        /\ \A q : Listed(Tail(m_scheduled_list), q) <=> q # h /\ Listed(m_scheduled_list, q)
    BY <1>0, <2>1, ListedTail
  <2> HIDE DEF h
  <2>3. ~Listed(m_forked_list, h) /\ m_drain_proc[h] = "none"
    BY <2>2 DEF OneContext
  <2>4. /\ Distinct(m_forked_list')
        /\ \A q : Listed(m_forked_list', q) <=> q = h \/ Listed(m_forked_list, q)
    BY <1>0, <2>1, <2>2, <2>3, ListedAppend
  <2>5. \A q : Listed(m_scheduled_list', q) <=> q # h /\ Listed(m_scheduled_list, q)
    BY <2>1, <2>2
  <2>6. \A q \in Objects : Pending(q)' <=> Pending(q)
    BY <2>1, <2>2, <2>4, <2>5 DEF Pending
  <2> QED BY <2>1, <2>2, <2>3, <2>4, <2>5, <2>6 DEF OneContext
<1>6. CASE StartDrain
  <2>1. CASE m_forked_list = << >>
    BY <1>6, <2>1 DEF StartDrain, OneContext, Pending
  <2>2. CASE m_forked_list # << >>
    <3> DEFINE h == Head(m_forked_list)
    <3>1. /\ m_forked_list' = Tail(m_forked_list)
          /\ m_drain_proc' = [m_drain_proc EXCEPT ![h] = "delay"]
          /\ UNCHANGED <<m_total_count, m_scheduled_list, ctxt_count>>
      BY <1>6, <2>2 DEF StartDrain
    <3>2. /\ h \in Objects
          /\ Listed(m_forked_list, h)
          /\ Distinct(Tail(m_forked_list))
          /\ \A q : Listed(Tail(m_forked_list), q) <=> q # h /\ Listed(m_forked_list, q)
      BY <1>0, <2>2, ListedTail
    <3> HIDE DEF h
    <3>3. ~Listed(m_scheduled_list, h)
      BY <3>2 DEF OneContext
    <3>4. \A q \in Objects : m_drain_proc'[q] = IF q = h THEN "delay" ELSE m_drain_proc[q]
      BY <1>0, <3>1, <3>2
    <3>5. \A q : Listed(m_forked_list', q) <=> q # h /\ Listed(m_forked_list, q)
      BY <3>1, <3>2
    <3>6. Distinct(m_forked_list')
      BY <3>1, <3>2
    <3>7. \A q \in Objects : Pending(q)' <=> Pending(q)
      BY <3>1, <3>2, <3>4, <3>5 DEF Pending
    <3> QED BY <3>1, <3>2, <3>3, <3>4, <3>5, <3>6, <3>7 DEF OneContext
  <2> QED BY <2>1, <2>2
<1>7. ASSUME NEW o \in Objects, NEW stage \in Stages,
             m_drain_proc[o] # "none", stage # "none",
             m_drain_proc' = [m_drain_proc EXCEPT ![o] = stage],
             UNCHANGED <<m_total_count, m_scheduled_list, m_forked_list, ctxt_count>>
      PROVE  OneContext'
  <2>1. \A q \in Objects : (m_drain_proc'[q] = "none" <=> m_drain_proc[q] = "none")
    BY <1>0, <1>7
  <2>2. \A q \in Objects : Pending(q)' <=> Pending(q)
    BY <1>7, <2>1 DEF Pending
  <2> QED BY <1>7, <2>1, <2>2 DEF OneContext
<1>8. ASSUME NEW o \in Objects, DrainTimeElapsed(o)
      PROVE  OneContext'
  BY <1>7, <1>8 DEF DrainTimeElapsed, Stages
<1>9. ASSUME NEW o \in Objects, AllDropped(o)
      PROVE  OneContext'
  BY <1>7, <1>9 DEF AllDropped, Stages
<1>10. ASSUME NEW o \in Objects, PropagateDrain(o)
       PROVE  OneContext'
  BY <1>7, <1>10 DEF PropagateDrain, Stages
<1>11. ASSUME NEW o \in Objects, EndDrain(o)
       PROVE  OneContext'
  <2>1. \A q \in Objects :
           /\ m_drain_proc'[q] = IF q = o THEN "none" ELSE m_drain_proc[q]
           /\ ctxt_count'[q] = IF q = o THEN 0 ELSE ctxt_count[q]
    BY <1>0, <1>11 DEF EndDrain
  <2>2. ~Listed(m_scheduled_list, o) /\ ~Listed(m_forked_list, o)
    BY <1>11 DEF EndDrain, OneContext
  <2>3. UNCHANGED <<m_total_count, m_scheduled_list, m_forked_list>>
    BY <1>11 DEF EndDrain
  <2>4. \A q \in Objects : Pending(q)' <=> q # o /\ Pending(q)
    BY <2>1, <2>2, <2>3 DEF Pending
  <2> QED BY <2>1, <2>3, <2>4 DEF OneContext
<1>12. CASE Clear
  <2>1. \A q : ~Listed(<< >>, q)
    BY DEF Listed
  <2>2. Distinct(<< >>)
    BY DEF Distinct
  <2>3. \A q \in Objects : ctxt_count'[q] = 0 /\ m_drain_proc'[q] = "none"
    BY <1>12 DEF Clear
  <2>4. m_scheduled_list' = << >> /\ m_forked_list' = << >>
    BY <1>12 DEF Clear
  <2>5. \A q \in Objects : ~Pending(q)'
    BY <2>1, <2>3, <2>4 DEF Pending
  <2> QED BY <2>1, <2>2, <2>3, <2>4, <2>5 DEF OneContext
<1>13. ASSUME NEW mode \in BOOLEAN, SetPropagateMode(mode)
       PROVE  OneContext'
  BY <1>13 DEF SetPropagateMode, OneContext, Pending
<1>14. ASSUME NEW o \in Objects, WaitFor(o)
       PROVE  OneContext'
  BY <1>14 DEF WaitFor, OneContext, Pending
<1>15. CASE UNCHANGED vars
  BY <1>15 DEF vars, OneContext, Pending
<1> QED BY <1>1, <1>2, <1>3, <1>4, <1>5, <1>6, <1>8, <1>9, <1>10, <1>11, <1>12,
           <1>13, <1>14, <1>15 DEF Next

-----------------------------------------------------------------------------------
(***************************************************************************)
(* The call under way                                                      *)
(***************************************************************************)

(* The next level of a call is as WalkOK wants it.                         *)
LEMMA UpOK ==
    ASSUME TypeOK, NEW o \in Objects, NEW dir \in {"raise", "drop"}, NEW n \in Nat
    PROVE  LET w == Up(o, dir, n)
           IN  /\ w.dir = "idle" => w = Idle
               /\ w.dir # "idle" =>
                     /\ o # Top /\ n >= 1
                     /\ w.dir = dir
                     /\ w.from = o /\ w.at = NextHop(o) /\ w.count = n
               /\ w.dir = "idle" => o = Top \/ n = 0
BY DEF Up, Idle

(* Raising leaves a call that is as WalkOK wants it.                       *)
LEMMA RaiseWalk ==
    ASSUME TypeOK, OneContext, NEW o \in Objects, NEW own \in BOOLEAN,
           NEW count \in Nat, count >= 1, m_raise(o, own, count),
           m_prop_mode' = m_prop_mode,
           \A q \in Objects : m_drain_proc[q] # "propagate"
    PROVE  WalkOK'
<1>1. /\ m_total_count'[o] = m_total_count[o] + count
      /\ m_total_count[o] \in Nat
      /\ ctxt_count[o] \in Nat
  BY DEF TypeOK, m_raise
<1>2. NextHop(o)' = NextHop(o)
  BY DEF NextHop
<1>3. \A q \in Objects : m_drain_proc'[q] # "propagate"
  <2>1. CASE UNCHANGED contexts
    BY <2>1 DEF contexts
  <2>2. CASE CatchContext(o)
    BY <2>2, CatchEffect
  <2> QED BY <2>1, <2>2 DEF m_raise
<1>4. PICK dir \in {"raise", "drop"}, n \in Nat :
          walk' = Up(o, dir, n) /\ (dir = "raise" => n <= count)
  <2>1. CASE walk' = Up(o, "raise", count)
    BY <2>1
  <2>2. CASE walk' = IF count >= ctxt_count[o]
                       THEN Up(o, "raise", count - ctxt_count[o])
                       ELSE Up(o, "drop", ctxt_count[o] - count)
    <3>1. CASE count >= ctxt_count[o]
      <4>1. count - ctxt_count[o] \in Nat /\ count - ctxt_count[o] <= count
        BY <1>1, <3>1
      <4> QED BY <2>2, <3>1, <4>1
    <3>2. CASE ~(count >= ctxt_count[o])
      <4>1. ctxt_count[o] - count \in Nat
        BY <1>1, <3>2
      <4> QED BY <2>2, <3>2, <4>1
    <3> QED BY <3>1, <3>2
  <2> QED BY <2>1, <2>2 DEF m_raise, Difference
<1>5. n <= count => n <= m_total_count'[o]
  BY <1>1
<1> QED BY <1>2, <1>3, <1>4, <1>5, UpOK DEF WalkOK

(* Dropping leaves a call that is as WalkOK wants it.                      *)
LEMMA DropWalk ==
    ASSUME TypeOK, NEW o \in Objects, NEW own \in BOOLEAN, NEW count \in Nat,
           NEW level,
           IF BelowZero(o, own, count) THEN DropBelowZero(level)
                                       ELSE m_drop(o, own, count),
           m_prop_mode' = m_prop_mode
    PROVE  WalkOK'
<1>1. NextHop(o)' = NextHop(o)
  BY DEF NextHop
<1>2. Idle.dir = "idle"
  BY DEF Idle
<1>3. CASE walk' = Idle
  BY <1>2, <1>3 DEF WalkOK
<1>4. CASE walk' = Up(o, "drop", count)
  BY <1>1, <1>4, UpOK DEF WalkOK
<1> QED BY <1>3, <1>4 DEF DropBelowZero, m_drop, ScheduleDrain

(* Every step keeps the call under way as WalkOK wants it.                 *)
LEMMA WalkStep ==
    ASSUME TypeOK, WalkOK, OneContext, [Next]_vars
    PROVE  WalkOK'
<1> USE DEF counts, flags, contexts
<1>0. Idle.dir = "idle"
  BY DEF Idle
<1>1. ASSUME NEW o \in Objects, NEW n \in 0 .. MaxCount, RaiseObjection(o, n)
      PROVE  WalkOK'
  <2>1. CASE n = 0
    BY <1>1, <2>1, <1>0 DEF RaiseObjection, WalkOK, Quiet
  <2>2. CASE n # 0
    <3>1. m_raise(o, TRUE, n) /\ m_prop_mode' = m_prop_mode
      BY <1>1, <2>2 DEF RaiseObjection
    <3>2. n \in Nat /\ n >= 1
      BY <2>2, BoundsAssumption
    <3>3. \A q \in Objects : m_drain_proc[q] # "propagate"
      BY <1>1 DEF RaiseObjection, Quiet
    <3> QED BY <3>1, <3>2, <3>3, RaiseWalk
  <2> QED BY <2>1, <2>2
<1>2. ASSUME NEW o \in Objects, NEW n \in 1 .. MaxCount, DropObjection(o, n)
      PROVE  WalkOK'
  <2>1. n \in Nat
    BY BoundsAssumption
  <2>2. /\ IF BelowZero(o, TRUE, n) THEN DropBelowZero("source") ELSE m_drop(o, TRUE, n)
        /\ m_prop_mode' = m_prop_mode
    BY <1>2 DEF DropObjection
  <2> QED BY <2>1, <2>2, DropWalk
<1>3. CASE PropagateRaise
  <2>1. walk.at \in Objects /\ walk.count \in Nat /\ walk.count >= 1
    BY <1>3 DEF PropagateRaise, TypeOK, Walks, WalkOK
  <2>2. m_raise(walk.at, FALSE, walk.count) /\ m_prop_mode' = m_prop_mode
    BY <1>3 DEF PropagateRaise
  <2>3. \A q \in Objects : m_drain_proc[q] # "propagate"
    BY <1>3 DEF PropagateRaise, WalkOK
  <2> QED BY <2>1, <2>2, <2>3, RaiseWalk
<1>4. CASE PropagateDrop
  <2>1. walk.at \in Objects /\ walk.count \in Nat
    BY DEF TypeOK, Walks
  <2>2. /\ IF BelowZero(walk.at, FALSE, walk.count)
             THEN DropBelowZero("ancestor")
             ELSE m_drop(walk.at, FALSE, walk.count)
        /\ m_prop_mode' = m_prop_mode
    BY <1>4 DEF PropagateDrop
  <2> QED BY <2>1, <2>2, DropWalk
<1>5. ASSUME NEW o \in Objects, PropagateDrain(o)
      PROVE  WalkOK'
  <2>1. walk' = Up(o, "drop", ctxt_count[o]) /\ m_prop_mode' = m_prop_mode
    BY <1>5 DEF PropagateDrain
  <2>2. ctxt_count[o] \in Nat
    BY DEF TypeOK
  <2>3. NextHop(o)' = NextHop(o)
    BY <2>1 DEF NextHop
  <2> QED BY <2>1, <2>2, <2>3, UpOK DEF WalkOK
<1>6. CASE walk = Idle /\ UNCHANGED walk
  BY <1>0, <1>6 DEF WalkOK
<1>7. CASE UNCHANGED vars
  <2>1. UNCHANGED <<walk, m_prop_mode, m_total_count, m_drain_proc>>
    BY <1>7 DEF vars
  <2>2. NextHop(walk.from)' = NextHop(walk.from)
    BY <2>1 DEF NextHop
  <2> QED BY <2>1, <2>2 DEF WalkOK
<1>8. ASSUME NEW o \in Objects,
             DrainTimeElapsed(o) \/ AllDropped(o) \/ EndDrain(o) \/ WaitFor(o)
      PROVE  WalkOK'
  <2>1. walk = Idle /\ UNCHANGED walk
    BY <1>8 DEF DrainTimeElapsed, AllDropped, EndDrain, WaitFor, Quiet
  <2> QED BY <2>1, <1>6
<1>9. CASE m_execute_scheduled_forks \/ StartDrain \/ Clear
  <2>1. walk = Idle /\ UNCHANGED walk
    BY <1>9 DEF m_execute_scheduled_forks, StartDrain, Clear, Quiet
  <2> QED BY <2>1, <1>6
<1>10. ASSUME NEW mode \in BOOLEAN, SetPropagateMode(mode)
       PROVE  WalkOK'
  <2>1. walk = Idle /\ UNCHANGED walk
    BY <1>10 DEF SetPropagateMode, Quiet
  <2> QED BY <2>1, <1>6
<1> QED BY <1>1, <1>2, <1>3, <1>4, <1>5, <1>7, <1>8, <1>9, <1>10 DEF Next

-----------------------------------------------------------------------------------
(***************************************************************************)
(* Conservation                                                            *)
(***************************************************************************)

(* A level that changes an object's own count and total alike, and charges *)
(* nobody, keeps every total.                                              *)
LEMMA ConservationOwn ==
    ASSUME TypeOK, TypeOK', Conservation, m_prop_mode' = m_prop_mode,
           \A x \in Objects \ {Top} : Charge'[x] = Charge[x],
           \A p \in Objects : m_total_count'[p] - m_source_count'[p]
                                = m_total_count[p] - m_source_count[p],
           WalkOK
    PROVE  Conservation'
<1> SUFFICES ASSUME NEW p \in Objects
             PROVE  m_total_count'[p] = m_source_count'[p] + Sum(Charge', Kids(p)')
  BY DEF Conservation
<1>1. Kids(p)' = Kids(p)
  BY DEF Kids, NextHop
<1>2. Sum(Charge', Kids(p)) = Sum(Charge, Kids(p))
  <2>1. \A x \in Kids(p) : Charge'[x] = Charge[x]
    BY KidsType
  <2> QED BY <2>1, SumSame
<1>3. m_total_count[p] = m_source_count[p] + Sum(Charge, Kids(p))
  BY DEF Conservation
<1>4. Sum(Charge, Kids(p)) \in Nat
  BY KidsType, ChargeType, SumType
<1>5. /\ m_total_count[p] \in Nat /\ m_source_count[p] \in Nat
      /\ m_total_count'[p] \in Nat /\ m_source_count'[p] \in Nat
  BY DEF TypeOK
<1>6. m_total_count'[p] - m_source_count'[p] = m_total_count[p] - m_source_count[p]
  OBVIOUS
<1>7. m_total_count'[p] = m_source_count'[p] + Sum(Charge, Kids(p))
  BY <1>3, <1>4, <1>5, <1>6
<1> QED BY <1>1, <1>2, <1>7

(* A level that delivers n charged by c to the total of its next hop keeps *)
(* every total.                                                            *)
LEMMA ConservationWalk ==
    ASSUME TypeOK, TypeOK', WalkOK, WalkOK', Conservation,
           m_prop_mode' = m_prop_mode,
           NEW c \in Objects, c # Top, NEW n \in Int,
           \A x \in Objects \ {Top} : x # c => Charge'[x] = Charge[x],
           Charge'[c] = Charge[c] + n,
           m_source_count' = m_source_count,
           m_total_count' = [m_total_count EXCEPT ![NextHop(c)] = @ + n]
    PROVE  Conservation'
<1> SUFFICES ASSUME NEW p \in Objects
             PROVE  m_total_count'[p] = m_source_count'[p] + Sum(Charge', Kids(p)')
  BY DEF Conservation
<1>1. Kids(p)' = Kids(p)
  BY DEF Kids, NextHop
<1>2. m_total_count[p] = m_source_count[p] + Sum(Charge, Kids(p))
  BY DEF Conservation
<1>3. Sum(Charge, Kids(p)) \in Nat
  BY KidsType, ChargeType, SumType
<1>4. /\ m_total_count \in [Objects -> Nat]
      /\ m_total_count[p] \in Nat /\ m_source_count[p] \in Nat
  BY DEF TypeOK
<1>5. \A x \in Objects : Charge[x] \in Nat
  BY ChargeType
<1>6. \A x \in Objects : Charge'[x] \in Nat
  <2>1. (TypeOK /\ WalkOK => \A x \in Objects : Charge[x] \in Nat)'
    BY ChargeType, PTL
  <2> QED BY <2>1
<1>7. CASE p = NextHop(c)
  <2>1. c \in Kids(p)
    BY <1>7 DEF Kids
  <2>2. \A x \in Kids(p) : x # c => Charge'[x] = Charge[x]
    BY KidsType
  <2>3. \A x \in Kids(p) : Charge[x] \in Nat /\ Charge'[x] \in Nat
    BY KidsType, <1>5, <1>6
  <2>4. Sum(Charge', Kids(p)) = Sum(Charge, Kids(p)) + Charge'[c] - Charge[c]
    <3> DEFINE K == Kids(p)
               g == Charge'
    <3>1. IsFiniteSet(K) /\ c \in K
      BY <2>1, KidsType
    <3>2. /\ \A x \in K : Charge[x] \in Nat /\ g[x] \in Nat
          /\ \A x \in K : x # c => g[x] = Charge[x]
      BY <2>2, <2>3
    <3> HIDE DEF K, g
    <3>3. Sum(g, K) = Sum(Charge, K) + g[c] - Charge[c]
      <4>1. Sum(g, K) = Sum(g, K \ {c}) + g[c]
        BY <3>1, <3>2, SumSplit
      <4>2. Sum(Charge, K) = Sum(Charge, K \ {c}) + Charge[c]
        BY <3>1, <3>2, SumSplit
      <4>3. Sum(g, K \ {c}) = Sum(Charge, K \ {c})
        BY <3>2, SumSame
      <4>4. Sum(Charge, K \ {c}) \in Nat
        BY <3>1, <3>2, FS_RemoveElement, SumType
      <4>5. g[c] \in Nat /\ Charge[c] \in Nat
        BY <3>1, <3>2
      <4> QED BY <4>1, <4>2, <4>3, <4>4, <4>5
    <3> QED BY <3>3 DEF K, g
  <2>5. m_total_count'[p] = m_total_count[p] + n
    BY <1>4, <1>7
  <2>6. Charge[c] \in Nat /\ Charge'[c] = Charge[c] + n
    BY <1>5
  <2>7. Sum(Charge', Kids(p)) = Sum(Charge, Kids(p)) + n
    BY <1>3, <2>4, <2>6
  <2>8. m_total_count[p] + n = m_source_count[p] + Sum(Charge', Kids(p))
    BY <1>2, <1>3, <1>4, <2>7
  <2> QED BY <1>1, <2>5, <2>8
<1>8. CASE p # NextHop(c)
  <2>1. \A x \in Kids(p) : Charge'[x] = Charge[x]
    BY <1>8, KidsType DEF Kids
  <2>2. Sum(Charge', Kids(p)) = Sum(Charge, Kids(p))
    BY <2>1, SumSame
  <2>3. m_total_count'[p] = m_total_count[p]
    BY <1>4, <1>8
  <2> QED BY <1>1, <1>2, <2>2, <2>3
<1> QED BY <1>7, <1>8

(* m_raise at o: what is not charged yet is in flight, with what its       *)
(* context held back taken into account.                                   *)
LEMMA RaiseCharge ==
    ASSUME TypeOK, OneContext, NEW o \in Objects, NEW own \in BOOLEAN,
           NEW count \in Nat, count >= 1, m_raise(o, own, count),
           \A q \in Objects : m_drain_proc[q] # "propagate"
    PROVE  \A x \in Objects \ {Top} : Charge'[x] = Base(x)
<1> SUFFICES ASSUME NEW x \in Objects \ {Top}
             PROVE  Base(x)' + InFlight(x)' = Base(x)
  BY DEF Charge
<1>1. /\ \A q \in Objects : m_total_count[q] \in Nat /\ ctxt_count[q] \in Nat
      /\ m_total_count'[x] = IF x = o THEN m_total_count[x] + count ELSE m_total_count[x]
  BY DEF TypeOK, m_raise
<1>2. Base(x) = m_total_count[x] + ctxt_count[x]
  BY DEF Base
<1>3. CASE /\ ~Pending(o) /\ walk' = Up(o, "raise", count) /\ UNCHANGED contexts
  <2>1. Base(x)' = m_total_count'[x] + ctxt_count[x]
    BY <1>3 DEF Base, contexts
  <2>2. InFlight(x)' = IF x = o THEN 0 - count ELSE 0
    BY <1>3 DEF InFlight, Up, Idle
  <2> QED BY <1>1, <1>2, <2>1, <2>2
<1>4. CASE /\ CatchContext(o)
           /\ walk' = IF count >= ctxt_count[o]
                        THEN Up(o, "raise", count - ctxt_count[o])
                        ELSE Up(o, "drop", ctxt_count[o] - count)
           /\ ctxt_count' = [ctxt_count EXCEPT ![o] = 0]
  <2>1. Pending(o) /\ m_total_count[o] = 0
    BY <1>4 DEF CatchContext, CatchScheduled, CatchForked, CatchDrain, Pending, OneContext
  <2>2. ctxt_count'[x] = IF x = o THEN 0 ELSE ctxt_count[x]
    BY <1>4 DEF TypeOK
  <2>3. m_drain_proc'[x] # "propagate"
    BY <1>4, CatchEffect
  <2>4. Base(x)' = m_total_count'[x] + ctxt_count'[x]
    BY <2>3 DEF Base
  <2>5. CASE x = o
    <3>1. InFlight(x)' = ctxt_count[o] - count
      <4>1. CASE count > ctxt_count[o]
        <5>1. walk' = Up(o, "raise", count - ctxt_count[o]) /\ count - ctxt_count[o] # 0
          BY <1>1, <1>4, <4>1
        <5> QED BY <1>1, <2>5, <4>1, <5>1 DEF InFlight, Up
      <4>2. CASE count = ctxt_count[o]
        <5>1. walk' = Up(o, "raise", 0)
          BY <1>1, <1>4, <4>2
        <5>2. walk' = Idle
          BY <5>1 DEF Up
        <5> QED BY <1>1, <4>2, <5>2 DEF InFlight, Idle
      <4>3. CASE count < ctxt_count[o]
        <5>1. walk' = Up(o, "drop", ctxt_count[o] - count) /\ ctxt_count[o] - count # 0
          BY <1>1, <1>4, <4>3
        <5> QED BY <1>1, <2>5, <4>3, <5>1 DEF InFlight, Up
      <4> QED BY <1>1, <4>1, <4>2, <4>3
    <3> QED BY <1>1, <1>2, <2>1, <2>2, <2>4, <2>5, <3>1
  <2>6. CASE x # o
    <3>1. InFlight(x)' = 0
      BY <1>4, <2>6 DEF InFlight, Up, Idle
    <3> QED BY <1>1, <1>2, <2>2, <2>4, <2>6, <3>1
  <2> QED BY <2>5, <2>6
<1> QED BY <1>3, <1>4 DEF m_raise, Difference

(* m_drop at o: what it takes from the total is in flight or held back.    *)
LEMMA DropCharge ==
    ASSUME TypeOK, OneContext, NEW o \in Objects, NEW own \in BOOLEAN,
           NEW count \in Nat, count >= 1, ~BelowZero(o, own, count),
           m_drop(o, own, count)
    PROVE  \A x \in Objects \ {Top} : Charge'[x] = Base(x)
<1> SUFFICES ASSUME NEW x \in Objects \ {Top}
             PROVE  Base(x)' + InFlight(x)' = Base(x)
  BY DEF Charge
<1>1. /\ \A q \in Objects : m_total_count[q] \in Nat /\ ctxt_count[q] \in Nat
      /\ m_total_count'[x] = IF x = o THEN m_total_count[x] - count ELSE m_total_count[x]
      /\ count <= m_total_count[o]
  BY DEF TypeOK, m_drop, ScheduleDrain, BelowZero
<1>2. ctxt_count[o] = 0 /\ m_drain_proc[o] = "none"
  BY <1>1 DEF OneContext, Pending
<1>3. m_drain_proc' = m_drain_proc
  BY DEF m_drop, ScheduleDrain
<1>4. CASE count # m_total_count[o]
  <2>1. walk' = Up(o, "drop", count) /\ ctxt_count' = ctxt_count
    BY <1>4 DEF m_drop, ScheduleDrain
  <2>2. InFlight(x)' = IF x = o THEN count ELSE 0
    BY <2>1 DEF InFlight, Up, Idle
  <2>3. Base(x)' = m_total_count'[x] + (Base(x) - m_total_count[x])
    BY <1>1, <1>3, <2>1 DEF Base
  <2>4. Base(x) \in Nat
    BY <1>1 DEF Base
  <2> QED BY <1>1, <2>2, <2>3, <2>4
<1>5. CASE count = m_total_count[o]
  <2>1. walk' = Idle /\ ctxt_count' = [ctxt_count EXCEPT ![o] = count]
    BY <1>5 DEF m_drop, ScheduleDrain
  <2>2. InFlight(x)' = 0
    BY <2>1 DEF InFlight, Idle
  <2>3. CASE x = o
    <3>1. Base(x)' = m_total_count'[x] + count
      BY <1>2, <1>3, <2>1, <2>3 DEF Base, TypeOK
    <3>2. Base(x) = m_total_count[x]
      BY <1>1, <1>2, <2>3 DEF Base
    <3> QED BY <1>1, <2>2, <2>3, <3>1, <3>2
  <2>4. CASE x # o
    <3>1. ctxt_count'[x] = ctxt_count[x]
      BY <2>1, <2>4 DEF TypeOK
    <3>2. Base(x)' = Base(x) /\ Base(x) \in Nat
      BY <1>1, <1>3, <2>4, <3>1 DEF Base
    <3> QED BY <2>2, <3>2
  <2> QED BY <2>3, <2>4
<1> QED BY <1>4, <1>5

(* A drop never goes below zero above its first level: the next hop counts *)
(* at least what its child has charged.                                    *)
LEMMA NoUnderflow ==
    ASSUME TypeOK, WalkOK, Conservation, walk.dir = "drop"
    PROVE  /\ ~BelowZero(walk.at, FALSE, walk.count)
           /\ m_total_count[walk.at] >= 1
<1> DEFINE c == walk.from
<1>1. /\ c \in Objects /\ c # Top /\ walk.at = NextHop(c)
      /\ walk.at \in Objects
      /\ walk.count \in Nat /\ walk.count >= 1
  BY DEF TypeOK, Walks, WalkOK
<1>2. Charge[c] <= m_total_count[walk.at]
  BY <1>1, TotalCovers
<1>3. Charge[c] = Base(c) + InFlight(c) /\ Base(c) \in Nat
  BY <1>1, ChargeType
<1>4. InFlight(c) = walk.count
  BY DEF InFlight
<1>5. m_total_count[walk.at] \in Nat
  BY <1>1 DEF TypeOK
<1>6. walk.count <= m_total_count[walk.at]
  BY <1>1, <1>2, <1>3, <1>4, <1>5
<1> QED BY <1>1, <1>5, <1>6 DEF BelowZero

(* Every step keeps every total equal to what is below it.                 *)
LEMMA ConservationStep ==
    ASSUME TypeOK, TypeOK', WalkOK, WalkOK', OneContext, Conservation, TopFlag,
           [Next]_vars
    PROVE  Conservation'
<1> USE DEF counts, flags, contexts
<1>a. /\ \A q \in Objects :
            /\ m_total_count[q] \in Nat /\ m_source_count[q] \in Nat
            /\ ctxt_count[q] \in Nat
      /\ m_total_count \in [Objects -> Nat]
      /\ m_source_count \in [Objects -> Nat]
      /\ walk.at \in Objects /\ walk.from \in Objects /\ walk.count \in Nat
  BY DEF TypeOK, Walks
<1>b. Quiet => walk = Idle /\ \A x \in Objects : Charge[x] = Base(x)
  <2> SUFFICES ASSUME Quiet PROVE walk = Idle /\ \A x \in Objects : Charge[x] = Base(x)
    OBVIOUS
  <2>1. walk = Idle
    BY DEF Quiet
  <2>2. \A x \in Objects : InFlight(x) = 0
    BY <2>1 DEF InFlight, Idle
  <2>3. \A x \in Objects : Charge[x] = Base(x) + InFlight(x) /\ Base(x) \in Nat
    BY ChargeType
  <2> QED BY <2>1, <2>2, <2>3
<1>c. ASSUME UNCHANGED <<m_total_count, m_source_count, ctxt_count, walk, m_prop_mode>>,
             \A q \in Objects : (m_drain_proc'[q] = "propagate" <=> m_drain_proc[q] = "propagate")
      PROVE  Conservation'
  <2>1. \A x \in Objects : Base(x)' = Base(x) /\ InFlight(x)' = InFlight(x)
    BY <1>c DEF Base, InFlight
  <2>2. \A x \in Objects : Charge'[x] = Charge[x]
    BY <2>1 DEF Charge
  <2>3. \A p \in Objects : m_total_count'[p] - m_source_count'[p]
                             = m_total_count[p] - m_source_count[p]
    BY <1>c
  <2> QED BY <1>c, <2>2, <2>3, ConservationOwn
<1>1. ASSUME NEW o \in Objects, NEW n \in 0 .. MaxCount, RaiseObjection(o, n)
      PROVE  Conservation'
  <2>1. CASE n = 0
    BY <1>1, <2>1, <1>c DEF RaiseObjection
  <2>2. CASE n # 0
    <3>1. m_raise(o, TRUE, n) /\ m_prop_mode' = m_prop_mode /\ Quiet
      BY <1>1, <2>2 DEF RaiseObjection
    <3>2. n \in Nat /\ n >= 1
      BY <2>2, BoundsAssumption
    <3>3. \A q \in Objects : m_drain_proc[q] # "propagate"
      BY <3>1 DEF Quiet
    <3>4. \A x \in Objects \ {Top} : Charge'[x] = Base(x)
      BY <3>1, <3>2, <3>3, RaiseCharge
    <3>5. \A p \in Objects : m_total_count'[p] - m_source_count'[p]
                               = m_total_count[p] - m_source_count[p]
      <4>1. /\ m_total_count' = [m_total_count EXCEPT ![o] = @ + n]
            /\ m_source_count' = [m_source_count EXCEPT ![o] = @ + n]
        BY <3>1 DEF m_raise
      <4> QED BY <1>a, <3>2, <4>1
    <3> QED BY <1>b, <3>1, <3>4, <3>5, ConservationOwn
  <2> QED BY <2>1, <2>2
<1>2. ASSUME NEW o \in Objects, NEW n \in 1 .. MaxCount, DropObjection(o, n)
      PROVE  Conservation'
  <2>1. CASE BelowZero(o, TRUE, n)
    <3>1. walk' = walk
      BY <1>2, <2>1, <1>b DEF DropObjection, DropBelowZero
    <3> QED BY <1>2, <2>1, <3>1, <1>c DEF DropObjection, DropBelowZero
  <2>2. CASE ~BelowZero(o, TRUE, n)
    <3>1. m_drop(o, TRUE, n) /\ m_prop_mode' = m_prop_mode /\ Quiet
      BY <1>2, <2>2 DEF DropObjection
    <3>2. n \in Nat /\ n >= 1
      BY BoundsAssumption
    <3>3. \A x \in Objects \ {Top} : Charge'[x] = Base(x)
      BY <2>2, <3>1, <3>2, DropCharge
    <3>4. \A p \in Objects : m_total_count'[p] - m_source_count'[p]
                               = m_total_count[p] - m_source_count[p]
      <4>1. /\ m_total_count' = [m_total_count EXCEPT ![o] = @ - n]
            /\ m_source_count' = [m_source_count EXCEPT ![o] = @ - n]
        BY <3>1 DEF m_drop, ScheduleDrain
      <4> QED BY <1>a, <3>2, <4>1
    <3> QED BY <1>b, <3>1, <3>3, <3>4, ConservationOwn
  <2> QED BY <2>1, <2>2
<1>3. CASE PropagateRaise
  <2> DEFINE c == walk.from
  <2>1. /\ m_raise(walk.at, FALSE, walk.count) /\ m_prop_mode' = m_prop_mode
        /\ walk.dir = "raise"
    BY <1>3 DEF PropagateRaise
  <2>2. /\ walk.count >= 1 /\ c # Top /\ walk.at = NextHop(c)
        /\ \A q \in Objects : m_drain_proc[q] # "propagate"
    BY <2>1 DEF WalkOK
  <2>3. \A x \in Objects \ {Top} : Charge'[x] = Base(x)
    BY <1>a, <2>1, <2>2, RaiseCharge
  <2>4. \A x \in Objects : Charge[x] = Base(x) + (IF x = c THEN 0 - walk.count ELSE 0)
                           /\ Base(x) \in Nat
    <3>1. \A x \in Objects : InFlight(x) = IF x = c THEN 0 - walk.count ELSE 0
      BY <2>1 DEF InFlight
    <3> QED BY <3>1, ChargeType
  <2>5. \A x \in Objects \ {Top} : x # c => Charge'[x] = Charge[x]
    BY <2>3, <2>4
  <2>6. Charge'[c] = Charge[c] + walk.count
    BY <1>a, <2>2, <2>3, <2>4
  <2>7. /\ m_total_count' = [m_total_count EXCEPT ![NextHop(c)] = @ + walk.count]
        /\ m_source_count' = m_source_count
    BY <2>1, <2>2 DEF m_raise
  <2>8. c \in Objects /\ walk.count \in Int
    BY <1>a
  <2> HIDE DEF c
  <2> QED BY <2>1, <2>2, <2>5, <2>6, <2>7, <2>8, ConservationWalk
<1>4. CASE PropagateDrop
  <2> DEFINE c == walk.from
  <2>1. walk.dir = "drop" /\ m_prop_mode' = m_prop_mode
    BY <1>4 DEF PropagateDrop
  <2>2. ~BelowZero(walk.at, FALSE, walk.count)
    BY <2>1, NoUnderflow
  <2>3. m_drop(walk.at, FALSE, walk.count)
    BY <1>4, <2>2 DEF PropagateDrop
  <2>4. walk.count >= 1 /\ c # Top /\ walk.at = NextHop(c)
    BY <2>1 DEF WalkOK
  <2>5. \A x \in Objects \ {Top} : Charge'[x] = Base(x)
    BY <1>a, <2>2, <2>3, <2>4, DropCharge
  <2>6. \A x \in Objects : Charge[x] = Base(x) + (IF x = c THEN walk.count ELSE 0)
                           /\ Base(x) \in Nat
    <3>1. \A x \in Objects : InFlight(x) = IF x = c THEN walk.count ELSE 0
      BY <2>1 DEF InFlight
    <3> QED BY <3>1, ChargeType
  <2>7. \A x \in Objects \ {Top} : x # c => Charge'[x] = Charge[x]
    BY <2>5, <2>6
  <2>8. Charge'[c] = Charge[c] + (0 - walk.count)
    BY <1>a, <2>4, <2>5, <2>6
  <2>9. m_total_count' = [m_total_count EXCEPT ![NextHop(c)] = @ + (0 - walk.count)]
    <3>1. m_total_count' = [m_total_count EXCEPT ![NextHop(c)] = @ - walk.count]
      BY <2>3, <2>4 DEF m_drop, ScheduleDrain
    <3>2. m_total_count[NextHop(c)] - walk.count = m_total_count[NextHop(c)] + (0 - walk.count)
      BY <1>a, <2>4
    <3> QED BY <3>1, <3>2
  <2>10. m_source_count' = m_source_count
    BY <2>3 DEF m_drop, ScheduleDrain
  <2>11. 0 - walk.count \in Int
    BY <1>a
  <2> QED BY <1>a, <2>1, <2>4, <2>7, <2>8, <2>9, <2>10, <2>11, ConservationWalk
<1>5. CASE m_execute_scheduled_forks
  BY <1>5, <1>c DEF m_execute_scheduled_forks
<1>6. CASE StartDrain
  <2>1. CASE m_forked_list = << >>
    BY <1>6, <2>1, <1>c DEF StartDrain
  <2>2. CASE m_forked_list # << >>
    <3> DEFINE h == Head(m_forked_list)
    <3>1. h \in Objects /\ Listed(m_forked_list, h)
      BY <2>2, ListedTail DEF TypeOK
    <3>2. m_drain_proc[h] = "none"
      BY <3>1 DEF OneContext
    <3>3. m_drain_proc' = [m_drain_proc EXCEPT ![h] = "delay"]
      BY <1>6, <2>2 DEF StartDrain
    <3> HIDE DEF h
    <3>4. \A q \in Objects : (m_drain_proc'[q] = "propagate" <=> m_drain_proc[q] = "propagate")
      BY <3>2, <3>3 DEF TypeOK
    <3> QED BY <1>6, <3>4, <1>c DEF StartDrain
  <2> QED BY <2>1, <2>2
<1>7. ASSUME NEW o \in Objects, DrainTimeElapsed(o)
      PROVE  Conservation'
  BY <1>7, <1>c DEF DrainTimeElapsed, TypeOK
<1>8. ASSUME NEW o \in Objects, AllDropped(o)
      PROVE  Conservation'
  BY <1>8, <1>c DEF AllDropped, TypeOK
<1>9. ASSUME NEW o \in Objects, PropagateDrain(o)
      PROVE  Conservation'
  <2>1. /\ Quiet /\ m_prop_mode' = m_prop_mode
        /\ UNCHANGED <<m_total_count, m_source_count, ctxt_count>>
        /\ walk' = Up(o, "drop", ctxt_count[o])
        /\ m_drain_proc[o] = "wait_fork"
    BY <1>9 DEF PropagateDrain
  <2>2. \A q \in Objects : m_drain_proc'[q] = IF q = o THEN "propagate" ELSE m_drain_proc[q]
    BY <1>9 DEF PropagateDrain, TypeOK
  <2>3. \A x \in Objects \ {Top} : Base(x)' + InFlight(x)' = Base(x)
    <3> SUFFICES ASSUME NEW x \in Objects \ {Top} PROVE Base(x)' + InFlight(x)' = Base(x)
      OBVIOUS
    <3>1. CASE x = o
      <4>1. Base(x)' = m_total_count[x]
        BY <1>a, <2>1, <2>2, <3>1 DEF Base
      <4>2. Base(x) = m_total_count[x] + ctxt_count[x]
        BY <2>1, <3>1 DEF Base
      <4>3. InFlight(x)' = ctxt_count[x]
        BY <1>a, <2>1, <3>1 DEF InFlight, Up, Idle
      <4> QED BY <4>1, <4>2, <4>3
    <3>2. CASE x # o
      <4>1. Base(x)' = Base(x) /\ Base(x) \in Nat
        BY <1>a, <2>1, <2>2, <3>2 DEF Base
      <4>2. InFlight(x)' = 0
        BY <2>1, <3>2 DEF InFlight, Up, Idle
      <4> QED BY <4>1, <4>2
    <3> QED BY <3>1, <3>2
  <2>4. \A x \in Objects \ {Top} : Charge'[x] = Charge[x]
    <3>1. \A x \in Objects : Charge'[x] = Base(x)' + InFlight(x)'
      BY DEF Charge
    <3> QED BY <1>b, <2>1, <2>3, <3>1
  <2>5. \A p \in Objects : m_total_count'[p] - m_source_count'[p]
                             = m_total_count[p] - m_source_count[p]
    BY <2>1
  <2> QED BY <2>1, <2>4, <2>5, ConservationOwn
<1>10. ASSUME NEW o \in Objects, EndDrain(o)
       PROVE  Conservation'
  <2>1. /\ UNCHANGED <<m_total_count, m_source_count, walk, m_prop_mode>>
        /\ m_drain_proc[o] = "propagate"
    BY <1>10 DEF EndDrain
  <2>2. \A q \in Objects :
           /\ m_drain_proc'[q] = IF q = o THEN "none" ELSE m_drain_proc[q]
           /\ ctxt_count'[q] = IF q = o THEN 0 ELSE ctxt_count[q]
    BY <1>10 DEF EndDrain, TypeOK
  <2>3. \A x \in Objects : Base(x)' = Base(x) /\ InFlight(x)' = InFlight(x)
    BY <1>a, <2>1, <2>2 DEF Base, InFlight
  <2>4. \A x \in Objects \ {Top} : Charge'[x] = Charge[x]
    BY <2>3 DEF Charge
  <2>5. \A p \in Objects : m_total_count'[p] - m_source_count'[p]
                             = m_total_count[p] - m_source_count[p]
    BY <2>1
  <2> QED BY <2>1, <2>4, <2>5, ConservationOwn
<1>11. ASSUME walk' = Idle,
              \A o \in Objects : m_total_count'[o] = 0 /\ m_source_count'[o] = 0,
              \A o \in Objects \ {Top} : Charge'[o] = 0
       PROVE  Conservation'
  <2> SUFFICES ASSUME NEW p \in Objects
               PROVE  m_total_count'[p] = m_source_count'[p] + Sum(Charge', Kids(p)')
    BY DEF Conservation
  <2>1. Kids(p)' \subseteq Objects \ {Top}
    BY DEF Kids
  <2>2. \A x \in Kids(p)' : Charge'[x] = 0
    BY <2>1, <1>11
  <2>3. Sum(Charge', Kids(p)') = 0
    BY <2>2, SumZero
  <2> QED BY <1>11, <2>3
<1>12. CASE Clear
  <2>1. walk' = Idle
    BY <1>12, <1>b DEF Clear
  <2>2. \A o \in Objects : m_total_count'[o] = 0 /\ m_source_count'[o] = 0
                           /\ ctxt_count'[o] = 0
    BY <1>12 DEF Clear
  <2>3. \A o \in Objects : Base(o)' = 0 /\ InFlight(o)' = 0
    BY <2>1, <2>2 DEF Base, InFlight, Idle
  <2>4. \A o \in Objects : Charge'[o] = 0
    BY <2>3 DEF Charge
  <2> QED BY <2>1, <2>2, <2>4, <1>11
<1>13. ASSUME NEW mode \in BOOLEAN, SetPropagateMode(mode)
       PROVE  Conservation'
  <2>1. /\ Quiet
        /\ m_total_count[Top] = 0
        /\ UNCHANGED <<m_total_count, m_source_count, ctxt_count, m_drain_proc, walk>>
    BY <1>13 DEF SetPropagateMode, TopFlag, get_objection_total
  <2>2. walk = Idle /\ walk.dir = "idle"
    BY <2>1, <1>b DEF Idle
  <2>3. /\ \A o \in Objects : m_total_count[o] = 0 /\ m_source_count[o] = 0
        /\ \A o \in Objects \ {Top} : Charge[o] = 0
    BY <2>1, <2>2, AllZero
  <2>4. \A o \in Objects : Charge'[o] = Charge[o]
    <3>1. \A o \in Objects : Base(o)' = Base(o) /\ InFlight(o)' = InFlight(o)
      BY <2>1 DEF Base, InFlight
    <3> QED BY <3>1 DEF Charge
  <2> QED BY <2>1, <2>2, <2>3, <2>4, <1>11
<1>14. ASSUME NEW o \in Objects, WaitFor(o)
       PROVE  Conservation'
  BY <1>14, <1>c DEF WaitFor
<1>15. CASE UNCHANGED vars
  BY <1>15, <1>c DEF vars
<1> QED BY <1>1, <1>2, <1>3, <1>4, <1>5, <1>6, <1>7, <1>8, <1>9, <1>10, <1>12,
           <1>13, <1>14, <1>15 DEF Next

-----------------------------------------------------------------------------------
(***************************************************************************)
(* The invariant of the specification                                      *)
(***************************************************************************)

(* all_dropped stands for Top only as long as nothing is counted there.    *)
LEMMA TopFlagStep ==
    ASSUME TypeOK, WalkOK, OneContext, Conservation, TopFlag, [Next]_vars
    PROVE  TopFlag'
<1> USE DEF counts, flags, contexts
<1>1. CASE m_top_all_dropped /\ UNCHANGED <<m_top_all_dropped, m_total_count, walk>>
  BY <1>1 DEF TopFlag
<1>2. CASE ~m_top_all_dropped /\ UNCHANGED m_top_all_dropped
  BY <1>2 DEF TopFlag
<1>3. CASE m_top_all_dropped' = FALSE
  BY <1>3 DEF TopFlag
<1>4. ASSUME NEW o \in Objects, NEW n \in 0 .. MaxCount, RaiseObjection(o, n)
      PROVE  TopFlag'
  BY <1>4, <1>3 DEF RaiseObjection, RaiseFlags
<1>5. ASSUME NEW o \in Objects, NEW n \in 1 .. MaxCount, DropObjection(o, n),
             m_top_all_dropped
      PROVE  TopFlag'
  <2>1. m_total_count[Top] = 0 /\ walk = Idle /\ walk.dir = "idle"
    BY <1>5 DEF TopFlag, Idle
  <2>2. m_total_count[o] = 0
    BY <2>1, AllZero
  <2>3. n > 0
    BY <1>5 DEF DropObjection
  <2>4. BelowZero(o, TRUE, n)
    BY <2>2, <2>3 DEF BelowZero
  <2> QED BY <1>5, <1>1, <2>1, <2>4 DEF DropObjection, DropBelowZero
<1>6. CASE PropagateRaise \/ PropagateDrop
  <2>1. walk.dir # "idle" /\ UNCHANGED m_top_all_dropped
    BY <1>6 DEF PropagateRaise, PropagateDrop
  <2>2. Idle.dir = "idle"
    BY DEF Idle
  <2>3. ~m_top_all_dropped
    BY <2>1, <2>2 DEF TopFlag
  <2> QED BY <1>2, <2>1, <2>3
<1>7. ASSUME NEW o \in Objects, AllDropped(o)
      PROVE  TopFlag'
  <2>1. /\ UNCHANGED <<m_total_count, walk>> /\ walk = Idle
        /\ m_drain_proc[o] = "all_dropped"
        /\ m_top_all_dropped' = IF o = Top THEN TRUE ELSE m_top_all_dropped
    BY <1>7 DEF AllDropped, Quiet
  <2>2. m_total_count[o] = 0
    BY <2>1 DEF OneContext, Pending
  <2> QED BY <2>1, <2>2 DEF TopFlag
<1>8. ASSUME NEW o \in Objects, PropagateDrain(o), m_top_all_dropped
      PROVE  TopFlag'
  <2>1. m_total_count[Top] = 0 /\ walk = Idle /\ walk.dir = "idle"
    BY <1>8 DEF TopFlag, Idle
  <2>2. /\ m_drain_proc[o] = "wait_fork"
        /\ walk' = Up(o, "drop", ctxt_count[o])
        /\ UNCHANGED <<m_total_count, m_top_all_dropped>>
    BY <1>8 DEF PropagateDrain
  <2>3. ctxt_count[o] > 0 /\ ctxt_count[o] \in Nat
    BY <2>2 DEF OneContext, Pending, TypeOK
  <2>4. o = Top
    <3> SUFFICES ASSUME o # Top PROVE FALSE
      OBVIOUS
    <3>1. Charge[o] = 0
      BY <2>1, AllZero
    <3>2. Charge[o] = Base(o) + InFlight(o) /\ InFlight(o) = 0
      BY <2>1, ChargeType DEF InFlight
    <3>3. Base(o) = m_total_count[o] + ctxt_count[o] /\ m_total_count[o] \in Nat
      BY <2>2 DEF Base, TypeOK
    <3> QED BY <2>3, <3>1, <3>2, <3>3
  <2>5. walk' = Idle
    BY <2>2, <2>4 DEF Up
  <2> QED BY <2>1, <2>2, <2>5 DEF TopFlag
<1>9. ASSUME NEW o \in Objects, DrainTimeElapsed(o) \/ EndDrain(o) \/ WaitFor(o)
      PROVE  TopFlag'
  BY <1>9, <1>1, <1>2 DEF DrainTimeElapsed, EndDrain, WaitFor, TypeOK
<1>10. CASE m_execute_scheduled_forks \/ StartDrain
  BY <1>10, <1>1, <1>2 DEF m_execute_scheduled_forks, StartDrain, TypeOK
<1>11. CASE Clear
  BY <1>11, <1>3 DEF Clear
<1>12. ASSUME NEW mode \in BOOLEAN, SetPropagateMode(mode)
       PROVE  TopFlag'
  BY <1>12, <1>1, <1>2 DEF SetPropagateMode, TypeOK
<1>13. CASE UNCHANGED vars
  BY <1>13, <1>1, <1>2 DEF vars, TypeOK
<1>14. ASSUME NEW o \in Objects, NEW n \in 1 .. MaxCount, DropObjection(o, n),
              ~m_top_all_dropped
       PROVE  TopFlag'
  BY <1>14, <1>2 DEF DropObjection
<1>15. ASSUME NEW o \in Objects, PropagateDrain(o), ~m_top_all_dropped
       PROVE  TopFlag'
  BY <1>15, <1>2 DEF PropagateDrain
<1> QED BY <1>4, <1>5, <1>6, <1>7, <1>8, <1>9, <1>10, <1>11, <1>12, <1>13, <1>14,
           <1>15 DEF Next, TypeOK

(* A drop below zero is never found at an ancestor.                        *)
LEMMA NoAncestorStep ==
    ASSUME TypeOK, WalkOK, Conservation, NoAncestorBelowZero, [Next]_vars
    PROVE  NoAncestorBelowZero'
<1>1. CASE UNCHANGED fatal
  BY <1>1 DEF NoAncestorBelowZero
<1>2. ASSUME NEW o \in Objects, NEW n \in 1 .. MaxCount, DropObjection(o, n)
      PROVE  NoAncestorBelowZero'
  BY <1>2 DEF DropObjection, DropBelowZero, m_drop, NoAncestorBelowZero
<1>3. CASE PropagateDrop
  <2>1. walk.dir = "drop"
    BY <1>3 DEF PropagateDrop
  <2>2. ~BelowZero(walk.at, FALSE, walk.count)
    BY <2>1, NoUnderflow
  <2>3. UNCHANGED fatal
    BY <1>3, <2>2 DEF PropagateDrop, m_drop
  <2> QED BY <1>1, <2>3
<1>4. ASSUME Next, ~PropagateDrop,
             ~(\E o \in Objects, n \in 1 .. MaxCount : DropObjection(o, n))
      PROVE  UNCHANGED fatal
  BY <1>4 DEF Next, RaiseObjection, PropagateRaise, m_execute_scheduled_forks,
              StartDrain, DrainTimeElapsed, AllDropped, PropagateDrain, EndDrain,
              Clear, SetPropagateMode, WaitFor
<1>5. CASE UNCHANGED vars
  BY <1>1, <1>5 DEF vars
<1> QED BY <1>1, <1>2, <1>3, <1>4, <1>5

(* Initially nothing is counted and nothing is under way.                  *)
LEMMA InvInit == Init => IInv
<1> SUFFICES ASSUME Init PROVE IInv
  OBVIOUS
<1>1. TypeOK
  BY TypeInit
<1>2. walk = Idle /\ Idle.dir = "idle"
  BY DEF Init, Idle
<1>3. WalkOK
  BY <1>2 DEF WalkOK
<1>4. \A o \in Objects : /\ m_total_count[o] = 0 /\ m_source_count[o] = 0
                         /\ ctxt_count[o] = 0 /\ m_drain_proc[o] = "none"
  BY DEF Init
<1>5. OneContext
  <2>1. m_scheduled_list = << >> /\ m_forked_list = << >>
    BY DEF Init
  <2>2. Distinct(<< >>) /\ \A q : ~Listed(<< >>, q)
    BY DEF Distinct, Listed
  <2> QED BY <1>4, <2>1, <2>2 DEF OneContext, Pending
<1>6. Conservation
  <2> SUFFICES ASSUME NEW p \in Objects
               PROVE  m_total_count[p] = m_source_count[p] + Sum(Charge, Kids(p))
    BY DEF Conservation
  <2>1. \A o \in Objects : Base(o) = 0 /\ InFlight(o) = 0
    BY <1>2, <1>4 DEF Base, InFlight
  <2>2. \A o \in Objects : Charge[o] = 0
    BY <2>1 DEF Charge
  <2>3. Sum(Charge, Kids(p)) = 0
    BY <2>2, KidsType, SumZero
  <2> QED BY <1>4, <2>3
<1>7. TopFlag /\ NoAncestorBelowZero
  BY DEF Init, TopFlag, NoAncestorBelowZero
<1> QED BY <1>1, <1>3, <1>5, <1>6, <1>7 DEF IInv

(* Every step keeps the invariant.                                         *)
LEMMA InvStep == IInv /\ [Next]_vars => IInv'
<1> SUFFICES ASSUME IInv, [Next]_vars PROVE IInv'
  OBVIOUS
<1>1. TypeOK'
  BY TypeStep DEF IInv
<1>2. WalkOK'
  BY WalkStep DEF IInv
<1>3. OneContext'
  BY OneContextStep DEF IInv
<1>4. Conservation'
  BY <1>1, <1>2, ConservationStep DEF IInv
<1>5. TopFlag'
  BY TopFlagStep DEF IInv
<1>6. NoAncestorBelowZero'
  BY NoAncestorStep DEF IInv
<1> QED BY <1>1, <1>2, <1>3, <1>4, <1>5, <1>6 DEF IInv

(* The invariant holds throughout every behaviour.                         *)
LEMMA InvCorrect == Spec => []IInv
<1>1. Init => IInv
  BY InvInit
<1>2. IInv /\ [Next]_vars => IInv'
  BY InvStep
<1> QED BY <1>1, <1>2, PTL DEF Spec

-----------------------------------------------------------------------------------
(***************************************************************************)
(* Results                                                                 *)
(***************************************************************************)

(* get_objection_total is exact at every object of every tree, in either   *)
(* propagation mode, whatever raises and drops cancel during a drain.      *)
THEOREM ConservationCorrect == Spec => []Conservation
<1>1. IInv => Conservation
  BY DEF IInv
<1> QED BY <1>1, InvCorrect, PTL

(* A context is in one place, so a raise always finds the one there is.    *)
THEOREM OneContextCorrect == Spec => []OneContext
<1>1. IInv => OneContext
  BY DEF IInv
<1> QED BY <1>1, InvCorrect, PTL

(* The propagation of a legal drop never ends in the fatal OBJTN_ZERO.     *)
THEOREM NoAncestorBelowZeroCorrect == Spec => []NoAncestorBelowZero
<1>1. IInv => NoAncestorBelowZero
  BY DEF IInv
<1> QED BY <1>1, InvCorrect, PTL

(* All dropped is announced at Top, and its drain runs, only while nobody  *)
(* in the tree objects: a phase never ends under an objection.             *)
THEOREM AllDroppedSafeCorrect == Spec => []AllDroppedSafe
<1>1. IInv => AllDroppedSafe
  <2> SUFFICES ASSUME IInv, m_top_all_dropped \/ (Quiet /\ m_drain_proc[Top] # "none")
               PROVE  Nobody
    BY DEF AllDroppedSafe
  <2>1. walk = Idle /\ walk.dir = "idle"
    BY DEF IInv, TopFlag, Quiet, Idle
  <2>2. m_total_count[Top] = 0
    BY ObjectsAssumption DEF IInv, TopFlag, OneContext, Pending
  <2> QED BY <2>1, <2>2, AllZero DEF IInv, Nobody
<1> QED BY <1>1, InvCorrect, PTL

(* While an object drains, none of its children counts an objection or has *)
(* a drain of its own: drains climb the tree strictly from below.          *)
THEOREM DrainsBottomUpCorrect == Spec => []DrainsBottomUp
<1>1. IInv => DrainsBottomUp
  <2> SUFFICES ASSUME IInv, Quiet, NEW o \in Objects, Pending(o), NEW c \in Kids(o)
               PROVE  m_total_count[c] = 0 /\ ~Pending(c)
    BY DEF DrainsBottomUp
  <2>1. m_total_count[o] = 0
    BY DEF IInv, OneContext
  <2>2. c \in Objects /\ c # Top /\ NextHop(c) = o
    BY DEF Kids
  <2>3. Charge[c] <= 0 /\ Charge[c] \in Nat
    BY <2>1, <2>2, TotalCovers, ChargeType DEF IInv
  <2>4. Charge[c] = Base(c) + InFlight(c)
    BY <2>2, ChargeType DEF IInv
  <2>5. InFlight(c) = 0
    BY DEF Quiet, Idle, InFlight
  <2>6. Base(c) = m_total_count[c] + ctxt_count[c]
    BY <2>2 DEF Quiet, Base
  <2>7. m_total_count[c] \in Nat /\ ctxt_count[c] \in Nat
    BY <2>2 DEF IInv, TypeOK
  <2>8. m_total_count[c] = 0 /\ ctxt_count[c] = 0
    BY <2>3, <2>4, <2>5, <2>6, <2>7
  <2> QED BY <2>2, <2>8 DEF IInv, OneContext
<1> QED BY <1>1, InvCorrect, PTL

==================================================================================
