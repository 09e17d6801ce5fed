-------------------------------- MODULE Objection --------------------------------
(***************************************************************************)
(* uvm_objection (src/src/base/uvm_objection.svh): objections are counted  *)
(* at the object that raised them (m_source_count) and at every object     *)
(* above it (m_total_count).  A drop that takes a total to zero does not   *)
(* go up at once: a context is queued, a background process forks a drain  *)
(* for it, and only when the drain time has passed and the all_dropped     *)
(* callback has returned is the drop propagated to the parent.  A raise    *)
(* that meets a context on its way up takes the context back.              *)
(*                                                                         *)
(* SystemVerilog functions run without interleaving, so raise, drop and    *)
(* clear are atomic in the code.  Their recursion up the tree is modelled  *)
(* one level per step: while it is under way (walk, or a drain in stage    *)
(* "propagate") no other action is enabled.                                *)
(***************************************************************************)
EXTENDS Integers, Sequences, FiniteSets, Sums

CONSTANTS
    Objects,    \* the objects that take part, Top among them
    Top,        \* m_top, the implicit top-level component
    Parent,     \* m_get_parent for every object but Top
    MaxCount,   \* bound: objections one object may hold
    MaxForks    \* bound: forked processes that have not run yet

ASSUME ObjectsAssumption == IsFiniteSet(Objects) /\ Top \in Objects

ASSUME ParentAssumption == Parent \in [Objects \ {Top} -> Objects]

(* The objects form a tree: going up from any of them leaves every set     *)
(* that does not hold Top.                                                 *)
ASSUME TreeAssumption ==
    \A S \in SUBSET (Objects \ {Top}) :
        S # {} => \E o \in S : Parent[o] \notin S

ASSUME BoundsAssumption == MaxCount \in Nat /\ MaxForks \in Nat

VARIABLES
    m_source_count,     \* objections raised by the object itself
    m_total_count,      \* objections counted at the object; 0 without an entry
    m_source_keys,      \* objects with an entry in m_source_count
    m_total_keys,       \* objects with an entry in m_total_count
    m_prop_mode,        \* propagate through every parent, or to Top only
    m_cleared,          \* clear() was called and nothing was raised since
    m_top_all_dropped,  \* all_dropped has run for Top and nothing was raised since
    m_scheduled_list,   \* objects whose context waits for the background process
    m_forked_list,      \* objects whose context waits for a forked process
    m_drain_proc,       \* stage of the object's drain (m_forked_contexts, m_drain_proc)
    ctxt_count,         \* count of the object's context, 0 when it has none
    forks,              \* forked processes that have not run yet
    walk,               \* the m_raise or m_drop call under way above its first level
    waiting,            \* objects with a process blocked in wait_for(UVM_ALL_DROPPED)
    fatal               \* "none", or where OBJTN_ZERO stopped the simulation

counts    == <<m_source_count, m_total_count, m_source_keys, m_total_keys>>
flags     == <<m_prop_mode, m_cleared, m_top_all_dropped>>
contexts  == <<m_scheduled_list, m_forked_list, m_drain_proc, ctxt_count>>
vars      == <<counts, flags, contexts, forks, walk, waiting, fatal>>

(***************************************************************************)
(* Types                                                                   *)
(***************************************************************************)
Stages == {"none", "delay", "all_dropped", "wait_fork", "propagate"}

Walks == [dir : {"idle", "raise", "drop"}, at : Objects, from : Objects, count : Nat]

Idle == [dir |-> "idle", at |-> Top, from |-> Top, count |-> 0]

TypeOK ==
    /\ m_source_count \in [Objects -> Nat]
    /\ m_total_count \in [Objects -> Nat]
    /\ m_source_keys \in SUBSET Objects
    /\ m_total_keys \in SUBSET Objects
    /\ m_prop_mode \in BOOLEAN
    /\ m_cleared \in BOOLEAN
    /\ m_top_all_dropped \in BOOLEAN
    /\ m_scheduled_list \in Seq(Objects)
    /\ m_forked_list \in Seq(Objects)
    /\ m_drain_proc \in [Objects -> Stages]
    /\ ctxt_count \in [Objects -> Nat]
    /\ forks \in Nat
    /\ walk \in Walks
    /\ waiting \in SUBSET Objects
    /\ fatal \in {"none", "source", "ancestor"}

(***************************************************************************)
(* Helpers                                                                 *)
(***************************************************************************)
NextHop(o) == IF m_prop_mode THEN Parent[o] ELSE Top

(* Up(o, dir, n): the recursive call on the next level, if there is one.   *)
Up(o, dir, n) ==
    IF o = Top \/ n = 0 THEN Idle
    ELSE [dir |-> dir, at |-> NextHop(o), from |-> o, count |-> n]

Listed(list, o) == \E i \in DOMAIN list : list[i] = o

Distinct(list) == \A i, j \in DOMAIN list : list[i] = list[j] => i = j

(* list.delete(idx) for the first context of o.                            *)
Deleted(list, o) ==
    LET idx == CHOOSE i \in DOMAIN list :
                   list[i] = o /\ \A j \in DOMAIN list : list[j] = o => i <= j
    IN  [j \in 1 .. Len(list) - 1 |-> IF j < idx THEN list[j] ELSE list[j + 1]]

(* The context of o is somewhere between m_drop and the end of its drain.  *)
Pending(o) ==
    \/ Listed(m_scheduled_list, o)
    \/ Listed(m_forked_list, o)
    \/ m_drain_proc[o] # "none"

(* No call is under way: another process may run.                          *)
Quiet ==
    /\ fatal = "none"
    /\ walk = Idle
    /\ \A o \in Objects : m_drain_proc[o] # "propagate"

get_objection_total(o) == m_total_count[o]

-----------------------------------------------------------------------------------
Init ==
    /\ m_source_count = [o \in Objects |-> 0]
    /\ m_total_count = [o \in Objects |-> 0]
    /\ m_source_keys = {}
    /\ m_total_keys = {}
    /\ m_prop_mode = TRUE
    /\ m_cleared = FALSE
    /\ m_top_all_dropped = FALSE
    /\ m_scheduled_list = << >>
    /\ m_forked_list = << >>
    /\ m_drain_proc = [o \in Objects |-> "none"]
    /\ ctxt_count = [o \in Objects |-> 0]
    /\ forks = 0
    /\ walk = Idle
    /\ waiting = {}
    /\ fatal = "none"

(***************************************************************************)
(* Raising                                                                 *)
(***************************************************************************)

(* The three places m_raise looks for a context of o, in its order: the    *)
(* scheduled list, the forked list, the running drains (whose process is   *)
(* killed).                                                                *)
CatchScheduled(o) ==
    /\ Listed(m_scheduled_list, o)
    /\ m_scheduled_list' = Deleted(m_scheduled_list, o)
    /\ UNCHANGED <<m_forked_list, m_drain_proc>>

(* Mutant: the context is used but left in the list.                       *)
CatchForkedLeft(o) ==
    /\ ~Listed(m_scheduled_list, o)
    /\ Listed(m_forked_list, o)
    /\ UNCHANGED <<m_scheduled_list, m_forked_list, m_drain_proc>>

CatchForked(o) ==
    /\ ~Listed(m_scheduled_list, o)
    /\ Listed(m_forked_list, o)
    /\ m_forked_list' = Deleted(m_forked_list, o)
    /\ UNCHANGED <<m_scheduled_list, m_drain_proc>>

(* Mutant: the drain is not killed.                                        *)
CatchDrainAlive(o) ==
    /\ ~Listed(m_scheduled_list, o)
    /\ ~Listed(m_forked_list, o)
    /\ m_drain_proc[o] # "none"
    /\ UNCHANGED <<m_scheduled_list, m_forked_list, m_drain_proc>>

CatchDrain(o) ==
    /\ ~Listed(m_scheduled_list, o)
    /\ ~Listed(m_forked_list, o)
    /\ m_drain_proc[o] # "none"
    /\ m_drain_proc' = [m_drain_proc EXCEPT ![o] = "none"]
    /\ UNCHANGED <<m_scheduled_list, m_forked_list>>

CatchContext(o) == CatchScheduled(o) \/ CatchForked(o) \/ CatchDrain(o)

(* Mutants: the context is not taken into account; too much is taken back. *)
DifferenceIgnored(o, count) == Up(o, "raise", count)

DifferenceWhole(o, count) ==
    IF count >= ctxt_count[o] THEN Up(o, "raise", count - ctxt_count[o])
                              ELSE Up(o, "drop", ctxt_count[o])

(* diff_count: with a context only the difference goes up, as a raise or   *)
(* as a drop.                                                              *)
Difference(o, count) ==
    IF count >= ctxt_count[o] THEN Up(o, "raise", count - ctxt_count[o])
                              ELSE Up(o, "drop", ctxt_count[o] - count)

(* m_raise at one level; own when o is the source of the objection.        *)
m_raise(o, own, count) ==
    /\ m_total_count' = [m_total_count EXCEPT ![o] = @ + count]
    /\ m_total_keys' = m_total_keys \cup {o}
    /\ m_source_count' = IF own THEN [m_source_count EXCEPT ![o] = @ + count]
                                ELSE m_source_count
    /\ m_source_keys' = IF own THEN m_source_keys \cup {o} ELSE m_source_keys
    /\ \/ /\ ~Pending(o)
          /\ walk' = Up(o, "raise", count)
          /\ UNCHANGED contexts
       \/ /\ CatchContext(o)
          /\ walk' = Difference(o, count)
          /\ ctxt_count' = [ctxt_count EXCEPT ![o] = 0]

(* Mutant: one of the two flags keeps its value.                           *)
RaiseFlagsDropped == m_cleared' = FALSE /\ m_top_all_dropped' = m_top_all_dropped

(* The flags every raise_objection resets, even one of count 0.            *)
RaiseFlags == m_cleared' = FALSE /\ m_top_all_dropped' = FALSE

(* raise_objection(o, count), called by the process of any object.         *)
RaiseObjection(o, count) ==
    /\ Quiet
    /\ m_source_count[o] + count <= MaxCount
    /\ RaiseFlags
    /\ IF count = 0 THEN UNCHANGED <<counts, contexts, walk>>
                    ELSE m_raise(o, TRUE, count)
    /\ UNCHANGED <<m_prop_mode, forks, waiting, fatal>>

(* The recursive m_raise on the next level up.                             *)
PropagateRaise ==
    /\ fatal = "none"
    /\ walk.dir = "raise"
    /\ m_raise(walk.at, FALSE, walk.count)
    /\ UNCHANGED <<flags, forks, waiting, fatal>>

(***************************************************************************)
(* Dropping                                                                *)
(***************************************************************************)
(* Mutant: the object's own count is not looked at.                        *)
BelowZeroTotal(o, own, count) == count > m_total_count[o]

BelowZero(o, own, count) ==
    count > m_total_count[o] \/ (own /\ count > m_source_count[o])

(* A drop below zero: ignored after clear(), fatal otherwise.              *)
DropBelowZero(level) ==
    /\ fatal' = IF m_cleared THEN fatal ELSE level
    /\ walk' = Idle
    /\ UNCHANGED <<counts, contexts>>

(* Mutant: the drop goes up without waiting for the drain.                 *)
ScheduleAndGoUp(o, count) ==
    /\ walk' = Up(o, "drop", count)
    /\ m_scheduled_list' = Append(m_scheduled_list, o)
    /\ ctxt_count' = [ctxt_count EXCEPT ![o] = count]

ScheduleDrain(o, count) ==
    /\ walk' = Idle
    /\ m_scheduled_list' = Append(m_scheduled_list, o)
    /\ ctxt_count' = [ctxt_count EXCEPT ![o] = count]

(* m_drop at one level: the drop goes up at once unless the total has      *)
(* reached zero, when a context is queued for the background process.      *)
m_drop(o, own, count) ==
    /\ m_total_count' = [m_total_count EXCEPT ![o] = @ - count]
    /\ m_source_count' = IF own THEN [m_source_count EXCEPT ![o] = @ - count]
                                ELSE m_source_count
    /\ UNCHANGED <<m_source_keys, m_total_keys, m_forked_list, m_drain_proc, fatal>>
    /\ IF count # m_total_count[o]
         THEN /\ walk' = Up(o, "drop", count)
              /\ UNCHANGED <<m_scheduled_list, ctxt_count>>
         ELSE ScheduleDrain(o, count)

(* drop_objection(o, count); a count of 0 is ignored.                      *)
DropObjection(o, count) ==
    /\ Quiet
    /\ count > 0
    /\ IF BelowZero(o, TRUE, count) THEN DropBelowZero("source")
                                    ELSE m_drop(o, TRUE, count)
    /\ UNCHANGED <<flags, forks, waiting>>

(* The recursive m_drop on the next level up, also the one a drain starts. *)
PropagateDrop ==
    /\ fatal = "none"
    /\ walk.dir = "drop"
    /\ IF BelowZero(walk.at, FALSE, walk.count)
         THEN DropBelowZero("ancestor")
         ELSE m_drop(walk.at, FALSE, walk.count)
    /\ UNCHANGED <<flags, forks, waiting>>

(***************************************************************************)
(* Draining                                                                *)
(***************************************************************************)

(* Mutant: a process is forked only for the first context of a batch.      *)
ForkOncePerBatch ==
    /\ Quiet
    /\ m_scheduled_list # << >>
    /\ forks < MaxForks
    /\ m_scheduled_list' = Tail(m_scheduled_list)
    /\ m_forked_list' = Append(m_forked_list, Head(m_scheduled_list))
    /\ forks' = IF m_forked_list = << >> THEN forks + 1 ELSE forks
    /\ UNCHANGED <<counts, flags, m_drain_proc, ctxt_count, walk, waiting, fatal>>

(* The background process takes one scheduled context and forks for it.    *)
m_execute_scheduled_forks ==
    /\ Quiet
    /\ m_scheduled_list # << >>
    /\ forks < MaxForks
    /\ m_scheduled_list' = Tail(m_scheduled_list)
    /\ m_forked_list' = Append(m_forked_list, Head(m_scheduled_list))
    /\ forks' = forks + 1
    /\ UNCHANGED <<counts, flags, m_drain_proc, ctxt_count, walk, waiting, fatal>>

(* A forked process starts: it serves the front of the forked list, which  *)
(* need not be the context it was forked for, or finds the list empty.     *)
StartDrain ==
    /\ Quiet
    /\ forks > 0
    /\ forks' = forks - 1
    /\ IF m_forked_list = << >>
         THEN UNCHANGED <<m_forked_list, m_drain_proc>>
         ELSE /\ m_forked_list' = Tail(m_forked_list)
              /\ m_drain_proc' = [m_drain_proc EXCEPT ![Head(m_forked_list)] = "delay"]
    /\ UNCHANGED <<counts, flags, m_scheduled_list, ctxt_count, walk, waiting, fatal>>

(* The drain time of o, whatever it is set to, has passed.                 *)
DrainTimeElapsed(o) ==
    /\ Quiet
    /\ m_drain_proc[o] = "delay"
    /\ m_drain_proc' = [m_drain_proc EXCEPT ![o] = "all_dropped"]
    /\ UNCHANGED <<counts, flags, m_scheduled_list, m_forked_list, ctxt_count,
                   forks, walk, waiting, fatal>>

(* Mutant: nobody is woken.                                                *)
TriggerLost(o) == UNCHANGED waiting

(* ->m_events[o].all_dropped wakes the processes that wait on o.           *)
Trigger(o) == waiting' = waiting \ {o}

(* The all_dropped callback of o has returned: its event wakes the waiters.*)
AllDropped(o) ==
    /\ Quiet
    /\ m_drain_proc[o] = "all_dropped"
    /\ m_drain_proc' = [m_drain_proc EXCEPT ![o] = "wait_fork"]
    /\ Trigger(o)
    /\ m_top_all_dropped' = IF o = Top THEN TRUE ELSE m_top_all_dropped
    /\ UNCHANGED <<counts, m_prop_mode, m_cleared, m_scheduled_list, m_forked_list,
                   ctxt_count, forks, walk, fatal>>

(* Mutant: the entry of the total stays.                                   *)
DeleteZeroSource(o) ==
    /\ m_source_keys' = IF m_source_count[o] = 0 THEN m_source_keys \ {o}
                                                 ELSE m_source_keys
    /\ UNCHANGED m_total_keys

DeleteZeroEntries(o) ==
    /\ m_source_keys' = IF m_source_count[o] = 0 THEN m_source_keys \ {o}
                                                 ELSE m_source_keys
    /\ m_total_keys' = IF m_total_count[o] = 0 THEN m_total_keys \ {o}
                                               ELSE m_total_keys

(* wait fork is over: the 0-count entries go and the drop goes up.         *)
PropagateDrain(o) ==
    /\ Quiet
    /\ m_drain_proc[o] = "wait_fork"
    /\ m_drain_proc' = [m_drain_proc EXCEPT ![o] = "propagate"]
    /\ DeleteZeroEntries(o)
    /\ walk' = Up(o, "drop", ctxt_count[o])
    /\ UNCHANGED <<m_source_count, m_total_count, flags, m_scheduled_list,
                   m_forked_list, ctxt_count, forks, waiting, fatal>>

(* The forked process survived: it forgets its context and ends.           *)
EndDrain(o) ==
    /\ fatal = "none"
    /\ walk = Idle
    /\ m_drain_proc[o] = "propagate"
    /\ m_drain_proc' = [m_drain_proc EXCEPT ![o] = "none"]
    /\ ctxt_count' = [ctxt_count EXCEPT ![o] = 0]
    /\ UNCHANGED <<counts, flags, m_scheduled_list, m_forked_list, forks, walk,
                   waiting, fatal>>

(***************************************************************************)
(* clear, set_propagate_mode, wait_for                                     *)
(***************************************************************************)

(* clear() forgets every count and context, kills the drains, and wakes    *)
(* the processes that wait on Top; processes forked already stay.          *)
Clear ==
    /\ Quiet
    /\ m_source_count' = [o \in Objects |-> 0]
    /\ m_total_count' = [o \in Objects |-> 0]
    /\ m_source_keys' = {}
    /\ m_total_keys' = {}
    /\ m_scheduled_list' = << >>
    /\ m_forked_list' = << >>
    /\ m_drain_proc' = [o \in Objects |-> "none"]
    /\ ctxt_count' = [o \in Objects |-> 0]
    /\ m_top_all_dropped' = FALSE
    /\ m_cleared' = TRUE
    /\ Trigger(Top)
    /\ UNCHANGED <<m_prop_mode, forks, walk, fatal>>

(* set_propagate_mode(mode), when it does not report the error.            *)
SetPropagateMode(mode) ==
    /\ Quiet
    /\ m_top_all_dropped \/ get_objection_total(Top) = 0
    /\ m_prop_mode' = mode
    /\ UNCHANGED <<counts, m_cleared, m_top_all_dropped, contexts, forks, walk,
                   waiting, fatal>>

(* Some process calls wait_for(UVM_ALL_DROPPED, o) and blocks.             *)
WaitFor(o) ==
    /\ Quiet
    /\ waiting' = waiting \cup {o}
    /\ UNCHANGED <<counts, flags, contexts, forks, walk, fatal>>

-----------------------------------------------------------------------------------
Next ==
    \/ \E o \in Objects, n \in 0 .. MaxCount : RaiseObjection(o, n)
    \/ \E o \in Objects, n \in 1 .. MaxCount : DropObjection(o, n)
    \/ PropagateRaise
    \/ PropagateDrop
    \/ m_execute_scheduled_forks
    \/ StartDrain
    \/ \E o \in Objects : DrainTimeElapsed(o)
    \/ \E o \in Objects : AllDropped(o)
    \/ \E o \in Objects : PropagateDrain(o)
    \/ \E o \in Objects : EndDrain(o)
    \/ Clear
    \/ \E mode \in BOOLEAN : SetPropagateMode(mode)
    \/ \E o \in Objects : WaitFor(o)

Spec == Init /\ [][Next]_vars

(* The simulator runs every process that is ready, delays end, and the     *)
(* all_dropped callbacks return.  Nothing obliges anybody to raise, drop,  *)
(* clear or wait.                                                          *)
Fairness ==
    /\ WF_vars(PropagateRaise)
    /\ WF_vars(PropagateDrop)
    /\ WF_vars(m_execute_scheduled_forks)
    /\ WF_vars(StartDrain)
    /\ \A o \in Objects :
          /\ WF_vars(DrainTimeElapsed(o))
          /\ WF_vars(AllDropped(o))
          /\ WF_vars(PropagateDrain(o))
          /\ WF_vars(EndDrain(o))

FairSpec == Spec /\ Fairness

-----------------------------------------------------------------------------------
(***************************************************************************)
(* Vocabulary of the properties                                            *)
(***************************************************************************)

Kids(p) == {c \in Objects \ {Top} : NextHop(c) = p}

(* What c has charged to its next hop: its own total, the drop its context *)
(* holds back, and what the call under way has yet to deliver or to take.  *)
Base(c) ==
    m_total_count[c] + (IF m_drain_proc[c] = "propagate" THEN 0 ELSE ctxt_count[c])

InFlight(c) ==
    IF walk.dir = "idle" \/ walk.from # c THEN 0
    ELSE IF walk.dir = "raise" THEN 0 - walk.count ELSE walk.count

Charge == [c \in Objects |-> Base(c) + InFlight(c)]

Nobody == \A o \in Objects : m_source_count[o] = 0

(* An all_dropped at Top is still to come.                                 *)
Owed ==
    \/ \E o \in Objects : m_total_count[o] > 0
    \/ Listed(m_scheduled_list, Top)
    \/ Listed(m_forked_list, Top)
    \/ m_drain_proc[Top] \in {"delay", "all_dropped"}

(***************************************************************************)
(* Safety                                                                  *)
(***************************************************************************)

(* Every total is the object's own count plus what its children charged:   *)
(* get_objection_total counts the descendants exactly, whatever raises and *)
(* drops cancel in whichever stage of a drain (m_raise's diff_count).      *)
Conservation ==
    \A p \in Objects :
        m_total_count[p] = m_source_count[p] + Sum(Charge, Kids(p))

(* A context is in exactly one of the scheduled list, the forked list and  *)
(* the running drains, at most once, so that a raise finds the one there   *)
(* is, and an object with a context has nothing counted at it.             *)
OneContext ==
    /\ Distinct(m_scheduled_list)
    /\ Distinct(m_forked_list)
    /\ \A o \in Objects :
          /\ Pending(o) <=> ctxt_count[o] > 0
          /\ Pending(o) => m_total_count[o] = 0
          /\ Listed(m_scheduled_list, o) => ~Listed(m_forked_list, o)
          /\ m_drain_proc[o] # "none" =>
                ~Listed(m_scheduled_list, o) /\ ~Listed(m_forked_list, o)

(* Every context in the forked list has a forked process left to serve it, *)
(* although raises take contexts out of the middle and each process serves *)
(* the front (the "re-raise can kill m_forked_list contexts" of the fork). *)
NoStrandedContext == Len(m_forked_list) <= forks

(* An entry with total 0 is kept only for an object whose drain is on its  *)
(* way, so wait_for_total_count(o, 0), which waits for the entry to go, is *)
(* never stuck; an object with a count always has its entry.               *)
EntriesDrain ==
    \A o \in Objects :
        IF o \in m_total_keys
          THEN m_total_count[o] > 0 \/ Pending(o)
          ELSE m_total_count[o] = 0 /\ m_source_count[o] = 0

(* The drain of Top runs, its all_dropped callback is called and its event *)
(* triggered, only while nobody in the whole tree objects: this is what    *)
(* ends a phase, and no raise that is still on its way up can hide from it.*)
AllDroppedSafe ==
    m_top_all_dropped \/ (Quiet /\ m_drain_proc[Top] # "none") => Nobody

(* The same below Top: while o drains no child of o counts an objection or *)
(* has a drain of its own on its way.                                      *)
DrainsBottomUp ==
    Quiet => \A o \in Objects : Pending(o) =>
                 \A c \in Kids(o) : m_total_count[c] = 0 /\ ~Pending(c)

(* OBJTN_ZERO never comes from the propagation of a legal drop: an ancestor*)
(* always counts at least what a drop, a drain or a cancelling raise takes.*)
NoAncestorBelowZero == fatal # "ancestor"

(***************************************************************************)
(* Liveness and refinement                                                 *)
(***************************************************************************)

(* Once everybody has dropped for good, every drain runs to its end and    *)
(* every entry goes: wait_for_total_count(o, 0) returns for every object.  *)
DrainsComplete ==
    <>[](Nobody /\ fatal = "none") =>
        <>[](m_total_keys = {} /\ \A o \in Objects : ~Pending(o))

(* A process blocked in wait_for(UVM_ALL_DROPPED, Top) while an objection  *)
(* or its drain is outstanding wakes once everybody has dropped for good,  *)
(* also when clear() is what ended it.                                     *)
TopWaiterWakes ==
    <>[](Nobody /\ fatal = "none") =>
        []((Top \in waiting /\ Owed) => <>(Top \notin waiting))

(* The objection implements its contract: counts per source, one all       *)
(* dropped at Top when nobody objects, taken back by a raise, owed until   *)
(* it comes; the simulation stops only on a drop its source never raised.  *)
Contract == INSTANCE ObjectionContract WITH
    Amounts <- 0 .. MaxCount,
    held <- m_source_count,
    owed <- Owed,
    announced <- m_top_all_dropped,
    aborted <- fatal # "none"

ImplementsContract == Contract!CFairSpec

==================================================================================
