---------------------------- MODULE ObjectionContract ----------------------------
(***************************************************************************)
(* What uvm_objection promises to the processes that use it, without the   *)
(* object tree, the drains and the background processes: objections are    *)
(* counted per source object, and "all dropped" is announced exactly when  *)
(* nobody objects any more.                                                *)
(***************************************************************************)
EXTENDS Integers

CONSTANTS
    Objects,    \* the objects that may raise objections
    Amounts     \* the counts one call may raise or drop

VARIABLES
    held,       \* held[o]: objections raised by o and not dropped yet
    owed,       \* an objection was raised since the last announcement or clear
    announced,  \* all dropped was announced and nothing was raised since
    aborted     \* somebody dropped what he did not hold: simulation is over

cvars == <<held, owed, announced, aborted>>

Nobody == \A o \in Objects : held[o] = 0

CTypeOK ==
    /\ held \in [Objects -> Nat]
    /\ owed \in BOOLEAN
    /\ announced \in BOOLEAN
    /\ aborted \in BOOLEAN

CInit ==
    /\ held = [o \in Objects |-> 0]
    /\ owed = FALSE
    /\ announced = FALSE
    /\ aborted = FALSE

(* A raise takes back an earlier announcement, even a raise of nothing.    *)
Raise(o, n) ==
    /\ ~aborted
    /\ held' = [held EXCEPT ![o] = @ + n]
    /\ owed' = (owed \/ n > 0)
    /\ announced' = FALSE
    /\ UNCHANGED aborted

Drop(o, n) ==
    /\ ~aborted
    /\ n <= held[o]
    /\ held' = [held EXCEPT ![o] = @ - n]
    /\ UNCHANGED <<owed, announced, aborted>>

(* The only way to stop the simulation: drop more than was raised.         *)
Abort(o, n) ==
    /\ ~aborted
    /\ n > held[o]
    /\ aborted' = TRUE
    /\ UNCHANGED <<held, owed, announced>>

Announce ==
    /\ ~aborted
    /\ owed
    /\ Nobody
    /\ owed' = FALSE
    /\ announced' = TRUE
    /\ UNCHANGED <<held, aborted>>

Clear ==
    /\ ~aborted
    /\ held' = [o \in Objects |-> 0]
    /\ owed' = FALSE
    /\ announced' = FALSE
    /\ UNCHANGED aborted

CNext ==
    \/ \E o \in Objects, n \in Amounts : Raise(o, n) \/ Drop(o, n) \/ Abort(o, n)
    \/ Announce
    \/ Clear

CSpec == CInit /\ [][CNext]_cvars

CFairSpec == CSpec /\ WF_cvars(Announce)
==================================================================================
