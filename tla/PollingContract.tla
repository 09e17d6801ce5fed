---------------------------- MODULE PollingContract ----------------------------
(***************************************************************************)
(* What the polling of HDL signals promises to the objects that watch      *)
(* them, without the list, the notifier bit and the process behind it: a   *)
(* change of a watched signal is reported to every probe of the signal,    *)
(* changes that come before the report share it, the report releases       *)
(* everybody who waits for it, and nothing else does.                      *)
(***************************************************************************)
CONSTANTS
    Hooks,      \* the probes
    Signals,    \* the signals they may watch
    Waiters,    \* processes that wait for a change
    None        \* what a probe watches that is disabled or does not exist,
                \* what a process waits for that does not wait

VARIABLES
    watched,    \* watched[h]: the signal whose changes h is to hear of
    due,        \* the probes with a change that was not reported to them yet
    awaits,     \* awaits[w]: the probe for whose next report w waits
    broken      \* a fatal error was reported, or the promise is off

cvars == <<watched, due, awaits, broken>>

CInit ==
    /\ watched = [h \in Hooks |-> None]
    /\ due = {}
    /\ awaits = [w \in Waiters |-> None]
    /\ broken = FALSE

Watch(h, s) ==
    /\ watched[h] = None
    /\ watched' = [watched EXCEPT ![h] = s]
    /\ UNCHANGED <<due, awaits, broken>>

(* A change that a probe has not heard of when it is disabled is reported  *)
(* to it, or not.                                                          *)
Unwatch(h) ==
    /\ watched' = [watched EXCEPT ![h] = None]
    /\ due' \in {due, due \ {h}}
    /\ UNCHANGED <<awaits, broken>>

Change(s) ==
    /\ due' = due \cup {h \in Hooks : watched[h] = s}
    /\ UNCHANGED <<watched, awaits, broken>>

Await(w, h) ==
    /\ awaits[w] = None
    /\ awaits' = [awaits EXCEPT ![w] = h]
    /\ UNCHANGED <<watched, due, broken>>

(* A change that comes with the report may be reported once more.          *)
Report(h) ==
    /\ h \in due
    /\ due' \in {due, due \ {h}}
    /\ awaits' = [w \in Waiters |-> IF awaits[w] = h THEN None ELSE awaits[w]]
    /\ UNCHANGED <<watched, broken>>

(* The simulation starts again at time zero: everybody is forgotten.       *)
Restart ==
    /\ watched' = [h \in Hooks |-> None]
    /\ due' = {}
    /\ awaits' = [w \in Waiters |-> None]
    /\ UNCHANGED broken

Break == broken' = TRUE

CNext ==
    \/ Break
    \/ ~broken /\ \/ \E h \in Hooks : \/ \E s \in Signals : Watch(h, s)
                                      \/ Unwatch(h)
                                      \/ Report(h)
                                      \/ \E w \in Waiters : Await(w, h)
                  \/ \E s \in Signals : Change(s)
                  \/ Restart

CSpec == CInit /\ [][CNext]_cvars

CFairSpec == CSpec /\ \A h \in Hooks : WF_cvars(~broken /\ Report(h))
================================================================================
