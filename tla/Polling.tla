--------------------------------- MODULE Polling ---------------------------------
(***************************************************************************)
(* Polling of HDL signals (src/src/dpi/uvm_hdl_polling.c and               *)
(* src/src/base/uvm_hdl_polling.svh).  A probe (hook record) has a         *)
(* value-change callback of the simulator on its signal.  The callback     *)
(* puts the hook on a list, and toggles a notifier bit when the list was   *)
(* empty.  One process of the test bench waits for the bit; it pops the    *)
(* hooks one by one, newest first, and wakes who waits for their signals.  *)
(*                                                                         *)
(* The simulator calls the callbacks of one change one at a time, in any   *)
(* order and not necessarily at once: a deposit made by user code while    *)
(* the list is processed, or before the process exists, is a change like   *)
(* any other.  $reset frees the records in C while the variables of the C  *)
(* code keep their values and those of the test bench start anew.          *)
(***************************************************************************)
EXTENDS Integers, Sequences, FiniteSets

CONSTANTS
    Hooks,          \* addresses of hook records
    Signals,        \* signals that can be probed
    NotIntegral,    \* objects that isVerilogType turns down, names not found
    Values,         \* values of a signal
    InitialValue,   \* the value at time zero
    Waiters,        \* processes that call polling_wait_for_value
    MaxChanges,     \* bound: changes of signals
    MaxResets,      \* bound: simulation resets
    None            \* no hook, no signal

ASSUME PollingAssumption ==
    /\ None \notin Hooks \cup Signals /\ NotIntegral \cap Signals = {}
    /\ InitialValue \in Values
    /\ MaxChanges \in Nat /\ MaxResets \in Nat

VARIABLES
    allHooks,       \* allocated records
    obj,            \* the signal of a record
    cb,             \* the record has a value-change callback (cb is not NULL)
    on_changeList,  \* the flag in the record
    changeList,     \* records with changes to be serviced, newest first
    notifier,       \* "NULL", "bit", or "freed": released, pointer still there
    value,          \* the signals
    firing,         \* records whose callback the simulator has yet to call
    registered,     \* probes whose hdl_poll_cb_registered is 1
    forked,         \* a uvm_hdl_polling_probes_run is forked, and has not run
    running,        \* its static bit
    found,          \* the notifier can be located as a bit variable
    process,        \* the process of the forever loop: "none", "waiting" for
                    \* the bit, "woken" or "running"
    waiter,         \* what each waiting process waits for, and where it is
    changes,        \* changes made
    resets,         \* resets made
    fatal,          \* a fatal error has ended the simulation
    lapsed,         \* history: records disabled at some time, or from the start
    damaged         \* history: a reset has met work that was under way

cvars == <<allHooks, obj, cb, on_changeList, changeList, notifier>>
svvars == <<registered, forked, running, found, process, waiter>>
simvars == <<value, firing, changes, resets>>
history == <<lapsed, damaged>>
vars == <<cvars, svvars, simvars, fatal, history>>

Listed == {changeList[i] : i \in 1..Len(changeList)}

Idle == [at |-> "idle", hook |-> None, exp |-> InitialValue]

TypeOK ==
    /\ allHooks \subseteq Hooks
    /\ obj \in [Hooks -> Signals \cup {None}]
    /\ cb \in [Hooks -> BOOLEAN]
    /\ on_changeList \in [Hooks -> BOOLEAN]
    /\ changeList \in Seq(Hooks)
    /\ notifier \in {"NULL", "bit", "freed"}
    /\ value \in [Signals -> Values]
    /\ firing \subseteq Hooks
    /\ registered \subseteq Hooks
    /\ forked \in BOOLEAN /\ running \in BOOLEAN /\ found \in BOOLEAN
    /\ process \in {"none", "waiting", "woken", "running"}
    /\ waiter \in [Waiters -> [at : {"idle", "waiting", "released"},
                               hook : Hooks \cup {None}, exp : Values]]
    /\ changes \in 0..MaxChanges /\ resets \in 0..MaxResets
    /\ fatal \in BOOLEAN /\ lapsed \subseteq Hooks /\ damaged \in BOOLEAN

Init ==
    /\ allHooks = {}
    /\ obj = [h \in Hooks |-> None]
    /\ cb = [h \in Hooks |-> FALSE]
    /\ on_changeList = [h \in Hooks |-> FALSE]
    /\ changeList = <<>>
    /\ notifier = "NULL"
    /\ value = [s \in Signals |-> InitialValue]
    /\ firing = {}
    /\ registered = {}
    /\ forked = FALSE /\ running = FALSE /\ found \in BOOLEAN
    /\ process = "none"
    /\ waiter = [w \in Waiters |-> Idle]
    /\ changes = 0 /\ resets = 0
    /\ fatal = FALSE /\ lapsed = {} /\ damaged = FALSE

----------------------------------------------------------------------------
(* Creation and set-up.                                                    *)

(* register_hdl_path: the keys of probes are taken from a counter, and are *)
(* identified with the records; a second probe on a signal is reported and *)
(* made all the same.                                                      *)
allocate_hook_record(h, s) ==
    /\ h \notin allHooks
    /\ allHooks' = allHooks \cup {h}
    /\ on_changeList' = [on_changeList EXCEPT ![h] = FALSE]
    /\ obj' = [obj EXCEPT ![h] = s]

(* register_hdl_path creates an enabled probe; whoever calls create_probe  *)
(* may create a disabled one, which is not marked as registered, now or    *)
(* when it is enabled.                                                     *)
create_probe(h, s, enable) ==
    /\ allocate_hook_record(h, s)
    /\ cb' = [cb EXCEPT ![h] = enable]
    /\ registered' = IF enable THEN registered \cup {h} ELSE registered \ {h}
    /\ forked' = TRUE
    /\ lapsed' = IF enable THEN lapsed \ {h} ELSE lapsed \cup {h}
    /\ UNCHANGED <<changeList, notifier, running, found, process, waiter,
                   simvars, fatal, damaged>>

(* Mutant: the type of the object is not looked at.                        *)
CreateAnything(s) ==
    \E h \in Hooks : create_probe(h, s, TRUE)

(* No such object, or not of an integral type: fatal in the test bench.    *)
create_refused(s) ==
    /\ s \in NotIntegral
    /\ fatal' = TRUE
    /\ UNCHANGED <<cvars, svvars, simvars, history>>

(* uvm_polling_setup_notifier and uvm_polling_reset_callback.  A notifier  *)
(* that cannot be located is an error, not a fatal one.                    *)
setup_notifier ==
    /\ notifier' = IF found THEN "bit" ELSE notifier
    /\ running' = found

(* The first of the forked processes enters the forever loop, and so does  *)
(* every other one when the set-up has failed.                             *)
probes_run ==
    /\ forked
    /\ forked' = FALSE
    /\ \/ running /\ UNCHANGED <<notifier, running, process>>
       \/ ~running /\ setup_notifier /\ process' = "waiting"
    /\ UNCHANGED <<allHooks, obj, cb, on_changeList, changeList, registered, found,
                   waiter, simvars, fatal, history>>

(* enable_cb and disable_cb.                                               *)
set_enable_callback(h, enable) ==
    /\ h \in allHooks
    /\ cb' = [cb EXCEPT ![h] = enable]
    /\ firing' = IF enable THEN firing ELSE firing \ {h}
    /\ lapsed' = IF enable THEN lapsed ELSE lapsed \cup {h}
    /\ UNCHANGED <<allHooks, obj, on_changeList, changeList, notifier, svvars,
                   value, changes, resets, fatal, damaged>>

----------------------------------------------------------------------------
(* A change, and its way to the test bench.                                *)

(* The design, or a deposit of user code.                                  *)
Change(s, v) ==
    /\ changes < MaxChanges
    /\ value[s] # v
    /\ value' = [value EXCEPT ![s] = v]
    /\ firing' = firing \cup {h \in allHooks : cb[h] /\ obj[h] = s}
    /\ changes' = changes + 1
    /\ UNCHANGED <<cvars, svvars, resets, fatal, history>>

(* Mutant: the record is put on the list again.                            *)
PushAlways(h) ==
    /\ on_changeList' = [on_changeList EXCEPT ![h] = TRUE]
    /\ changeList' = <<h>> \o changeList

changeList_pushIfNeeded(h) ==
    IF on_changeList[h] THEN UNCHANGED <<on_changeList, changeList>>
    ELSE /\ on_changeList' = [on_changeList EXCEPT ![h] = TRUE]
         /\ changeList' = <<h>> \o changeList

(* The toggle wakes a process that waits for the bit, and nobody else.     *)
(* Without a notifier it is fatal; a handle that a reset has released may  *)
(* do nothing, or anything.                                                *)
toggle_notifier ==
    \/ /\ notifier = "bit"
       /\ process' = IF process = "waiting" THEN "woken" ELSE process
       /\ UNCHANGED <<fatal, damaged>>
    \/ /\ notifier = "NULL"
       /\ fatal' = TRUE
       /\ UNCHANGED <<process, damaged>>
    \/ /\ notifier = "freed"
       /\ fatal' \in BOOLEAN
       /\ damaged' = TRUE
       /\ UNCHANGED process

(* Mutant: the list is looked at after the record has been put on it.      *)
NotifyLate == changeList # <<>>

require_notification == changeList = <<>>

value_change_callback(h) ==
    /\ h \in firing
    /\ firing' = firing \ {h}
    /\ changeList_pushIfNeeded(h)
    /\ IF require_notification THEN toggle_notifier
       ELSE UNCHANGED <<process, fatal, damaged>>
    /\ UNCHANGED <<allHooks, obj, cb, notifier, registered, forked, running, found,
                   waiter, value, changes, resets, lapsed>>

(* The process begins uvm_polling_process_changelist.                      *)
wake ==
    /\ process = "woken"
    /\ process' = "running"
    /\ UNCHANGED <<cvars, registered, forked, running, found, waiter, simvars, fatal,
                   history>>

(* Mutant: the flag in the record stays set.                               *)
FlagKept(h) ==
    /\ changeList # <<>>
    /\ h = Head(changeList)
    /\ changeList' = Tail(changeList)
    /\ UNCHANGED on_changeList

uvm_polling_get_newest_entry(h) ==
    /\ changeList # <<>>
    /\ h = Head(changeList)
    /\ changeList' = Tail(changeList)
    /\ on_changeList' = [on_changeList EXCEPT ![h] = FALSE]

(* m_polling_releaseWaiters: event changed, then the user's callbacks,     *)
(* whose deposits are changes as above.                                    *)
releaseWaiters(h) ==
    waiter' = [w \in Waiters |->
        IF waiter[w].at = "waiting" /\ waiter[w].hook = h
        THEN [waiter[w] EXCEPT !.at = "released"] ELSE waiter[w]]

(* Mutant: one entry is serviced for each toggle.                          *)
OnePerToggle(h) ==
    /\ process = "running"
    /\ uvm_polling_get_newest_entry(h)
    /\ releaseWaiters(h)
    /\ process' = "waiting"
    /\ UNCHANGED <<allHooks, obj, cb, notifier, registered, forked, running, found,
                   simvars, fatal, history>>

process_next(h) ==
    /\ process = "running"
    /\ uvm_polling_get_newest_entry(h)
    /\ releaseWaiters(h)
    /\ UNCHANGED <<allHooks, obj, cb, notifier, registered, forked, running, found,
                   process, simvars, fatal, history>>

process_ends ==
    /\ process = "running"
    /\ changeList = <<>>
    /\ process' = "waiting"
    /\ UNCHANGED <<cvars, registered, forked, running, found, waiter, simvars, fatal,
                   history>>

----------------------------------------------------------------------------
(* polling_wait_for_value, with wait_for_hdl_change: the value is read, and*)
(* read again after every change.  For a probe that is not registered both *)
(* return at once with an error, which changes nothing.                    *)

Check(w, h, exp) ==
    /\ process # "running"
    /\ waiter' = [waiter EXCEPT ![w] = IF value[obj[h]] = exp THEN Idle
                               ELSE [at |-> "waiting", hook |-> h, exp |-> exp]]
    /\ UNCHANGED <<cvars, registered, forked, running, found, process, simvars, fatal,
                   history>>

(* Mutant: the value is not read before the first wait.                    *)
WaitFirst(w, h, exp) ==
    /\ waiter[w].at = "idle"
    /\ h \in allHooks \cap registered
    /\ process # "running"
    /\ waiter' = [waiter EXCEPT ![w] = [at |-> "waiting", hook |-> h, exp |-> exp]]
    /\ UNCHANGED <<cvars, registered, forked, running, found, process, simvars, fatal,
                   history>>

polling_wait_for_value(w, h, exp) ==
    /\ waiter[w].at = "idle"
    /\ h \in allHooks \cap registered
    /\ Check(w, h, exp)

waiter_wakes(w) ==
    /\ waiter[w].at = "released"
    /\ Check(w, waiter[w].hook, waiter[w].exp)

----------------------------------------------------------------------------
(* cbStartOfReset.  The callback is registered with the notifier.          *)

free_mem_structures ==
    /\ allHooks' = {}
    /\ cb' = [h \in Hooks |-> FALSE]
    /\ obj' = [h \in Hooks |-> None]
    /\ notifier' = IF notifier = "NULL" THEN "NULL" ELSE "freed"
    /\ UNCHANGED <<changeList, on_changeList>>

reset ==
    /\ resets < MaxResets
    /\ notifier # "NULL"
    /\ process # "running"
    /\ free_mem_structures
    /\ value' = [s \in Signals |-> InitialValue]
    /\ firing' = {}
    /\ registered' = {}
    /\ forked' = FALSE /\ running' = FALSE
    /\ process' = "none"
    /\ waiter' = [w \in Waiters |-> Idle]
    /\ resets' = resets + 1
    /\ lapsed' = {}
    /\ damaged' = (damaged \/ changeList # <<>>)
    /\ UNCHANGED <<found, changes, fatal>>

----------------------------------------------------------------------------
Next ==
    ~fatal /\
    \/ \E h \in Hooks, s \in Signals, enable \in BOOLEAN : create_probe(h, s, enable)
    \/ \E s \in NotIntegral : create_refused(s)
    \/ probes_run
    \/ \E h \in Hooks, enable \in BOOLEAN : set_enable_callback(h, enable)
    \/ \E s \in Signals, v \in Values : Change(s, v)
    \/ \E h \in Hooks : value_change_callback(h)
    \/ wake
    \/ \E h \in Hooks : process_next(h)
    \/ process_ends
    \/ \E w \in Waiters, h \in Hooks, exp \in Values :
          polling_wait_for_value(w, h, exp)
    \/ \E w \in Waiters : waiter_wakes(w)
    \/ reset

Spec == Init /\ [][Next]_vars

(* The simulator calls the callbacks of a change and runs every process    *)
(* that is ready.                                                          *)
Fairness ==
    /\ \A h \in Hooks : WF_vars(~fatal /\ value_change_callback(h))
    /\ WF_vars(~fatal /\ (probes_run \/ wake \/ process_ends))
    /\ WF_vars(~fatal /\ \E h \in Hooks : process_next(h))
    /\ \A w \in Waiters : WF_vars(~fatal /\ waiter_wakes(w))

FairSpec == Spec /\ Fairness

----------------------------------------------------------------------------
(* Properties.                                                             *)

Sound == ~damaged /\ ~fatal

(* The flag in a record tells whether the record is on the list, which is  *)
(* what keeps changeList_pushIfNeeded from closing the list into a ring;   *)
(* and only allocated records are on it, so that process_changelist reads  *)
(* no freed memory.                                                        *)
ListExact ==
    Sound => /\ Listed \subseteq allHooks
             /\ \A h \in allHooks : on_changeList[h] <=> h \in Listed
             /\ \A i, j \in 1..Len(changeList) :
                    changeList[i] = changeList[j] => i = j

(* Nothing is on the list while the process sleeps: the toggle for the     *)
(* first entry has woken it, or it is at work, although a toggle during    *)
(* its work goes unseen (the comment in value_change_callback).            *)
NoMissedWakeup ==
    Sound /\ changeList # <<>> => process \in {"woken", "running"}

(* Nobody waits for a value that the signal has, unless news of a change   *)
(* is under way: the value is read before each wait (wait_for_hdl_change), *)
(* and the event may fire while the waiter has not looked yet.             *)
NoStrandedWaiter ==
    Sound => \A w \in Waiters :
        LET h == waiter[w].hook IN
        waiter[w].at = "waiting" /\ value[obj[h]] = waiter[w].exp /\ h \notin lapsed
            => h \in firing \cup Listed

(* A process that waits for a value returns when the signal keeps it.      *)
WaiterReturns ==
    \A w \in Waiters :
        (Sound /\ waiter[w].at = "waiting" /\ waiter[w].hook \notin lapsed
               /\ value[obj[waiter[w].hook]] = waiter[w].exp)
            ~> (\/ ~Sound \/ waiter[w].at = "idle" \/ waiter[w].hook \in lapsed
                \/ value[obj[waiter[w].hook]] # waiter[w].exp)

Contract == INSTANCE PollingContract WITH
    watched  <- [h \in Hooks |-> IF h \in allHooks /\ cb[h] THEN obj[h] ELSE None],
    due      <- firing \cup Listed,
    awaits   <- [w \in Waiters |->
                    IF waiter[w].at = "waiting" THEN waiter[w].hook ELSE None],
    broken   <- ~Sound

(* Probes see what the contract lets them see: every change reported, and  *)
(* nothing that did not happen.                                            *)
ImplementsContract == Contract!CFairSpec

==================================================================================
