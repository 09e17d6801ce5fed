----------------------------- MODULE PollingProofs -----------------------------
(***************************************************************************)
(* Theorems about Polling for every set of probes, signals, values and     *)
(* waiting processes.                                                      *)
(***************************************************************************)
EXTENDS Polling, TLAPS

ListOf(s) == {s[i] : i \in 1..Len(s)}

Distinct(s) == \A i, j \in 1..Len(s) : s[i] = s[j] => i = j

LEMMA PushList ==
    ASSUME NEW S, NEW s \in Seq(S), NEW x \in S
    PROVE  /\ <<x>> \o s \in Seq(S)
           /\ <<x>> \o s # <<>>
           /\ ListOf(<<x>> \o s) = ListOf(s) \cup {x}
           /\ Distinct(s) /\ x \notin ListOf(s) => Distinct(<<x>> \o s)
<1> DEFINE t == <<x>> \o s
<1>1. t \in Seq(S) /\ Len(s) \in Nat /\ Len(t) = Len(s) + 1 /\ t # <<>>
  OBVIOUS
<1>2. t[1] = x /\ \A i \in 1..Len(s) : t[i + 1] = s[i]
  OBVIOUS
<1> HIDE DEF t
<1>3. \A i \in 1..Len(t) : i = 1 \/ (i - 1 \in 1..Len(s) /\ t[i] = s[i - 1])
  BY <1>1, <1>2
<1>4. ListOf(t) = ListOf(s) \cup {x}
  <2>1. ASSUME NEW i \in 1..Len(t) PROVE t[i] \in ListOf(s) \cup {x}
    BY <1>2, <1>3, <2>1 DEF ListOf
  <2>2. ASSUME NEW i \in 1..Len(s) PROVE i + 1 \in 1..Len(t) /\ s[i] = t[i + 1]
    BY <1>1, <1>2
  <2>3. 1 \in 1..Len(t)
    BY <1>1
  <2> QED
    BY <1>2, <2>1, <2>2, <2>3 DEF ListOf
<1>5. ASSUME Distinct(s), x \notin ListOf(s)
      PROVE  Distinct(t)
  <2>1. \A i \in 1..Len(s) : s[i] # x
    BY <1>5 DEF ListOf
  <2> SUFFICES ASSUME NEW i \in 1..Len(t), NEW j \in 1..Len(t), t[i] = t[j]
               PROVE  i = j
    BY DEF Distinct
  <2>2. CASE i = 1
    BY <1>2, <1>3, <2>1, <2>2
  <2>3. CASE j = 1
    BY <1>2, <1>3, <2>1, <2>3
  <2>4. CASE i # 1 /\ j # 1
    <3>1. /\ i - 1 \in 1..Len(s) /\ j - 1 \in 1..Len(s)
          /\ s[i - 1] = s[j - 1]
      BY <1>3, <2>4
    <3>2. i - 1 = j - 1
      BY <1>5, <3>1 DEF Distinct
    <3> QED
      BY <1>1, <3>2
  <2> QED
    BY <2>2, <2>3, <2>4
<1> QED BY <1>1, <1>4, <1>5 DEF t

LEMMA PopList ==
    ASSUME NEW S, NEW s \in Seq(S), s # <<>>
    PROVE  /\ Head(s) \in S /\ Tail(s) \in Seq(S)
           /\ Head(s) \in ListOf(s)
           /\ ListOf(s) \subseteq ListOf(Tail(s)) \cup {Head(s)}
           /\ ListOf(Tail(s)) \subseteq ListOf(s)
           /\ Distinct(s) => /\ Distinct(Tail(s))
                             /\ ListOf(Tail(s)) = ListOf(s) \ {Head(s)}
<1> DEFINE t == Tail(s)
<1>1. /\ t \in Seq(S) /\ Len(s) \in Nat \ {0} /\ Len(t) = Len(s) - 1
      /\ Head(s) = s[1] /\ Head(s) \in S
  OBVIOUS
<1>2. \A i \in 1..Len(t) : t[i] = s[i + 1]
  OBVIOUS
<1> HIDE DEF t
<1>3. \A i \in 1..Len(s) : i = 1 \/ (i - 1 \in 1..Len(t) /\ s[i] = t[i - 1])
  BY <1>1, <1>2
<1>4. Head(s) \in ListOf(s) /\ ListOf(t) \subseteq ListOf(s)
  BY <1>1, <1>2 DEF ListOf
<1>5. ListOf(s) \subseteq ListOf(t) \cup {Head(s)}
  BY <1>1, <1>3 DEF ListOf
<1>6. ASSUME Distinct(s)
      PROVE  Distinct(t) /\ Head(s) \notin ListOf(t)
  BY <1>1, <1>2, <1>6 DEF Distinct, ListOf
<1> QED BY <1>1, <1>4, <1>5, <1>6 DEF t

----------------------------------------------------------------------------
(* The inductive invariant.                                                *)

Wait == [at : {"idle", "waiting", "released"}, hook : Hooks \cup {None}, exp : Values]

(* Records that exist have a signal, callbacks belong to such records, and *)
(* so do the hooks that processes wait for; a record without a callback    *)
(* has been disabled.                                                      *)
RecordsOK ==
    /\ \A h \in allHooks : obj[h] \in Signals
    /\ \A h \in allHooks \ lapsed : cb[h]
    /\ firing \subseteq allHooks
    /\ \A w \in Waiters : waiter[w].at # "idle" => waiter[w].hook \in allHooks

(* The process exists when the notifier is in use.                         *)
ProcessOK ==
    /\ running <=> notifier = "bit"
    /\ running => process # "none"
    /\ ~running => process \in {"none", "waiting"}

ListOK ==
    /\ Listed \subseteq allHooks
    /\ \A h \in allHooks : on_changeList[h] <=> h \in Listed
    /\ Distinct(changeList)

IInv ==
    /\ TypeOK
    /\ RecordsOK
    /\ ProcessOK
    /\ Sound => ListOK
    /\ NoMissedWakeup
    /\ NoStrandedWaiter

LEMMA ListedIsListOf == Listed = ListOf(changeList)
  BY DEF Listed, ListOf

LEMMA ListExactMeans == ListExact <=> (Sound => ListOK)
  BY DEF ListExact, ListOK, Distinct

LEMMA InitInvariant == Init => IInv
<1> SUFFICES ASSUME Init PROVE IInv
  OBVIOUS
<1>1. Listed = {}
  BY DEF Init, Listed
<1>2. TypeOK
  <2>1. waiter \in [Waiters -> Wait]
    BY PollingAssumption DEF Init, Idle, Wait
  <2>2. changes \in 0..MaxChanges /\ resets \in 0..MaxResets
    BY PollingAssumption DEF Init
  <2>3. value \in [Signals -> Values] /\ obj \in [Hooks -> Signals \cup {None}]
    BY PollingAssumption DEF Init
  <2>4. cb \in [Hooks -> BOOLEAN] /\ on_changeList \in [Hooks -> BOOLEAN]
    BY DEF Init
  <2>5. changeList \in Seq(Hooks) /\ firing \subseteq Hooks
    BY DEF Init
  <2> QED
    BY <2>1, <2>2, <2>3, <2>4, <2>5 DEF Init, TypeOK, Wait
<1>3. RecordsOK
  BY DEF Init, RecordsOK, Idle
<1>4. ProcessOK
  BY DEF Init, ProcessOK
<1>5. ListOK
  BY <1>1 DEF Init, ListOK, Distinct
<1>6. NoMissedWakeup /\ NoStrandedWaiter
  BY DEF Init, NoMissedWakeup, NoStrandedWaiter, Idle
<1> QED
  BY <1>2, <1>3, <1>4, <1>5, <1>6 DEF IInv

(* What a step leaves alone when it touches none of the variables it       *)
(* depends on.                                                             *)
LEMMA CreateKeeps ==
    ASSUME IInv, NEW h \in Hooks, NEW s \in Signals, NEW enable \in BOOLEAN,
           create_probe(h, s, enable)
    PROVE  IInv'
<1>1. /\ h \notin allHooks /\ allHooks' = allHooks \cup {h}
      /\ on_changeList' = [on_changeList EXCEPT ![h] = FALSE]
      /\ obj' = [obj EXCEPT ![h] = s] /\ cb' = [cb EXCEPT ![h] = enable]
      /\ registered' \in {registered \cup {h}, registered \ {h}}
      /\ forked' = TRUE
      /\ lapsed' = IF enable THEN lapsed \ {h} ELSE lapsed \cup {h}
      /\ UNCHANGED <<changeList, notifier, running, found, process, waiter,
                     value, firing, changes, resets, fatal, damaged>>
  BY DEF create_probe, allocate_hook_record, simvars
<1>2. TypeOK'
  BY <1>1 DEF IInv, TypeOK
<1>3. Listed' = Listed
  BY <1>1 DEF Listed
<1>4. \A g \in allHooks : g # h /\ obj'[g] = obj[g] /\ cb'[g] = cb[g]
                          /\ on_changeList'[g] = on_changeList[g]
  BY <1>1 DEF IInv, TypeOK
<1>5. obj'[h] = s /\ (h \notin lapsed' => cb'[h]) /\ ~on_changeList'[h]
  BY <1>1 DEF IInv, TypeOK
<1>6. RecordsOK'
  BY <1>1, <1>4, <1>5 DEF IInv, RecordsOK
<1>7. ProcessOK'
  BY <1>1 DEF IInv, ProcessOK
<1>8. (Sound => ListOK)'
  BY <1>1, <1>3, <1>4, <1>5 DEF IInv, ListOK, Sound, Distinct
<1>9. NoMissedWakeup'
  BY <1>1 DEF IInv, NoMissedWakeup, Sound
<1>10. NoStrandedWaiter'
  <2> SUFFICES ASSUME Sound', NEW w \in Waiters, waiter[w].at = "waiting",
                      value[obj'[waiter[w].hook]] = waiter[w].exp,
                      waiter[w].hook \notin lapsed'
               PROVE  waiter[w].hook \in firing \cup Listed
    BY <1>1, <1>3 DEF NoStrandedWaiter
  <2>1. waiter[w].hook \in allHooks
    BY DEF IInv, RecordsOK
  <2>2. obj'[waiter[w].hook] = obj[waiter[w].hook] /\ waiter[w].hook \notin lapsed
    BY <1>1, <1>4, <2>1
  <2> QED
    BY <1>1, <2>2 DEF IInv, NoStrandedWaiter, Sound
<1> QED
  BY <1>2, <1>6, <1>7, <1>8, <1>9, <1>10 DEF IInv

LEMMA ProbesRunKeeps ==
    ASSUME IInv, probes_run
    PROVE  IInv'
<1>1. /\ \/ running /\ UNCHANGED <<notifier, running, process>>
         \/ ~running /\ setup_notifier /\ process' = "waiting"
      /\ forked' = FALSE
      /\ UNCHANGED <<allHooks, obj, cb, on_changeList, changeList, registered, found, waiter,
                     value, firing, changes, resets, fatal, lapsed, damaged>>
  BY DEF probes_run, simvars, history
<1>2. TypeOK'
  BY <1>1 DEF IInv, TypeOK, setup_notifier
<1>3. RecordsOK'
  BY <1>1 DEF IInv, RecordsOK
<1>4. ProcessOK'
  BY <1>1 DEF IInv, ProcessOK, setup_notifier, TypeOK
<1>5. (Sound => ListOK)'
  BY <1>1 DEF IInv, ListOK, Sound, Distinct, Listed
<1>6. NoMissedWakeup'
  BY <1>1 DEF IInv, NoMissedWakeup, Sound, ProcessOK
<1>7. NoStrandedWaiter'
  BY <1>1 DEF IInv, NoStrandedWaiter, Sound, Listed
<1> QED
  BY <1>2, <1>3, <1>4, <1>5, <1>6, <1>7 DEF IInv

LEMMA EnableKeeps ==
    ASSUME IInv, NEW h \in Hooks, NEW enable \in BOOLEAN,
           set_enable_callback(h, enable)
    PROVE  IInv'
<1>1. /\ h \in allHooks
      /\ cb' = [cb EXCEPT ![h] = enable]
      /\ firing' = IF enable THEN firing ELSE firing \ {h}
      /\ lapsed' = IF enable THEN lapsed ELSE lapsed \cup {h}
      /\ UNCHANGED <<allHooks, obj, on_changeList, changeList, notifier, registered, forked,
                     running, found, process, waiter, value, changes, resets,
                     fatal, damaged>>
  BY DEF set_enable_callback, svvars
<1>2. TypeOK'
  BY <1>1 DEF IInv, TypeOK
<1>3. RecordsOK'
  BY <1>1 DEF IInv, TypeOK, RecordsOK
<1>4. ProcessOK'
  BY <1>1 DEF IInv, ProcessOK
<1>5. (Sound => ListOK)'
  BY <1>1 DEF IInv, ListOK, Sound, Distinct, Listed
<1>6. NoMissedWakeup'
  BY <1>1 DEF IInv, NoMissedWakeup, Sound
<1>7. NoStrandedWaiter'
  <2>1. \A g \in firing : g \in firing' \/ g \in lapsed'
    BY <1>1
  <2>2. Listed' = Listed /\ lapsed \subseteq lapsed'
    BY <1>1 DEF Listed
  <2> QED
    BY <1>1, <2>1, <2>2 DEF IInv, NoStrandedWaiter, Sound
<1> QED
  BY <1>2, <1>3, <1>4, <1>5, <1>6, <1>7 DEF IInv

(* Whoever waits for the new value has his record among those whose        *)
(* callback the change calls.                                              *)
LEMMA ChangeKeeps ==
    ASSUME IInv, NEW s \in Signals, NEW v \in Values, Change(s, v)
    PROVE  IInv'
<1>1. /\ changes < MaxChanges /\ changes' = changes + 1
      /\ value' = [value EXCEPT ![s] = v]
      /\ firing' = firing \cup {h \in allHooks : cb[h] /\ obj[h] = s}
      /\ UNCHANGED <<allHooks, obj, cb, on_changeList, changeList, notifier,
                     registered, forked, running, found, process, waiter, resets, fatal,
                     lapsed, damaged>>
  BY DEF Change, cvars, svvars, history
<1>2. TypeOK'
  <2>1. changes' \in 0..MaxChanges
    BY <1>1, PollingAssumption DEF IInv, TypeOK
  <2>2. firing' \subseteq Hooks /\ value' \in [Signals -> Values]
    BY <1>1 DEF IInv, TypeOK
  <2> QED
    BY <1>1, <2>1, <2>2 DEF IInv, TypeOK
<1>3. RecordsOK'
  BY <1>1 DEF IInv, RecordsOK
<1>4. ProcessOK'
  BY <1>1 DEF IInv, ProcessOK
<1>5. (Sound => ListOK)'
  BY <1>1 DEF IInv, ListOK, Sound, Distinct, Listed
<1>6. NoMissedWakeup'
  BY <1>1 DEF IInv, NoMissedWakeup, Sound
<1>7. NoStrandedWaiter'
  <2> SUFFICES ASSUME Sound, NEW w \in Waiters, waiter[w].at = "waiting",
                      value'[obj[waiter[w].hook]] = waiter[w].exp,
                      waiter[w].hook \notin lapsed
               PROVE  waiter[w].hook \in firing' \cup Listed
    BY <1>1 DEF NoStrandedWaiter, Sound, Listed
  <2> DEFINE h == waiter[w].hook
  <2>1. h \in allHooks /\ obj[h] \in Signals /\ cb[h]
    BY DEF IInv, RecordsOK
  <2>2. CASE obj[h] = s
    BY <1>1, <2>1, <2>2
  <2>3. CASE obj[h] # s
    <3>1. value'[obj[h]] = value[obj[h]]
      BY <1>1, <2>1, <2>3 DEF IInv, TypeOK
    <3> QED
      BY <1>1, <3>1 DEF IInv, NoStrandedWaiter
  <2> QED
    BY <2>2, <2>3
<1> QED
  BY <1>2, <1>3, <1>4, <1>5, <1>6, <1>7 DEF IInv

(* The record is on the list after the callback, and the process is awake  *)
(* unless the promise is off.                                              *)
LEMMA CallbackKeeps ==
    ASSUME IInv, ~fatal, NEW h \in Hooks, value_change_callback(h)
    PROVE  IInv'
<1>1. /\ h \in firing /\ firing' = firing \ {h}
      /\ changeList_pushIfNeeded(h)
      /\ IF require_notification THEN toggle_notifier
         ELSE UNCHANGED <<process, fatal, damaged>>
      /\ UNCHANGED <<allHooks, obj, cb, notifier, registered, forked, running, found, waiter,
                     value, changes, resets, lapsed>>
  BY DEF value_change_callback
<1>2. h \in allHooks /\ changeList \in Seq(Hooks)
  BY <1>1 DEF IInv, RecordsOK, TypeOK
<1>20. changeList' \in Seq(Hooks) /\ on_changeList' \in [Hooks -> BOOLEAN]
  <2>1. <<h>> \o changeList \in Seq(Hooks)
    BY <1>2
  <2> QED
    BY <1>1, <1>2, <2>1 DEF changeList_pushIfNeeded, IInv, TypeOK
<1>3. ASSUME Sound
      PROVE
      /\ ListOK /\ changeList' \in Seq(Hooks) /\ on_changeList' \in [Hooks -> BOOLEAN]
      /\ Listed' = Listed \cup {h} /\ Distinct(changeList')
      /\ changeList' # <<>>
      /\ \A g \in allHooks : on_changeList'[g] <=> g \in Listed'
  <2>0. ListOK
    BY <1>3 DEF IInv
  <2>1. CASE on_changeList[h]
    <3>1. h \in Listed /\ UNCHANGED <<on_changeList, changeList>>
      BY <1>1, <1>2, <2>0, <2>1 DEF changeList_pushIfNeeded, ListOK
    <3>2. Listed' = Listed /\ changeList # <<>>
      BY <3>1 DEF Listed
    <3> QED
      BY <1>2, <2>0, <3>1, <3>2 DEF ListOK, IInv, TypeOK, Distinct
  <2>2. CASE ~on_changeList[h]
    <3>1. /\ on_changeList' = [on_changeList EXCEPT ![h] = TRUE]
          /\ changeList' = <<h>> \o changeList
      BY <1>1, <2>2 DEF changeList_pushIfNeeded
    <3>2. h \notin ListOf(changeList) /\ Distinct(changeList)
      BY <1>2, <2>0, <2>2, ListedIsListOf DEF ListOK
    <3>3. /\ changeList' \in Seq(Hooks) /\ changeList' # <<>>
          /\ ListOf(changeList') = ListOf(changeList) \cup {h}
          /\ Distinct(changeList')
      BY <1>2, <3>1, <3>2, PushList
    <3>4. Listed' = Listed \cup {h}
      BY <3>3 DEF Listed, ListOf
    <3>5. /\ on_changeList' \in [Hooks -> BOOLEAN] /\ on_changeList'[h]
          /\ \A g \in Hooks : g # h => on_changeList'[g] = on_changeList[g]
      BY <3>1 DEF IInv, TypeOK
    <3> QED
      BY <1>2, <2>0, <3>3, <3>4, <3>5 DEF ListOK, IInv, TypeOK
  <2> QED
    BY <2>1, <2>2
<1>4. /\ process' \in {process, "woken"} /\ fatal' \in BOOLEAN /\ damaged' \in BOOLEAN
      /\ Sound' => \/ ~require_notification /\ process' = process
                   \/ /\ notifier = "bit"
                      /\ process' = IF process = "waiting" THEN "woken" ELSE process
      /\ process' # process => notifier = "bit"
  BY <1>1 DEF toggle_notifier, IInv, TypeOK, Sound
<1>5. TypeOK'
  BY <1>1, <1>20, <1>4 DEF IInv, TypeOK
<1>6. RecordsOK'
  BY <1>1 DEF IInv, RecordsOK
<1>7. ProcessOK'
  BY <1>1, <1>4 DEF IInv, ProcessOK
<1>11. Sound' => Sound
  BY <1>1, <1>4 DEF Sound, toggle_notifier
<1>8. (Sound => ListOK)'
  BY <1>1, <1>2, <1>3, <1>11 DEF ListOK
<1>9. NoMissedWakeup'
  BY <1>1, <1>4, <1>11 DEF IInv, NoMissedWakeup, require_notification, ProcessOK, TypeOK
<1>10. NoStrandedWaiter'
  BY <1>1, <1>3, <1>11 DEF IInv, NoStrandedWaiter
<1> QED
  BY <1>5, <1>6, <1>7, <1>8, <1>9, <1>10 DEF IInv

LEMMA ProcessStepKeeps ==
    ASSUME IInv, wake \/ process_ends
    PROVE  IInv'
<1>1. /\ UNCHANGED <<allHooks, obj, cb, on_changeList, changeList, notifier,
                     registered, forked, running, found, waiter, value, firing, changes,
                     resets, fatal, lapsed, damaged>>
      /\ \/ process = "woken" /\ process' = "running"
         \/ process = "running" /\ changeList = <<>> /\ process' = "waiting"
  BY DEF wake, process_ends, cvars, simvars, history
<1>2. TypeOK'
  BY <1>1 DEF IInv, TypeOK
<1>3. RecordsOK'
  BY <1>1 DEF IInv, RecordsOK
<1>4. ProcessOK'
  BY <1>1 DEF IInv, ProcessOK
<1>5. (Sound => ListOK)'
  BY <1>1 DEF IInv, ListOK, Sound, Distinct, Listed
<1>6. NoMissedWakeup'
  BY <1>1 DEF IInv, NoMissedWakeup, Sound
<1>7. NoStrandedWaiter'
  BY <1>1 DEF IInv, NoStrandedWaiter, Sound, Listed
<1> QED
  BY <1>2, <1>3, <1>4, <1>5, <1>6, <1>7 DEF IInv

(* The record leaves the list, and nobody waits for it any more.           *)
LEMMA ProcessNextKeeps ==
    ASSUME IInv, ~fatal, NEW h \in Hooks, process_next(h)
    PROVE  IInv'
<1>1. /\ process = "running" /\ changeList # <<>> /\ h = Head(changeList)
      /\ changeList' = Tail(changeList)
      /\ on_changeList' = [on_changeList EXCEPT ![h] = FALSE]
      /\ waiter' = [w \in Waiters |->
            IF waiter[w].at = "waiting" /\ waiter[w].hook = h
            THEN [waiter[w] EXCEPT !.at = "released"] ELSE waiter[w]]
      /\ UNCHANGED <<allHooks, obj, cb, notifier, registered, forked, running, found, process,
                     value, firing, changes, resets, fatal, lapsed, damaged>>
  BY DEF process_next, uvm_polling_get_newest_entry, releaseWaiters, simvars, history
<1>2. changeList \in Seq(Hooks)
  BY DEF IInv, TypeOK
<1>20. changeList' \in Seq(Hooks)
  BY <1>1, <1>2, PopList
<1>3. ASSUME Sound
      PROVE  /\ ListOK /\ Distinct(changeList')
             /\ Listed' = Listed \ {h} /\ h \in Listed
  <2>1. Distinct(changeList)
    BY <1>3 DEF IInv, ListOK
  <2> QED
    <3>1. /\ Distinct(Tail(changeList)) /\ h \in ListOf(changeList)
          /\ ListOf(Tail(changeList)) = ListOf(changeList) \ {h}
      BY <1>1, <1>2, <2>1, PopList
    <3>2. ListOK
      BY <1>3 DEF IInv
    <3> QED
      BY <1>1, <3>1, <3>2 DEF Listed, ListOf
<1>4. /\ on_changeList' \in [Hooks -> BOOLEAN] /\ ~on_changeList'[h]
      /\ \A g \in Hooks : g # h => on_changeList'[g] = on_changeList[g]
  BY <1>1 DEF IInv, TypeOK
<1>5. /\ waiter' \in [Waiters -> Wait]
      /\ \A w \in Waiters : /\ waiter'[w].hook = waiter[w].hook
                            /\ waiter'[w].exp = waiter[w].exp
                            /\ waiter[w].at = "idle" => waiter'[w].at = "idle"
                            /\ waiter'[w].at = "waiting" =>
                                   waiter[w].at = "waiting" /\ waiter[w].hook # h
  <2>1. waiter \in [Waiters -> Wait]
    BY DEF IInv, TypeOK, Wait
  <2>2. ASSUME NEW w \in Waiters
        PROVE  /\ waiter'[w] \in Wait
               /\ waiter'[w].hook = waiter[w].hook
               /\ waiter'[w].exp = waiter[w].exp
               /\ waiter[w].at = "idle" => waiter'[w].at = "idle"
               /\ waiter'[w].at = "waiting" =>
                      waiter[w].at = "waiting" /\ waiter[w].hook # h
    BY <1>1, <2>1 DEF Wait
  <2> QED
    BY <1>1, <2>2
<1>6. TypeOK'
  BY <1>1, <1>20, <1>4, <1>5 DEF IInv, TypeOK, Wait
<1>7. RecordsOK'
  BY <1>1, <1>5 DEF IInv, RecordsOK
<1>8. ProcessOK'
  BY <1>1 DEF IInv, ProcessOK
<1>9. (Sound => ListOK)'
  BY <1>1, <1>2, <1>3, <1>4 DEF ListOK, IInv, TypeOK, Sound
<1>10. NoMissedWakeup'
  BY <1>1 DEF NoMissedWakeup
<1>11. NoStrandedWaiter'
  BY <1>1, <1>3, <1>5 DEF IInv, NoStrandedWaiter, Sound
<1> QED
  BY <1>6, <1>7, <1>8, <1>9, <1>10, <1>11 DEF IInv

LEMMA CheckKeeps ==
    ASSUME IInv, NEW w \in Waiters, NEW h \in allHooks, NEW exp \in Values,
           Check(w, h, exp)
    PROVE  IInv'
<1> DEFINE waits == [at |-> "waiting", hook |-> h, exp |-> exp]
<1>1. /\ waiter' = [waiter EXCEPT ![w] = IF value[obj[h]] = exp THEN Idle ELSE waits]
      /\ UNCHANGED <<allHooks, obj, cb, on_changeList, changeList, notifier,
                     registered, forked, running, found, process, value, firing, changes,
                     resets, fatal, lapsed, damaged>>
  BY DEF Check, cvars, simvars, history
<1>2. /\ waiter' \in [Waiters -> Wait]
      /\ \A u \in Waiters : u # w => waiter'[u] = waiter[u]
      /\ waiter'[w] = IF value[obj[h]] = exp THEN Idle ELSE waits
  <2>1. waiter \in [Waiters -> Wait] /\ h \in Hooks
    BY DEF IInv, TypeOK, Wait
  <2>2. Idle \in Wait /\ waits \in Wait
    BY <2>1, PollingAssumption DEF Idle, Wait
  <2> QED
    BY <1>1, <2>1, <2>2
<1>3. TypeOK'
  BY <1>1, <1>2 DEF IInv, TypeOK, Wait
<1>4. RecordsOK'
  BY <1>1, <1>2 DEF IInv, RecordsOK, Idle
<1>5. ProcessOK'
  BY <1>1 DEF IInv, ProcessOK
<1>6. (Sound => ListOK)'
  BY <1>1 DEF IInv, ListOK, Sound, Distinct, Listed
<1>7. NoMissedWakeup'
  BY <1>1 DEF IInv, NoMissedWakeup, Sound
<1>8. NoStrandedWaiter'
  <2> SUFFICES ASSUME Sound, NEW u \in Waiters, waiter'[u].at = "waiting",
                      value[obj[waiter'[u].hook]] = waiter'[u].exp,
                      waiter'[u].hook \notin lapsed
               PROVE  waiter'[u].hook \in firing \cup Listed
    BY <1>1 DEF NoStrandedWaiter, Sound, Listed
  <2>1. CASE u = w
    BY <1>2, <2>1 DEF Idle
  <2>2. CASE u # w
    BY <1>2, <2>2 DEF IInv, NoStrandedWaiter
  <2> QED
    BY <2>1, <2>2
<1> QED
  BY <1>3, <1>4, <1>5, <1>6, <1>7, <1>8 DEF IInv

(* With an empty list a reset leaves a sound state behind.                 *)
LEMMA ResetKeeps ==
    ASSUME IInv, reset
    PROVE  IInv'
<1>1. /\ resets < MaxResets /\ resets' = resets + 1
      /\ allHooks' = {} /\ cb' = [h \in Hooks |-> FALSE]
      /\ obj' = [h \in Hooks |-> None]
      /\ notifier' \in {"NULL", "freed"}
      /\ value' = [s \in Signals |-> InitialValue] /\ firing' = {}
      /\ registered' = {} /\ running' = FALSE /\ forked' = FALSE /\ process' = "none"
      /\ waiter' = [w \in Waiters |-> Idle] /\ lapsed' = {}
      /\ damaged' = (damaged \/ changeList # <<>>)
      /\ UNCHANGED <<changeList, on_changeList, found, changes, fatal>>
  BY DEF reset, free_mem_structures
<1>2. TypeOK'
  <2>1. resets' \in 0..MaxResets
    BY <1>1, PollingAssumption DEF IInv, TypeOK
  <2>2. waiter' \in [Waiters -> Wait]
    BY <1>1, PollingAssumption DEF Idle, Wait
  <2>3. obj' \in [Hooks -> Signals \cup {None}] /\ cb' \in [Hooks -> BOOLEAN]
    BY <1>1
  <2>4. value' \in [Signals -> Values]
    BY <1>1, PollingAssumption
  <2>5. damaged' \in BOOLEAN
    BY <1>1
  <2> QED
    BY <1>1, <2>1, <2>2, <2>3, <2>4, <2>5 DEF IInv, TypeOK, Wait
<1>3. RecordsOK'
  BY <1>1 DEF RecordsOK, Idle
<1>4. ProcessOK'
  BY <1>1 DEF ProcessOK
<1>5. Sound' => changeList' = <<>> /\ Listed' = {}
  <2>1. Sound' => changeList' = <<>>
    BY <1>1 DEF Sound
  <2>2. changeList' = <<>> => Listed' = {}
    BY DEF Listed
  <2> QED
    BY <2>1, <2>2
<1>6. (Sound => ListOK)'
  BY <1>1, <1>5 DEF ListOK, Distinct
<1>7. NoMissedWakeup' /\ NoStrandedWaiter'
  BY <1>1, <1>5 DEF NoMissedWakeup, NoStrandedWaiter, Idle
<1> QED
  BY <1>2, <1>3, <1>4, <1>6, <1>7 DEF IInv

LEMMA StepInvariant == IInv /\ [Next]_vars => IInv'
<1> SUFFICES ASSUME IInv, [Next]_vars
             PROVE  IInv'
  OBVIOUS
<1>1. CASE UNCHANGED vars
  BY <1>1 DEF vars, cvars, svvars, simvars, history, IInv, TypeOK, RecordsOK,
              ProcessOK, Sound, ListOK, Listed, Distinct, NoMissedWakeup,
              NoStrandedWaiter
<1>2. CASE Next
  <2>0. ~fatal
    BY <1>2 DEF Next
  <2>1. ASSUME NEW h \in Hooks, NEW s \in Signals, NEW enable \in BOOLEAN,
               create_probe(h, s, enable)
        PROVE  IInv'
    BY <2>1, CreateKeeps
  <2>2. ASSUME NEW s \in NotIntegral, create_refused(s)
        PROVE  IInv'
    BY <2>2 DEF create_refused, cvars, svvars, simvars, history, IInv, TypeOK,
                RecordsOK, ProcessOK, Sound, NoMissedWakeup, NoStrandedWaiter
  <2>3. CASE probes_run
    BY <2>3, ProbesRunKeeps
  <2>4. ASSUME NEW h \in Hooks, NEW enable \in BOOLEAN, set_enable_callback(h, enable)
        PROVE  IInv'
    BY <2>4, EnableKeeps
  <2>5. ASSUME NEW s \in Signals, NEW v \in Values, Change(s, v)
        PROVE  IInv'
    BY <2>5, ChangeKeeps
  <2>6. ASSUME NEW h \in Hooks, value_change_callback(h)
        PROVE  IInv'
    BY <2>0, <2>6, CallbackKeeps
  <2>7. CASE wake \/ process_ends
    BY <2>7, ProcessStepKeeps
  <2>8. ASSUME NEW h \in Hooks, process_next(h)
        PROVE  IInv'
    BY <2>0, <2>8, ProcessNextKeeps
  <2>9. ASSUME NEW w \in Waiters, NEW h \in Hooks, NEW exp \in Values,
               polling_wait_for_value(w, h, exp)
        PROVE  IInv'
    BY <2>9, CheckKeeps DEF polling_wait_for_value
  <2>10. ASSUME NEW w \in Waiters, waiter_wakes(w)
         PROVE  IInv'
    <3>1. waiter[w].hook \in allHooks /\ waiter[w].exp \in Values
      BY <2>10 DEF waiter_wakes, IInv, RecordsOK, TypeOK
    <3> QED
      BY <2>10, <3>1, CheckKeeps DEF waiter_wakes
  <2>11. CASE reset
    BY <2>11, ResetKeeps
  <2> QED
    BY <1>2, <2>1, <2>2, <2>3, <2>4, <2>5, <2>6, <2>7, <2>8, <2>9, <2>10, <2>11 DEF Next
<1> QED
  BY <1>1, <1>2

THEOREM Invariant == Spec => []IInv
  BY InitInvariant, StepInvariant, PTL DEF Spec

(* Types are kept, whatever is reset when.                                 *)
THEOREM TypeCorrect == Spec => []TypeOK
<1>1. IInv => TypeOK
  BY DEF IInv
<1> QED
  BY <1>1, Invariant, PTL

(* The list of changes holds each allocated record at most once, and the   *)
(* flags agree with it: process_changelist ends and reads no freed record. *)
THEOREM ListExactCorrect == Spec => []ListExact
<1>1. IInv => ListExact
  BY ListExactMeans DEF IInv
<1> QED
  BY <1>1, Invariant, PTL

(* No toggle of the notifier that matters goes unseen.                     *)
THEOREM NoMissedWakeupCorrect == Spec => []NoMissedWakeup
<1>1. IInv => NoMissedWakeup
  BY DEF IInv
<1> QED
  BY <1>1, Invariant, PTL

(* Nobody waits for the value his signal has without news under way.       *)
THEOREM NoStrandedWaiterCorrect == Spec => []NoStrandedWaiter
<1>1. IInv => NoStrandedWaiter
  BY DEF IInv
<1> QED
  BY <1>1, Invariant, PTL

----------------------------------------------------------------------------
(* Polling implements its contract, step by step.                          *)

Watched == [h \in Hooks |-> IF h \in allHooks /\ cb[h] THEN obj[h] ELSE None]
Due == firing \cup Listed
Awaits == [w \in Waiters |-> IF waiter[w].at = "waiting" THEN waiter[w].hook ELSE None]

ContractStep ==
    \/ UNCHANGED <<Watched, Due, Awaits, Sound>>
    \/ ~Sound'
    \/ /\ Sound /\ Sound'
       /\ \/ \E h \in Hooks, s \in Signals :
                /\ Watched[h] = None /\ Watched' = [Watched EXCEPT ![h] = s]
                /\ UNCHANGED <<Due, Awaits>>
          \/ \E h \in Hooks :
                /\ Watched' = [Watched EXCEPT ![h] = None]
                /\ Due' \in {Due, Due \ {h}} /\ UNCHANGED Awaits
          \/ \E h \in Hooks :
                /\ h \in Due /\ Due' \in {Due, Due \ {h}}
                /\ Awaits' = [w \in Waiters |->
                                  IF Awaits[w] = h THEN None ELSE Awaits[w]]
                /\ UNCHANGED Watched
          \/ \E h \in Hooks, w \in Waiters :
                /\ Awaits[w] = None /\ Awaits' = [Awaits EXCEPT ![w] = h]
                /\ UNCHANGED <<Watched, Due>>
          \/ \E s \in Signals :
                /\ Due' = Due \cup {h \in Hooks : Watched[h] = s}
                /\ UNCHANGED <<Watched, Awaits>>
          \/ /\ Watched' = [h \in Hooks |-> None] /\ Due' = {}
             /\ Awaits' = [w \in Waiters |-> None]

LEMMA ContractStepIs == ContractStep => [Contract!CNext]_Contract!cvars
<1> SUFFICES ASSUME ContractStep
             PROVE  [Contract!CNext]_Contract!cvars
  OBVIOUS
<1>1. CASE UNCHANGED <<Watched, Due, Awaits, Sound>>
  BY <1>1 DEF Contract!cvars, Watched, Due, Awaits
<1>2. CASE ~Sound'
  BY <1>2 DEF Contract!CNext, Contract!Break
<1>3. ASSUME Sound, Sound', NEW h \in Hooks, NEW s \in Signals,
             Watched[h] = None, Watched' = [Watched EXCEPT ![h] = s],
             UNCHANGED <<Due, Awaits>>
      PROVE  Contract!CNext
  <2>1. Contract!Watch(h, s)
    BY <1>3 DEF Contract!Watch, Watched, Due, Awaits
  <2> QED
    BY <1>3, <2>1 DEF Contract!CNext
<1>4. ASSUME Sound, Sound', NEW h \in Hooks,
             Watched' = [Watched EXCEPT ![h] = None],
             Due' \in {Due, Due \ {h}}, UNCHANGED Awaits
      PROVE  Contract!CNext
  <2>1. Contract!Unwatch(h)
    BY <1>4 DEF Contract!Unwatch, Watched, Due, Awaits
  <2> QED
    BY <1>4, <2>1 DEF Contract!CNext
<1>5. ASSUME Sound, Sound', NEW h \in Hooks, h \in Due, Due' \in {Due, Due \ {h}},
             Awaits' = [w \in Waiters |-> IF Awaits[w] = h THEN None ELSE Awaits[w]],
             UNCHANGED Watched
      PROVE  Contract!CNext
  <2>1. Contract!Report(h)
    BY <1>5 DEF Contract!Report, Watched, Due, Awaits
  <2> QED
    BY <1>5, <2>1 DEF Contract!CNext
<1>6. ASSUME Sound, Sound', NEW h \in Hooks, NEW w \in Waiters,
             Awaits[w] = None, Awaits' = [Awaits EXCEPT ![w] = h],
             UNCHANGED <<Watched, Due>>
      PROVE  Contract!CNext
  <2>1. Contract!Await(w, h)
    BY <1>6 DEF Contract!Await, Watched, Due, Awaits
  <2> QED
    BY <1>6, <2>1 DEF Contract!CNext
<1>7. ASSUME Sound, Sound', NEW s \in Signals,
             Due' = Due \cup {h \in Hooks : Watched[h] = s},
             UNCHANGED <<Watched, Awaits>>
      PROVE  Contract!CNext
  <2>1. Contract!Change(s)
    BY <1>7 DEF Contract!Change, Watched, Due, Awaits
  <2> QED
    BY <1>7, <2>1 DEF Contract!CNext
<1>8. ASSUME Sound, Sound', Watched' = [h \in Hooks |-> None], Due' = {},
             Awaits' = [w \in Waiters |-> None]
      PROVE  Contract!CNext
  <2>1. Contract!Restart
    BY <1>8 DEF Contract!Restart, Watched, Due, Awaits
  <2> QED
    BY <1>8, <2>1 DEF Contract!CNext
<1> QED
  BY <1>1, <1>2, <1>3, <1>4, <1>5, <1>6, <1>7, <1>8 DEF ContractStep

(* Every step is a step of the contract, or one it does not see.           *)
LEMMA StepImplements == IInv /\ IInv' /\ [Next]_vars => ContractStep
<1> SUFFICES ASSUME IInv, IInv', [Next]_vars
             PROVE  ContractStep
  OBVIOUS
<1>1. CASE UNCHANGED vars
  BY <1>1 DEF vars, cvars, svvars, simvars, history, Watched, Due, Awaits, Sound,
              Listed, ContractStep
<1>2. CASE ~Sound'
  BY <1>2 DEF ContractStep
<1>3. CASE ~Sound /\ Sound'
  <2>1. Next => (fatal => fatal')
    BY DEF Next
  <2>2. [Next]_vars => (damaged => damaged')
    BY DEF Next, create_probe, create_refused, probes_run, set_enable_callback,
           Change, value_change_callback, toggle_notifier, wake, process_next,
           process_ends, polling_wait_for_value, waiter_wakes, Check, reset,
           vars, history
  <2> QED
    BY <1>3, <2>1, <2>2 DEF Sound, vars
<1>4. CASE Next /\ Sound /\ Sound'
  <2>1. ASSUME NEW h \in Hooks, NEW s \in Signals, NEW enable \in BOOLEAN,
               create_probe(h, s, enable)
        PROVE  ContractStep
    <3>1. /\ h \notin allHooks /\ allHooks' = allHooks \cup {h}
          /\ obj' = [obj EXCEPT ![h] = s] /\ cb' = [cb EXCEPT ![h] = enable]
          /\ UNCHANGED <<changeList, waiter, firing, fatal, damaged>>
      BY <2>1 DEF create_probe, allocate_hook_record, simvars
    <3>2. Watched[h] = None
      BY <3>1 DEF Watched
    <3>3. UNCHANGED <<Due, Awaits, Sound>>
      BY <3>1 DEF Due, Listed, Awaits, Sound
    <3>4. CASE enable
      <4>1. Watched' = [Watched EXCEPT ![h] = s]
        BY <3>1, <3>4 DEF Watched, IInv, TypeOK
      <4> QED
        BY <1>4, <3>2, <3>3, <4>1 DEF ContractStep
    <3>5. CASE ~enable
      <4>1. UNCHANGED Watched
        BY <3>1, <3>5 DEF Watched, IInv, TypeOK
      <4> QED
        BY <3>3, <4>1 DEF ContractStep
    <3> QED
      BY <3>4, <3>5
  <2>2. ASSUME NEW s \in NotIntegral, create_refused(s)
        PROVE  ContractStep
    BY <1>4, <2>2 DEF create_refused, Sound
  <2>3. CASE probes_run \/ wake \/ process_ends
    BY <1>4, <2>3 DEF probes_run, wake, process_ends, cvars, simvars, history,
                 Watched, Due, Listed, Awaits, Sound, ContractStep
  <2>4. ASSUME NEW h \in Hooks, NEW enable \in BOOLEAN, set_enable_callback(h, enable)
        PROVE  ContractStep
    <3>1. /\ h \in allHooks /\ cb' = [cb EXCEPT ![h] = enable]
          /\ firing' = IF enable THEN firing ELSE firing \ {h}
          /\ UNCHANGED <<allHooks, obj, changeList, waiter, fatal, damaged>>
      BY <2>4 DEF set_enable_callback, svvars
    <3>2. UNCHANGED <<Awaits, Sound, Listed>>
      BY <3>1 DEF Awaits, Sound, Listed
    <3>3. CASE ~enable
      <4>1. Watched' = [Watched EXCEPT ![h] = None]
        BY <3>1, <3>3 DEF Watched, IInv, TypeOK
      <4>2. Due' \in {Due, Due \ {h}}
        BY <3>1, <3>2, <3>3 DEF Due
      <4> QED
        BY <1>4, <3>2, <4>1, <4>2 DEF ContractStep
    <3>4. CASE enable /\ cb[h]
      <4>1. UNCHANGED <<Watched, Due>>
        BY <3>1, <3>2, <3>4 DEF Watched, Due, IInv, TypeOK
      <4> QED
        BY <3>2, <4>1 DEF ContractStep
    <3>5. CASE enable /\ ~cb[h]
      <4>1. Watched[h] = None /\ obj[h] \in Signals
        BY <3>1, <3>5 DEF Watched, IInv, RecordsOK
      <4>2. Watched' = [Watched EXCEPT ![h] = obj[h]]
        BY <3>1, <3>5 DEF Watched, IInv, TypeOK
      <4>3. UNCHANGED Due
        BY <3>1, <3>2, <3>5 DEF Due
      <4> QED
        BY <1>4, <3>2, <4>1, <4>2, <4>3 DEF ContractStep
    <3> QED
      BY <3>3, <3>4, <3>5
  <2>5. ASSUME NEW s \in Signals, NEW v \in Values, Change(s, v)
        PROVE  ContractStep
    <3>1. /\ firing' = firing \cup {h \in allHooks : cb[h] /\ obj[h] = s}
          /\ UNCHANGED <<allHooks, obj, cb, changeList, waiter>>
      BY <2>5 DEF Change, cvars, svvars
    <3>2. {h \in allHooks : cb[h] /\ obj[h] = s} = {h \in Hooks : Watched[h] = s}
      BY PollingAssumption DEF Watched, IInv, TypeOK
    <3>3. Due' = Due \cup {h \in Hooks : Watched[h] = s}
      BY <3>1, <3>2 DEF Due, Listed
    <3>4. UNCHANGED <<Watched, Awaits>>
      BY <3>1 DEF Watched, Awaits
    <3> QED
      BY <1>4, <3>3, <3>4 DEF ContractStep
  <2>6. ASSUME NEW h \in Hooks, value_change_callback(h)
        PROVE  ContractStep
    <3>1. /\ h \in firing /\ firing' = firing \ {h}
          /\ changeList_pushIfNeeded(h)
          /\ UNCHANGED <<allHooks, obj, cb, waiter>>
      BY <2>6 DEF value_change_callback
    <3>2. Listed' = Listed \cup {h}
      <4>1. h \in allHooks /\ ListOK /\ changeList \in Seq(Hooks)
        BY <1>4, <3>1 DEF IInv, RecordsOK, TypeOK
      <4>2. CASE on_changeList[h]
        BY <3>1, <4>1, <4>2 DEF changeList_pushIfNeeded, ListOK, Listed
      <4>3. CASE ~on_changeList[h]
        <5>1. changeList' = <<h>> \o changeList
          BY <3>1, <4>3 DEF changeList_pushIfNeeded
        <5>2. ListOf(changeList') = ListOf(changeList) \cup {h}
          BY <4>1, <5>1, PushList
        <5> QED
          BY <5>2 DEF Listed, ListOf
      <4> QED
        BY <4>2, <4>3
    <3>3. UNCHANGED <<Watched, Due, Awaits>>
      BY <3>1, <3>2 DEF Watched, Due, Awaits
    <3> QED
      BY <1>4, <3>3 DEF ContractStep
  <2>7. ASSUME NEW h \in Hooks, process_next(h)
        PROVE  ContractStep
    <3>1. /\ changeList # <<>> /\ h = Head(changeList)
          /\ changeList' = Tail(changeList)
          /\ waiter' = [w \in Waiters |->
                IF waiter[w].at = "waiting" /\ waiter[w].hook = h
                THEN [waiter[w] EXCEPT !.at = "released"] ELSE waiter[w]]
          /\ UNCHANGED <<allHooks, obj, cb, firing>>
      BY <2>7 DEF process_next, uvm_polling_get_newest_entry, releaseWaiters, simvars
    <3>2. h \in Listed /\ Listed' = Listed \ {h}
      <4>1. Distinct(changeList) /\ changeList \in Seq(Hooks)
        BY <1>4 DEF IInv, ListOK, TypeOK
      <4>2. /\ h \in ListOf(changeList)
            /\ ListOf(Tail(changeList)) = ListOf(changeList) \ {h}
        BY <3>1, <4>1, PopList
      <4> QED
        BY <3>1, <4>2 DEF Listed, ListOf
    <3>3. h \in Due /\ Due' \in {Due, Due \ {h}}
      BY <3>1, <3>2 DEF Due
    <3>4. Awaits' = [w \in Waiters |-> IF Awaits[w] = h THEN None ELSE Awaits[w]]
      <4>1. ASSUME NEW w \in Waiters
            PROVE  Awaits'[w] = IF Awaits[w] = h THEN None ELSE Awaits[w]
        <5>1. waiter[w] \in Wait /\ h # None
          BY PollingAssumption DEF IInv, TypeOK, Wait
        <5>2. CASE waiter[w].at = "waiting" /\ waiter[w].hook = h
          <6>1. waiter'[w].at = "released"
            BY <3>1, <5>1, <5>2 DEF Wait
          <6> QED
            BY <5>2, <6>1 DEF Awaits
        <5>3. CASE ~(waiter[w].at = "waiting" /\ waiter[w].hook = h)
          <6>1. waiter'[w] = waiter[w]
            BY <3>1, <5>3
          <6> QED
            BY <5>1, <5>3, <6>1 DEF Awaits
        <5> QED
          BY <5>2, <5>3
      <4> QED
        BY <4>1 DEF Awaits
    <3>5. UNCHANGED Watched
      BY <3>1 DEF Watched
    <3> QED
      BY <1>4, <3>3, <3>4, <3>5 DEF ContractStep
  <2>8. ASSUME NEW w \in Waiters, NEW h \in allHooks, NEW exp \in Values,
               waiter[w].at \in {"idle", "released"}, Check(w, h, exp)
        PROVE  ContractStep
    <3> DEFINE waits == [at |-> "waiting", hook |-> h, exp |-> exp]
    <3>1. /\ waiter' = [waiter EXCEPT ![w] = IF value[obj[h]] = exp THEN Idle ELSE waits]
          /\ UNCHANGED <<allHooks, obj, cb, changeList, firing, fatal, damaged>>
      BY <2>8 DEF Check, cvars, simvars, history
    <3>2. UNCHANGED <<Watched, Due, Sound>> /\ Awaits[w] = None
      BY <2>8, <3>1 DEF Watched, Due, Listed, Sound, Awaits
    <3>3. /\ \A u \in Waiters : u # w => waiter'[u] = waiter[u]
          /\ waiter'[w] = IF value[obj[h]] = exp THEN Idle ELSE waits
      BY <3>1 DEF IInv, TypeOK
    <3>4. CASE value[obj[h]] = exp
      <4>1. UNCHANGED Awaits
        BY <2>8, <3>3, <3>4 DEF Awaits, Idle
      <4> QED
        BY <3>2, <4>1 DEF ContractStep
    <3>5. CASE value[obj[h]] # exp
      <4>0. waiter'[w].at = "waiting" /\ waiter'[w].hook = h
        BY <3>3, <3>5
      <4>1. Awaits' = [Awaits EXCEPT ![w] = h]
        BY <3>3, <4>0 DEF Awaits
      <4>2. h \in Hooks
        BY DEF IInv, TypeOK
      <4> QED
        BY <1>4, <3>2, <4>1, <4>2 DEF ContractStep
    <3> QED
      BY <3>4, <3>5
  <2>9. ASSUME NEW w \in Waiters, waiter_wakes(w)
        PROVE  ContractStep
    <3>1. waiter[w].hook \in allHooks /\ waiter[w].exp \in Values
      BY <2>9 DEF waiter_wakes, IInv, RecordsOK, TypeOK
    <3> QED
      BY <2>8, <2>9, <3>1 DEF waiter_wakes
  <2>10. CASE reset
    <3>1. /\ allHooks' = {} /\ firing' = {} /\ waiter' = [w \in Waiters |-> Idle]
          /\ changeList' = changeList /\ damaged' = (damaged \/ changeList # <<>>)
      BY <2>10 DEF reset, free_mem_structures
    <3>2. changeList' = <<>>
      BY <1>4, <3>1 DEF Sound
    <3>3. Watched' = [h \in Hooks |-> None] /\ Awaits' = [w \in Waiters |-> None]
      BY <3>1 DEF Watched, Awaits, Idle
    <3>4. Due' = {}
      BY <3>1, <3>2 DEF Due, Listed
    <3> QED
      BY <1>4, <3>3, <3>4 DEF ContractStep
  <2>11. ASSUME NEW w \in Waiters, NEW h \in Hooks, NEW exp \in Values,
                polling_wait_for_value(w, h, exp)
         PROVE  ContractStep
    BY <2>8, <2>11 DEF polling_wait_for_value
  <2> QED
    BY <1>4, <2>1, <2>2, <2>3, <2>4, <2>5, <2>6, <2>7, <2>9, <2>10, <2>11 DEF Next
<1> QED
  BY <1>1, <1>2, <1>3, <1>4

(* Whatever signals change when, whatever is disabled or reset: a probe is *)
(* reported only changes of its signal, none of them is forgotten, and a   *)
(* report releases exactly who waits for it (the safety part of            *)
(* ImplementsContract; its liveness is checked by TLC).                    *)
THEOREM RefinesContract == Spec => Contract!CSpec
<1>1. Init => Contract!CInit
  BY DEF Init, Contract!CInit, Listed, Idle, Sound
<1>2. IInv /\ IInv' /\ [Next]_vars => [Contract!CNext]_Contract!cvars
  BY StepImplements, ContractStepIs
<1> QED
  BY <1>1, <1>2, Invariant, PTL DEF Spec, Contract!CSpec
================================================================================
