# uvm-verilator: a verification project in TLA+

The repository is the UVM 1800.2 base class library: SystemVerilog classes that
test benches extend, with C code underneath for the simulators' interfaces. This
directory holds models of the parts of it that coordinate concurrent processes,
the TLC runs that check them on small instances, and TLAPS proofs of theorems
about them for every instance. Paths below are relative to the repository;
`seq/` stands for `src/seq/`, and so on.

SystemVerilog processes interleave only where they wait: a function, and a task
between two waits, runs without interruption. The models use this throughout:
one action is one such stretch of code, whatever it calls included. Where a
stretch is a loop or a recursion that the model takes step by step, nothing else
is enabled until it has ended.

## 1. Inventory

| Part | State | Operations | Talks to | What is hard | What makes it right |
|---|---|---|---|---|---|
| Objections, `base/uvm_objection.svh` | counts per source and per ancestor, scheduled and forked contexts, drains, flags | raise, drop, clear, wait_for, set_drain_time, set_propagate_mode; a background process forks drains | phases wait for all dropped; sequences, reports, heartbeat raise; callbacks of components | a raise that meets a drop or a drain on its way up the tree, in any of its stages | totals are exact; a drain at the top means that nobody objects; whoever waits wakes |
| Sequencer arbitration, `seq/uvm_sequencer*.svh`, `seq/uvm_sequence_base.svh` | request queue, granted requests, lock list, registered sequences, item FIFO, driver flags | start, kill, lock, grab, unlock, start_item, finish_item; get_next_item, try_next_item, get, peek, item_done; stop_sequences | sequences on one side, a driver on the other, a FIFO of depth 1 between | kills and ends at any point of a handshake, zombies, nested locks, relevance that changes, mixed driver calls | locks are exclusive, no lock or request outlives its sequence, every request and item is served once |
| Responses of sequences | response queue of depth 8, waiters by transaction id | put_response, get_response | driver, sequences | overflow; a waiter that compares sizes | no response is lost or given twice |
| Phase engine, `base/uvm_phase*.svh` | graph of phases, their states, jump requests, one objection per phase | execute, ready_to_end, jump, sync, kill | objections, components, sequencers' default sequences | siblings that end together, raises at the last moment, jumps, timeout | a phase starts after its predecessors and ends once, never under an objection |
| Events, barriers, heartbeat | event, waiters counted, threshold | trigger, wait, reset, cancel | any process | counts that are copied, resets with and without wake-up | nobody waits for a trigger that has been |
| TLM FIFOs and channels, `tlm1/` | mailbox, pending gets | put, get, peek, try_, can_, flush | ports, analysis ports | several blocked processes, killed getters | order kept, nothing lost or invented |
| Ports, exports, sockets | connections | connect, resolve | components | resolution of chains | the right number of implementations |
| Register layer, `reg/` | values per field (mirrored, desired), semaphore, busy and in-progress flags; regions of memories | read, write, peek, poke, mirror, predict, update; request and release of regions | sequencer, adapters, predictors, backdoor | accesses of several processes, a killed owner of the semaphore; boundaries of regions | mirror follows the device; accesses do not overlap; regions are disjoint |
| HDL backdoor, `dpi/uvm_hdl*` | the design's bits and what is forced; handles of the simulator's interface; a static flag in Questa | check_path, read, deposit, force, release, release_and_read, in a C file per simulator; the task uvm_hdl_force_time | register backdoors; the simulator (VPI, FLI, VHPI, MHPI) | words and part selects, objects wider than the vector, every return of every function | reads and writes are exact and touch nothing else; memory and handles are kept; forces hold |
| HDL polling, `dpi/uvm_hdl_polling.c`, `base/uvm_hdl_polling.svh` | probes, list of changed probes, notifier bit, process that serves the list | create, enable, wait for a change or value; callbacks of the simulator | the simulator's callbacks and reset; waiting processes | toggles while the process works, callbacks that are late, reset | nobody sleeps through a change |
| Regular expressions and their cache, `dpi/uvm_regex.*`, `base/uvm_*cache.svh` | static buffer, compiled expressions, hash and linked list | match, glob conversion; put, get, evict, flush, set_max_size | configuration and resource lookups | list ends, ownership across the language border, lengths counted in advance | a match means what the glob means; list, hash and heap agree |
| Callbacks, resources, factory | queues, pools by name and type with precedence, overrides | add, delete, iterate, set, get, override | everything | change during iteration, precedence, override chains | the two views of each structure agree |
| Reporting, root, recording, policies, command line | counters, handlers, files, strings | report, run_test, print, pack, compare | everything | little: sequential, or conversions of data | - |

PROJECT.json lists the components with their files and status, and the hazards
of the code at their lines.

## 2. Modules

| Module | Role |
|---|---|
| `Sums` | the sum of a function over a set, by a fold |
| `SumTheorems` | its algebra: proved lemmas |
| `ObjectionContract` | what an objection promises its users: counts per source, one "all dropped" |
| `Objection` | `uvm_objection` in detail |
| `MCObjection` | its instances: a chain and a tree of objects |
| `ObjectionProofs` | proofs about `Objection` for every finite tree |
| `ObjectionRefinement` | more of them: drains, and the refinement of the contract |
| `Sequencer` | arbitration, locks, item handshake, kills |
| `MCSequencer` | its instances: two sequences, a third below one of them, one or two processes each |
| `SequencerProofs` | proofs about `Sequencer` for every tree of sequences: locks, types, queues, requests |
| `SequencerDriver` | more of them: the driver's choices, its sleep, the item handshake, its wait at the FIFO |
| `PollingContract` | what polling promises: every change of a watched signal is reported |
| `Polling` | probes, callbacks, the list, the notifier, waiters, reset |
| `MCPolling` | its instance: two probes on one or two signals, one waiter |
| `PollingProofs` | proofs about `Polling` for any probes, signals and waiters, with the refinement of the contract |
| `HdlObjects` | what the C files of the backdoor have in common: objects, paths, vectors, the simulator's operations |
| `HdlVerilator`, `HdlQuesta`, `HdlXcelium`, `HdlVcs` | the calls as each C file implements them (`HdlVcs` with and without the macro VCSMX) |
| `HdlBackdoor` | composes the five builds with a design that goes on driving and with uvm_hdl_force_time |
| `MCHdlBackdoor` | its instance: a register, a wire, a VHDL signal, a wide object, an array |
| `HdlBackdoorProofs` | proofs about `HdlBackdoor` with Verilator for any objects, widths and paths |
| `Regex` | conversion of globs in the static buffer; what the C library's matcher does |
| `RegexCache` | matching with and without the cache; the least-recently-used cache |
| `MCRegex` | its instance: expressions and globs at the edges |
| `RegexCacheProofs` | proofs about `RegexCache` for any expressions, strings, nodes and addresses |

### Objection

`RaiseObjection` and `DropObjection` are the calls of a component on its own
behalf; `m_raise` and `m_drop` are one level of the recursion up the tree. The
call under way is `walk`, and a drop that a drain propagates is the stage
`propagate` of `m_drain_proc`. The three places where `m_raise` looks for the
context of an object are `m_scheduled_list`, `m_forked_list` and `m_drain_proc`;
`forks` counts the processes that the background process has forked and that
have not run yet: each serves the *front* of the forked list when it runs, not
the context for which it was forked. A drain passes through the drain time, the
`all_dropped` callback and `wait fork`, each an action, so that other processes
may act in between. A total of 0 with an entry and no entry at all are
different in the code (`wait_for_total_count` tells them apart), hence
`m_total_keys`.

Abstractions: a drain time is any finite delay; callbacks do not call the
objection back; the trace and its messages are left out. Drops below zero are
fatal, as in the code, and end the behaviour.

### Sequencer

A process of a sequence moves through `pc`: idle, waiting for a grant or for a
lock, granted, waiting for its item. `arb_sequence_q`, `arb_completed` and
`lock_list` are those of the code; the identifier of a request is its kind and
its process (`PRELOCK` is the lock request that `wait_for_grant` queues in front
of its own request and for which nobody waits). `lock_list` counts the locks per
sequence: the order in the list is only read by `current_grabber`.

`m_update_lists` bumps a counter that every waiting process compares with a
copy. The model keeps what the comparison can tell: `woken`, the processes that
will find their request completed, and `list_changed`, for the driver. A process
that wakes and finds nothing waits again, which is a stutter.

The driver (`dpc`) goes from a call to `select`, where it waits for the NBA
region (`Settled`: every process that can run has run), to `scan`, one entry of
`m_choose_next_request` per step, and from there to `peek` (the item has to come
through the FIFO), to `try` (the same for `try_next_item`), to `wait`
(`m_wait_for_available_sequence`) or back. `select_process`, forked by
`m_safe_select_item`, awaits the granted process and chooses again when it died
before it sent: `Reselect`, with `first` false. `tries` counts the choices of
one `repeat (m_wait_for_sequences_count)`.

`Env` names what happens around the handshake: `kill()` of a sequence
("kill"), a single process of a running sequence killed ("disable_fork"),
`stop_sequences`, sequences that change their `is_relevant()` ("relevance"),
and bodies that do not send within the NBA region ("slow"). A sequence that is
started again is registered anew: what carries the identifiers of its former
processes becomes `Orphan`.

Abstractions: items are identified with the processes that send them; the modes
WEIGHTED and USER choose some available request, as RANDOM does, and
STRICT_RANDOM is not modelled; responses, recording, default sequences,
transaction identifiers given by the user and `set_arbitration` during the run
are left out. A process of a sequence ends only with its sequence or by a kill;
a forked process that returns while a `PRELOCK` of its own is queued is not
distinguished from one that stays.

### Polling

A record of the C code is its address; `changeList`, `on_changeList` and
`notifier` are the C variables, which a reset does not set anew, and the process
of the forever loop is asleep, woken or at work. A change of a signal makes the
callbacks of its probes due (`firing`); `value_change_callback` is one of them,
whole: it pushes the record if it is not listed and toggles the bit if the list
was empty. `process_next` serves one entry. A toggle while the process works is
seen by nobody: the loop over the list must make up for it. Changes may come
between two entries, since user callbacks may deposit. A probe is created
enabled or not; `registered` is the flag of its object: without it a wait for a
change or a value returns at once. `found` says whether the notifier can be
located, fixed for a run.

Abstractions: values are few; conversions of values and the getters of a probe,
which change nothing, are left out; keys of probes are identified with records.
`lapsed` (probes disabled, whose users are promised nothing) and `damaged`
(a handle freed by a reset was used) are history.

### HDL backdoor

A call is a function from the record `m` (the object, its bits, what is forced,
the caller's vector, handles held, what went wrong) to the record it leaves, for
each C file; the operators carry the functions' names. A call is one action:
the C code does not give control away. `Call` picks the outcome of what the code
leaves undefined: what an uninitialised or foreign word holds, what an
uninitialised `language` is, whether the simulator writes in place. The result
stays in `call` until the caller takes it, and ends the behaviour when memory
was touched that must not be. `Drive` is the design. `force_time_begins` and
`force_time_ends` are uvm_hdl_force_time around its delay, during which others
call too.

Abstractions: bits are 0, 1, x; words are short, and the loops over chunks and
characters are functions of the index, with the word order of the code (for
example `FillFromLeft`, where characters fill word 0 first). The simulator's own
operations are external: a deposit on a forced bit does nothing, a released wire
goes back to its driver. The build VCSMX_FAST_UVM does not compile and is left
out, as are `uvm_memory_load` and `uvm_hdl_read_string`, which only report an
error.

### Regular expressions and cache

`uvm_re_deglobbed` is written as the function counts: `len` is `glob_len`, and
text is what the buffer holds. What `regcomp` and `regexec` do with the
characters that occur is in the external part of `Regex`: `regexec` computes,
from the end of the expression, the places of the string where the rest of it
matches. `GlobMatches` is the reference that no code shares; it is computed in
the same form over the glob itself. In `RegexCache` a node of the list is a record
with `prev` and `next` that are addresses or null; the use of a null node is a
fatal error of the simulator (`broken`). A compiled expression is a member of
`Handles` on the heap of the C code. A node is reused when nothing refers to it,
as the language's garbage collector does it; a match that has to compile needs
a free node and a free address (a bound).

Abstractions: `put` of a key that is there is not modelled (`uvm_re_match` puts only what it
has not found);
the order of keys in `flush` is left open; matching without DPI
(UVM_REGEX_NO_DPI) is left out.

## 3. Runs

All states of each instance are explored.

| Run | Question | Instance | Result |
|---|---|---|---|
| `objection_chain` | are totals exact and contexts in one place, whatever a raise cancels? | 3 objects in a chain, up to 2 objections each | `TypeOK`, `Conservation`, `OneContext`, `NoStrandedContext`, `EntriesDrain`, `NoAncestorBelowZero` hold |
| `objection_tree` | does the top drain only when nobody objects, with siblings and mode changes; does the objection implement its contract; do drains end and waiters wake? | 4 objects, two of them below one; fair | `AllDroppedSafe`, `DrainsBottomUp`, `ImplementsContract`, `DrainsComplete`, `TopWaiterWakes` hold |
| `sequencer_tree` | locks, requests, completions and the driver's wait at the FIFO under kills, with get_next_item, peek and get in any order | parent with a child, and one more | `TypeOK`, `LocksNested`, `NoLostRequest`, `CompletionSeen`, `DriverFed` hold |
| `sequencer_strict` | does STRICT_FIFO grant what is available, and the first of the highest; does the driver sleep only when nothing is; one item at a time with try_next_item, slow and killed sequences, nested locks and changing relevance | 2 sequences, 2 locks each, 2 priorities, 2 tries | `OneInFlight`, `DriverAwake`, `StrictOrder`, `GrantsAvailable` hold |
| `sequencer_live` | is every request, lock and item served? | 2 sequences, fair, 2 tries | `Served`, `LockServed`, `ItemServed` hold |
| `sequencer_faults` | what is left behind by processes killed inside their calls and by stop_sequences? | 2 sequences, one with 2 processes, RANDOM | `NothingLeftBehind` holds |
| `polling` | is any change slept through, whatever the order of callbacks, service and calls, and after a reset? does it implement its contract? do waiters return? | 2 probes, 2 signals, a name that cannot be probed, 1 waiter, 3 changes, 1 reset; fair | `TypeOK`, `ListExact`, `NoMissedWakeup`, `NoStrandedWaiter`, `ImplementsContract`, `WaiterReturns` hold |
| `hdl` | are reads and writes exact, framed and safe in each of the five builds; do forces hold? | 5 objects of 1 to 5 bits, words of 2, vectors of 4; paths inside, outside and half inside | `ReadExact`, `WriteExact`, `FrameKept`, `MemorySafe`, `HandlesReleased`, `ForceHolds` hold |
| `regex` | does a match mean what the glob means, cached or not; do list, hash and heap agree; is the buffer kept? | 3 expressions in the cache, 5 more without it, sizes 0 to 2, buffer of 12 characters | `ListExact`, `HandlesExact`, `ResultRight`, `BufferKept` hold |
| `sequencer_try` | may the driver go on after try_next_item has returned null? | 2 sequences, kills | `DriverFed` violated |
| `sequencer_zombie` | is what a choice grants available when a process is killed alone? | 2 sequences, one with 2 processes, RANDOM | `GrantsAvailable` violated |
| `regex_evict` | does shrinking the cache evict the least recently used? | 3 expressions | `EvictsLeastRecent` violated |

Several properties of the backdoor hold for some builds only, and say so where
they are defined: each exception is a thing one of the C files does, and section
4 lists them.

Bounds. Two objections per object are enough for a raise to cancel less than,
exactly, and more than what a context holds back, the three branches of
`m_raise`; three levels put a drain between the raiser and the top. Two forked
processes show that each serves the front of the list rather than its own
context. In the sequencer every rule relates at most a holder, a waiter and a
relative of one of them, which three sequences provide; one process per
sequence gives all the interleavings between sequences, and a second one in the
same sequence gives those that matter for zombies. Priorities are compared
only, so two suffice. `MaxLocks` 2 lets a sequence hold a lock twice. Requests
need no bound: a process has one at a time.

Deadlock is checked in the runs of the sequencer that expect to pass, apart
from `sequencer_faults`, where a fatal error may end the simulation, as it may
in the runs of the objection (a drop of what was not raised) and of polling (an
object that cannot be probed). In `hdl` and `regex` a behaviour ends where the C
code has touched foreign memory or a null node was used. Those runs say
`CHECK_DEADLOCK FALSE`, and so do the runs that stop at a violation.

`sequencer_strict` and `sequencer_faults` are two runs because the second has
processes killed one by one, in which case a choice may go wrong
(`sequencer_zombie`). `GrantsAvailable` is checked with STRICT_FIFO, whose loop
collects indices; FIFO takes an entry as soon as it meets it. `sequencer_tree`
leaves try_next_item out, with which `DriverFed` is false (`sequencer_try`).

For polling, two probes can be on one signal or on two, and three changes let a
value change, change back and change again while the first change is reported;
852 880 states.
For the backdoor, words of 2 bits and vectors of 4 put every boundary within
reach: objects smaller than a word, of a word, of a word and a half, of the
whole vector less one, and wider; 968 389 states. The buffer of the expressions
is as short as it takes for a glob to fill it; `MaxStale` bounds how long the
cache goes on after its `m_end` is wrong, `Nodes` and `Handles` how many there
are at a time, more than the expressions need. 194 021 states.

Fairness. The simulator runs every process that is ready, and delays end: weak
fairness of the background process, the forked processes and their stages, of a
process whose wait is over, and of the driver's next step. A driver's
`run_phase` is a loop around `get_next_item` and `item_done`, hence weak
fairness of `DriverStep` as a whole. The simulator of `Polling` calls the
callbacks it owes and runs the process when it is woken. `WaiterReturns` needs
that changes end at some time: the list is served from its newest end, and a
signal that keeps changing could starve an older entry. Nobody is obliged to raise, drop, ask, lock or unlock. A granted process
sends its item ("finish_item must be called after start_item with no delays").

The properties `Served` and `LockServed` are conditional on what the code leaves
to its users: a request may wait while somebody holds a lock, or its sequence
declares itself irrelevant.

## 4. What the code does that its documentation does not say

Three are violation runs with a trace; PROJECT.json quotes the texts.

* `try_next_item` sets both flags with its grant and leaves them set when it
  returns null because the granted process was killed (uvm_sequencer.svh:274 and
  297). The next get_next_item reports that it was called twice, finds an item
  requested, and goes to the peek of the empty FIFO, where nobody was granted: it
  stays there whatever is requested later (`sequencer_try`).
* The loop of `m_choose_next_request` that meets a killed process takes its
  sequence out of the queue and leaves the indices it has collected as they are
  (uvm_sequencer_base.svh:676): the choice reads past the queue, or grants
  another entry, be it a lock or blocked (`sequencer_zombie`).
* When the last node of the cache is used it moves to the front and `m_end`
  stays at it; shrinking the cache then evicts the expression that was used last
  (`regex_evict`). `ListExact` holds up to that point, `HandlesExact` beyond it.

The rest are differences met while translating; the model has them, as guards or
as the exceptions of a property, and no run of their own.

Objection and sequencer:

* the propagation mode may change while the top drains (uvm_objection.svh:313
  and 317);
* when the holder of a lock is killed, nobody grants the lock that waits for it
  until the driver or another sequence calls the sequencer
  (uvm_sequencer_base.svh:1270);
* removing the zombie of one killed process removes the requests of its living
  siblings, which wait for ever, as the message SEQREQZMB announces
  (uvm_sequencer_base.svh:675): `NoLostRequest` is false with "disable_fork";
* the same removal takes the locks of the sequence out. On the last of its tries
  the loop may already have passed a request that one of these locks blocked;
  `m_wait_for_available_sequence` then takes its copy of the counter (826) after
  the change, and the driver sleeps although a request is available, until
  something else changes. With "disable_fork" added to `Env` of `sequencer_live`
  TLC finds `Served` violated so; in `GrantsAvailable` it is the part that a loop
  grants nothing only where nothing is available;
* a request of a process killed alone stays queued until the next choice or, if
  it is for a lock, the next `grant_queued_locks` comes across it
  (`NothingLeftBehind` says so), and what was granted to a killed process stays in
  `arb_completed` unless the driver clears it when it chooses again.

Polling (uvm_hdl_polling.c):

* a probed signal that changes at time 0, before the forked process has set up
  the notifier, is a fatal error (423), which the model reaches; the contract
  allows that the simulation stops;
* a reset frees the records and leaves the list and the notifier's handle as
  they are (288): what was listed is freed memory, and where the list is not
  empty the next change notifies nobody, although the scheme "avoids any risk of
  races whereby a notification might be missed" (454-456);
* uvm_hdl_signal_size reports the contents of an uninitialised buffer when the
  name is unknown (664-670);
* getValue32 yields an error for a chunk beyond the end of the vector, says its
  comment (97-99), and takes the last chunk instead (593-595).

Backdoor (the four C files):

* uvm_hdl_release_and_read of a part select in Questa does not return the value
  after the release: the release works on the path, which it cuts at its bracket,
  and the read that follows reads what the path names then
  (uvm_hdl_questa.c:927);
* none of Questa, Xcelium and VCS compares the width with the vector before a
  set; all read past a one-word local in uvm_hdl_release of a wide object;
* handles are leaked by VCS on success, by Questa in uvm_hdl_check_path and by
  Xcelium always;
* Questa and Xcelium do not look whether a put succeeded; a part select is
  written bit by bit, and keeps the bits before the failing one;
* Questa deposits where a bit or part of a VHDL signal is to be forced, and
  takes bit `rhs` of the vector for a single bit; `string_to_vecval` puts the
  left-most word first; a static flag stays set after a part select has failed, so
  that the next read does not clear the vector above the bits of its path (708;
  the properties compare the bits of the path);
* Xcelium frees the string of a VHDL signal inside the loop over its words, does
  not initialise `language`, and returns 0 from every release_and_read of a part
  select;
* VCS with VCSMX never reads in release_and_read, does not clear the top word in
  `get_mhdl`, and drops unknown bits and leading digits of the top word in
  `set_mhdl`;
* paths are copied to buffers of 128 or 256 characters, of which the model does
  not keep the length.

Expressions and cache:

* `put` evicts nothing, although uvm_lru_cache.svh:102-104 and
  uvm_cache.svh:142-144 say it does;
* the cache is keyed by the expression and not by whether it is a glob
  (`ResultRight` excepts it);
* nothing is counted for a glob that begins with `^` before its end, and two are
  taken from the length of `/` (`BufferKept` excepts both);
* `|`, `{` and a few others pass unescaped from a glob into the expression.

The objection and the sequencer behave in further ways that a reader of the
comments may not expect, which are listed as hazards: `get_objectors` lists
objects that have dropped everything; a lock is granted ahead of earlier
requests, because `grant_queued_locks` looks for the first unblocked lock and
not at the front of the queue; `try_next_item` after `peek` grants a second
request; `stop_sequences` empties the FIFO under the driver; a sequence
unregistered for a zombie runs on, unknown to `stop_sequences`.

## 5. Proofs

`tlapm` checks every step; nothing is assumed but the named ASSUMEs of the
modules, which TLC evaluates in every run.

`ObjectionProofs` (any finite tree, either propagation mode, any counts). The
assumption that matters is `TreeAssumption`: parents lead to `Top`. The
inductive invariant is `IInv`: `Conservation` (each total is the object's own
count and what its children have charged, where a charge includes what a
context holds back and what the call under way has yet to deliver),
`OneContext`, `WalkOK` (what the call under way may look like), `TopFlag` and
`NoAncestorBelowZero`. `Conservation` is not inductive alone: a raise subtracts
the count of a context it finds, so there must be exactly one, with nothing
counted beside it; and a propagated drop must not underflow, which is
`Conservation` again, at the parent. From it follow

* `TypeCorrect`, `ConservationCorrect`, `OneContextCorrect`;
* `NoAncestorBelowZeroCorrect`: the fatal error never hits the propagation of a
  legal drop;
* `AllDroppedSafeCorrect`: all dropped is announced at the top only while nobody
  objects: totals are zero from the top down (`AllZero`, which uses the tree
  assumption on the set of objects with something charged);
* `DrainsBottomUpCorrect`.

`ObjectionRefinement` adds

* `NoStrandedContextCorrect`: a forked context never outnumbers the processes
  that have been forked to serve one; each of these takes the front of the list;
* `EntriesDrainCorrect`: an entry that counts zero is there only while its drain
  is on the way. This needs `DrainForgets` (`EInv`): a drop that a drain
  propagates has already given up the entry of its object;
* `RefinesContract`, the safety part of `ImplementsContract`: every step is a
  step of `ObjectionContract` or a stutter. What the contract owes its users,
  an announcement, is in the detail a count anywhere or a drain of the top on its
  way (`Owed`), so each step up the tree and each stage of a drain must stutter;
  only the `all_dropped` stage of the top announces, when totals are zero.

`SequencerProofs` (any tree of sequences, any processes, every mode, every
failure in `Env` unless said otherwise). `Rank` and `Kept` say what taking
entries out of a queue leaves; `Draws` is what every such step has in common.

* `LocksExclusive`: two holders of locks are one above the other. `LocksInv`:
  the lock list is nested and counts; a lock is granted only when `is_blocked` is
  false, that is, every holder is the sequence or above it, and all other
  changes of the list take locks away.
* `SequencerTypes` is `TypeOK`, from `TypeInv`.
* `QueuesAlive` is `NothingLeftBehind`, for every failure in `Env`. From `QueueInv`:
  a request in the queue is of a process that waits for it or was killed alone,
  once per process and kind and not completed (a `PRELOCK`, for which nobody
  waits, only of a process that has begun); only a running sequence holds a
  lock; who is woken finds its request. And from `ScanClean`: the loop of
  `m_choose_next_request` meets no lock request of a killed process, since it
  begins with `grant_queued_locks` and nobody is killed or asks while it runs.
* `RequestsKept` is `NoLostRequest`: whoever waits is queued, or granted and woken
  (`AttendInv`). Hypothesis: no process is killed alone (`"disable_fork" \notin
  Env`). With such kills it is false, and TLC shows it: the removal of a zombie
  takes the requests of its living siblings.

`SequencerDriver` (the same generality, each theorem with the hypotheses under
which the property holds; TLC finds a counterexample without each of them):

* `OnlyAvailableGranted` (`GrantsAvailable`) and `StrictlyOrdered` (`StrictOrder`,
  for STRICT_FIFO): the loop of `m_choose_next_request` has collected exactly the
  available entries it has passed (`ScanOK`), because neither locks nor relevance
  nor the queue change under it; so it grants one of these, and grants nothing
  only when there is none. Hypothesis: no process is killed alone
  (`sequencer_zombie`).
* `DriverWakes` (`DriverAwake`): a driver asleep in
  `m_wait_for_available_sequence` has every request that may come to be granted
  covered by what it waits for (`AwakeInv`). Hypothesis as before.
* `OneItemInFlight` (`OneInFlight`) and `NoCompletionLost` (`CompletionSeen`): one
  invariant, `ItemInv`, since each part needs the others. `FlightInv`: at most
  one grant or item is out, and none when the driver looks for the next;
  `RequestedInv`: the flag that keeps the driver from looking is set meanwhile;
  `SeenInv`: a process whose item has left the FIFO finds its sequence named
  until the next choice. They hold for every kill. Hypotheses: nobody calls
  `stop_sequences`, which resets the flag under a driver that has its item, and
  a driver that has peeked does not call `try_next_item` (`TriesNoPeek`), which
  would have a second request granted.
* `DriverIsFed` (`DriverFed`): a driver at the FIFO waits for somebody who sends.
  `FedInv`: a call that finds `sequence_item_requested` set finds the item in the
  FIFO, and a call that selects grants a request, not a lock, of a process that
  waits for it or is gone, which `ScanOK` gives. Hypotheses: no `try_next_item`
  (`sequencer_try`), no `stop_sequences`, which empties the FIFO, and no process
  killed alone, after which a lock may be granted in place of a request.

`PollingProofs` (any sets of probes, signals, values and waiters, any number of
changes and resets): `TypeCorrect`, `ListExactCorrect`,
`NoMissedWakeupCorrect`, `NoStrandedWaiterCorrect`, and `RefinesContract`, which
is the safety part of `ImplementsContract`: each step maps to a step of
`PollingContract` or a stutter. The invariant joins the three properties with
what makes them inductive: a process exists while the notifier is in use
(`ProcessOK`), callbacks that are due and probes that are waited for are of
allocated records, and only disabled probes are without a callback
(`RecordsOK`). `NoStrandedWaiter` is the delicate one: a
change makes a callback due, a callback lists the probe, a service releases its
waiters, and in between the value may have changed again.

`HdlBackdoorProofs` (the build for Verilator; any objects, sizes, word size and
vector width, any paths and values, any drivers): `VerilatorReadExact`,
`VerilatorWriteExact`, `VerilatorFrameKept`, `VerilatorMemorySafe`,
`VerilatorHandlesReleased`, `VerilatorForceHolds`. They rest on lemmas about
the steps that the C files share: `ChunksHold` and `ChunksFit` (the words of n
bits hold them and end within the vector where n bits do, which needs that the
vector is a whole number of words: `HdlAssumption`), `PathIndices` (a path counts
its indices without gaps in either order), `PutLemma` and `CopyLemma` (what a
write and a copy change and keep). `VerilatorSet` and `VerilatorGet` follow each
return of the two functions; `CallEffect` says what the step of a call does, and
the invariant is then that of the force that is held. The hypothesis
`Builds = {"verilator"}` picks the build: the other C files do not have these
properties without the exceptions of section 4, and their loops over bits and
characters are functions over data that only TLC evaluates.

`RegexCacheProofs` (any expressions and strings over any characters, any length
and maximum, any nodes, addresses and sizes). The loops of this code are
recursive functions. `Induct` is induction over numbers stated for a set instead
of a predicate; `Recursion` and `Downward` say that a function computed from its
value before, or from its values after, exists. With these:

* `NoLeakNoDangling` (`HandlesExact`). `CacheInv` is that the cache is one of
  `GoodCaches`: hash and nodes agree (`HashOK`), links stay among nodes that have
  a key (`LinksOK`), and the heap has exactly what cached keys need (`HeapOK`).
  Each operation maps good caches to good caches, also when `m_end` is left
  behind; the loops of `evict_to_max` and `flush` keep any set of caches that a
  single eviction keeps (`KeptByEvict`).
* `ListIsExact` (`ListExact`). `ListInv`: as long as `stale` is 0, the nodes of
  `recent` are a chain in both directions with `m_begin` and `m_end` at its ends
  (`Chain`, `ListOK`). One lemma each says how an update, a put and an eviction
  link the chain without an element (`Moved`, `Added`, `Unlinked`); `Along` and
  `Kept` are then shown to compute the chain and its remains.
* `BufferIsKept` (`BufferKept`): what `glob_len` has counted, with the rest of the
  glob, bounds what has been written (`Room`), through every character.
* `MatchIsRight` (`ResultRight`), in three parts. A deglobbed text is `^`, the
  expansions of the characters and `$` (`DeglobText`), so each character of the
  glob has its place in it (`Layout`). At each such place, from the last one down,
  the places of the string where the rest of the expression matches are those
  where the rest of the glob does (`PlacesAt`, `LayoutMatches`). And the cache
  holds for each key what `uvm_re_comp` makes of it in the mode it was put with
  (`ModeInv`), so a hit answers as a miss would.

Model-checked only, and why:

* liveness, under fairness: `DrainsComplete`, `TopWaiterWakes`, `Served`,
  `LockServed`, `ItemServed`, `WaiterReturns`, and the fairness part of the two
  `ImplementsContract`. Temporal properties under fairness and ENABLED are out of
  the prover's reach;
* the properties of the backdoor for Questa, Xcelium and VCS, whose loops over
  bits and characters carry the exceptions of section 4.

Every other property that a passing run checks is stated by a theorem, under the
hypotheses listed here; the instances of the runs satisfy them.

## 6. Plan, and what is not modelled

Not modelled yet, in the order in which they would add most:

1. `PhaseHopper` over `ObjectionContract` and over `Objection`: predecessors,
   execution, ready_to_end, jumps, cleanup. Safety: no phase starts before its
   predecessors are done or ends under an objection; liveness: the run ends.
2. `SequenceResponses`: overflow and waiters by transaction id; the late
   indexing and the zero-time limit of `wait_for_relevant`.
3. `TlmFifo`, `Barrier` and events, heartbeat over the objection's callbacks.
4. `RegAccess`: semaphore, busy flag, mirror and prediction; `MemMam` with a
   proof that regions stay disjoint.
5. Callbacks, resource precedence, factory overrides, as pure structures against
   reference definitions; process guards.
6. Theorems: the backdoor of the builds other than Verilator, first
   `HandlesReleased` and `MemorySafe` for VCS, with their exceptions;
   `GrantsAvailable` with processes killed alone, up to the first stale index.

Not planned, since they hold no state that processes share or only convert data:
printing, packing, recording, text processing, the command line, ports and
sockets that only forward calls. PROJECT.json gives the reason for each part.
