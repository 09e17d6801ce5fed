------------------------------- MODULE RegexCache --------------------------------
(***************************************************************************)
(* uvm_re_match and uvm_glob_to_re (src/src/dpi/uvm_regex.svh) over the C  *)
(* code of Regex, with the cache of compiled expressions that              *)
(* UVM_ENABLE_RE_MATCH_CACHE switches on: src/src/base/uvm_regex_cache.svh,*)
(* a least-recently-used cache (uvm_lru_cache.svh): a hash by expression,  *)
(* whose nodes are also on a doubly linked list, the latest used first.    *)
(* Compiled expressions live on the heap of the C code until they are      *)
(* freed, which the cache does when it evicts one.                         *)
(***************************************************************************)
EXTENDS Regex, SequencesExt

CONSTANTS
    Builds,     \* {TRUE}: with the cache, {FALSE}: without
    Exprs,      \* bound: expressions and globs that the cache is used with
    Others,     \* those that are matched in a build without it, as well
    Strs,       \* strings that are matched
    Nodes,      \* bound: nodes of the list that can be there at a time
    Handles,    \* addresses of compiled expressions
    Sizes,      \* values that set_max_size is given
    InitialMax, \* 256
    MaxStale,   \* bound on stale
    null

ASSUME CacheAssumption ==
    /\ Builds \subseteq BOOLEAN
    /\ Exprs \cup Others \subseteq Seq(Chars) /\ Strs \subseteq Seq(Chars)
    /\ null \notin Nodes \cup Handles \cup Seq(Chars)
    /\ IsFiniteSet(Nodes) /\ IsFiniteSet(Exprs)
    /\ Sizes \cup {InitialMax} \subseteq Nat

VARIABLES
    Cached,     \* UVM_ENABLE_RE_MATCH_CACHE, which a build fixes
    m_hash,     \* the node of an expression, or null
    node,       \* key, data, prev and next of each node
    m_begin, m_end, m_max_size,
    compiled,   \* what is compiled at an address, or null
    broken,     \* "no", "null": a null node has been used, which is fatal,
                \* or "hangs": evict_to_max loops for ever
    call,       \* the call that has been made and its result, until the caller
                \* takes it
    recent,     \* history: the cached expressions, the latest used first
    mode,       \* history: whether a cached expression was compiled as a glob
    stale       \* history: the calls of the cache from the first hit on the
                \* last node on, which leaves m_end at it while it moves to
                \* the front

lru == <<m_hash, node, m_begin, m_end, m_max_size>>
vars == <<Cached, lru, compiled, broken, call, recent, mode, stale>>

NoNode == [key |-> null, data |-> null, prev |-> null, next |-> null]
NoCall == [op |-> "none", re |-> <<>>, str |-> <<>>, deglob |-> FALSE, hit |-> FALSE,
           ret |-> 0, ub |-> FALSE, text |-> <<>>]

Init ==
    /\ Cached \in Builds
    /\ m_hash = [e \in Exprs |-> null]
    /\ node = [n \in Nodes |-> NoNode]
    /\ m_begin = null /\ m_end = null
    /\ m_max_size = InitialMax
    /\ compiled = [h \in Handles |-> null]
    /\ broken = "no"
    /\ call = NoCall
    /\ recent = <<>>
    /\ mode = [e \in Exprs |-> FALSE]
    /\ stale = 0

----------------------------------------------------------------------------
(* uvm_lru_cache, as functions of its fields                               *)
(* c = [hash, node, begin, end, heap, broken].                             *)

Here == [hash |-> m_hash, node |-> node, begin |-> m_begin, end |-> m_end,
         heap |-> compiled, broken |-> broken]

keys(c) == {e \in Exprs : c.hash[e] # null}

(* Mutant: the node before is not joined to the node after.                *)
NotJoined(c, n) ==
    LET t == c.node[n]
        back == IF t.next = null THEN c.node
                ELSE [c.node EXCEPT ![t.next].prev = t.prev]
    IN  IF c.begin = n THEN c
        ELSE IF t.prev = null \/ c.begin = null THEN [c EXCEPT !.broken = "null"]
        ELSE [c EXCEPT !.node = [back EXCEPT ![n].next = c.begin, ![n].prev = null,
                                             ![c.begin].prev = n],
                       !.begin = n]

(* A node that is not the first becomes the first; m_end is left alone.    *)
m_update(c, n) ==
    LET t == c.node[n]
        out == [c.node EXCEPT ![t.prev].next = t.next]
        back == IF t.next = null THEN out ELSE [out EXCEPT ![t.next].prev = t.prev]
    IN  IF c.begin = n THEN c
        ELSE IF t.prev = null \/ c.begin = null THEN [c EXCEPT !.broken = "null"]
        ELSE [c EXCEPT !.node = [back EXCEPT ![n].next = c.begin, ![n].prev = null,
                                             ![c.begin].prev = n],
                       !.begin = n]

(* Nodes that something still refers to, and the others as new ones.       *)
Referenced(c) ==
    LET roots == ({c.hash[e] : e \in keys(c)} \cup {c.begin, c.end}) \ {null}
        more(S) == S \cup (({c.node[n].prev : n \in S} \cup {c.node[n].next : n \in S})
                              \ {null})
        reach[i \in 0..Cardinality(Nodes)] == IF i = 0 THEN roots ELSE more(reach[i - 1])
    IN  reach[Cardinality(Nodes)]

Collect(c) ==
    [c EXCEPT !.node = [n \in Nodes |-> IF n \in Referenced(c) THEN @[n] ELSE NoNode]]

(* put of an expression that is not there.  Nothing is evicted.            *)
put_new(c, e, data) ==
    LET n == CHOOSE x \in Nodes : x \notin Referenced(c)
        new == [key |-> e, data |-> data, prev |-> null, next |-> c.begin]
        with == [c.node EXCEPT ![n] = new]
    IN  [c EXCEPT !.node = IF c.begin = null THEN with
                           ELSE [with EXCEPT ![c.begin].prev = n],
                  !.begin = n,
                  !.end = IF c.begin = null THEN n ELSE @,
                  !.hash[e] = n]

(* Mutant: the compiled expression stays on the heap.                      *)
EvictKeeps(c, e) ==
    LET n == c.hash[e]
        t == c.node[n]
        front == IF c.begin = n THEN c.node ELSE [c.node EXCEPT ![t.prev].next = t.next]
        both == IF c.end = n THEN front ELSE [front EXCEPT ![t.next].prev = t.prev]
    IN  IF n = null THEN c
        ELSE [c EXCEPT !.hash[e] = null, !.node = both,
                       !.begin = IF @ = n THEN t.next ELSE @,
                       !.end = IF @ = n THEN t.prev ELSE @]

(* uvm_regex_cache::evict over uvm_lru_cache::evict: the key leaves the    *)
(* hash first, and the compiled expression is freed last.                  *)
evict(c, e) ==
    LET n == c.hash[e]
        t == c.node[n]
        front == IF c.begin = n THEN c.node ELSE [c.node EXCEPT ![t.prev].next = t.next]
        both == IF c.end = n THEN front ELSE [front EXCEPT ![t.next].prev = t.prev]
        gone == [c EXCEPT !.hash[e] = null]
    IN  IF n = null THEN c
        ELSE IF (c.begin # n /\ t.prev = null) \/ (c.end # n /\ t.next = null)
        THEN [gone EXCEPT !.broken = "null"]
        ELSE [gone EXCEPT !.node = both,
                          !.begin = IF @ = n THEN t.next ELSE @,
                          !.end = IF @ = n THEN t.prev ELSE @,
                          !.heap[t.data] = null]

(* Keys are evicted from the end of the list; an m_end that is not in the  *)
(* hash is evicted for ever.                                               *)
evict_to_max(c, max) ==
    LET Full(d) == max # 0 /\ Cardinality(keys(d)) > max /\ d.broken = "no"
        step(d) == IF ~Full(d) THEN d
                   ELSE IF d.end = null THEN [d EXCEPT !.broken = "null"]
                   ELSE IF d.hash[d.node[d.end].key] = null THEN [d EXCEPT !.broken = "hangs"]
                   ELSE evict(d, d.node[d.end].key)
        loop[i \in 0..Cardinality(Exprs)] == IF i = 0 THEN c ELSE step(loop[i - 1])
    IN  loop[Cardinality(Exprs)]

----------------------------------------------------------------------------
(* Actions.                                                                *)

(* No call is under way and the program has not ended.                     *)
Idle == broken = "no" /\ call = NoCall

Install(c) ==
    LET d == Collect(c) IN
    /\ m_hash' = d.hash /\ node' = d.node
    /\ m_begin' = d.begin /\ m_end' = d.end
    /\ compiled' = d.heap /\ broken' = d.broken

(* Count a call of the cache: does it leave m_end behind?                  *)
Counted(leaves) ==
    /\ stale < MaxStale
    /\ stale' = IF stale > 0 \/ leaves THEN stale + 1 ELSE 0

(* The elements of s that are in S, in their order (SelectSeq, in a form   *)
(* that the provers can open).                                             *)
Kept(s, S) ==
    LET kept[i \in 0..Len(s)] ==
            IF i = 0 THEN <<>>
            ELSE IF s[i] \in S THEN Append(kept[i - 1], s[i]) ELSE kept[i - 1]
    IN  kept[Len(s)]

Touch(e) == <<e>> \o Kept(recent, Exprs \ {e})

Left(c) == Kept(recent, keys(c))

Matches(rx, str) == IF regexec(rx, str) THEN 0 ELSE REG_NOMATCH

Answer(re, str, glob, hit, ret, ub) ==
    call' = [NoCall EXCEPT !.op = "match", !.re = re, !.str = str, !.deglob = glob,
                           !.hit = hit, !.ret = ret, !.ub = ub]

(* What uvm_re_compexec makes of an expression: nothing, with an error that*)
(* the caller reports, or a compiled expression.                           *)
uvm_re_comp(re, glob) ==
    LET s == stripped(re, glob) IN
    IF s.ok /\ ~s.over /\ regcomp_ok(s.text) THEN s.text ELSE null

uvm_re_compexec(re, str, glob) ==
    IF uvm_re_comp(re, glob) = null THEN REG_NOMATCH
    ELSE Matches(uvm_re_comp(re, glob), str)

(* Without the cache the expression is freed at once (uvm_re_compexecfree).*)
match_uncached(re, str, glob) ==
    /\ ~Cached
    /\ Answer(re, str, glob, FALSE, uvm_re_compexec(re, str, glob), stripped(re, glob).over)
    /\ UNCHANGED <<Cached, lru, compiled, broken, recent, mode, stale>>

(* The cache has an expression for re, compiled as a glob or not.          *)
match_hit(re, str, glob) ==
    /\ Cached /\ m_hash[re] # null
    /\ LET c == m_update(Here, m_hash[re])
           h == node[m_hash[re]].data
       IN  /\ Install(c)
           /\ IF c.broken # "no" THEN call' = NoCall
              ELSE Answer(re, str, glob, TRUE, Matches(compiled[h], str), FALSE)
    /\ Counted(m_hash[re] = m_end /\ m_begin # m_end)
    /\ recent' = Touch(re)
    /\ UNCHANGED <<Cached, m_max_size, mode>>

(* Otherwise it is compiled and put there.                                 *)
match_miss(re, str, glob) ==
    /\ Cached /\ m_hash[re] = null
    /\ Referenced(Here) # Nodes /\ \E h \in Handles : compiled[h] = null
    /\ Answer(re, str, glob, FALSE, uvm_re_compexec(re, str, glob), stripped(re, glob).over)
    /\ IF uvm_re_comp(re, glob) = null
       THEN UNCHANGED <<lru, compiled, broken, recent, mode>>
       ELSE LET h == CHOOSE x \in Handles : compiled[x] = null IN
            /\ Install([put_new(Here, re, h) EXCEPT !.heap[h] = uvm_re_comp(re, glob)])
            /\ recent' = Touch(re)
            /\ mode' = [mode EXCEPT ![re] = glob]
            /\ UNCHANGED m_max_size
    /\ Counted(FALSE)
    /\ UNCHANGED Cached

uvm_glob_to_re(glob) ==
    LET d == uvm_re_deglobbed(glob, TRUE) IN
    /\ call' = [NoCall EXCEPT !.op = "glob", !.re = glob, !.ret = IF d.ok THEN 1 ELSE 0,
                              !.ub = d.over, !.text = IF d.ok THEN d.text ELSE <<>>]
    /\ UNCHANGED <<Cached, lru, compiled, broken, recent, mode, stale>>

(* The user's calls of the cache.                                          *)
set_max_size(max) ==
    /\ Cached
    /\ m_max_size' = max
    /\ Install(evict_to_max(Here, max))
    /\ recent' = Left(evict_to_max(Here, max))
    /\ UNCHANGED <<Cached, call, mode>>
    /\ Counted(FALSE)

evict_key(e) ==
    /\ Cached /\ m_hash[e] # null
    /\ Install(evict(Here, e))
    /\ recent' = Left(evict(Here, e))
    /\ UNCHANGED <<Cached, m_max_size, call, mode>>
    /\ Counted(FALSE)

(* flush evicts every key of the hash; their order is left open.           *)
flush ==
    /\ Cached /\ keys(Here) # {}
    /\ \E order \in SetToSeqs(keys(Here)) :
        LET c[i \in 0..Len(order)] ==
                IF i = 0 THEN Here
                ELSE IF c[i - 1].broken # "no" THEN c[i - 1] ELSE evict(c[i - 1], order[i])
        IN  Install(c[Len(order)]) /\ recent' = Left(c[Len(order)])
    /\ UNCHANGED <<Cached, m_max_size, call, mode>>
    /\ Counted(FALSE)

(* The caller takes the result.                                            *)
returns ==
    /\ call' = NoCall
    /\ UNCHANGED <<Cached, lru, compiled, broken, recent, mode, stale>>

Next ==
    \/ ~call.ub /\ call # NoCall /\ returns
    \/ Idle /\
        \/ \E e \in Exprs \cup Others :
            \/ uvm_glob_to_re(e)
            \/ \E s \in Strs, glob \in BOOLEAN : match_uncached(e, s, glob)
        \/ \E e \in Exprs :
            \/ evict_key(e)
            \/ \E s \in Strs, glob \in BOOLEAN :
                \/ match_hit(e, s, glob)
                \/ match_miss(e, s, glob)
        \/ \E max \in Sizes : set_max_size(max)
        \/ flush

Spec == Init /\ [][Next]_vars

----------------------------------------------------------------------------
(* Properties.                                                             *)

(* The nodes from n on along next.                                         *)
Along(n) ==
    LET walk[i \in 0..Cardinality(Nodes)] ==
            IF i = 0 THEN IF n = null THEN <<>> ELSE <<n>>
            ELSE LET p == walk[i - 1]
                     x == IF p = <<>> THEN null ELSE node[p[Len(p)]].next
                 IN  IF x = null THEN p ELSE Append(p, x)
    IN  walk[Cardinality(Nodes)]

(* As long as no hit has moved the last node to the front, whatever was    *)
(* put, hit, evicted and flushed before, the list has the cached           *)
(* expressions by last use, both links agree along it, m_end is its last   *)
(* node, and the hash leads to its nodes                                   *)
(* (m_update, put and evict of uvm_lru_cache).                             *)
ListExact ==
    broken = "no" /\ stale = 0 =>
        LET l == Along(m_begin)
            n == Len(l)
        IN  /\ [i \in 1..n |-> node[l[i]].key] = recent
            /\ \A i \in 1..n :
                  /\ m_hash[node[l[i]].key] = l[i]
                  /\ node[l[i]].prev = IF i = 1 THEN null ELSE l[i - 1]
            /\ m_end = IF n = 0 THEN null ELSE l[n]

(* The compiled expressions on the heap of the C code are those of the     *)
(* cached keys, each of one key: none leaks, none is freed while it is     *)
(* cached, in each order of matches, evictions and flushes, also when      *)
(* m_end is wrong (uvm_regex_cache::evict, uvm_re_match).                  *)
HandlesExact ==
    broken = "no" =>
        /\ {h \in Handles : compiled[h] # null} =
               {node[m_hash[e]].data : e \in keys(Here)}
        /\ \A e, f \in keys(Here) :
              node[m_hash[e]].data = node[m_hash[f]].data => e = f

(* A match of a glob says what the glob means, whether the expression is   *)
(* compiled now or comes from the cache, except one that the cache holds   *)
(* as an expression that is no glob.  Globs with a character that has a    *)
(* meaning in regular expressions and that uvm_re_deglobbed lets pass are  *)
(* left out, and so are those that are too long.                           *)
ResultRight ==
    LET d == uvm_re_deglobbed(call.re, FALSE) IN
    (/\ call.op = "match" /\ call.deglob
     /\ call.hit => mode[call.re]
     /\ d.ok /\ \A i \in DOMAIN call.re : call.re[i] \notin {"^", "$", "\\", "/"})
        => (call.ret = 0 <=> GlobMatches(call.re, call.str))

(* No call writes past uvm_re_buffer, whose use uvm_re_deglobbed counts in *)
(* glob_len as it writes, except for a long glob that begins with '^' and  *)
(* is wanted without brackets, of which nothing is counted before its end, *)
(* and for "/" as an expression that is no glob, of whose length two are   *)
(* taken.                                                                  *)
BufferKept ==
    call.ub => /\ call.op = "match"
               /\ IF call.deglob
                  THEN call.re[1] = "^" /\ Len(call.re) > UVM_REGEX_MAX_LENGTH
                  ELSE call.re = <<"/">>

(* What uvm_lru_cache.svh says of evict_to_max, "Evicts least recently used*)
(* keys until size is less than or equal to max size.": set_max_size       *)
(* leaves the keys that were used last.                                    *)
EvictsLeastRecent ==
    [][m_max_size' # m_max_size =>
         recent' = IF m_max_size' = 0 \/ Len(recent) <= m_max_size' THEN recent
                   ELSE SubSeq(recent, 1, m_max_size')]_vars
==================================================================================
