---------------------------- MODULE HdlBackdoorProofs ----------------------------
(***************************************************************************)
(* Proofs about HdlBackdoor for the build for Verilator, and any objects,  *)
(* widths, words, paths, values and drivers.                               *)
(***************************************************************************)
EXTENDS HdlBackdoor, TLAPS

(* What a call of a function works on, about the object o and with a       *)
(* vector of the bits D.                                                   *)
States(o, D) ==
    [obj : {o}, bits : [0..(Size[o] - 1) -> Bit], drv : [0..(Size[o] - 1) -> Bit],
     forced : SUBSET (0..(Size[o] - 1)), val : [D -> Bit], ret : {0, 1}, held : Int,
     ub : BOOLEAN, stopped : BOOLEAN, partsel : BOOLEAN, junk : {"0", "1"},
     language : {"verilog", "vhdl", "other"}, inplace : BOOLEAN]

AnyPath == [form : {"whole", "bit", "slice", "empty"}, known : BOOLEAN, lhs : Nat, rhs : Nat]

Flags == {"deposit", "force", "release"}

----------------------------------------------------------------------------
(* Numbers.                                                                *)

(* n bits lie in the words that hold them.                                 *)
LEMMA ChunksHold ==
    ASSUME NEW n \in Nat \ {0}
    PROVE  Chunks(n) \in Nat /\ Chunks(n) * WordBits \in Nat /\ n <= Chunks(n) * WordBits
  <1>w. WordBits \in Nat \ {0}
    BY HdlAssumption
  <1> DEFINE q == (n - 1) \div WordBits
  <1>1. q \in Int /\ n - 1 = (WordBits * q) + ((n - 1) % WordBits)
            /\ (n - 1) % WordBits \in 0..(WordBits - 1)
    BY <1>w
  <1>2. q >= 0
    BY <1>w
  <1>3. n <= WordBits * q + WordBits
    BY <1>w, <1>1
  <1>4. WordBits * q + WordBits = (q + 1) * WordBits /\ (q + 1) * WordBits \in Int
    BY <1>w, <1>1
  <1> QED BY <1>1, <1>2, <1>3, <1>4 DEF Chunks

(* and the words of no more bits than the vector has do not reach further. *)
LEMMA ChunksFit ==
    ASSUME NEW n \in Nat \ {0}, n <= UVM_HDL_MAX_WIDTH
    PROVE  Chunks(n) * WordBits <= UVM_HDL_MAX_WIDTH
  <1>w. WordBits \in Nat \ {0} /\ UVM_HDL_MAX_WIDTH \in Nat \ {0}
            /\ UVM_HDL_MAX_WIDTH % WordBits = 0
    BY HdlAssumption
  <1> DEFINE q == (n - 1) \div WordBits
             k == UVM_HDL_MAX_WIDTH \div WordBits
  <1>1. q \in Int /\ n - 1 = (WordBits * q) + ((n - 1) % WordBits)
            /\ (n - 1) % WordBits \in 0..(WordBits - 1)
    BY <1>w
  <1>2. k \in Int /\ UVM_HDL_MAX_WIDTH = WordBits * k
    BY <1>w
  <1>3. WordBits * q < WordBits * k
    BY <1>w, <1>1, <1>2
  <1>4. q < k
    <2>1. SUFFICES ASSUME k <= q PROVE WordBits * k <= WordBits * q
      BY <1>1, <1>2, <1>3, <1>w
    <2> QED BY <1>w, <1>1, <1>2, <2>1
  <1>5. (q + 1) * WordBits <= k * WordBits
    BY <1>w, <1>1, <1>2, <1>4
  <1> QED BY <1>1, <1>2, <1>5, <1>w DEF Chunks

(* The indices of a path are counted from its right end, without gaps.     *)
LEMMA PathIndices ==
    ASSUME NEW p \in AnyPath
    PROVE  /\ Width(p) \in Nat \ {0} /\ Incr(p) \in {1, -1}
           /\ \A i \in 0..(Width(p) - 1) :
                 /\ Index(p, i) \in Int /\ Index(p, i) \in Indices(p)
                 /\ (Index(p, i) - p.rhs) * Incr(p) = i
           /\ \A k \in Indices(p) :
                 /\ k \in Int /\ (k - p.rhs) * Incr(p) \in 0..(Width(p) - 1)
                 /\ Index(p, (k - p.rhs) * Incr(p)) = k
  <1>1. p.lhs \in Nat /\ p.rhs \in Nat
    BY DEF AnyPath
  <1>2. CASE p.lhs > p.rhs
    BY <1>1, <1>2 DEF Width, Incr, Index, Indices
  <1>3. CASE ~(p.lhs > p.rhs)
    BY <1>1, <1>3 DEF Width, Incr, Index, Indices
  <1> QED BY <1>2, <1>3

----------------------------------------------------------------------------
(* The steps of a call.                                                    *)

(* What a write leaves as it was.                                          *)
SameButBits(r, m) ==
    /\ r.obj = m.obj /\ r.drv = m.drv /\ r.val = m.val /\ r.ret = m.ret
    /\ r.held = m.held /\ r.stopped = m.stopped /\ r.partsel = m.partsel

(* What a write does to the bits and the forced indices, from m to r.      *)
Written(r, m, p, flag) ==
    /\ \A k \in (0..(Size[m.obj] - 1)) \ Indices(p) : r.bits[k] = m.bits[k]
    /\ flag = "force" =>
          /\ r.forced = m.forced \cup Indices(p)
          /\ \A i \in 0..(Width(p) - 1) : i \in DOMAIN m.val =>
                r.bits[Index(p, i)] = m.val[i]
    /\ flag = "deposit" =>
          /\ r.forced = m.forced
          /\ \A k \in m.forced : r.bits[k] = m.bits[k]
          /\ \A i \in 0..(Width(p) - 1) : i \in DOMAIN m.val /\ Index(p, i) \notin m.forced =>
                r.bits[Index(p, i)] = m.val[i]
    /\ flag = "release" => r.forced = m.forced \ Indices(p)

PutOutcome(r, o, D, m, p, flag) ==
    /\ r \in States(o, D)
    /\ SameButBits(r, m)
    /\ Written(r, m, p, flag)
    /\ flag = "release" \/ 0..(Width(p) - 1) \subseteq D => r.ub = m.ub

(* A write changes the bits of its path, and oversteps no vector that is   *)
(* wide enough.                                                            *)
LEMMA PutLemma ==
    ASSUME NEW o \in Objects, NEW D, NEW m \in States(o, D),
           NEW p \in AnyPath, Inside(o, p), NEW flag \in Flags, Takes(m, flag)
    PROVE  PutOutcome(PutValue(m, p, m.val, flag), o, D, m, p, flag)
  <1> DEFINE place(k) == (k - p.rhs) * Incr(p)
             given(k) == IF place(k) \in DOMAIN m.val THEN m.val[place(k)] ELSE m.junk
             put(k) == CASE flag = "force"   -> given(k)
                         [] flag = "deposit" -> IF k \in m.forced THEN m.bits[k] ELSE given(k)
                         [] flag = "release" -> IF m.obj \in Wires THEN m.drv[k] ELSE m.bits[k]
             over == flag # "release" /\ ~(0..(Width(p) - 1) \subseteq DOMAIN m.val)
             b == [k \in DOMAIN m.bits |-> IF k \in Indices(p) THEN put(k) ELSE m.bits[k]]
             f == CASE flag = "force"   -> m.forced \cup Indices(p)
                    [] flag = "deposit" -> m.forced
                    [] flag = "release" -> m.forced \ Indices(p)
             r == PutValue(m, p, m.val, flag)
  <1>1. r = [m EXCEPT !.bits = b, !.forced = f, !.ub = m.ub \/ over]
    BY DEF PutValue
  <1>2. /\ m.obj = o /\ m.bits \in [0..(Size[o] - 1) -> Bit]
        /\ m.drv \in [0..(Size[o] - 1) -> Bit] /\ m.forced \subseteq 0..(Size[o] - 1)
        /\ m.val \in [D -> Bit] /\ m.junk \in Bit
    BY DEF States, Bit
  <1>3. \A k \in 0..(Size[o] - 1) : put(k) \in Bit
    BY <1>2 DEF Flags
  <1>4. b \in [0..(Size[o] - 1) -> Bit]
    BY <1>2, <1>3
  <1>5. f \subseteq 0..(Size[o] - 1)
    BY <1>2 DEF Inside, Flags
  <1>6. (m.ub \/ over) \in BOOLEAN
    OBVIOUS
  <1> HIDE DEF put, over, b, f
  <1>7. r \in States(o, D) /\ SameButBits(r, m) /\ r.bits = b /\ r.forced = f
            /\ r.ub = (m.ub \/ over)
    BY <1>1, <1>2, <1>4, <1>5, <1>6 DEF States, SameButBits
  <1>8. Written(r, m, p, flag)
    <2>1. \A k \in (0..(Size[m.obj] - 1)) \ Indices(p) : r.bits[k] = m.bits[k]
      BY <1>2, <1>7 DEF b
    <2>2. \A i \in 0..(Width(p) - 1) :
             Index(p, i) \in 0..(Size[o] - 1) /\ r.bits[Index(p, i)] = put(Index(p, i))
      BY <1>2, <1>7, PathIndices DEF b, Inside
    <2>3. \A i \in 0..(Width(p) - 1) : place(Index(p, i)) = i
      BY PathIndices
    <2>4. \A i \in 0..(Width(p) - 1) : i \in DOMAIN m.val => given(Index(p, i)) = m.val[i]
      BY <2>3
    <2>5. flag = "deposit" => \A k \in m.forced : r.bits[k] = m.bits[k]
      BY <1>2, <1>7 DEF b, put
    <2> QED BY <1>7, <2>1, <2>2, <2>4, <2>5 DEF Written, put, f
  <1>9. flag = "release" \/ 0..(Width(p) - 1) \subseteq D => r.ub = m.ub
    <2>1. ASSUME flag = "release" \/ 0..(Width(p) - 1) \subseteq D PROVE ~over
      BY <1>2, <2>1 DEF over
    <2> QED BY <1>7, <2>1 DEF States
  <1> QED BY <1>7, <1>8, <1>9 DEF PutOutcome

(* What a read leaves as it was.                                           *)
SameButVal(r, m) ==
    /\ r.obj = m.obj /\ r.drv = m.drv /\ r.bits = m.bits /\ r.forced = m.forced
    /\ r.ret = m.ret /\ r.held = m.held /\ r.stopped = m.stopped
    /\ r.partsel = m.partsel

CopyOutcome(r, o, D, m, p) ==
    /\ r \in States(o, D)
    /\ SameButVal(r, m)
    /\ \A i \in 0..(Width(p) - 1) : i \in D => r.val[i] = m.bits[Index(p, i)]
    /\ D = VectorBits /\ Width(p) <= UVM_HDL_MAX_WIDTH => r.ub = m.ub

(* A copy of the words of a path has its bits, and fits where the path     *)
(* does.                                                                   *)
LEMMA CopyLemma ==
    ASSUME NEW o \in Objects, NEW D, NEW m \in States(o, D), NEW p \in AnyPath,
           Inside(o, p)
    PROVE  CopyOutcome(CopyChunks(m, GetValue(m, p)), o, D, m, p)
  <1> DEFINE vec == GetValue(m, p)
             n == Chunks(Width(p)) * WordBits
             val == [k \in DOMAIN m.val |-> IF k \in DOMAIN vec THEN vec[k] ELSE m.val[k]]
             ub == m.ub \/ ~(DOMAIN vec \subseteq DOMAIN m.val)
             c == CopyChunks(m, vec)
  <1>1. /\ m.obj = o /\ m.bits \in [0..(Size[o] - 1) -> Bit] /\ m.val \in [D -> Bit]
    BY DEF States
  <1>2. Width(p) \in Nat \ {0} /\ n \in Nat /\ Width(p) <= n
    BY PathIndices, ChunksHold
  <1>3. DOMAIN vec = 0..(n - 1)
    BY DEF GetValue
  <1>4. \A k \in 0..(n - 1) :
           vec[k] = IF k < Width(p) THEN m.bits[Index(p, k)] ELSE "0"
    BY DEF GetValue
  <1>5. \A i \in 0..(Width(p) - 1) : Index(p, i) \in 0..(Size[o] - 1)
    BY PathIndices DEF Inside
  <1> HIDE DEF vec, n
  <1>6. \A k \in DOMAIN vec : vec[k] \in Bit
    <2> TAKE k \in DOMAIN vec
    <2>1. CASE k < Width(p)
      <3>1. k \in 0..(Width(p) - 1)
        BY <1>2, <1>3, <2>1
      <3>2. vec[k] = m.bits[Index(p, k)]
        BY <1>3, <1>4, <2>1
      <3> QED BY <1>1, <1>5, <3>1, <3>2
    <2>2. CASE ~(k < Width(p))
      BY <1>3, <1>4, <2>2 DEF Bit
    <2> QED BY <2>1, <2>2
  <1>7. val \in [D -> Bit]
    BY <1>1, <1>6
  <1>8. c = [m EXCEPT !.val = val, !.ub = ub]
    BY DEF CopyChunks
  <1>9. \A i \in 0..(Width(p) - 1) : i \in D => val[i] = m.bits[Index(p, i)]
    BY <1>1, <1>2, <1>3, <1>4
  <1>10. D = VectorBits /\ Width(p) <= UVM_HDL_MAX_WIDTH => ub = m.ub
    <2>1. SUFFICES ASSUME D = VectorBits, Width(p) <= UVM_HDL_MAX_WIDTH
                   PROVE  DOMAIN vec \subseteq DOMAIN m.val
      BY DEF States
    <2>2. n <= UVM_HDL_MAX_WIDTH
      BY <1>2, <2>1, ChunksFit DEF n
    <2> QED BY <1>1, <1>2, <1>3, <2>1, <2>2, HdlAssumption DEF VectorBits
  <1>11. ub \in BOOLEAN
    OBVIOUS
  <1> HIDE DEF val, ub
  <1>12. c \in States(o, D) /\ SameButVal(c, m) /\ c.val = val /\ c.ub = ub
    BY <1>7, <1>8, <1>11 DEF States, SameButVal
  <1> QED BY <1>9, <1>10, <1>12 DEF vec, CopyOutcome

(* The same but for the result, and n more handles.                        *)
More(r, m, n) ==
    /\ r.obj = m.obj /\ r.drv = m.drv /\ r.bits = m.bits /\ r.forced = m.forced
    /\ r.val = m.val /\ r.ub = m.ub /\ r.stopped = m.stopped /\ r.partsel = m.partsel
    /\ r.held = m.held + n

(* Handles, and results.                                                   *)
LEMMA StepLemma ==
    ASSUME NEW o, NEW D, NEW m \in States(o, D), NEW v \in {0, 1}
    PROVE  /\ Acquire(m) \in States(o, D) /\ More(Acquire(m), m, 1)
           /\ Release(m) \in States(o, D) /\ More(Release(m), m, -1)
           /\ Return(m, v) \in States(o, D) /\ More(Return(m, v), m, 0)
           /\ Return(m, v).ret = v
  <1>1. Acquire(m) \in States(o, D) /\ More(Acquire(m), m, 1)
    BY DEF Acquire, States, More
  <1>2. Release(m) \in States(o, D) /\ More(Release(m), m, -1)
    BY DEF Release, States, More
  <1>3. Return(m, v) \in States(o, D) /\ More(Return(m, v), m, 0) /\ Return(m, v).ret = v
    BY DEF Return, States, More
  <1> QED BY <1>1, <1>2, <1>3

(* A function that gives its handle back and returns.                      *)
LEMMA ReleaseReturn ==
    ASSUME NEW o, NEW D, NEW m \in States(o, D), NEW v \in {0, 1}
    PROVE  /\ Return(Release(m), v) \in States(o, D)
           /\ More(Return(Release(m), v), m, -1)
           /\ Return(Release(m), v).ret = v
  <1>1. Release(m) \in States(o, D) /\ More(Release(m), m, -1)
    BY StepLemma
  <1>2. /\ Return(Release(m), v) \in States(o, D) /\ More(Return(Release(m), v), Release(m), 0)
        /\ Return(Release(m), v).ret = v
    BY <1>1, StepLemma
  <1>3. m.held \in Int
    BY DEF States
  <1> QED BY <1>1, <1>2, <1>3 DEF More

----------------------------------------------------------------------------
(* The functions that set and get an object.                               *)

(* What a set does: nothing where it fails.                                *)
SetOutcome(r, m, p, flag) ==
    /\ r.obj = m.obj /\ r.drv = m.drv /\ r.partsel = m.partsel /\ r.stopped = m.stopped
    /\ r.ret = 0 => r.bits = m.bits /\ r.forced = m.forced
    /\ r.ret = 1 => Inside(m.obj, p) /\ Written(r, m, p, flag)

(* What a get does: the bits of the path to the vector.                    *)
GetOutcome(r, m, p) ==
    /\ r.obj = m.obj /\ r.drv = m.drv /\ r.partsel = m.partsel /\ r.stopped = m.stopped
    /\ r.bits = m.bits /\ r.forced = m.forced /\ r.ub = m.ub
    /\ r.ret = 1 => \A i \in 0..(Width(p) - 1) : r.val[i] = r.bits[Index(p, i)]

(* The module of the build has these definitions from HdlObjects too.      *)
LEMMA VerilatorSteps ==
    ASSUME NEW m, NEW p, NEW vec, NEW flag, NEW x
    PROVE  /\ V!Found(m, p, x) = Found(m, p, x)
           /\ V!Return(m, x) = Return(m, x)
           /\ V!Acquire(m) = Acquire(m)
           /\ V!Release(m) = Release(m)
           /\ V!Takes(m, flag) = Takes(m, flag)
           /\ V!Width(p) = Width(p)
           /\ V!PutValue(m, p, vec, flag) = PutValue(m, p, vec, flag)
           /\ V!CopyChunks(m, vec) = CopyChunks(m, vec)
           /\ V!GetValue(m, p) = GetValue(m, p)
  <1>1. V!Width(p) = Width(p)
    BY DEF V!Width, Width
  <1>2. \A i : V!Index(p, i) = Index(p, i)
    BY DEF V!Index, V!Incr, Index, Incr
  <1>3. V!Indices(p) = Indices(p)
    BY <1>1, <1>2 DEF V!Indices, Indices
  <1>4. V!Found(m, p, x) = Found(m, p, x)
    BY <1>3 DEF V!Found, V!Inside, Found, Inside
  <1>5. V!Takes(m, flag) = Takes(m, flag)
    BY DEF V!Takes, Takes
  <1>6. V!PutValue(m, p, vec, flag) = PutValue(m, p, vec, flag)
    BY Zenon DEF V!PutValue, V!Takes, V!Indices, V!Index, V!Width, V!Incr,
       PutValue, Takes, Indices, Index, Width, Incr
  <1>7. V!GetValue(m, p) = GetValue(m, p)
    BY <1>1, <1>2 DEF V!GetValue, V!Chunks, GetValue, Chunks
  <1> QED BY <1>1, <1>4, <1>5, <1>6, <1>7 DEF V!Return, V!Acquire, V!Release,
          V!CopyChunks, Return, Acquire, Release, CopyChunks

(* Handles, memory, and what is read.                                      *)
Clean(r, o, m, p, null, flag) ==
    /\ r \in States(o, VectorBits)
    /\ r.held = m.held /\ r.ub = m.ub
    /\ r.ret = 1 /\ ~null => Width(p) <= UVM_HDL_MAX_WIDTH
    /\ r.ret = 1 /\ flag = "release" /\ ~null =>
          \A i \in 0..(Width(p) - 1) : r.val[i] = r.bits[Index(p, i)]

(* The set keeps memory and handles whatever happens.                      *)
LEMMA VerilatorSet ==
    ASSUME NEW o \in Objects, NEW m \in States(o, VectorBits), NEW p \in AnyPath,
           NEW null \in BOOLEAN, NEW flag \in Flags
    PROVE  LET r == V!uvm_hdl_set_vlog(m, p, null, flag) IN
           SetOutcome(r, m, p, flag) /\ Clean(r, o, m, p, null, flag)
  <1> DEFINE a == Acquire(m)
             done == PutValue(a, p, a.val, flag)
             copy == CopyChunks(done, GetValue(done, p))
             set == V!uvm_hdl_set_vlog(m, p, null, flag)
  <1>1. set = IF ~Found(m, p, "verilator" \in SliceByName) THEN Return(m, 0)
              ELSE IF null /\ flag # "release" THEN Return(Release(a), 0)
              ELSE IF ~null /\ Width(p) > UVM_HDL_MAX_WIDTH THEN Return(Release(a), 0)
              ELSE IF ~Takes(a, flag) THEN Return(Release(a), 0)
              ELSE IF flag = "release" /\ ~null THEN Return(Release(copy), 1)
              ELSE Return(Release(done), 1)
    BY VerilatorSteps DEF V!uvm_hdl_set_vlog, V!too_wide
  <1> SUFFICES SetOutcome(set, m, p, flag) /\ Clean(set, o, m, p, null, flag)
    OBVIOUS
  <1> HIDE DEF a, done, copy, set
  <1>2. a \in States(o, VectorBits) /\ More(a, m, 1)
    BY StepLemma DEF a
  <1>h. m.obj = o /\ m.held \in Int
    BY DEF States
  <1>3. CASE set = Return(m, 0)
    BY <1>3, <1>h, StepLemma DEF More, SetOutcome, Clean
  <1>4. CASE set = Return(Release(a), 0)
    <2>1. set \in States(o, VectorBits) /\ More(set, a, -1) /\ set.ret = 0
      BY <1>2, <1>4, ReleaseReturn
    <2> QED BY <1>2, <1>h, <2>1 DEF More, SetOutcome, Clean
  <1>5. ASSUME Found(m, p, "verilator" \in SliceByName), null => flag = "release",
               ~null => ~(Width(p) > UVM_HDL_MAX_WIDTH), Takes(a, flag),
               \/ flag = "release" /\ ~null /\ set = Return(Release(copy), 1)
               \/ ~(flag = "release" /\ ~null) /\ set = Return(Release(done), 1)
        PROVE  SetOutcome(set, m, p, flag) /\ Clean(set, o, m, p, null, flag)
    <2>1. Inside(o, p) /\ Width(p) \in Nat
      BY <1>5, <1>h, PathIndices DEF Found
    <2>2. ~null => Width(p) <= UVM_HDL_MAX_WIDTH
      BY <1>5, <2>1, HdlAssumption
    <2>3. flag = "release" \/ 0..(Width(p) - 1) \subseteq VectorBits
      BY <1>5, <2>1, <2>2, HdlAssumption DEF VectorBits
    <2>4. PutOutcome(done, o, VectorBits, a, p, flag)
      BY <1>2, <1>5, <2>1, PutLemma DEF done
    <2>5. /\ done \in States(o, VectorBits) /\ SameButBits(done, a)
          /\ Written(done, a, p, flag) /\ done.ub = a.ub
      BY <2>3, <2>4 DEF PutOutcome
    <2>6. Written(done, m, p, flag)
      BY <1>2, <2>5 DEF Written, More
    <2>7. CopyOutcome(copy, o, VectorBits, done, p)
      BY <2>1, <2>5, CopyLemma DEF copy
    <2>8. CASE flag = "release" /\ ~null /\ set = Return(Release(copy), 1)
      <3>1. copy \in States(o, VectorBits) /\ SameButVal(copy, done) /\ copy.ub = done.ub
        BY <2>2, <2>7, <2>8 DEF CopyOutcome
      <3>2. set \in States(o, VectorBits) /\ More(set, copy, -1) /\ set.ret = 1
        BY <2>8, <3>1, ReleaseReturn
      <3>3. \A i \in 0..(Width(p) - 1) : copy.val[i] = done.bits[Index(p, i)]
        <4>1. 0..(Width(p) - 1) \subseteq VectorBits
          BY <2>1, <2>2, <2>8, HdlAssumption DEF VectorBits
        <4> QED BY <2>7, <4>1 DEF CopyOutcome
      <3>4. set.bits = done.bits /\ set.forced = done.forced /\ set.val = copy.val
        BY <3>1, <3>2 DEF More, SameButVal
      <3>5. SetOutcome(set, m, p, flag)
        BY <1>2, <1>h, <2>1, <2>5, <2>6, <3>1, <3>2, <3>4
           DEF SetOutcome, Written, More, SameButBits, SameButVal
      <3>6. set.held = m.held /\ set.ub = m.ub
        BY <1>2, <1>h, <2>5, <3>1, <3>2 DEF More, SameButBits, SameButVal
      <3> QED BY <2>2, <3>2, <3>3, <3>4, <3>5, <3>6 DEF Clean
    <2>9. CASE ~(flag = "release" /\ ~null) /\ set = Return(Release(done), 1)
      <3>1. set \in States(o, VectorBits) /\ More(set, done, -1) /\ set.ret = 1
        BY <2>9, <2>5, ReleaseReturn
      <3>2. SetOutcome(set, m, p, flag)
        BY <1>2, <1>h, <2>1, <2>5, <2>6, <3>1 DEF SetOutcome, Written, More, SameButBits
      <3>3. set.held = m.held /\ set.ub = m.ub
        BY <1>2, <1>h, <2>5, <3>1 DEF More, SameButBits
      <3> QED BY <2>2, <2>9, <3>1, <3>2, <3>3 DEF Clean
    <2> QED BY <1>5, <2>8, <2>9
  <1> QED BY <1>1, <1>3, <1>4, <1>5

(* The get fills the vector with the bits of the path.                     *)
LEMMA VerilatorGet ==
    ASSUME NEW o \in Objects, NEW m \in States(o, VectorBits), NEW p \in AnyPath
    PROVE  LET r == V!uvm_hdl_get_vlog(m, p) IN
           GetOutcome(r, m, p) /\ r \in States(o, VectorBits) /\ r.held = m.held
  <1> DEFINE a == Acquire(m)
             copy == CopyChunks(a, GetValue(a, p))
             get == V!uvm_hdl_get_vlog(m, p)
  <1>1. get = IF ~Found(m, p, "verilator" \in SliceByName) THEN Return(m, 0)
              ELSE IF Width(p) > UVM_HDL_MAX_WIDTH \/ m.obj \notin Vectors
              THEN Return(Release(a), 0)
              ELSE Return(Release(copy), 1)
    BY VerilatorSteps DEF V!uvm_hdl_get_vlog, V!too_wide
  <1> SUFFICES GetOutcome(get, m, p) /\ get \in States(o, VectorBits) /\ get.held = m.held
    OBVIOUS
  <1> HIDE DEF a, copy, get
  <1>2. a \in States(o, VectorBits) /\ More(a, m, 1)
    BY StepLemma DEF a
  <1>h. m.obj = o /\ m.held \in Int
    BY DEF States
  <1>3. CASE get = Return(m, 0)
    BY <1>3, <1>h, StepLemma DEF More, GetOutcome
  <1>4. CASE get = Return(Release(a), 0)
    <2>1. get \in States(o, VectorBits) /\ More(get, a, -1) /\ get.ret = 0
      BY <1>2, <1>4, ReleaseReturn
    <2> QED BY <1>2, <1>h, <2>1 DEF More, GetOutcome
  <1>5. ASSUME Found(m, p, "verilator" \in SliceByName), ~(Width(p) > UVM_HDL_MAX_WIDTH),
               get = Return(Release(copy), 1)
        PROVE  GetOutcome(get, m, p) /\ get \in States(o, VectorBits) /\ get.held = m.held
    <2>1. Inside(o, p) /\ Width(p) \in Nat
      BY <1>5, <1>h, PathIndices DEF Found
    <2>2. Width(p) <= UVM_HDL_MAX_WIDTH
      BY <1>5, <2>1, HdlAssumption
    <2>3. CopyOutcome(copy, o, VectorBits, a, p)
      BY <1>2, <2>1, CopyLemma DEF copy
    <2>4. copy \in States(o, VectorBits) /\ SameButVal(copy, a) /\ copy.ub = a.ub
      BY <2>2, <2>3 DEF CopyOutcome
    <2>5. get \in States(o, VectorBits) /\ More(get, copy, -1) /\ get.ret = 1
      BY <1>5, <2>4, ReleaseReturn
    <2>6. \A i \in 0..(Width(p) - 1) : copy.val[i] = a.bits[Index(p, i)]
      <3>1. 0..(Width(p) - 1) \subseteq VectorBits
        BY <2>1, <2>2, HdlAssumption DEF VectorBits
      <3> QED BY <2>3, <3>1 DEF CopyOutcome
    <2>7. get.held = m.held
      BY <1>2, <1>h, <2>4, <2>5 DEF More, SameButVal
    <2>8. get.val = copy.val /\ get.bits = a.bits
      BY <2>4, <2>5 DEF More, SameButVal
    <2>9. get.obj = m.obj /\ get.drv = m.drv /\ get.partsel = m.partsel
            /\ get.stopped = m.stopped /\ get.bits = m.bits /\ get.forced = m.forced
            /\ get.ub = m.ub
      BY <1>2, <2>4, <2>5 DEF More, SameButVal
    <2>10. \A i \in 0..(Width(p) - 1) : get.val[i] = get.bits[Index(p, i)]
      BY <2>6, <2>8
    <2> QED BY <2>5, <2>7, <2>9, <2>10 DEF GetOutcome
  <1> QED BY <1>1, <1>3, <1>4, <1>5

(* The check gives its handle back.                                        *)
LEMMA VerilatorCheck ==
    ASSUME NEW o \in Objects, NEW m \in States(o, VectorBits), NEW p \in AnyPath
    PROVE  LET r == V!uvm_hdl_check_path(m, p) IN
           r \in States(o, VectorBits) /\ More(r, m, 0)
  <1> DEFINE check == V!uvm_hdl_check_path(m, p)
  <1>1. check = IF Found(m, p, "verilator" \in SliceByName)
                THEN Return(Release(Acquire(m)), 1) ELSE Return(m, 0)
    BY VerilatorSteps DEF V!uvm_hdl_check_path
  <1> SUFFICES check \in States(o, VectorBits) /\ More(check, m, 0)
    OBVIOUS
  <1> HIDE DEF check
  <1>2. CASE check = Return(m, 0)
    BY <1>2, StepLemma
  <1>3. CASE check = Return(Release(Acquire(m)), 1)
    <2>1. Acquire(m) \in States(o, VectorBits) /\ More(Acquire(m), m, 1)
      BY StepLemma
    <2>2. check \in States(o, VectorBits) /\ More(check, Acquire(m), -1)
      BY <1>3, <2>1, ReleaseReturn
    <2>3. m.held \in Int
      BY DEF States
    <2> QED BY <2>1, <2>2, <2>3 DEF More
  <1> QED BY <1>1, <1>2, <1>3

----------------------------------------------------------------------------
(* A call.                                                                 *)

Ops == {"check_path", "read", "deposit", "force", "release", "release_and_read"}

(* The flag of vpi_put_value of a call that writes.                        *)
FlagOf(op) == IF op = "release_and_read" THEN "release" ELSE op

(* What the function that implements a call returns.                       *)
Outcome(r, o, m, p, op) ==
    /\ r \in States(o, VectorBits) /\ r.partsel = m.partsel /\ r.stopped = m.stopped
    /\ r.held = m.held /\ r.ub = m.ub
    /\ r.ret = 0 \/ op \in {"check_path", "read"} => r.bits = m.bits /\ r.forced = m.forced
    /\ r.ret = 1 /\ op \notin {"check_path", "read"} => Written(r, m, p, FlagOf(op))
    /\ r.ret = 1 /\ op \in {"deposit", "force"} => Width(p) <= UVM_HDL_MAX_WIDTH
    /\ r.ret = 1 /\ op \in {"read", "release_and_read"} =>
          \A i \in 0..(Width(p) - 1) : r.val[i] = r.bits[Index(p, i)]

(* A path that is not found is turned down.                                *)
LEMMA VerilatorTurnsDown ==
    ASSUME build = "verilator", NEW o \in Objects, NEW m \in States(o, VectorBits),
           NEW p \in AnyPath, NEW op \in Ops, Implementation(op, m, p).ret = 1
    PROVE  p.known /\ Inside(o, p)
  <1> DEFINE found == Found(m, p, "verilator" \in SliceByName)
             r == Implementation(op, m, p)
  <1>1. ~found => r = Return(m, 0)
    <2>1. CASE op = "check_path"
      BY <2>1, VerilatorSteps DEF Implementation, V!uvm_hdl_check_path
    <2>2. CASE op = "read"
      BY <2>2, VerilatorSteps DEF Implementation, V!uvm_hdl_read, V!uvm_hdl_get_vlog
    <2>3. CASE op = "deposit"
      BY <2>3, VerilatorSteps DEF Implementation, V!uvm_hdl_deposit, V!uvm_hdl_set_vlog
    <2>4. CASE op = "force"
      BY <2>4, VerilatorSteps DEF Implementation, V!uvm_hdl_force, V!uvm_hdl_set_vlog
    <2>5. CASE op = "release"
      BY <2>5, VerilatorSteps DEF Implementation, V!uvm_hdl_release, V!uvm_hdl_set_vlog
    <2>6. CASE op = "release_and_read"
      BY <2>6, VerilatorSteps
         DEF Implementation, V!uvm_hdl_release_and_read, V!uvm_hdl_set_vlog
    <2> QED BY <2>1, <2>2, <2>3, <2>4, <2>5, <2>6 DEF Ops
  <1>2. Return(m, 0).ret = 0
    BY StepLemma
  <1> HIDE DEF r
  <1>3. r.ret = 1
    BY DEF r
  <1>4. m.obj = o
    BY DEF States
  <1> QED BY <1>1, <1>2, <1>3, <1>4 DEF Found

LEMMA VerilatorOutcome ==
    ASSUME build = "verilator", NEW o \in Objects, NEW m \in States(o, VectorBits),
           NEW p \in AnyPath, NEW op \in Ops
    PROVE  Outcome(Implementation(op, m, p), o, m, p, op)
  <1> DEFINE r == Implementation(op, m, p)
  <1>1. CASE op = "check_path"
    <2>1. r = V!uvm_hdl_check_path(m, p)
      BY <1>1 DEF Implementation
    <2> HIDE DEF r
    <2>2. r \in States(o, VectorBits) /\ More(r, m, 0)
      BY <2>1, VerilatorCheck
    <2>3. m.held \in Int
      BY DEF States
    <2> QED BY <1>1, <2>2, <2>3 DEF Outcome, More, r
  <1>2. CASE op = "read"
    <2>1. r = V!uvm_hdl_get_vlog(m, p)
      BY <1>2 DEF Implementation, V!uvm_hdl_read
    <2> HIDE DEF r
    <2>2. GetOutcome(r, m, p) /\ r \in States(o, VectorBits) /\ r.held = m.held
      BY <2>1, VerilatorGet
    <2> QED BY <1>2, <2>2 DEF Outcome, GetOutcome, r
  <1>3. ASSUME NEW null \in BOOLEAN, NEW flag \in Flags, flag = FlagOf(op),
               op \notin {"check_path", "read"},
               op # "release" => ~null, r = V!uvm_hdl_set_vlog(m, p, null, flag)
        PROVE  Outcome(r, o, m, p, op)
    <2> HIDE DEF r
    <2>1. SetOutcome(r, m, p, flag) /\ Clean(r, o, m, p, null, flag)
      BY <1>3, VerilatorSet
    <2>2. r.ret \in {0, 1}
      BY <2>1 DEF Clean, States
    <2>3. r.ret = 1 => Written(r, m, p, FlagOf(op))
      BY <1>3, <2>1 DEF SetOutcome
    <2>4. r.ret = 1 /\ op = "release_and_read" =>
             \A i \in 0..(Width(p) - 1) : r.val[i] = r.bits[Index(p, i)]
      BY <1>3, <2>1 DEF Clean, FlagOf
    <2> QED BY <1>3, <2>1, <2>3, <2>4 DEF Outcome, SetOutcome, Clean
  <1>4. CASE op = "deposit"
    BY <1>3, <1>4 DEF Implementation, V!uvm_hdl_deposit, FlagOf, Flags
  <1>5. CASE op = "force"
    BY <1>3, <1>5 DEF Implementation, V!uvm_hdl_force, FlagOf, Flags
  <1>6. CASE op = "release"
    BY <1>3, <1>6 DEF Implementation, V!uvm_hdl_release, FlagOf, Flags
  <1>7. CASE op = "release_and_read"
    BY <1>3, <1>7 DEF Implementation, V!uvm_hdl_release_and_read, FlagOf, Flags
  <1> QED BY <1>1, <1>2, <1>4, <1>5, <1>6, <1>7 DEF Ops

(* What a call starts from.                                                *)
LEMMA StartStates ==
    ASSUME NEW o, NEW D, NEW b \in [0..(Size[o] - 1) -> Bit],
           NEW d \in [0..(Size[o] - 1) -> Bit], NEW f \in SUBSET (0..(Size[o] - 1)),
           NEW v \in [D -> Bit], NEW q \in BOOLEAN, NEW j \in {"0", "1"}
    PROVE  [obj |-> o, bits |-> b, drv |-> d, forced |-> f, val |-> v,
            ret |-> 0, held |-> 0, ub |-> FALSE, stopped |-> FALSE,
            partsel |-> q, junk |-> j, language |-> "other",
            inplace |-> FALSE] \in States(o, D)
  BY DEF States

(* What the step of a call does to the design.                             *)
Effect(op, p, v) ==
    /\ UNCHANGED <<build, obj, drv, partsel>> /\ stopped' = FALSE
    /\ bits' \in [0..(Size[obj] - 1) -> Bit] /\ forced' \subseteq 0..(Size[obj] - 1)
    /\ call'.op = op /\ call'.path = p /\ call'.arg = v
    /\ call'.val \in [VectorBits -> Bit] /\ call'.ret \in {0, 1}
    /\ call'.held = 0 /\ call'.ub = FALSE
    /\ call'.ret = 0 \/ op \in {"check_path", "read"} => bits' = bits /\ forced' = forced
    /\ call'.ret = 1 => p.known /\ Indices(p) \subseteq DOMAIN bits
    /\ call'.ret = 1 /\ op \notin {"check_path", "read"} =>
          /\ \A k \in DOMAIN bits \ Indices(p) : bits'[k] = bits[k]
          /\ FlagOf(op) = "release" => forced' = forced \ Indices(p)
    /\ call'.ret = 1 /\ op = "force" =>
          /\ forced' = forced \cup Indices(p)
          /\ \A i \in 0..(Width(p) - 1) : bits'[Index(p, i)] = v[i]
    /\ call'.ret = 1 /\ op = "deposit" =>
          /\ forced' = forced
          /\ \A k \in forced : bits'[k] = bits[k]
          /\ \A i \in 0..(Width(p) - 1) :
                Index(p, i) \notin forced => bits'[Index(p, i)] = v[i]
    /\ call'.ret = 1 /\ op \in {"read", "release_and_read"} =>
          \A i \in 0..(Width(p) - 1) : call'.val[i] = bits'[Index(p, i)]

LEMMA CallEffect ==
    ASSUME TypeOK, build = "verilator", NEW p \in AnyPath,
           NEW v \in [VectorBits -> Bit], NEW op \in Ops, Call(op, p, v)
    PROVE  Effect(op, p, v)
  <1>1. PICK s \in Start(p, v) :
          LET m == Implementation(op, s, p) IN
          /\ bits' = m.bits /\ forced' = m.forced
          /\ partsel' = m.partsel
          /\ stopped' = m.stopped
          /\ call' = [op |-> op, path |-> p, arg |-> v, val |-> m.val, ret |-> m.ret,
                      held |-> m.held, ub |-> m.ub]
          /\ UNCHANGED <<build, obj, drv>>
    BY DEF Call
  <1>2. s \in States(obj, VectorBits)
    <2>1. s \in [obj : {obj}, bits : {bits}, drv : {drv}, forced : {forced}, val : {v},
                 ret : {0}, held : {0}, ub : {FALSE}, stopped : {FALSE},
                 partsel : {partsel}, junk : {"0", "1"}, language : {"other"},
                 inplace : {FALSE}]
      BY DEF Start
    <2>2. /\ bits \in [0..(Size[obj] - 1) -> Bit] /\ drv \in [0..(Size[obj] - 1) -> Bit]
          /\ forced \in SUBSET (0..(Size[obj] - 1)) /\ partsel \in BOOLEAN
      BY DEF TypeOK
    <2>3. s = [obj |-> obj, bits |-> bits, drv |-> drv, forced |-> forced, val |-> v,
               ret |-> 0, held |-> 0, ub |-> FALSE, stopped |-> FALSE,
               partsel |-> partsel, junk |-> s.junk, language |-> "other",
               inplace |-> FALSE]
      BY <2>1
    <2>4. s.junk \in {"0", "1"}
      BY <2>1
    <2>5. [obj |-> obj, bits |-> bits, drv |-> drv, forced |-> forced, val |-> v,
           ret |-> 0, held |-> 0, ub |-> FALSE, stopped |-> FALSE,
           partsel |-> partsel, junk |-> s.junk, language |-> "other",
           inplace |-> FALSE] \in States(obj, VectorBits)
      BY <2>2, <2>4, StartStates
    <2> QED BY <2>3, <2>5
  <1>3. /\ s.obj = obj /\ s.bits = bits /\ s.forced = forced /\ s.val = v /\ s.held = 0
        /\ s.ub = FALSE /\ s.stopped = FALSE /\ s.partsel = partsel
    BY DEF Start
  <1> DEFINE m == Implementation(op, s, p)
  <1>4. obj \in Objects
    BY DEF TypeOK
  <1>5. Outcome(m, obj, s, p, op)
    BY <1>2, <1>4, VerilatorOutcome
  <1> HIDE DEF m
  <1>6. /\ bits' = m.bits /\ forced' = m.forced /\ partsel' = m.partsel
        /\ stopped' = m.stopped /\ UNCHANGED <<build, obj, drv>>
        /\ call'.op = op /\ call'.path = p /\ call'.arg = v /\ call'.val = m.val
        /\ call'.ret = m.ret /\ call'.held = m.held /\ call'.ub = m.ub
    BY <1>1 DEF m
  <1>7. /\ bits' \in [0..(Size[obj] - 1) -> Bit] /\ forced' \subseteq 0..(Size[obj] - 1)
        /\ call'.val \in [VectorBits -> Bit] /\ call'.ret \in {0, 1}
    BY <1>5, <1>6 DEF Outcome, States
  <1>8. call'.ret = 1 /\ op \notin {"check_path", "read"} => Written(m, s, p, FlagOf(op))
    BY <1>5, <1>6 DEF Outcome
  <1>9. DOMAIN bits = 0..(Size[obj] - 1) /\ DOMAIN v = VectorBits
    BY DEF TypeOK
  <1>10. call'.ret = 1 /\ op \in {"deposit", "force"} =>
            0..(Width(p) - 1) \subseteq VectorBits
    BY <1>5, <1>6, PathIndices, HdlAssumption DEF Outcome, VectorBits
  <1>11. call'.ret = 1 /\ op \notin {"check_path", "read"} =>
          /\ \A k \in DOMAIN bits \ Indices(p) : bits'[k] = bits[k]
          /\ FlagOf(op) = "release" => forced' = forced \ Indices(p)
    BY <1>3, <1>6, <1>8, <1>9 DEF Written
  <1>12. call'.ret = 1 /\ op = "force" =>
          /\ forced' = forced \cup Indices(p)
          /\ \A i \in 0..(Width(p) - 1) : bits'[Index(p, i)] = v[i]
    BY <1>3, <1>6, <1>8, <1>9, <1>10 DEF Written, FlagOf
  <1>13. call'.ret = 1 /\ op = "deposit" =>
          /\ forced' = forced
          /\ \A k \in forced : bits'[k] = bits[k]
          /\ \A i \in 0..(Width(p) - 1) :
                Index(p, i) \notin forced => bits'[Index(p, i)] = v[i]
    BY <1>3, <1>6, <1>8, <1>9, <1>10 DEF Written, FlagOf
  <1>14. call'.ret = 1 /\ op \in {"read", "release_and_read"} =>
          \A i \in 0..(Width(p) - 1) : call'.val[i] = bits'[Index(p, i)]
    BY <1>5, <1>6 DEF Outcome
  <1>15. call'.ret = 0 \/ op \in {"check_path", "read"} => bits' = bits /\ forced' = forced
    BY <1>3, <1>5, <1>6 DEF Outcome
  <1>16. call'.ret = 1 => p.known /\ Indices(p) \subseteq DOMAIN bits
    <2>1. m.ret = 1 => p.known /\ Inside(obj, p)
      BY <1>2, <1>4, VerilatorTurnsDown DEF m
    <2> QED BY <1>6, <1>9, <2>1 DEF Inside
  <1> QED BY <1>3, <1>5, <1>6, <1>7, <1>11, <1>12, <1>13, <1>14, <1>15, <1>16
          DEF Effect, Outcome

----------------------------------------------------------------------------
(* The steps of a behaviour.                                               *)

LEMMA PathsAreAny == ASSUME NEW o \in Objects PROVE PathsOf(o) \subseteq AnyPath
  <1>1. Whole(o) \in AnyPath
    BY HdlAssumption DEF Whole, AnyPath
  <1>2. Unknown \in AnyPath /\ Empty \in AnyPath
    BY DEF Unknown, Empty, AnyPath
  <1>3. Paths[o] \subseteq AnyPath
    BY BackdoorAssumption DEF AnyPath
  <1> QED BY <1>1, <1>2, <1>3 DEF PathsOf

LEMMA VectorsPassed ==
    /\ Values \subseteq [VectorBits -> Bit] /\ Unwritten \in [VectorBits -> Bit]
    /\ NoValue \in [VectorBits -> Bit]
  BY BackdoorAssumption DEF NoValue, Bit

(* A call, and what becomes of the force that uvm_hdl_force_time holds.    *)
CallStep(op, p, v) ==
    /\ Effect(op, p, v)
    /\ \/ op \in {"check_path", "read", "deposit"} /\ timer' = timer
       \/ op \in {"force", "release", "release_and_read"} /\ Others
       \/ op = "force" /\ timer' = IF call'.ret = 1
                                   THEN [on |-> TRUE, path |-> p, arg |-> v, touched |-> FALSE]
                                   ELSE NoForce
       \/ timer' = NoForce

LEMMA Steps ==
    ASSUME TypeOK, build = "verilator", Next
    PROVE  \/ returns
           \/ \E op \in Ops, p \in PathsOf(obj), v \in [VectorBits -> Bit] : CallStep(op, p, v)
           \/ call = NoCall /\ \E v \in Drives[obj] : Drive(v)
  <1>1. PathsOf(obj) \subseteq AnyPath
    BY PathsAreAny DEF TypeOK
  <1>2. \A op \in Ops, p \in PathsOf(obj), v \in [VectorBits -> Bit] :
            Call(op, p, v) => Effect(op, p, v)
    BY <1>1, CallEffect
  <1>3. ASSUME NEW p \in PathsOf(obj),
               \/ uvm_hdl_check_path(p) \/ uvm_hdl_read(p)
               \/ uvm_hdl_release(p) \/ uvm_hdl_release_and_read(p)
        PROVE  \E op \in Ops, v \in [VectorBits -> Bit] : CallStep(op, p, v)
    <2>1. CASE uvm_hdl_check_path(p)
      <3>1. CallStep("check_path", p, NoValue)
        BY <1>2, <2>1, VectorsPassed DEF uvm_hdl_check_path, CallStep, Ops
      <3> QED BY <3>1, VectorsPassed DEF Ops
    <2>2. CASE uvm_hdl_read(p)
      <3>1. CallStep("read", p, Unwritten)
        BY <1>2, <2>2, VectorsPassed DEF uvm_hdl_read, CallStep, Ops
      <3> QED BY <3>1, VectorsPassed DEF Ops
    <2>3. CASE uvm_hdl_release(p)
      <3>1. CallStep("release", p, NoValue)
        BY <1>2, <2>3, VectorsPassed DEF uvm_hdl_release, CallStep, Ops
      <3> QED BY <3>1, VectorsPassed DEF Ops
    <2>4. CASE uvm_hdl_release_and_read(p)
      <3>1. CallStep("release_and_read", p, Unwritten)
        BY <1>2, <2>4, VectorsPassed DEF uvm_hdl_release_and_read, CallStep, Ops
      <3> QED BY <3>1, VectorsPassed DEF Ops
    <2> QED BY <1>3, <2>1, <2>2, <2>3, <2>4
  <1>4. ASSUME NEW p \in PathsOf(obj), NEW v \in Values,
               \/ uvm_hdl_deposit(p, v) \/ uvm_hdl_force(p, v) \/ force_time_begins(p, v)
        PROVE  \E op \in Ops : CallStep(op, p, v)
    <2>1. v \in [VectorBits -> Bit]
      BY VectorsPassed
    <2>2. CASE uvm_hdl_deposit(p, v)
      <3>1. CallStep("deposit", p, v)
        BY <1>2, <2>1, <2>2 DEF uvm_hdl_deposit, CallStep, Ops
      <3> QED BY <3>1 DEF Ops
    <2>3. CASE uvm_hdl_force(p, v)
      <3>1. CallStep("force", p, v)
        BY <1>2, <2>1, <2>3 DEF uvm_hdl_force, CallStep, Ops
      <3> QED BY <3>1 DEF Ops
    <2>4. CASE force_time_begins(p, v)
      <3>1. CallStep("force", p, v)
        BY <1>2, <2>1, <2>4 DEF force_time_begins, CallStep, Ops
      <3> QED BY <3>1 DEF Ops
    <2> QED BY <1>4, <2>2, <2>3, <2>4
  <1>5. ASSUME force_time_ends
        PROVE  CallStep("release_and_read", timer.path, timer.arg)
    <2>1. timer.path \in PathsOf(obj) /\ timer.arg \in [VectorBits -> Bit]
      BY DEF TypeOK
    <2> QED BY <1>2, <1>5, <2>1 DEF force_time_ends, CallStep, Ops
  <1>6. CASE \E p \in PathsOf(obj) :
                \/ uvm_hdl_check_path(p) \/ uvm_hdl_read(p)
                \/ uvm_hdl_release(p) \/ uvm_hdl_release_and_read(p)
    BY <1>3, <1>6
  <1>7. CASE \E p \in PathsOf(obj), v \in Values :
                \/ uvm_hdl_deposit(p, v) \/ uvm_hdl_force(p, v) \/ force_time_begins(p, v)
    BY <1>4, <1>7, VectorsPassed
  <1>8. CASE force_time_ends
    <2>1. timer.path \in PathsOf(obj) /\ timer.arg \in [VectorBits -> Bit]
      BY DEF TypeOK
    <2> QED BY <1>5, <1>8, <2>1 DEF Ops
  <1> QED BY <1>6, <1>7, <1>8 DEF Next, Idle

(* What a call preserves, and the inductive invariant.                     *)
Inv ==
    /\ TypeOK /\ build = "verilator"
    /\ call.held = 0 /\ call.ub = FALSE
    /\ ReadExact
    /\ ForceHolds

LEMMA InitInv == ASSUME Builds = {"verilator"}, Init PROVE Inv
  <1>1. obj \in Objects /\ bits \in [0..(Size[obj] - 1) -> Bit]
    BY BackdoorAssumption DEF Init
  <1>2. call.path \in PathsOf(obj) /\ NoForce.path \in PathsOf(obj)
    BY DEF Init, NoCall, NoForce, NoPath, PathsOf
  <1>3. call.val \in [VectorBits -> Bit] /\ call.ret = 0 /\ call.held = 0 /\ call.ub = FALSE
    BY VectorsPassed DEF Init, NoCall
  <1>4. timer \in [on : BOOLEAN, path : PathsOf(obj), arg : [VectorBits -> Bit],
                   touched : BOOLEAN]
    BY <1>2, VectorsPassed DEF Init, NoForce
  <1>5. TypeOK
    <2>1. build \in Builds /\ drv \in [0..(Size[obj] - 1) -> Bit]
      BY <1>1 DEF Init
    <2>2. forced \subseteq 0..(Size[obj] - 1)
      BY DEF Init
    <2>3. partsel \in BOOLEAN /\ stopped \in BOOLEAN
      BY DEF Init
    <2>4. call.ret \in {0, 1} /\ call.held \in Int
      BY <1>3
    <2>5. call.ub \in BOOLEAN
      BY <1>3, Zenon
    <2> QED BY <1>1, <1>2, <1>3, <1>4, <2>1, <2>2, <2>3, <2>4, <2>5, Zenon DEF TypeOK
  <1> QED BY <1>3, <1>5 DEF Init, Inv, ReadExact, ForceHolds, NoCall, NoForce

(* The state of the force that is held.                                    *)
LEMMA TimerType ==
    ASSUME TypeOK, NEW op \in Ops, NEW p \in PathsOf(obj), NEW v \in [VectorBits -> Bit],
           CallStep(op, p, v)
    PROVE  timer' \in [on : BOOLEAN, path : PathsOf(obj), arg : [VectorBits -> Bit],
                      touched : BOOLEAN]
  <1>1. CASE timer' = timer
    BY <1>1 DEF TypeOK
  <1>2. CASE Others
    BY <1>2 DEF TypeOK, Others
  <1>3. CASE timer' = [on |-> TRUE, path |-> p, arg |-> v, touched |-> FALSE]
    BY <1>3
  <1>4. CASE timer' = NoForce
    BY <1>4, VectorsPassed DEF NoForce, NoPath, PathsOf
  <1> QED BY <1>1, <1>2, <1>3, <1>4 DEF CallStep

LEMMA CallInv ==
    ASSUME Inv, NEW op \in Ops, NEW p \in PathsOf(obj), NEW v \in [VectorBits -> Bit],
           CallStep(op, p, v)
    PROVE  Inv'
  <1>0. Effect(op, p, v) /\ TypeOK /\ build = "verilator"
    BY DEF CallStep, Inv
  <1>1. build' = build /\ obj' = obj /\ PathsOf(obj)' = PathsOf(obj)
    BY <1>0 DEF Effect, PathsOf
  <1>2. TypeOK'
    <2>1. (timer \in [on : BOOLEAN, path : PathsOf(obj), arg : [VectorBits -> Bit],
                      touched : BOOLEAN])'
      BY <1>0, <1>1, TimerType
    <2>2. /\ (bits \in [0..(Size[obj] - 1) -> Bit])' /\ (drv \in [0..(Size[obj] - 1) -> Bit])'
          /\ (forced \subseteq 0..(Size[obj] - 1))'
      <3>1. drv' = drv /\ drv \in [0..(Size[obj] - 1) -> Bit]
        BY <1>0 DEF Effect, TypeOK
      <3>2. bits' \in [0..(Size[obj] - 1) -> Bit] /\ forced' \subseteq 0..(Size[obj] - 1)
        BY <1>0 DEF Effect
      <3> QED BY <1>1, <3>1, <3>2
    <2>5. partsel' \in BOOLEAN /\ stopped' \in BOOLEAN
      BY <1>0 DEF Effect, TypeOK
    <2>3. /\ (call.path \in PathsOf(obj))' /\ (call.val \in [VectorBits -> Bit])'
          /\ (call.ret \in {0, 1})' /\ (call.held \in Int)'
      BY <1>0, <1>1 DEF Effect
    <2>6. (call.ub \in BOOLEAN)'
      BY <1>0, Zenon DEF Effect
    <2>4. build' \in Builds /\ obj' \in Objects
      BY <1>0, <1>1 DEF TypeOK
    <2> QED BY <2>1, <2>2, <2>3, <2>4, <2>5, <2>6, Zenon DEF TypeOK
  <1>3. ReadExact'
    BY <1>0 DEF Effect, ReadExact
  <1>4. ForceHolds'
    <2>1. p \in AnyPath /\ timer.path \in AnyPath
      BY <1>0, PathsAreAny DEF TypeOK
    <2>2. CASE op \in {"check_path", "read", "deposit"} /\ timer' = timer
      <3>1. op = "deposit" \/ (bits' = bits /\ forced' = forced)
        BY <1>0, <2>2 DEF Effect
      <3>2. op = "deposit" => forced' = forced /\ \A k \in forced : bits'[k] = bits[k]
        BY <1>0 DEF Effect
      <3>3. ForceHolds
        BY DEF Inv
      <3> QED BY <1>1, <2>2, <3>1, <3>2, <3>3 DEF ForceHolds, Fits
    <2>3. CASE Others
      BY <1>0, <2>3 DEF ForceHolds, Others, TypeOK
    <2>4. CASE op = "force" /\ call'.ret = 1
                 /\ timer' = [on |-> TRUE, path |-> p, arg |-> v, touched |-> FALSE]
      <3>1. /\ forced' = forced \cup Indices(p)
            /\ \A i \in 0..(Width(p) - 1) : bits'[Index(p, i)] = v[i]
        BY <1>0, <2>4 DEF Effect
      <3>2. \A i \in 0..(Width(p) - 1) : Index(p, i) \in Indices(p)
        BY <2>1, PathIndices
      <3> QED BY <2>4, <3>1, <3>2 DEF ForceHolds
    <2>5. CASE timer' = NoForce
      BY <2>5 DEF ForceHolds, NoForce
    <2> QED BY <2>2, <2>3, <2>4, <2>5 DEF CallStep
  <1> QED BY <1>0, <1>1, <1>2, <1>3, <1>4 DEF Inv, Effect

LEMMA StepInv == ASSUME Inv, [Next]_vars PROVE Inv'
  <1>0. TypeOK /\ build = "verilator"
    BY DEF Inv
  <1>1. CASE returns
    <2>1. call' = NoCall /\ UNCHANGED <<build, obj, bits, drv, forced, partsel, stopped, timer>>
      BY <1>1 DEF returns, design
    <2>2. PathsOf(obj)' = PathsOf(obj) /\ NoPath \in PathsOf(obj)
      BY <2>1 DEF PathsOf, NoPath
    <2>3. TypeOK'
      BY <1>0, <2>1, <2>2, VectorsPassed DEF TypeOK, NoCall
    <2>4. ReadExact'
      BY <2>1 DEF ReadExact, NoCall
    <2>5. ForceHolds'
      BY <2>1 DEF Inv, ForceHolds, Fits
    <2> QED BY <1>0, <2>1, <2>3, <2>4, <2>5 DEF Inv, NoCall
  <1>2. ASSUME NEW op \in Ops, NEW p \in PathsOf(obj), NEW v \in [VectorBits -> Bit],
               CallStep(op, p, v)
        PROVE  Inv'
    BY <1>2, CallInv
  <1>3. ASSUME NEW v \in Drives[obj], Drive(v), call = NoCall
        PROVE  Inv'
    <2>1. /\ UNCHANGED <<build, obj, forced, partsel, stopped, call, timer>> /\ drv' = v
          /\ bits' = [k \in DOMAIN bits |-> IF k \in forced THEN bits[k] ELSE v[k]]
      BY <1>3 DEF Drive
    <2>2. v \in [0..(Size[obj] - 1) -> Bit]
      BY <1>0, <1>3, BackdoorAssumption DEF TypeOK
    <2>3. PathsOf(obj)' = PathsOf(obj)
      BY <2>1 DEF PathsOf
    <2>4. bits' \in [0..(Size[obj] - 1) -> Bit]
      BY <1>0, <2>1, <2>2 DEF TypeOK
    <2>5. TypeOK'
      BY <1>0, <2>1, <2>2, <2>3, <2>4 DEF TypeOK
    <2>6. ReadExact'
      BY <1>3, <2>1 DEF ReadExact, NoCall
    <2>7. \A k \in forced : bits'[k] = bits[k]
      BY <1>0, <2>1 DEF TypeOK
    <2>8. ForceHolds'
      BY <2>1, <2>7 DEF Inv, ForceHolds, Fits
    <2> QED BY <1>0, <2>1, <2>5, <2>6, <2>8 DEF Inv
  <1>4. CASE UNCHANGED vars
    <2>1. UNCHANGED <<build, obj, bits, drv, forced, partsel, stopped, call, timer>>
      BY <1>4 DEF vars, design
    <2>2. PathsOf(obj)' = PathsOf(obj)
      BY <2>1 DEF PathsOf
    <2>3. TypeOK'
      BY <1>0, <2>1, <2>2 DEF TypeOK
    <2>4. ReadExact' /\ ForceHolds'
      BY <2>1 DEF Inv, ReadExact, ForceHolds, Fits
    <2> QED BY <1>0, <2>1, <2>3, <2>4 DEF Inv
  <1> QED BY <1>0, <1>1, <1>2, <1>3, <1>4, Steps

----------------------------------------------------------------------------
(* The theorems, of the build for Verilator.                               *)

LEMMA VerilatorInv == ASSUME Builds = {"verilator"} PROVE Spec => []Inv
  <1>1. Init => Inv
    BY InitInv
  <1>2. Inv /\ [Next]_vars => Inv'
    BY StepInv
  <1> QED BY <1>1, <1>2, PTL DEF Spec

(* The C code never touches memory that it must not, however wide the      *)
(* object and whatever the path.                                           *)
THEOREM VerilatorMemorySafe == ASSUME Builds = {"verilator"} PROVE Spec => []MemorySafe
  <1>1. Inv => MemorySafe
    BY DEF Inv, MemorySafe
  <1> QED BY <1>1, VerilatorInv, PTL

(* Every call gives back the handles it has obtained, on every return.     *)
THEOREM VerilatorHandlesReleased ==
    ASSUME Builds = {"verilator"} PROVE Spec => []HandlesReleased
  <1>1. Inv => HandlesReleased
    BY DEF Inv, HandlesReleased
  <1> QED BY <1>1, VerilatorInv, PTL

(* A read that succeeds, and a release that reads, fill the vector with the*)
(* bits of the path.                                                       *)
THEOREM VerilatorReadExact == ASSUME Builds = {"verilator"} PROVE Spec => []ReadExact
  <1>1. Inv => ReadExact
    BY DEF Inv
  <1> QED BY <1>1, VerilatorInv, PTL

(* While uvm_hdl_force_time waits undisturbed its path holds the value.    *)
THEOREM VerilatorForceHolds == ASSUME Builds = {"verilator"} PROVE Spec => []ForceHolds
  <1>1. Inv => ForceHolds
    BY DEF Inv
  <1> QED BY <1>1, VerilatorInv, PTL

(* A step that leaves a call is the step of that call.                     *)
LEMMA CallThere ==
    ASSUME Inv, Next, call'.op # "none"
    PROVE  \E op \in Ops, p \in PathsOf(obj), v \in [VectorBits -> Bit] : CallStep(op, p, v)
  <1>1. TypeOK /\ build = "verilator"
    BY DEF Inv
  <1>2. ~returns
    BY DEF returns, NoCall
  <1>3. ASSUME call = NoCall, NEW v, Drive(v) PROVE FALSE
    BY <1>3 DEF Drive, NoCall
  <1> QED BY <1>1, <1>2, <1>3, Steps

LEMMA WriteStep == ASSUME Inv, Next PROVE WrittenExactly
  <1>1. CASE call'.op = "none"
    BY <1>1 DEF WrittenExactly
  <1>2. CASE call'.op # "none"
    <2>1. PICK op \in Ops, p \in PathsOf(obj), v \in [VectorBits -> Bit] : CallStep(op, p, v)
      BY <1>2, CallThere
    <2>2. Effect(op, p, v)
      BY <2>1 DEF CallStep
    <2>3. call'.op = op /\ call'.path = p /\ call'.arg = v
      BY <2>2 DEF Effect
    <2>4. CASE call'.ret # 1
      BY <2>4 DEF WrittenExactly
    <2>5. CASE call'.ret = 1
      <3>1. CASE op = "deposit"
        <4>1. /\ forced' = forced
              /\ \A i \in 0..(Width(p) - 1) :
                    Index(p, i) \notin forced => bits'[Index(p, i)] = v[i]
          BY <2>2, <2>5, <3>1 DEF Effect
        <4> QED BY <2>3, <3>1, <4>1 DEF WrittenExactly
      <3>2. CASE op = "force"
        <4>1. /\ forced' = forced \cup Indices(p)
              /\ \A i \in 0..(Width(p) - 1) : bits'[Index(p, i)] = v[i]
          BY <2>2, <2>5, <3>2 DEF Effect
        <4> QED BY <2>3, <3>2, <4>1 DEF WrittenExactly
      <3>3. CASE op \in {"release", "release_and_read"}
        <4>1. forced' = forced \ Indices(p)
          BY <2>2, <2>5, <3>3 DEF Effect, FlagOf
        <4> QED BY <2>3, <3>3, <4>1 DEF WrittenExactly
      <3>4. CASE op \in {"check_path", "read"}
        BY <2>3, <3>4 DEF WrittenExactly
      <3> QED BY <3>1, <3>2, <3>3, <3>4 DEF Ops
    <2> QED BY <2>4, <2>5
  <1> QED BY <1>1, <1>2

LEMMA FrameStep == ASSUME Inv, Next PROVE OnlyThePath
  <1>1. CASE call'.op = "none"
    BY <1>1 DEF OnlyThePath
  <1>2. CASE call'.op # "none"
    <2>1. PICK op \in Ops, p \in PathsOf(obj), v \in [VectorBits -> Bit] : CallStep(op, p, v)
      BY <1>2, CallThere
    <2>2. Effect(op, p, v)
      BY <2>1 DEF CallStep
    <2>3. call'.op = op /\ call'.path = p
      BY <2>2 DEF Effect
    <2> DEFINE changed == {k \in DOMAIN bits : bits'[k] # bits[k]}
                             \cup (forced \ forced') \cup (forced' \ forced)
    <2>7. call'.ret = 1 => p.known /\ Indices(p) \subseteq DOMAIN bits
      BY <2>2 DEF Effect
    <2>4. CASE call'.ret = 0 \/ op \in {"check_path", "read"}
      <3>1. changed = {}
        BY <2>2, <2>4 DEF Effect
      <3> QED BY <2>3, <2>7, <3>1 DEF OnlyThePath
    <2>5. CASE call'.ret = 1 /\ op \notin {"check_path", "read"}
      <3>1. \A k \in DOMAIN bits \ Indices(p) : bits'[k] = bits[k]
        BY <2>2, <2>5 DEF Effect
      <3>2. \/ forced' = forced \/ forced' = forced \cup Indices(p)
            \/ forced' = forced \ Indices(p)
        BY <2>2, <2>5 DEF Effect, FlagOf, Ops
      <3>3. changed \subseteq Indices(p)
        BY <3>1, <3>2
      <3>4. \A i \in 0..(Width(p) - 1) : Index(p, i) \in DOMAIN bits
        BY <2>5, <2>7 DEF Indices
      <3> QED BY <2>3, <2>5, <2>7, <3>3, <3>4 DEF OnlyThePath
    <2>6. call'.ret \in {0, 1}
      BY <2>2 DEF Effect
    <2> QED BY <2>4, <2>5, <2>6
  <1> QED BY <1>1, <1>2

(* A call that writes leaves on its path what it was given, forced or not  *)
(* as the call says.                                                       *)
THEOREM VerilatorWriteExact == ASSUME Builds = {"verilator"} PROVE Spec => WriteExact
  <1>1. Inv /\ [Next]_vars => [WrittenExactly]_vars
    BY WriteStep
  <1> QED BY <1>1, VerilatorInv, PTL DEF Spec, WriteExact

(* A call changes nothing outside its path, and one that fails nothing.    *)
THEOREM VerilatorFrameKept == ASSUME Builds = {"verilator"} PROVE Spec => FrameKept
  <1>1. Inv /\ [Next]_vars => [OnlyThePath]_vars
    BY FrameStep
  <1> QED BY <1>1, VerilatorInv, PTL DEF Spec, FrameKept
==================================================================================
