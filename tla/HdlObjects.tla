------------------------------- MODULE HdlObjects --------------------------------
(***************************************************************************)
(* What the C code of the HDL backdoor (src/src/dpi/uvm_hdl_*.c) works on: *)
(* an object of the design, a path that names it or part of it, and the    *)
(* caller's vector.  A call is a function of a record m:                   *)
(*   obj      the object                                                   *)
(*   bits     its bits, by index; drv: what drives it if it is a wire      *)
(*   forced   the indices that are forced                                  *)
(*   val      the caller's vector; ret: what the call returns              *)
(*   held     handles of the simulator's interface obtained and not freed  *)
(*   ub       the code has read or written where it must not               *)
(*   stopped  the code has ended the simulation (tf_dofinish)              *)
(*   partsel  the static variable of uvm_hdl_questa.c                      *)
(*   junk     what an uninitialised or foreign bit holds                   *)
(*   language what an uninitialised language holds (uvm_hdl_xcelium.c)     *)
(*   inplace  the simulator writes what a release leaves into the vector   *)
(*            it has been given (uvm_hdl_vcs.c)                            *)
(*                                                                         *)
(* The interface of the simulator itself (VPI, FLI, VHPI) is external.     *)
(***************************************************************************)
EXTENDS Integers

CONSTANTS
    Objects,
    Size,               \* bits of an object, from Size - 1 down to 0
    VHDL,               \* objects that are VHDL signals
    Vectors,            \* objects whose value is a vector (no array, no real)
    Wires,              \* objects that go back to their driver when released
    Forceable,          \* objects that can be forced
    WordBits,           \* bits in a word of a vector: 32
    UVM_HDL_MAX_WIDTH,  \* bits in the caller's vector: 1024
    SliceByName         \* builds whose simulator finds a part select by name

ASSUME HdlAssumption ==
    /\ Size \in [Objects -> Nat \ {0}]
    /\ VHDL \cup Vectors \cup Wires \cup Forceable \subseteq Objects
    /\ WordBits \in Nat \ {0}
    /\ UVM_HDL_MAX_WIDTH \in Nat \ {0} /\ UVM_HDL_MAX_WIDTH % WordBits = 0

Bit == {"0", "1", "x"}

(* Number of words that hold n bits.                                       *)
Chunks(n) == (n - 1) \div WordBits + 1

VectorBits == 0..(UVM_HDL_MAX_WIDTH - 1)

(* The vector but for its last word is zero: what the loops that are to    *)
(* clear it do.                                                            *)
ClearLowWords(vec) ==
    [k \in DOMAIN vec |->
        IF k < (Chunks(UVM_HDL_MAX_WIDTH) - 1) * WordBits THEN "0" ELSE vec[k]]

----------------------------------------------------------------------------
(* Paths: "name", "name[lhs]", "name[lhs:rhs]", and the empty string.  A   *)
(* name may be unknown.                                                    *)

Whole(o) == [form |-> "whole", known |-> TRUE, lhs |-> Size[o] - 1, rhs |-> 0]
BitSelect(k) == [form |-> "bit", known |-> TRUE, lhs |-> k, rhs |-> k]
PartSelect(l, r) == [form |-> "slice", known |-> TRUE, lhs |-> l, rhs |-> r]
Unknown == [form |-> "whole", known |-> FALSE, lhs |-> 0, rhs |-> 0]
Empty == [form |-> "empty", known |-> FALSE, lhs |-> 0, rhs |-> 0]

Width(p) == (IF p.lhs > p.rhs THEN p.lhs - p.rhs ELSE p.rhs - p.lhs) + 1
Incr(p) == IF p.lhs > p.rhs THEN 1 ELSE -1

(* The index of the i-th bit of a path, counted from its right end.        *)
Index(p, i) == p.rhs + i * Incr(p)
Indices(p) == {Index(p, i) : i \in 0..(Width(p) - 1)}

Inside(o, p) == Indices(p) \subseteq 0..(Size[o] - 1)

(* vpi_handle_by_name.                                                     *)
Found(m, p, slices) ==
    p.known /\ Inside(m.obj, p) /\ (p.form = "slice" => slices)

----------------------------------------------------------------------------
(* Steps of a call.                                                        *)

Return(m, r) == [m EXCEPT !.ret = r]
Acquire(m) == [m EXCEPT !.held = @ + 1]
Release(m) == [m EXCEPT !.held = @ - 1]
Undefined(m) == [m EXCEPT !.ub = TRUE]
Finish(m) == [m EXCEPT !.stopped = TRUE]

(* vpi_get_value and its likes: the bits of the path, in whole words.      *)
GetValue(m, p) ==
    [k \in 0..(Chunks(Width(p)) * WordBits - 1) |->
        IF k < Width(p) THEN m.bits[Index(p, k)] ELSE "0"]

(* The loop over chunks that copies a vector of the simulator.             *)
CopyChunks(m, vec) ==
    [m EXCEPT !.val = [k \in DOMAIN @ |-> IF k \in DOMAIN vec THEN vec[k] ELSE @[k]],
              !.ub = @ \/ ~(DOMAIN vec \subseteq DOMAIN m.val)]

(* n characters, the left-most first, go to words 0, 1, and so on; each    *)
(* word is shifted left for each of its characters.                        *)
FillFromLeft(s, n) ==
    [k \in 0..(Chunks(n) * WordBits - 1) |->
        LET first == (k \div WordBits) * WordBits
            count == IF n - first < WordBits THEN n - first ELSE WordBits
            bit   == k % WordBits
        IN  IF bit < count THEN s[first + count - 1 - bit] ELSE "0"]

(* Whether a write does anything.                                          *)
Takes(m, flag) ==
    m.obj \in Vectors /\ (flag = "force" => m.obj \in Forceable)

(* vpi_put_value and its likes.  A deposit on a forced bit has no effect;  *)
(* a wire that is released takes the value of its driver, anything else    *)
(* keeps its value.  No more bits than the vector holds are there to be    *)
(* read, and a release reads none.                                         *)
PutValue(m, p, vec, flag) ==
    LET place(k) == (k - p.rhs) * Incr(p)
        given(k) == IF place(k) \in DOMAIN vec THEN vec[place(k)] ELSE m.junk
        put(k) == CASE flag = "force"   -> given(k)
                    [] flag = "deposit" -> IF k \in m.forced THEN m.bits[k] ELSE given(k)
                    [] flag = "release" -> IF m.obj \in Wires THEN m.drv[k] ELSE m.bits[k]
        over == flag # "release" /\ ~(0..(Width(p) - 1) \subseteq DOMAIN vec)
    IN  IF ~Takes(m, flag) THEN m
        ELSE [m EXCEPT
                !.bits = [k \in DOMAIN @ |-> IF k \in Indices(p) THEN put(k) ELSE @[k]],
                !.forced = CASE flag = "force"   -> @ \cup Indices(p)
                             [] flag = "deposit" -> @
                             [] flag = "release" -> @ \ Indices(p),
                !.ub = @ \/ over]
==================================================================================
