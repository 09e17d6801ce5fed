----------------------------- MODULE MCHdlBackdoor -------------------------------
(***************************************************************************)
(* An instance of HdlBackdoor for TLC, with words of 2 bits and vectors of *)
(* 4: a register of 3 bits, a wire, a VHDL vector, an object that is wider *)
(* than the vectors, and an array.                                         *)
(***************************************************************************)
EXTENDS HdlBackdoor, TLC

CONSTANTS register, wire, signal, wide, array

(* A vector by its bits, the last one first.                               *)
Vec(b3, b2, b1, b0) == (0 :> b0) @@ (1 :> b1) @@ (2 :> b2) @@ (3 :> b3)
Low(v, n) == [k \in 0..(n - 1) |-> v[k % 4]]

MCSize ==
    [o \in Objects |-> CASE o = register -> 3 [] o = wire -> 2 [] o = signal -> 3
                         [] o = wide -> 5 [] o = array -> 1]

MCValues == {Vec("0", "1", "1", "0"), Vec("1", "0", "x", "1")}
MCUnwritten == Vec("1", "1", "1", "1")

MCDrives ==
    [o \in Objects |->
        IF o \in {register, signal}
        THEN {Low(v, 3) : v \in {Vec("0", "0", "1", "0"), Vec("0", "x", "0", "1")}}
        ELSE {Low(Vec("0", "0", "1", "0"), MCSize[o]), Low(Vec("1", "1", "0", "1"), MCSize[o])}]

(* Bits in and out of range; parts in either order, over a word, and one   *)
(* that fails after its first bit.                                         *)
MCPaths ==
    [o \in Objects |->
        IF o \in {register, signal}
        THEN {BitSelect(1), BitSelect(3), PartSelect(2, 1), PartSelect(1, 2),
              PartSelect(3, 2), PartSelect(2, 0)}
        ELSE IF o = wire THEN {BitSelect(1)} ELSE {}]
==================================================================================
