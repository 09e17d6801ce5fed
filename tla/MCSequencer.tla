------------------------------ MODULE MCSequencer -------------------------------
(***************************************************************************)
(* Instances of Sequencer for TLC: sequences a and b, c started by a, and  *)
(* one or two processes in each.                                           *)
(***************************************************************************)
EXTENDS Sequencer

CONSTANTS a, b, c, ap, aq, bp, cp

(* Two unrelated sequences.                                                *)
PairSeqs == {a, b}
PairAncestors == [s \in PairSeqs |-> {}]
PairProcs == {ap, bp}
PairSeqOf == [p \in PairProcs |-> IF p = ap THEN a ELSE b]

(* Two unrelated sequences, one with a child.                              *)
TreeSeqs == {a, b, c}
TreeAncestors == [s \in TreeSeqs |-> IF s = c THEN {a} ELSE {}]
TreeProcs == {ap, bp, cp}
TreeSeqOf == [p \in TreeProcs |-> IF p = ap THEN a ELSE IF p = bp THEN b ELSE c]

(* Two unrelated sequences, one with two processes.                        *)
ForkProcs == {ap, aq, bp}
ForkSeqOf == [p \in ForkProcs |-> IF p = bp THEN b ELSE a]

OnePriority == {1}
TwoPriorities == {1, 2}

=================================================================================
