---------------------------------- MODULE Sums -----------------------------------
(***************************************************************************)
(* The sum of a function's values over a set, as the number of its tokens: *)
(* f[x] of them for each x.  Unlike a fold this definition can be reasoned *)
(* about with the theorems on the cardinality of finite sets.              *)
(***************************************************************************)
EXTENDS Integers, FiniteSets

Tokens(f, S) == UNION {{x} \X (1 .. f[x]) : x \in S}

Sum(f, S) == Cardinality(Tokens(f, S))
==================================================================================
