------------------------------- MODULE MCObjection -------------------------------
(***************************************************************************)
(* Small instances of Objection for TLC.                                   *)
(***************************************************************************)
EXTENDS Objection, TLC

CONSTANTS top, env, agent, seq

(* top <- env <- agent and env <- seq: two children to charge one parent.  *)
TreeObjects == {top, env, agent, seq}
TreeParent == (env :> top) @@ (agent :> env) @@ (seq :> env)

(* top <- env <- agent: a drain in the middle of the way up.               *)
ChainObjects == {top, env, agent}
ChainParent == (env :> top) @@ (agent :> env)

==================================================================================
