-------------------------------- MODULE MCPolling --------------------------------
(***************************************************************************)
(* Small instances of Polling for TLC: probes, on the same signal or on    *)
(* different ones, and a process that waits.                               *)
(***************************************************************************)
EXTENDS Polling

CONSTANTS h1, h2, s1, s2, w1, enumeral
==================================================================================
