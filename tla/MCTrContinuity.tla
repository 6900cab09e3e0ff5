---------------------------- MODULE MCTrContinuity ----------------------------
(* One pid that counts and the null pid; a counter of four values in a word
   of sixteen. *)
EXTENDS TrContinuity
MCPid == {256, 8191}
=============================================================================
