------------------------------- MODULE MCTrDemux -------------------------------
(* One program, its PMT on pid 32, its PCR on the pid of one of two streams,
   and a pid nobody refers to.  The unit of time is the
   packet. *)
EXTENDS TrDemux
MCOwnPcr == {[pmt |-> 32, pcr |-> 256, es |-> {257}]}
MCStray == {512}
Kind(pid, pcr, complete) == [pid |-> pid, pcr |-> pcr, complete |-> complete]
Tables == {Kind(0, FALSE, TRUE), Kind(32, FALSE, TRUE)}
Clock == {Kind(256, TRUE, FALSE)}
Pids_ == {Kind(256, FALSE, FALSE), Kind(257, FALSE, FALSE)}
Nobodys == {Kind(512, FALSE, FALSE)}
AllKinds == Tables \cup Clock \cup Pids_ \cup Nobodys
=============================================================================
