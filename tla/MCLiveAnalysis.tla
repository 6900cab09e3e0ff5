---------------------------- MODULE MCLiveAnalysis ----------------------------
(* One PCR pid; datagrams arrive together, or so far apart that a timeout
   passes. *)
EXTENDS LiveAnalysis
MCPcrPid == {256}
MCDelays == {0, PMT_TIMEOUT + 1}
=============================================================================
