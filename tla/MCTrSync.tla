------------------------------- MODULE MCTrSync -------------------------------
(* Packets of two bytes, so of two phases, and a buffer of ten packets.   *)
EXTENDS TrSync
MCBufferSize == 10 * m_nTslen
=============================================================================
