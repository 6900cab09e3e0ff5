---------------------------- MODULE MCHlsRecording ----------------------------
(* Live presentations whose playlist has one segment, and short ones on demand. *)
EXTENDS HlsRecording

MCStarts == {[live |-> TRUE,  published |-> 1], [live |-> FALSE, published |-> 0],
             [live |-> FALSE, published |-> 2]}
=============================================================================
