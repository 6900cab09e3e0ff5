--------------------------- MODULE MCCircularBuffer ---------------------------
(* Two items are enough to tell a kept order from a broken one; the ring wraps
   several times over its four slots. *)
EXTENDS CircularBuffer
CONSTANTS a, b
MCItem == {a, b}
=============================================================================
