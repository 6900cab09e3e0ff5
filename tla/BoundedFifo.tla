------------------------------ MODULE BoundedFifo ------------------------------
(***************************************************************************)
(* What a CCircularBuffer promises its two threads: a FIFO of at most      *)
(* Capacity items, each a pair of its bytes and of its length and time,    *)
(* where the item taken last stays readable until the reader comes back.   *)
(***************************************************************************)
EXTENDS Integers, Sequences

CONSTANTS Item, None, Capacity

VARIABLES
  queue,   \* items accepted and not yet taken
  held,    \* the item taken last, until the reader asks for another
  refused  \* the last call of WriteItem returned false

vars == <<queue, held, refused>>

Init == queue = <<>> /\ held = None /\ refused = FALSE

(* WriteItem begins, and has not refused. *)
Accept ==
  /\ Len(queue) < Capacity
  /\ refused' = FALSE
  /\ UNCHANGED <<queue, held>>

Put(i) ==
  /\ ~refused
  /\ Len(queue) < Capacity
  /\ queue' = Append(queue, <<i, i>>)
  /\ UNCHANGED <<held, refused>>

Refuse ==
  /\ Len(queue) = Capacity
  /\ refused' = TRUE
  /\ UNCHANGED <<queue, held>>

(* ReadItem is called: the item it returned before is no longer used. *)
Release == held' = None /\ UNCHANGED <<queue, refused>>

Take ==
  /\ queue # <<>>
  /\ held = None
  /\ held' = Head(queue)
  /\ queue' = Tail(queue)
  /\ UNCHANGED refused

Next == Accept \/ (\E i \in Item : Put(i)) \/ Refuse \/ Release \/ Take

Spec == Init /\ [][Next]_vars
=============================================================================
