---------------------------- MODULE CircularBuffer ----------------------------
(***************************************************************************)
(* CCircularBuffer (libeasyice/src/EasyICEDLL/CircularBuffer.cpp): the     *)
(* lock-free ring between one writing and one reading thread.  The live    *)
(* analyser uses two of them: source thread -> worker, and worker ->       *)
(* recording thread.                                                       *)
(*                                                                         *)
(* No lock is taken, so WriteItem and ReadItem are split at every access   *)
(* of a field the other thread uses.  ReadItem hands out a pointer INTO    *)
(* the ring and moves m_start before its caller has looked at the data:    *)
(* the item is read from the slot until the next call of ReadItem.         *)
(***************************************************************************)
EXTENDS Integers

CONSTANTS
  Item,   \* what a caller may write: a datagram's bytes with its length and time
  NoItem, \* contents of a slot never written
  m_size  \* circ_buf_size, the first argument of Init

ASSUME SizeAssumption == m_size \in Nat /\ m_size >= 2
ASSUME NoItemAssumption == NoItem \notin Item

VARIABLES
  m_start,     \* next slot to read
  m_end,       \* slot written last
  m_item_data, \* slot -> the bytes in it
  m_pItemInfo, \* slot -> the item whose length and time it records
  writer,      \* where the writing thread is: [pc, item, end]
  reader       \* where the reading thread is: [pc, slot, info]

vars == <<m_start, m_end, m_item_data, m_pItemInfo, writer, reader>>

Slots == 0 .. m_size - 1

\* mutant: an empty test that forgets m_end is the slot written last
EmptyAtEnd == m_start = m_end

Empty == m_start = (m_end + 1) % m_size
Full  == (m_end + 2) % m_size = m_start

-----------------------------------------------------------------------------

(* The constructor and Init: m_start = 1, m_end = 0; new BYTE[] leaves the
   slots undefined. *)
Init ==
  /\ m_start = 1
  /\ m_end = 0
  /\ m_item_data = [s \in Slots |-> NoItem]
  /\ m_pItemInfo = [s \in Slots |-> NoItem]
  /\ writer = [pc |-> "idle", item |-> NoItem, end |-> 0]
  /\ reader = [pc |-> "idle", slot |-> 0, info |-> NoItem]

(* WriteItem: Full() reads m_start; when it holds WriteItem returns false and
   the caller's item is lost. *)
WriteFull ==
  /\ writer.pc \in {"idle", "refused"}
  /\ Full
  /\ writer' = [writer EXCEPT !.pc = "refused"]
  /\ UNCHANGED <<m_start, m_end, m_item_data, m_pItemInfo, reader>>

\* mutant: no test of Full()
WriteBeginUnguarded(i) ==
  /\ writer.pc \in {"idle", "refused"}
  /\ writer' = [pc |-> "data", item |-> i, end |-> (m_end + 1) % m_size]
  /\ UNCHANGED <<m_start, m_end, m_item_data, m_pItemInfo, reader>>

WriteBegin(i) ==
  /\ writer.pc \in {"idle", "refused"}
  /\ ~Full
  /\ writer' = [pc |-> "data", item |-> i, end |-> (m_end + 1) % m_size]
  /\ UNCHANGED <<m_start, m_end, m_item_data, m_pItemInfo, reader>>

\* mutant: m_end moved before the copy
WriteDataPublished ==
  /\ writer.pc = "data"
  /\ m_item_data' = [m_item_data EXCEPT ![writer.end] = writer.item]
  /\ m_end' = writer.end
  /\ writer' = [writer EXCEPT !.pc = "info"]
  /\ UNCHANGED <<m_start, m_pItemInfo, reader>>

WriteData ==
  /\ writer.pc = "data"
  /\ m_item_data' = [m_item_data EXCEPT ![writer.end] = writer.item]
  /\ writer' = [writer EXCEPT !.pc = "info"]
  /\ UNCHANGED <<m_start, m_end, m_pItemInfo, reader>>

WriteInfo ==
  /\ writer.pc = "info"
  /\ m_pItemInfo' = [m_pItemInfo EXCEPT ![writer.end] = writer.item]
  /\ writer' = [writer EXCEPT !.pc = "publish"]
  /\ UNCHANGED <<m_start, m_end, m_item_data, reader>>

(* m_end = end makes the item visible to Empty(). *)
WritePublish ==
  /\ writer.pc = "publish"
  /\ m_end' = writer.end
  /\ writer' = [writer EXCEPT !.pc = "idle"]
  /\ UNCHANGED <<m_start, m_item_data, m_pItemInfo, reader>>

(* ReadItem.  Its caller has finished with the previous item when it calls. *)
ReadEmpty ==
  /\ reader.pc \in {"idle", "use"}
  /\ Empty
  /\ reader' = [reader EXCEPT !.pc = "idle"]
  /\ UNCHANGED <<m_start, m_end, m_item_data, m_pItemInfo, writer>>

ReadBegin ==
  /\ reader.pc \in {"idle", "use"}
  /\ ~Empty
  /\ reader' = [reader EXCEPT !.pc = "info"]
  /\ UNCHANGED <<m_start, m_end, m_item_data, m_pItemInfo, writer>>

ReadInfo ==
  /\ reader.pc = "info"
  /\ reader' = [pc |-> "advance", slot |-> m_start, info |-> m_pItemInfo[m_start]]
  /\ UNCHANGED <<m_start, m_end, m_item_data, m_pItemInfo, writer>>

\* mutant: one slot skipped
ReadAdvanceTwice ==
  /\ reader.pc = "advance"
  /\ m_start' = (m_start + 2) % m_size
  /\ reader' = [reader EXCEPT !.pc = "use"]
  /\ UNCHANGED <<m_end, m_item_data, m_pItemInfo, writer>>

(* The slot is given up here, while its item is still to be used. *)
ReadAdvance ==
  /\ reader.pc = "advance"
  /\ m_start' = (m_start + 1) % m_size
  /\ reader' = [reader EXCEPT !.pc = "use"]
  /\ UNCHANGED <<m_end, m_item_data, m_pItemInfo, writer>>

Write == WriteFull \/ (\E i \in Item : WriteBegin(i)) \/ WriteData \/ WriteInfo \/ WritePublish
Read  == ReadEmpty \/ ReadBegin \/ ReadInfo \/ ReadAdvance

Next == Write \/ Read

Spec == Init /\ [][Next]_vars

(* The reading threads poll (WorkFun and RecordThread loop, with a timed wait
   when the ring is empty), and a call of WriteItem that has begun runs to its
   end: both threads keep being scheduled.  Nothing makes new items arrive. *)
Fairness ==
  /\ WF_vars(Read)
  /\ WF_vars(WriteData \/ WriteInfo \/ WritePublish)

FairSpec == Spec /\ Fairness

-----------------------------------------------------------------------------
(* Properties *)

TypeOK ==
  /\ m_start \in Slots
  /\ m_end \in Slots
  /\ m_item_data \in [Slots -> Item \cup {NoItem}]
  /\ m_pItemInfo \in [Slots -> Item \cup {NoItem}]
  /\ writer \in [pc : {"idle", "refused", "data", "info", "publish"},
                 item : Item \cup {NoItem}, end : Slots]
  /\ reader \in [pc : {"idle", "info", "advance", "use"},
                 slot : Slots, info : Item \cup {NoItem}]

Writing == writer.pc \in {"data", "info", "publish"}
Reading == reader.pc \in {"info", "advance", "use"}

\* the slot the reading thread or its caller is looking at
InUse == IF reader.pc = "info" THEN m_start ELSE reader.slot

(* The two threads never touch one slot at the same time, although m_start has
   moved past the slot whose item the caller of ReadItem still uses: Full()
   keeps one slot free, and it is exactly that one. *)
NoSharedSlot == Writing /\ Reading => writer.end # InUse

(* What ReadItem returned stays what it was until the next call: bytes and
   length and time belong to one item, the one WriteItem was given. *)
ReturnedItemIntact ==
  reader.pc = "use" =>
    /\ reader.info \in Item
    /\ m_item_data[reader.slot] = reader.info

\* published slots, oldest first
Count == (m_end + 1 - m_start) % m_size
Slot(k) == (m_start + k - 1) % m_size

(* The ring is a bounded FIFO of m_size - 1 items: nothing is lost once it is
   accepted, nothing is duplicated, reordered or torn, and WriteItem refuses
   only when m_size - 1 items wait. *)
Fifo == INSTANCE BoundedFifo WITH
  Capacity <- m_size - 1,
  None <- NoItem,
  queue <- [k \in 1 .. Count |-> <<m_item_data[Slot(k)], m_pItemInfo[Slot(k)]>>],
  held <- IF reader.pc = "use" THEN <<m_item_data[reader.slot], reader.info>> ELSE NoItem,
  refused <- writer.pc = "refused"

ImplementsFifo == Fifo!Spec

(* An item WriteItem has accepted is handed to the reading thread: no slot is
   skipped or left behind when m_start and m_end wrap. *)
AcceptedItemIsRead ==
  \A s \in Slots :
    (\E k \in 1 .. Count : Slot(k) = s) ~> (reader.pc = "use" /\ reader.slot = s)
=============================================================================
