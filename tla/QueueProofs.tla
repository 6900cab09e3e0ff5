------------------------------ MODULE QueueProofs ------------------------------
(***************************************************************************)
(* The two queues between threads.                                         *)
(*                                                                         *)
(* CircularBuffer.cpp is proved for every ring size of at least two and    *)
(* every set of items: the two threads never meet in a slot, and what      *)
(* ReadItem returned stays intact until the next call.  Neither property   *)
(* is inductive.  What makes them hold is the free slot Full() insists on  *)
(* (WriterInv), that ReadItem found the ring non-empty before it touched   *)
(* m_start's slot (ReaderInv), and that every published slot holds one     *)
(* whole item (PublishedInv).                                              *)
(*                                                                         *)
(* The same invariant carries the refinement: read from m_start on, the    *)
(* slots are the queue of BoundedFifo, and every step of either thread is  *)
(* a step of that FIFO or changes nothing it shows.                        *)
(*                                                                         *)
(* MsgMgr is proved for every set of posting threads and every number of   *)
(* messages: the callback sees the messages in order, and the worker finds *)
(* a message where it saw one unless the queue was cleared.  Order is not  *)
(* inductive: a posted message is in one of four places, the application's *)
(* hands, the worker's, the queue, or among those a Clear threw away, and  *)
(* the last of them holds nothing before Stop clears (Places).  Nobody     *)
(* posts once Stop has joined the threads (StopInv).                       *)
(***************************************************************************)
EXTENDS CircularBuffer, MsgMgr, FiniteSetTheorems, SequenceTheorems, TLAPS

Succ(s) == (s + 1) % m_size

\* s holds an item ReadItem has yet to take
Published(s) ==
  LET e == Succ(m_end) IN
    IF m_start <= e THEN m_start <= s /\ s < e ELSE m_start <= s \/ s < e

WriterInv ==
  Writing => /\ writer.item \in Item
             /\ writer.end = Succ(m_end)
             /\ m_start # Succ(Succ(m_end))
             /\ writer.pc \in {"info", "publish"} => m_item_data[writer.end] = writer.item
             /\ writer.pc = "publish" => m_pItemInfo[writer.end] = writer.item

ReaderInv ==
  /\ reader.pc \in {"info", "advance"} => m_start # Succ(m_end)
  /\ reader.pc = "advance" => reader.slot = m_start /\ reader.info = m_pItemInfo[m_start]
  /\ reader.pc = "use" => /\ m_start = Succ(reader.slot)
                          /\ reader.info \in Item
                          /\ m_item_data[reader.slot] = reader.info

PublishedInv ==
  \A s \in Slots : Published(s) => m_pItemInfo[s] \in Item /\ m_item_data[s] = m_pItemInfo[s]

IInv == TypeOK /\ WriterInv /\ ReaderInv /\ PublishedInv

-----------------------------------------------------------------------------
(* The next index wraps at the end of the ring. *)
LEMMA SuccDef == ASSUME NEW s \in Slots
                 PROVE /\ Succ(s) = IF s = m_size - 1 THEN 0 ELSE s + 1
                       /\ Succ(s) \in Slots
  BY SizeAssumption DEF Succ, Slots

(* Full() looks at the slot after the next one. *)
LEMMA SuccTwice == ASSUME NEW s \in Slots PROVE (s + 2) % m_size = Succ(Succ(s))
  BY SizeAssumption DEF Succ, Slots

(* IInv holds after the constructor and Init. *)
LEMMA InitIInv == Init => IInv
<1> SUFFICES ASSUME Init PROVE IInv
  OBVIOUS
<1>1. TypeOK
  BY SizeAssumption DEF Init, TypeOK, Slots
<1>2. WriterInv /\ ReaderInv
  BY DEF Init, WriterInv, ReaderInv, Writing
<1>3. Succ(0) = 1
  BY SuccDef, SizeAssumption DEF Slots
<1>4. PublishedInv
  BY <1>3 DEF Init, PublishedInv, Published, Slots
<1> QED BY <1>1, <1>2, <1>4 DEF IInv

(* Every step of either thread preserves IInv. *)
LEMMA NextIInv == IInv /\ [Next]_vars => IInv'
<1> SUFFICES ASSUME IInv, [Next]_vars PROVE IInv'
  OBVIOUS
<1> USE DEF IInv
<1>s. /\ Succ(m_end) = IF m_end = m_size - 1 THEN 0 ELSE m_end + 1
      /\ Succ(m_end) \in Slots
      /\ Succ(Succ(m_end)) = IF Succ(m_end) = m_size - 1 THEN 0 ELSE Succ(m_end) + 1
      /\ Succ(Succ(m_end)) \in Slots
      /\ Succ(m_start) = IF m_start = m_size - 1 THEN 0 ELSE m_start + 1
      /\ Succ(m_start) \in Slots
  BY SuccDef DEF TypeOK
<1>1. CASE WriteFull
  BY <1>1 DEF WriteFull, TypeOK, WriterInv, ReaderInv, PublishedInv, Published, Writing, Succ
<1>2. ASSUME NEW i \in Item, WriteBegin(i) PROVE IInv'
  <2>1. TypeOK'
    BY <1>2, <1>s DEF WriteBegin, TypeOK, Succ
  <2>2. WriterInv'
    <3>1. writer' = [pc |-> "data", item |-> i, end |-> Succ(m_end)] /\ UNCHANGED <<m_start, m_end>>
      BY <1>2 DEF WriteBegin, Succ
    <3>2. m_start # Succ(Succ(m_end))
      BY <1>2, SuccTwice DEF WriteBegin, Full, TypeOK
    <3> QED BY <3>1, <3>2 DEF WriterInv, Writing, Succ
  <2>3. ReaderInv' /\ PublishedInv'
    BY <1>2 DEF WriteBegin, ReaderInv, PublishedInv, Published, Succ
  <2> QED BY <2>1, <2>2, <2>3
<1>3. CASE WriteData
  <2>0. /\ writer.pc = "data" /\ Writing
        /\ m_item_data' = [m_item_data EXCEPT ![writer.end] = writer.item]
        /\ writer' = [writer EXCEPT !.pc = "info"]
        /\ UNCHANGED <<m_start, m_end, m_pItemInfo, reader>>
    BY <1>3 DEF WriteData, Writing
  <2>1. TypeOK'
    BY <2>0 DEF TypeOK
  <2>2. WriterInv'
    BY <2>0 DEF WriterInv, Writing, TypeOK, Succ
  <2>3. ReaderInv'
    <3>1. reader.pc = "use" => writer.end # reader.slot
      BY <2>0, <1>s, SuccDef DEF WriterInv, ReaderInv, TypeOK
    <3> QED BY <3>1, <2>0 DEF ReaderInv, TypeOK, Succ
  <2>4. PublishedInv'
    <3>1. ~Published(writer.end)
      BY <2>0, <1>s, SizeAssumption DEF WriterInv, Published, TypeOK, Slots
    <3>2. \A s \in Slots : Published(s)' = Published(s)
      BY <2>0 DEF Published, Succ
    <3> QED BY <3>1, <3>2, <2>0 DEF PublishedInv, TypeOK
  <2> QED BY <2>1, <2>2, <2>3, <2>4
<1>4. CASE WriteInfo
  <2>0. /\ writer.pc = "info" /\ Writing
        /\ m_pItemInfo' = [m_pItemInfo EXCEPT ![writer.end] = writer.item]
        /\ writer' = [writer EXCEPT !.pc = "publish"]
        /\ UNCHANGED <<m_start, m_end, m_item_data, reader>>
    BY <1>4 DEF WriteInfo, Writing
  <2>1. TypeOK'
    BY <2>0 DEF TypeOK
  <2>2. WriterInv'
    BY <2>0 DEF WriterInv, Writing, TypeOK, Succ
  <2>3. ReaderInv'
    <3>1. reader.pc = "advance" => writer.end # m_start
      BY <2>0 DEF WriterInv, ReaderInv
    <3> QED BY <3>1, <2>0 DEF ReaderInv, TypeOK, Succ
  <2>4. PublishedInv'
    <3>1. ~Published(writer.end)
      BY <2>0, <1>s, SizeAssumption DEF WriterInv, Published, TypeOK, Slots
    <3>2. \A s \in Slots : Published(s)' = Published(s)
      BY <2>0 DEF Published, Succ
    <3> QED BY <3>1, <3>2, <2>0 DEF PublishedInv, TypeOK
  <2> QED BY <2>1, <2>2, <2>3, <2>4
<1>5. CASE WritePublish
  <2>0. /\ writer.pc = "publish" /\ Writing
        /\ m_end' = writer.end
        /\ writer' = [writer EXCEPT !.pc = "idle"]
        /\ UNCHANGED <<m_start, m_item_data, m_pItemInfo, reader>>
    BY <1>5 DEF WritePublish, Writing
  <2>1. TypeOK'
    BY <2>0 DEF TypeOK
  <2>2. WriterInv'
    BY <2>0 DEF WriterInv, Writing, TypeOK
  <2>3. Succ(m_end)' = Succ(Succ(m_end))
    BY <2>0 DEF WriterInv, Succ
  <2>4. ReaderInv'
    BY <2>0, <2>3 DEF ReaderInv, WriterInv, Succ
  <2>5. PublishedInv'
    <3>1. \A s \in Slots : Published(s)' => Published(s) \/ s = writer.end
      BY <2>0, <2>3, <1>s, SizeAssumption DEF WriterInv, Published, TypeOK, Slots
    <3> QED BY <3>1, <2>0 DEF PublishedInv, WriterInv, TypeOK
  <2> QED BY <2>1, <2>2, <2>4, <2>5
<1>6. CASE ReadEmpty
  BY <1>6 DEF ReadEmpty, TypeOK, WriterInv, ReaderInv, PublishedInv, Published, Writing, Succ
<1>7. CASE ReadBegin
  BY <1>7 DEF ReadBegin, Empty, TypeOK, WriterInv, ReaderInv, PublishedInv, Published, Writing, Succ
<1>8. CASE ReadInfo
  BY <1>8 DEF ReadInfo, TypeOK, WriterInv, ReaderInv, PublishedInv, Published, Writing, Succ
<1>9. CASE ReadAdvance
  <2>0. /\ reader.pc = "advance"
        /\ m_start' = Succ(m_start)
        /\ reader' = [reader EXCEPT !.pc = "use"]
        /\ UNCHANGED <<m_end, m_item_data, m_pItemInfo, writer>>
    BY <1>9 DEF ReadAdvance, Succ
  <2>1. TypeOK'
    BY <2>0, <1>s DEF TypeOK
  <2>2. WriterInv'
    <3>1. Succ(m_start) # Succ(Succ(m_end))
      BY <2>0, <1>s, SizeAssumption DEF ReaderInv, TypeOK, Slots
    <3> QED BY <3>1, <2>0 DEF WriterInv, Writing, Succ
  <2>3. ReaderInv'
    <3>1. Published(m_start)
      BY <2>0, <1>s, SizeAssumption DEF ReaderInv, Published, TypeOK, Slots
    <3> QED BY <3>1, <2>0 DEF ReaderInv, PublishedInv, TypeOK
  <2>4. PublishedInv'
    <3>1. \A s \in Slots : Published(s)' => Published(s)
      <4>1. m_start' = Succ(m_start) /\ Succ(m_end)' = Succ(m_end) /\ m_start # Succ(m_end)
        BY <2>0 DEF ReaderInv, Succ
      <4> QED BY <4>1, <1>s, SizeAssumption DEF Published, TypeOK, Slots
    <3> QED BY <3>1, <2>0 DEF PublishedInv
  <2> QED BY <2>1, <2>2, <2>3, <2>4
<1>10. CASE UNCHANGED vars
  BY <1>10 DEF vars, TypeOK, WriterInv, ReaderInv, PublishedInv, Published, Writing, Succ
<1> QED
  BY <1>1, <1>2, <1>3, <1>4, <1>5, <1>6, <1>7, <1>8, <1>9, <1>10 DEF Next, Write, Read

(* The strengthened invariant of the ring holds in every reachable state. *)
THEOREM Invariant == Spec => []IInv
BY InitIInv, NextIInv, PTL DEF Spec

(* Indices, slots and both threads' local values stay of their types:
   WriteItem and ReadItem never compute an index outside the ring. *)
THEOREM TypeCorrect == Spec => []TypeOK
<1>1. IInv => TypeOK
  BY DEF IInv
<1> QED BY <1>1, Invariant, PTL

(* WriteItem's memcpy never goes to the slot whose item the caller of ReadItem
   is using, for every ring size. *)
THEOREM SlotsDisjoint == Spec => []NoSharedSlot
<1>1. IInv => NoSharedSlot
  <2> SUFFICES ASSUME IInv, Writing, Reading PROVE writer.end # InUse
    BY DEF NoSharedSlot
  <2>1. m_start # Succ(Succ(m_end)) /\ writer.end = Succ(m_end)
    BY DEF IInv, WriterInv
  <2> QED BY <2>1 DEF IInv, ReaderInv, InUse, Reading
<1> QED BY <1>1, Invariant, PTL

(* The item ReadItem returned is whole, and no write changes it while its
   caller uses it. *)
THEOREM ReturnedItemWhole == Spec => []ReturnedItemIntact
<1>1. IInv => ReturnedItemIntact
  BY DEF IInv, ReaderInv, ReturnedItemIntact
<1> QED BY <1>1, Invariant, PTL

-----------------------------------------------------------------------------
(* The ring is a FIFO *)

Whole == Item \cup {NoItem}
Waiting == [k \in 1 .. Count |-> <<m_item_data[Slot(k)], m_pItemInfo[Slot(k)]>>]
Held == IF reader.pc = "use" THEN <<m_item_data[reader.slot], reader.info>> ELSE NoItem

Pair(k) == <<m_item_data[Slot(k)], m_pItemInfo[Slot(k)]>>

\* the ring's arithmetic without remainders
CountOK ==
  /\ Count = IF m_start <= Succ(m_end) THEN Succ(m_end) - m_start
             ELSE Succ(m_end) - m_start + m_size
  /\ Count \in 0 .. m_size - 1

SlotsOK ==
  \A k \in 1 .. m_size :
    /\ Slot(k) = IF m_start + k - 1 < m_size THEN m_start + k - 1 ELSE m_start + k - 1 - m_size
    /\ Slot(k) \in Slots

WaitingOK ==
  /\ Waiting \in Seq(Whole \X Whole) /\ Len(Waiting) = Count
  /\ \A k \in 1 .. Count : Waiting[k] = Pair(k)

(* What waits is a sequence of Count items, one in each of Count slots. *)
LEMMA WaitingIsQueue == TypeOK => CountOK /\ SlotsOK /\ WaitingOK
<1> SUFFICES ASSUME TypeOK PROVE CountOK /\ SlotsOK /\ WaitingOK
  OBVIOUS
<1> USE SizeAssumption
<1>1. CountOK
  <2>1. Succ(m_end) \in Slots /\ Succ(m_end) = IF m_end = m_size - 1 THEN 0 ELSE m_end + 1
    BY SuccDef DEF TypeOK
  <2> DEFINE a == m_end + 1 - m_start
  <2>2. a \in Int /\ -m_size < a /\ a <= m_size
    BY DEF TypeOK, Slots
  <2>3. a % m_size = IF a < 0 THEN a + m_size ELSE IF a = m_size THEN 0 ELSE a
    <3> HIDE DEF a
    <3> QED BY <2>2
  <2> QED BY <2>1, <2>3 DEF CountOK, Count, TypeOK, Slots
<1>2. SlotsOK
  <2> SUFFICES ASSUME NEW k \in 1 .. m_size
               PROVE  /\ Slot(k) = IF m_start + k - 1 < m_size THEN m_start + k - 1
                                   ELSE m_start + k - 1 - m_size
                      /\ Slot(k) \in Slots
    BY DEF SlotsOK
  <2> DEFINE a == m_start + k - 1
  <2>1. a \in 0 .. 2 * m_size - 1
    BY DEF TypeOK, Slots
  <2>2. a % m_size = IF a < m_size THEN a ELSE a - m_size
    <3> HIDE DEF a
    <3> QED BY <2>1
  <2> QED BY <2>1, <2>2 DEF Slot, Slots, TypeOK
<1>3. WaitingOK
  <2>1. \A k \in 1 .. Count : Slot(k) \in Slots
    BY <1>1, <1>2 DEF CountOK, SlotsOK
  <2>2. \A k \in 1 .. Count : Pair(k) \in Whole \X Whole
    BY <2>1 DEF TypeOK, Whole, Pair
  <2>3. Count \in Nat
    BY <1>1 DEF CountOK
  <2>4. Waiting = [k \in 1 .. Count |-> Pair(k)]
    BY DEF Waiting, Pair
  <2> HIDE DEF Count
  <2> QED BY <2>2, <2>3, <2>4, IsASeq DEF WaitingOK
<1> QED BY <1>1, <1>2, <1>3

(* And so it is after a step. *)
LEMMA WaitingStaysQueue == TypeOK' => CountOK' /\ SlotsOK' /\ WaitingOK'
  BY WaitingIsQueue, PTL

(* The waiting items lie from m_start on; the slot behind them is the one the
   next item goes to, and all slots but one wait exactly when Full() says so. *)
LEMMA RingShape ==
  ASSUME TypeOK
  PROVE  /\ \A k \in 1 .. Count : Slot(k) # Succ(m_end)
         /\ Slot(Count + 1) = Succ(m_end)
         /\ Slot(1) = m_start
         /\ Count = 0 <=> m_start = Succ(m_end)
         /\ Count = m_size - 1 <=> m_start = Succ(Succ(m_end))
<1> USE SizeAssumption
<1>1. /\ Count = IF m_start <= Succ(m_end) THEN Succ(m_end) - m_start
                  ELSE Succ(m_end) - m_start + m_size
      /\ Count \in 0 .. m_size - 1
  BY WaitingIsQueue DEF CountOK
<1>2. \A k \in 1 .. m_size :
        Slot(k) = IF m_start + k - 1 < m_size THEN m_start + k - 1 ELSE m_start + k - 1 - m_size
  BY WaitingIsQueue DEF SlotsOK
<1>3. /\ m_start \in 0 .. m_size - 1 /\ Succ(m_end) \in 0 .. m_size - 1
      /\ Succ(Succ(m_end)) = IF Succ(m_end) = m_size - 1 THEN 0 ELSE Succ(m_end) + 1
  BY SuccDef DEF TypeOK, Slots
<1>4. \A k \in 1 .. Count : k \in 1 .. m_size /\ Slot(k) # Succ(m_end)
  BY <1>1, <1>2, <1>3
<1>5. Slot(Count + 1) = Succ(m_end) /\ Slot(1) = m_start
  <2>1. Count + 1 \in 1 .. m_size /\ 1 \in 1 .. m_size
    BY <1>1
  <2> QED BY <1>1, <1>2, <1>3, <2>1
<1>6. Count = 0 <=> m_start = Succ(m_end)
  BY <1>1, <1>3
<1>7. Count = m_size - 1 <=> m_start = Succ(Succ(m_end))
  BY <1>1, <1>3
<1> QED BY <1>4, <1>5, <1>6, <1>7

(* Steps that move neither index and write to no waiting slot leave the queue. *)
LEMMA WaitingSame ==
  ASSUME TypeOK, UNCHANGED <<m_start, m_end>>,
         \A s \in Slots : s # Succ(m_end) =>
           m_item_data'[s] = m_item_data[s] /\ m_pItemInfo'[s] = m_pItemInfo[s]
  PROVE  Waiting' = Waiting
<1>1. Count' = Count /\ \A k : Slot(k)' = Slot(k)
  BY DEF Count, Slot
<1>2. \A k \in 1 .. Count : Slot(k) \in Slots /\ Slot(k) # Succ(m_end)
  BY WaitingIsQueue, RingShape, SizeAssumption DEF CountOK, SlotsOK
<1> HIDE DEF Count, Slot
<1> QED BY <1>1, <1>2 DEF Waiting


(* m_end = end puts one item behind those that wait. *)
LEMMA PublishAppends ==
  ASSUME IInv, IInv', WritePublish
  PROVE  Len(Waiting) < m_size - 1 /\ Waiting' = Append(Waiting, <<writer.item, writer.item>>)
<1> USE SizeAssumption
<1>1. /\ writer.end = Succ(m_end) /\ m_start # Succ(Succ(m_end)) /\ m_end' = Succ(m_end)
      /\ m_item_data[writer.end] = writer.item /\ m_pItemInfo[writer.end] = writer.item
      /\ UNCHANGED <<m_start, m_item_data, m_pItemInfo>> /\ writer.item \in Item
      /\ TypeOK /\ TypeOK'
  BY DEF WritePublish, IInv, WriterInv, Writing
<1>2. Count' = Count + 1 /\ Count < m_size - 1 /\ Count \in Nat
  <2>1. Count # m_size - 1 /\ Count \in 0 .. m_size - 1
    BY <1>1, RingShape, WaitingIsQueue DEF CountOK
  <2>2. /\ Count' = IF m_start <= Succ(Succ(m_end)) THEN Succ(Succ(m_end)) - m_start
                     ELSE Succ(Succ(m_end)) - m_start + m_size
        /\ Count = IF m_start <= Succ(m_end) THEN Succ(m_end) - m_start
                    ELSE Succ(m_end) - m_start + m_size
    BY <1>1, WaitingIsQueue, WaitingStaysQueue DEF CountOK, Succ
  <2>3. /\ m_start \in 0 .. m_size - 1 /\ Succ(m_end) \in 0 .. m_size - 1
        /\ Succ(Succ(m_end)) = IF Succ(m_end) = m_size - 1 THEN 0 ELSE Succ(m_end) + 1
    BY <1>1, SuccDef DEF TypeOK, Slots
  <2> QED BY <1>1, <2>1, <2>2, <2>3
<1>3. \A k : Slot(k)' = Slot(k) /\ Pair(k)' = Pair(k)
  BY <1>1 DEF Slot, Pair
<1>4. Pair(Count + 1) = <<writer.item, writer.item>>
  BY <1>1, RingShape DEF Pair
<1>5. /\ Waiting \in Seq(Whole \X Whole) /\ Len(Waiting) = Count
      /\ \A k \in 1 .. Count : Waiting[k] = Pair(k)
  BY <1>1, WaitingIsQueue DEF WaitingOK
<1>6. /\ Waiting' \in Seq(Whole \X Whole) /\ Len(Waiting') = Count + 1
      /\ \A k \in 1 .. Count + 1 : Waiting'[k] = Pair(k)
  <2>1. /\ Waiting' \in Seq(Whole \X Whole) /\ Len(Waiting') = Count'
        /\ \A k \in 1 .. Count' : Waiting'[k] = Pair(k)'
    BY <1>1, WaitingStaysQueue DEF WaitingOK, Whole
  <2> HIDE DEF Count, Waiting, Pair
  <2> QED BY <2>1, <1>2, <1>3
<1> DEFINE new == <<writer.item, writer.item>>
<1>7. /\ Append(Waiting, new) \in Seq(Whole \X Whole)
      /\ Len(Append(Waiting, new)) = Count + 1
      /\ \A k \in 1 .. Count : Append(Waiting, new)[k] = Waiting[k]
      /\ Append(Waiting, new)[Count + 1] = new
  <2>1. new \in Whole \X Whole
    BY <1>1 DEF Whole
  <2> HIDE DEF new, Waiting, Count, Whole
  <2> QED BY <2>1, <1>5, AppendProperties
<1> HIDE DEF new, Waiting, Count, Whole, Pair
<1>8. \A k \in 1 .. Count + 1 : Waiting'[k] = Append(Waiting, new)[k]
  BY <1>2, <1>4, <1>5, <1>6, <1>7 DEF new
<1>9. Waiting' = Append(Waiting, new)
  BY <1>6, <1>7, <1>8, SeqEqual
<1> QED BY <1>2, <1>5, <1>9 DEF new

(* The slot ReadItem gives up is the first of those that wait. *)
LEMMA AdvanceTakes ==
  ASSUME IInv, IInv', ReadAdvance
  PROVE  Waiting # <<>> /\ Held' = Head(Waiting) /\ Waiting' = Tail(Waiting)
<1> USE SizeAssumption
<1>1. /\ m_start # Succ(m_end) /\ reader.slot = m_start /\ reader.info = m_pItemInfo[m_start]
      /\ m_start' = Succ(m_start) /\ reader'.pc = "use" /\ reader'.slot = m_start
      /\ reader'.info = m_pItemInfo[m_start]
      /\ UNCHANGED <<m_end, m_item_data, m_pItemInfo>> /\ TypeOK /\ TypeOK'
  BY DEF ReadAdvance, IInv, ReaderInv, Succ, TypeOK
<1>2. Count' = Count - 1 /\ Count \in 1 .. m_size - 1
  <2>1. Count # 0 /\ Count \in 0 .. m_size - 1
    BY <1>1, RingShape, WaitingIsQueue DEF CountOK
  <2>2. /\ Count' = IF Succ(m_start) <= Succ(m_end) THEN Succ(m_end) - Succ(m_start)
                     ELSE Succ(m_end) - Succ(m_start) + m_size
        /\ Count = IF m_start <= Succ(m_end) THEN Succ(m_end) - m_start
                    ELSE Succ(m_end) - m_start + m_size
    BY <1>1, WaitingIsQueue, WaitingStaysQueue DEF CountOK, Succ
  <2>3. /\ m_start \in 0 .. m_size - 1 /\ Succ(m_end) \in 0 .. m_size - 1
        /\ Succ(m_start) = IF m_start = m_size - 1 THEN 0 ELSE m_start + 1
    BY <1>1, SuccDef DEF TypeOK, Slots
  <2> QED BY <1>1, <2>1, <2>2, <2>3
<1>3. \A k \in 1 .. Count - 1 : Pair(k)' = Pair(k + 1)
  <2> SUFFICES ASSUME NEW k \in 1 .. Count - 1 PROVE Slot(k)' = Slot(k + 1)
    BY <1>1 DEF Pair
  <2>1. k \in 1 .. m_size /\ k + 1 \in 1 .. m_size
    BY <1>2
  <2>2. /\ Slot(k)' = IF m_start' + k - 1 < m_size THEN m_start' + k - 1
                       ELSE m_start' + k - 1 - m_size
        /\ Slot(k + 1) = IF m_start + (k + 1) - 1 < m_size THEN m_start + (k + 1) - 1
                         ELSE m_start + (k + 1) - 1 - m_size
    BY <1>1, <2>1, WaitingIsQueue, WaitingStaysQueue DEF SlotsOK
  <2>3. m_start \in 0 .. m_size - 1 /\ m_start' = IF m_start = m_size - 1 THEN 0 ELSE m_start + 1
    BY <1>1, SuccDef DEF TypeOK, Slots
  <2> QED BY <2>1, <2>2, <2>3
<1>4. Pair(1) = <<m_item_data[m_start], m_pItemInfo[m_start]>>
  BY <1>1, RingShape DEF Pair
<1>5. /\ Waiting \in Seq(Whole \X Whole) /\ Len(Waiting) = Count
      /\ \A k \in 1 .. Count : Waiting[k] = Pair(k)
  BY <1>1, WaitingIsQueue DEF WaitingOK
<1>6. /\ Waiting' \in Seq(Whole \X Whole) /\ Len(Waiting') = Count - 1
      /\ \A k \in 1 .. Count - 1 : Waiting'[k] = Pair(k + 1)
  <2>1. /\ Waiting' \in Seq(Whole \X Whole) /\ Len(Waiting') = Count'
        /\ \A k \in 1 .. Count' : Waiting'[k] = Pair(k)'
    BY <1>1, WaitingStaysQueue DEF WaitingOK, Whole
  <2> HIDE DEF Count, Waiting, Pair
  <2> QED BY <2>1, <1>2, <1>3
<1>7. Held' = Pair(1)
  BY <1>1, <1>4 DEF Held
<1> HIDE DEF Waiting, Count, Whole, Pair, Held
<1>8. Waiting # <<>>
  BY <1>2, <1>5, EmptySeq
<1>9. /\ Tail(Waiting) \in Seq(Whole \X Whole) /\ Len(Tail(Waiting)) = Count - 1
      /\ \A k \in 1 .. Count - 1 : Tail(Waiting)[k] = Waiting[k + 1]
  BY <1>2, <1>5, <1>8, HeadTailProperties
<1>10. \A k \in 1 .. Count - 1 : Waiting'[k] = Tail(Waiting)[k]
  BY <1>2, <1>5, <1>6, <1>9
<1>11. Waiting' = Tail(Waiting)
  BY <1>6, <1>9, <1>10, SeqEqual
<1> QED BY <1>2, <1>5, <1>7, <1>8, <1>11

Refused == writer.pc = "refused"

(* The steps of the FIFO in terms of the ring. *)
LEMMA FifoSteps ==
  /\ Len(Waiting) < m_size - 1 /\ Refused' = FALSE /\ UNCHANGED <<Waiting, Held>> => Fifo!Next
  /\ \A i \in Item : /\ ~Refused /\ Len(Waiting) < m_size - 1
                    /\ Waiting' = Append(Waiting, <<i, i>>)
                    /\ UNCHANGED <<Held, Refused>> => Fifo!Next
  /\ Len(Waiting) = m_size - 1 /\ Refused' = TRUE /\ UNCHANGED <<Waiting, Held>> => Fifo!Next
  /\ Held' = NoItem /\ UNCHANGED <<Waiting, Refused>> => Fifo!Next
  /\ Waiting # <<>> /\ Held = NoItem /\ Held' = Head(Waiting) /\ Waiting' = Tail(Waiting)
       /\ UNCHANGED Refused => Fifo!Next
  /\ UNCHANGED <<Waiting, Held, Refused>> => UNCHANGED Fifo!vars
  BY DEF Fifo!Next, Fifo!Accept, Fifo!Put, Fifo!Refuse, Fifo!Release, Fifo!Take, Fifo!vars,
         Waiting, Held, Refused

(* Every step of either thread is a step of the FIFO, or none: a call of
   WriteItem accepts, refuses and puts, ReadItem releases and takes, and what
   both do in between nobody sees. *)
LEMMA StepsRefine == IInv /\ IInv' /\ [Next]_vars => [Fifo!Next]_(Fifo!vars)
<1> SUFFICES ASSUME IInv, IInv', [Next]_vars PROVE [Fifo!Next]_(Fifo!vars)
  OBVIOUS
<1>t. /\ TypeOK /\ Len(Waiting) = Count /\ Count \in 0 .. m_size - 1
      /\ m_start = Succ(Succ(m_end)) <=> Count = m_size - 1
  BY WaitingIsQueue, RingShape DEF IInv, WaitingOK, CountOK
<1>1. CASE WriteFull
  <2>1. UNCHANGED <<Waiting, Held>> /\ Refused' = TRUE
    BY <1>1, <1>t, WaitingSame DEF WriteFull, Held, Refused, TypeOK
  <2>2. Len(Waiting) = m_size - 1
    BY <1>1, <1>t, SuccTwice DEF WriteFull, Full, TypeOK
  <2> QED BY <2>1, <2>2, FifoSteps
<1>2. ASSUME NEW i \in Item, WriteBegin(i) PROVE Fifo!Next
  <2>1. UNCHANGED <<Waiting, Held>> /\ Refused' = FALSE
    BY <1>2, <1>t, WaitingSame DEF WriteBegin, Held, Refused, TypeOK
  <2>2. Len(Waiting) < m_size - 1
    BY <1>2, <1>t, SuccTwice, SizeAssumption DEF WriteBegin, Full, TypeOK
  <2> QED BY <2>1, <2>2, FifoSteps
<1>3. CASE WriteData \/ WriteInfo
  <2>1. writer.end = Succ(m_end) /\ (reader.pc = "use" => writer.end # reader.slot)
    <3>1. Writing /\ writer.end = Succ(m_end) /\ m_start # Succ(Succ(m_end))
      BY <1>3 DEF WriteData, WriteInfo, Writing, IInv, WriterInv
    <3>2. reader.pc = "use" => m_start = Succ(reader.slot)
      BY DEF IInv, ReaderInv
    <3> QED BY <3>1, <3>2
  <2>2. /\ UNCHANGED <<m_start, m_end>>
        /\ \A s \in Slots : s # writer.end =>
             m_item_data'[s] = m_item_data[s] /\ m_pItemInfo'[s] = m_pItemInfo[s]
    BY <1>3, <1>t DEF WriteData, WriteInfo, TypeOK
  <2>3. UNCHANGED Waiting
    BY <1>t, <2>1, <2>2, WaitingSame
  <2>4. UNCHANGED Held
    BY <1>3, <1>t, <2>1, <2>2 DEF WriteData, WriteInfo, Held, TypeOK
  <2>5. UNCHANGED Refused
    BY <1>3, <1>t DEF WriteData, WriteInfo, Refused, TypeOK
  <2> QED BY <2>3, <2>4, <2>5, FifoSteps
<1>4. CASE WritePublish
  <2>1. UNCHANGED <<Held, Refused>> /\ ~Refused /\ writer.item \in Item
    BY <1>4, <1>t DEF WritePublish, Held, Refused, TypeOK, IInv, WriterInv, Writing
  <2> QED BY <1>4, <2>1, PublishAppends, FifoSteps
<1>5. CASE ReadEmpty \/ ReadBegin
  <2>1. UNCHANGED <<Waiting, Refused>>
    BY <1>5, <1>t, WaitingSame DEF ReadEmpty, ReadBegin, Refused
  <2>2. Held' = NoItem
    BY <1>5, <1>t DEF ReadEmpty, ReadBegin, Held, TypeOK
  <2> QED BY <2>1, <2>2, FifoSteps
<1>6. CASE ReadInfo
  <2>1. UNCHANGED <<Waiting, Refused>>
    BY <1>6, <1>t, WaitingSame DEF ReadInfo, Refused
  <2>2. UNCHANGED Held
    BY <1>6, <1>t DEF ReadInfo, Held, TypeOK
  <2> QED BY <2>1, <2>2, FifoSteps
<1>7. CASE ReadAdvance
  <2>1. Held = NoItem /\ UNCHANGED Refused
    BY <1>7 DEF ReadAdvance, Held, Refused
  <2> QED BY <1>7, <2>1, AdvanceTakes, FifoSteps
<1>8. CASE UNCHANGED vars
  <2>1. UNCHANGED <<Waiting, Held, Refused>>
    BY <1>8, <1>t, WaitingSame DEF vars, Held, Refused
  <2> QED BY <2>1, FifoSteps
<1> QED BY <1>1, <1>2, <1>3, <1>4, <1>5, <1>6, <1>7, <1>8 DEF Next, Write, Read

(* The ring is a bounded FIFO of m_size - 1 items, for every size: no item that
   WriteItem accepted is lost, doubled, overtaken or torn, and none is refused
   while there is room. *)
THEOREM RingIsFifo == Spec => ImplementsFifo
<1>1. Init => Fifo!Init
  <2> SUFFICES ASSUME Init PROVE Waiting = <<>> /\ Held = NoItem /\ Refused = FALSE
    BY DEF Fifo!Init, Waiting, Held, Refused
  <2>1. TypeOK /\ m_start = 1 /\ m_end = 0
    BY InitIInv DEF Init, IInv
  <2>2. Count = 0
    BY <2>1, SizeAssumption DEF Count
  <2>3. Waiting = <<>>
    BY <2>2 DEF Waiting
  <2> QED BY <2>3 DEF Init, Held, Refused
<1> QED BY <1>1, StepsRefine, Invariant, PTL DEF Spec, ImplementsFifo, Fifo!Spec

-----------------------------------------------------------------------------
(* MsgMgr: where a posted message is. *)

Pending == IF workerPc = "send" THEN <<param>> ELSE <<>>

StopInv ==
  /\ api # "idle" => posting = {}
  /\ workerPc = "send" => param \in Message

Places ==
  \E thrown \in Seq(Message) :
    /\ posted = delivered \o Pending \o m_dqMsg \o thrown
    /\ api \in {"idle", "clear"} => thrown = <<>>

MsgInv == MsgTypeOK /\ StopInv /\ Places

-----------------------------------------------------------------------------
(* A posting thread's next message is a message. *)
LEMMA PostsTyped ==
  ASSUME posted \in Seq(Message), NEW p \in Poster, PostsOf(p) < MaxPosts
  PROVE  <<p, PostsOf(p) + 1>> \in Message
<1>1. IsFiniteSet(1 .. Len(posted))
  BY FS_Interval
<1>2. {i \in DOMAIN posted : posted[i][1] = p} \subseteq 1 .. Len(posted)
  OBVIOUS
<1>3. PostsOf(p) \in Nat
  BY <1>1, <1>2, FS_Subset, FS_CardinalityType DEF PostsOf
<1> QED BY <1>3, PosterAssumption DEF Message

(* A sequence is a prefix of what begins with it. *)
LEMMA PrefixOfConcat ==
  ASSUME NEW S, NEW s \in Seq(S), NEW t \in Seq(S)
  PROVE  IsPrefix(s, s \o t)
<1>1. s \o t \in Seq(S) /\ Len(s \o t) = Len(s) + Len(t)
  BY ConcatProperties
<1>2. SubSeq(s, 1, Len(s)) = SubSeq(s \o t, 1, Len(s))
  BY <1>1, ConcatProperties, SubSeqFull
<1> QED BY <1>1, <1>2 DEF IsPrefix

(* MsgInv holds when the worker starts. *)
LEMMA MsgInitInv == MsgInit => MsgInv
<1> SUFFICES ASSUME MsgInit PROVE MsgInv
  OBVIOUS
<1>1. MsgTypeOK /\ StopInv
  BY EmptySeq DEF MsgInit, MsgTypeOK, StopInv, NoMsg
<1>2. posted = delivered \o Pending \o m_dqMsg \o <<>>
  BY EmptySeq DEF MsgInit, Pending
<1> QED BY <1>1, <1>2, EmptySeq DEF MsgInv, Places

(* Posting appends to the queue and to what was posted. *)
LEMMA PostKeeps ==
  ASSUME MsgInv, NEW p \in Poster, HlsPostMessage(p)
  PROVE  MsgInv'
<1> DEFINE m == <<p, PostsOf(p) + 1>>
<1>1. m \in Message
  BY PostsTyped DEF HlsPostMessage, MsgInv, MsgTypeOK
<1>2. /\ m_dqMsg' = Append(m_dqMsg, m) /\ posted' = Append(posted, m)
      /\ UNCHANGED <<workerPc, param, m_bActiveStop, api, posting, delivered>>
  BY DEF HlsPostMessage
<1> HIDE DEF m
<1>3. MsgTypeOK' /\ StopInv'
  BY <1>1, <1>2 DEF MsgInv, MsgTypeOK, StopInv
<1>4. api = "idle"
  BY DEF HlsPostMessage, MsgInv, StopInv
<1>5. posted = delivered \o Pending \o m_dqMsg
  BY <1>4 DEF MsgInv, Places, MsgTypeOK, StopInv, Pending
<1> DEFINE before == delivered \o Pending
<1>6. posted' = delivered' \o Pending' \o m_dqMsg' \o <<>>
  <2>1. before \in Seq(Message) /\ m_dqMsg \in Seq(Message) /\ <<m>> \in Seq(Message)
    BY <1>1 DEF MsgInv, MsgTypeOK, StopInv, Pending
  <2>2. before' = before /\ posted = before \o m_dqMsg /\ posted \in Seq(Message)
    BY <1>2, <1>5 DEF Pending, MsgInv, MsgTypeOK
  <2> HIDE DEF before
  <2>3. /\ m_dqMsg' = m_dqMsg \o <<m>> /\ m_dqMsg' \in Seq(Message)
        /\ posted' = (before \o m_dqMsg) \o <<m>>
    BY <1>1, <1>2, <2>1, <2>2, AppendIsConcat, AppendProperties
  <2>4. posted' = before' \o m_dqMsg'
    BY <2>1, <2>2, <2>3, ConcatAssociative
  <2>5. before' \o m_dqMsg' \in Seq(Message)
    BY <2>1, <2>2, <2>3, ConcatProperties
  <2>6. posted' = (before' \o m_dqMsg') \o <<>>
    BY <2>4, <2>5, ConcatEmptySeq
  <2> QED BY <2>6 DEF before
<1> QED BY <1>3, <1>6, <1>2, <1>4 DEF MsgInv, Places

(* Every step preserves MsgInv. *)
LEMMA MsgNextInv == MsgInv /\ [MsgNext]_msgVars => MsgInv'
<1> SUFFICES ASSUME MsgInv, [MsgNext]_msgVars PROVE MsgInv'
  OBVIOUS
<1> USE DEF MsgInv
<1>p. PICK thrown \in Seq(Message) :
        /\ posted = delivered \o Pending \o m_dqMsg \o thrown
        /\ api \in {"idle", "clear"} => thrown = <<>>
  BY DEF Places
<1>1. ASSUME NEW p \in Poster, HlsPostMessage(p) PROVE MsgInv'
  BY <1>1, PostKeeps
<1>2. ASSUME NEW p \in Poster, PosterEnds(p) PROVE MsgInv'
  BY <1>2 DEF PosterEnds, MsgTypeOK, StopInv, Places, Pending
<1>3. CASE WorkCheckStop
  BY <1>3 DEF WorkCheckStop, otherThanWorker, MsgTypeOK, StopInv, Places, Pending
<1>4. CASE WorkTestEmpty
  BY <1>4 DEF WorkTestEmpty, otherThanWorker, MsgTypeOK, StopInv, Places, Pending
<1>5. CASE WorkFront
  <2>1. /\ Pending = <<>> /\ Pending' = <<Head(m_dqMsg)>>
        /\ Head(m_dqMsg) \in Message /\ Tail(m_dqMsg) \in Seq(Message)
        /\ m_dqMsg = <<Head(m_dqMsg)>> \o Tail(m_dqMsg)
    BY <1>5 DEF WorkFront, Pending, MsgTypeOK
  <2>2. posted' = delivered' \o Pending' \o m_dqMsg' \o thrown
    BY <1>5, <1>p, <2>1 DEF WorkFront, otherThanWorker, MsgTypeOK
  <2>3. MsgTypeOK' /\ StopInv'
    BY <1>5, <2>1 DEF WorkFront, otherThanWorker, MsgTypeOK, StopInv
  <2> QED BY <1>5, <1>p, <2>2, <2>3 DEF WorkFront, otherThanWorker, Places
<1>6. CASE WorkFrontOfEmpty
  BY <1>6 DEF WorkFrontOfEmpty, otherThanWorker, MsgTypeOK, StopInv, Places, Pending
<1>7. CASE HlsSendMessage
  <2>1. /\ Pending = <<param>> /\ Pending' = <<>> /\ param \in Message
        /\ delivered' = delivered \o <<param>> /\ delivered' \in Seq(Message)
    BY <1>7 DEF HlsSendMessage, Pending, MsgTypeOK, StopInv
  <2>2. posted' = delivered' \o Pending' \o m_dqMsg' \o thrown
    BY <1>7, <1>p, <2>1 DEF HlsSendMessage, otherThanWorker, MsgTypeOK
  <2>3. MsgTypeOK' /\ StopInv'
    BY <1>7, <2>1 DEF HlsSendMessage, otherThanWorker, MsgTypeOK, StopInv
  <2> QED BY <1>7, <1>p, <2>2, <2>3 DEF HlsSendMessage, otherThanWorker, Places
<1>8. CASE StopJoin
  BY <1>8 DEF StopJoin, otherThanApi, MsgTypeOK, StopInv, Places, Pending
<1>9. CASE StopClear \/ DestroyClear
  <2>1. /\ m_dqMsg' = <<>> /\ api' \notin {"idle", "clear"} /\ api # "idle"
        /\ UNCHANGED otherThanApi
        /\ api' \in {"destroy", "setstop"} /\ UNCHANGED m_bActiveStop
    BY <1>9 DEF StopClear, DestroyClear
  <2>2. m_dqMsg \o thrown \in Seq(Message)
    BY <1>p DEF MsgTypeOK
  <2>3. posted' = delivered' \o Pending' \o m_dqMsg' \o (m_dqMsg \o thrown)
    <3> DEFINE before == delivered \o Pending
    <3>1. before \in Seq(Message) /\ m_dqMsg \in Seq(Message)
      BY DEF MsgTypeOK, StopInv, Pending
    <3>2. before' = before /\ posted' = (before \o m_dqMsg) \o thrown
      BY <1>p, <2>1 DEF otherThanApi, Pending
    <3> HIDE DEF before
    <3>3. posted' = before' \o (m_dqMsg \o thrown)
      BY <3>1, <3>2, ConcatAssociative
    <3>4. before' \o m_dqMsg' = before'
      BY <2>1, <3>1, <3>2, ConcatEmptySeq
    <3> QED BY <3>3, <3>4 DEF before
  <2>4. MsgTypeOK' /\ StopInv'
    BY <2>1 DEF otherThanApi, MsgTypeOK, StopInv
  <2> QED BY <2>1, <2>2, <2>3, <2>4 DEF Places
<1>10. CASE DestroyFlag \/ DestroyJoin
  BY <1>10 DEF DestroyFlag, DestroyJoin, otherThanApi, MsgTypeOK, StopInv, Places, Pending
<1>11. CASE UNCHANGED msgVars
  BY <1>11 DEF msgVars, MsgTypeOK, StopInv, Places, Pending
<1> QED
  BY <1>1, <1>2, <1>3, <1>4, <1>5, <1>6, <1>7, <1>8, <1>9, <1>10, <1>11
  DEF MsgNext, Post, Worker, InCall, Ended

(* MsgInv holds in every reachable state. *)
LEMMA AlwaysMsgInv == MsgSpec => []MsgInv
  BY MsgInitInv, MsgNextInv, PTL DEF MsgSpec

-----------------------------------------------------------------------------
(* Every reachable state of the queue, its worker and the calls that end it is
   well typed. *)
THEOREM MessagesTyped == MsgSpec => []MsgTypeOK
  BY AlwaysMsgInv, PTL DEF MsgInv

(* The first of three sequences may be split off. *)
LEMMA ConcatThree ==
  ASSUME NEW a \in Seq(Message), NEW b \in Seq(Message), NEW c \in Seq(Message)
  PROVE  (a \o b) \o c = a \o (b \o c)
  BY ConcatAssociative, SMTT(30)

(* Each message is in one place. *)
LEMMA PlacesOrdered == MsgInv => DeliveredInOrder
<1> SUFFICES ASSUME MsgInv PROVE DeliveredInOrder
  OBVIOUS
<1>1. PICK thrown \in Seq(Message) :
        /\ posted = delivered \o Pending \o m_dqMsg \o thrown
        /\ api \in {"idle", "clear"} => thrown = <<>>
  BY DEF MsgInv, Places
<1>2. /\ delivered \in Seq(Message) /\ m_dqMsg \in Seq(Message) /\ Pending \in Seq(Message)
  BY DEF MsgInv, MsgTypeOK, StopInv, Pending
<1>3. /\ Pending \o m_dqMsg \in Seq(Message)
      /\ Pending \o m_dqMsg \o thrown \in Seq(Message)
  BY <1>2, ConcatProperties
<1>4. posted = delivered \o (Pending \o m_dqMsg \o thrown)
  <2>1. /\ delivered \in Seq(Message) /\ Pending \in Seq(Message)
        /\ m_dqMsg \in Seq(Message) /\ thrown \in Seq(Message)
    BY <1>2
  <2>2. (delivered \o Pending) \o m_dqMsg = delivered \o (Pending \o m_dqMsg)
    BY <2>1, ConcatThree, Zenon
  <2>3. /\ delivered \in Seq(Message) /\ thrown \in Seq(Message)
        /\ Pending \o m_dqMsg \in Seq(Message)
    BY <1>2, <1>3
  <2>4. (delivered \o (Pending \o m_dqMsg)) \o thrown = delivered \o ((Pending \o m_dqMsg) \o thrown)
    BY <2>3, ConcatThree, ZenonT(40)
  <2> QED BY <1>1, <2>2, <2>4, Zenon
<1>5. IsPrefix(delivered, posted)
  BY <1>2, <1>3, <1>4, PrefixOfConcat
<1>6. api \in {"idle", "clear"} => posted = delivered \o Pending \o m_dqMsg
  <2>1. delivered \o Pending \o m_dqMsg \in Seq(Message)
    BY <1>2, ConcatProperties
  <2> QED BY <1>1, <2>1, ConcatEmptySeq
<1> QED BY <1>5, <1>6 DEF DeliveredInOrder, Pending

(* The callback sees the messages in the order they were posted, none twice and
   none left out before Stop clears the rest, however many threads post. *)
THEOREM DeliveredAsPosted == MsgSpec => []DeliveredInOrder
  BY AlwaysMsgInv, PlacesOrdered, PTL

(* WorkFun finds the message it saw in the critical section before, unless
   somebody has called Clear. *)
THEOREM MessageKept == MsgSpec => []FrontHasMessage
<1>1. MsgInit => FrontHasMessage
  BY DEF MsgInit, FrontHasMessage
<1>2. FrontHasMessage /\ MsgInv /\ [MsgNext]_msgVars => FrontHasMessage'
  <2> SUFFICES ASSUME FrontHasMessage, MsgInv, [MsgNext]_msgVars PROVE FrontHasMessage'
    OBVIOUS
  <2> USE DEF FrontHasMessage
  <2>1. ASSUME NEW p \in Poster, HlsPostMessage(p) PROVE FrontHasMessage'
    <3>1. m_dqMsg' # <<>>
      BY <2>1 DEF HlsPostMessage, MsgInv, MsgTypeOK
    <3> QED BY <3>1
  <2>2. ASSUME NEW p \in Poster, PosterEnds(p) PROVE FrontHasMessage'
    BY <2>2 DEF PosterEnds
  <2>3. CASE Worker
    BY <2>3 DEF Worker, WorkCheckStop, WorkTestEmpty, WorkFront, WorkFrontOfEmpty,
                HlsSendMessage, otherThanWorker
  <2>4. CASE StopJoin \/ InCall
    BY <2>4 DEF StopJoin, InCall, StopClear, DestroyClear, DestroyFlag, DestroyJoin,
                otherThanApi
  <2>5. CASE UNCHANGED msgVars
    BY <2>5 DEF msgVars
  <2> QED BY <2>1, <2>2, <2>3, <2>4, <2>5 DEF MsgNext, Post, Ended
<1> QED BY <1>1, <1>2, AlwaysMsgInv, PTL DEF MsgSpec
=============================================================================
