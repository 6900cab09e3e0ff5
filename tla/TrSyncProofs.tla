----------------------------- MODULE TrSyncProofs -----------------------------
(***************************************************************************)
(* Finding and keeping the packet boundaries, proved for every packet      *)
(* length, every buffer of more than six packets and every stream:         *)
(*                                                                         *)
(*   - TypeCorrect: the buffer never overflows;                            *)
(*   - OffsetRight: the offset of the error reports is the position in the *)
(*     stream, less the bytes dropped for want of room;                    *)
(*   - ProcessedInOrder: no byte is processed twice;                       *)
(*   - SyncRestored: seven packets with their only sync byte at one phase  *)
(*     restore sync at that phase, whatever came before.                   *)
(*                                                                         *)
(* A step first fills the buffer (Filled: perhaps less its front, with the *)
(* piece behind it) and then takes bytes from its front (Took), in one of  *)
(* five ways: the packet at the front waits, is lost, is processed; the    *)
(* search finds nothing, or locks.  The lemmas InSync and OutOfSync read   *)
(* these off the model; everything after them is about Filled and Outcome. *)
(*                                                                         *)
(* Relocks is not inductive.  What makes it so:                            *)
(*   - BufferInv: in sync at most one packet stays, two when one waits;    *)
(*   - SearchedInv: out of sync, all but the last five packets were        *)
(*     searched, so a lock is within the last six (LateLock) and the       *)
(*     packets it processes leave at most one;                             *)
(*   - PatternInv: where the sync bytes of a clean run are in the buffer;  *)
(*   - StageInv: how far the relock must be after so many clean pieces: in *)
(*     sync from the second on only at the right phase, no packet waits    *)
(*     after it, and the search has all the bytes that came since the      *)
(*     first one, so that it finds the phase with the seventh.             *)
(***************************************************************************)
EXTENDS TrSync, SequenceTheorems, WellFoundedInduction, TLAPS

-----------------------------------------------------------------------------
(* Helpers: least elements, dropping from the front, whole packets *)

(* A set of numbers that is not empty has a least one. *)
LEMMA Least ==
  ASSUME NEW S, S \subseteq Nat, S # {}
  PROVE  \E x \in S : \A y \in S : x <= y
<1>1. PICK x \in S : \A y \in S : ~ (<<y, x>> \in OpToRel(<, Nat))
  BY NatLessThanWellFounded, WFMin
<1>2. ASSUME NEW y \in S PROVE x <= y
  <2>1. <<y, x>> \in Nat \X Nat /\ <<y, x>>[1] = y /\ <<y, x>>[2] = x
    OBVIOUS
  <2>2. ~ (y < x)
    BY <1>1, <2>1 DEF OpToRel
  <2> QED BY <2>2
<1> QED BY <1>1, <1>2

(* So TryToReSync's first sync point is one of the sync points. *)
LEMMA LeastIsMin ==
  ASSUME NEW S, S \subseteq Nat, S # {}
  PROVE  Min(S) \in S
<1>1. \E x \in S : \A y \in S : x <= y
  BY Least
<1> QED BY <1>1 DEF Min

(* The buffer without its first n bytes. *)
LEMMA Dropped ==
  ASSUME NEW buf \in Seq(BOOLEAN), NEW n \in 0 .. Len(buf)
  PROVE  /\ Drop(buf, n) \in Seq(BOOLEAN) /\ Len(Drop(buf, n)) = Len(buf) - n
         /\ \A j \in 1 .. Len(buf) - n : Drop(buf, n)[j] = buf[j + n]
<1>1. PICK l \in Nat : l = Len(buf)
  BY LenProperties
<1>2. /\ n \in Int /\ n >= 0 /\ n <= l /\ n + 1 \in Int /\ l \in Int
  BY <1>1
<1>3. \A i \in 1 .. l : buf[i] \in BOOLEAN
  BY <1>1, ElementOfSeq
<1>4. \A i \in n + 1 .. l : buf[i] \in BOOLEAN
  BY <1>2, <1>3
<1>5. /\ SubSeq(buf, n + 1, l) \in Seq(BOOLEAN)
      /\ Len(SubSeq(buf, n + 1, l)) = IF n + 1 <= l THEN l - (n + 1) + 1 ELSE 0
      /\ \A i \in 1 .. l - (n + 1) + 1 : SubSeq(buf, n + 1, l)[i] = buf[n + 1 + i - 1]
  BY <1>2, <1>4, SubSeqProperties
<1>6. \A i \in 1 .. l - n : i \in 1 .. l - (n + 1) + 1 /\ n + 1 + i - 1 = i + n
  BY <1>2
<1> QED BY <1>1, <1>2, <1>5, <1>6 DEF Drop

(* Dropping nothing changes nothing. *)
LEMMA DroppedNone ==
  ASSUME NEW buf \in Seq(BOOLEAN)
  PROVE  Drop(buf, 0) = buf
BY SubSeqFull DEF Drop

(* l bytes hold l \div m_nTslen whole packets. *)
LEMMA PacketsIn ==
  ASSUME NEW l \in Nat
  PROVE  /\ l \div m_nTslen \in Nat
         /\ (l \div m_nTslen + 1) * m_nTslen > l
         /\ \A n \in 0 .. l \div m_nTslen : n * m_nTslen \in 0 .. l
<1>0. m_nTslen \in Nat /\ m_nTslen >= 2
  BY SizesAssumption
<1>1. PICK q \in Int : q = l \div m_nTslen
  BY <1>0
<1>2. PICK x \in Int : x = l % m_nTslen
  BY <1>0
<1>3. l = m_nTslen * q + x /\ 0 <= x /\ x < m_nTslen
  BY <1>0, <1>1, <1>2
<1>4. q >= 0
  BY <1>0, <1>3
<1>5. (q + 1) * m_nTslen > l
  BY <1>0, <1>3
<1>6. ASSUME NEW n \in 0 .. q PROVE n * m_nTslen \in 0 .. l
  <2>1. n * m_nTslen >= 0 /\ (q - n) * m_nTslen >= 0
    BY <1>0, <1>1, <1>4
  <2> QED BY <1>0, <1>3, <2>1
<1> QED BY <1>1, <1>4, <1>5, <1>6

(* LeadingPackets is defined: it stops at the first packet without sync byte,
   or at the last whole one. *)
LEMMA Leading ==
  ASSUME NEW buf \in Seq(BOOLEAN), NEW n, n = LeadingPackets(buf)
  PROVE  /\ n \in Nat /\ n * m_nTslen \in 0 .. Len(buf)
         /\ (n + 1) * m_nTslen <= Len(buf) => ~buf[n * m_nTslen + 1]
<1>0. m_nTslen \in Nat /\ m_nTslen >= 2
  BY SizesAssumption
<1>1. PICK l \in Nat : l = Len(buf)
  BY LenProperties
<1>2. PICK q \in Nat : q = l \div m_nTslen
  BY PacketsIn
<1>3. (q + 1) * m_nTslen > l /\ \A m \in 0 .. q : m * m_nTslen \in 0 .. l
  BY <1>2, PacketsIn
<1> DEFINE S == {m \in 0 .. q : (m + 1) * m_nTslen <= l => ~buf[m * m_nTslen + 1]}
<1>4. q \in S
  BY <1>0, <1>3
<1>5. PICK m \in S : \A k \in S : m <= k
  <2>1. S \subseteq 0 .. q
    OBVIOUS
  <2> HIDE DEF S
  <2>2. S \subseteq Nat /\ S # {}
    BY <1>4, <2>1
  <2> QED BY <2>2, Least
<1>6. \A k \in 0 .. m - 1 : buf[k * m_nTslen + 1]
  <2> SUFFICES ASSUME NEW k \in 0 .. m - 1 PROVE buf[k * m_nTslen + 1]
    OBVIOUS
  <2>1. k \in 0 .. q /\ ~(m <= k)
    BY <1>5
  <2>2. k \notin S
    BY <1>5, <2>1
  <2> QED BY <2>1, <2>2
<1> DEFINE Counts == 0 .. Len(buf) \div m_nTslen
           Leads(k) == /\ \A j \in 0 .. k - 1 : buf[j * m_nTslen + 1]
                       /\ (k + 1) * m_nTslen <= Len(buf) => ~buf[k * m_nTslen + 1]
<1>7. m \in Counts /\ Leads(m)
  <2>1. m \in 0 .. q /\ ((m + 1) * m_nTslen <= l => ~buf[m * m_nTslen + 1])
    BY <1>5
  <2>2. Counts = 0 .. q
    BY <1>1, <1>2
  <2>3. (m + 1) * m_nTslen <= Len(buf) => ~buf[m * m_nTslen + 1]
    BY <1>1, <2>1
  <2> QED BY <1>6, <2>1, <2>2, <2>3
<1>8. n = CHOOSE k \in Counts : Leads(k)
  BY DEF LeadingPackets
<1>9. n \in Counts /\ Leads(n)
  <2> HIDE DEF Counts, Leads
  <2> QED BY <1>7, <1>8
<1> QED BY <1>1, <1>2, <1>3, <1>9

-----------------------------------------------------------------------------
(* What a piece that arrives does *)

\* in sync at most a packet's length stays, and twice that with a waiting packet
BufferInv ==
  /\ m_bSynced /\ m_bPrevPktSync => Len(m_pBuffer) <= m_nTslen
  /\ m_bSynced /\ ~m_bPrevPktSync => Len(m_pBuffer) \in m_nTslen .. 2 * m_nTslen

\* buf is what d dropped bytes leave of the buffer, with the piece behind it
Filled(buf, d, piece) ==
  /\ buf \in Seq(BOOLEAN) /\ Len(buf) < BUFFER_SIZE
  /\ d \in Nat /\ d <= Len(m_pBuffer) /\ (d = 0 \/ Len(m_pBuffer) - d = 5 * m_nTslen)
  /\ Len(buf) = Len(m_pBuffer) - d + m_nTslen
  /\ \A j \in 1 .. Len(m_pBuffer) - d : buf[j] = m_pBuffer[j + d]
  /\ \A j \in 1 .. m_nTslen : buf[Len(m_pBuffer) - d + j] = piece[j]

(* Making room and adding the piece fills the buffer. *)
LEMMA Arrives ==
  ASSUME TypeOK, NEW piece \in Piece
  PROVE  \E d \in Nat : /\ Filled(MakeRoom(m_pBuffer) \o piece, d, piece)
                        /\ Len(m_pBuffer) - Len(MakeRoom(m_pBuffer)) = d
<1>0. m_nTslen \in Nat /\ m_nTslen >= 2 /\ BUFFER_SIZE \in Nat /\ BUFFER_SIZE > 6 * m_nTslen
  BY SizesAssumption
<1>1. PICK l \in Nat : l = Len(m_pBuffer)
  BY LenProperties DEF TypeOK
<1>2. l < BUFFER_SIZE /\ m_pBuffer \in Seq(BOOLEAN)
  BY <1>1 DEF TypeOK
<1> DEFINE room == MakeRoom(m_pBuffer)
<1>3. PICK d \in Nat : /\ d <= l /\ (d = 0 \/ l - d = 5 * m_nTslen)
                       /\ room = Drop(m_pBuffer, d) /\ l - d + m_nTslen < BUFFER_SIZE
  <2>1. CASE l + m_nTslen >= BUFFER_SIZE
    <3>1. room = Drop(m_pBuffer, l - 5 * m_nTslen)
      BY <1>1, <2>1 DEF MakeRoom
    <3>2. l - 5 * m_nTslen \in Nat /\ l - (l - 5 * m_nTslen) = 5 * m_nTslen
      BY <1>0, <2>1
    <3> QED BY <1>0, <3>1, <3>2
  <2>2. CASE ~(l + m_nTslen >= BUFFER_SIZE)
    <3>1. room = Drop(m_pBuffer, 0)
      BY <1>1, <1>2, <2>2, DroppedNone DEF MakeRoom
    <3> QED BY <1>0, <2>2, <3>1
  <2> QED BY <2>1, <2>2
<1>4. /\ room \in Seq(BOOLEAN) /\ Len(room) = l - d
      /\ \A j \in 1 .. l - d : room[j] = m_pBuffer[j + d]
  <2>1. d \in 0 .. Len(m_pBuffer)
    BY <1>1, <1>3
  <2> QED BY <1>1, <1>2, <1>3, <2>1, Dropped
<1> HIDE DEF room
<1>5. piece \in Seq(BOOLEAN) /\ Len(piece) = m_nTslen
  BY <1>0 DEF Piece
<1>6. PICK e \in Nat : e = l - d
  <2>1. d <= l
    BY <1>3
  <2>2. l - d \in Nat
    BY <2>1
  <2> QED BY <2>2
<1> DEFINE buf == room \o piece
<1>7. /\ buf \in Seq(BOOLEAN) /\ Len(buf) = e + m_nTslen
      /\ \A i \in 1 .. e + m_nTslen : buf[i] = IF i <= e THEN room[i] ELSE piece[i - e]
  BY <1>4, <1>5, <1>6, ConcatProperties
<1> HIDE DEF buf
<1>8. \A j \in 1 .. e : buf[j] = m_pBuffer[j + d]
  <2>1. \A j \in 1 .. e : j \in 1 .. e + m_nTslen /\ buf[j] = room[j]
    BY <1>0, <1>7
  <2> QED BY <1>4, <1>6, <2>1
<1>9. \A j \in 1 .. m_nTslen : buf[e + j] = piece[j]
  <2>1. \A j \in 1 .. m_nTslen : e + j \in 1 .. e + m_nTslen /\ ~(e + j <= e) /\ e + j - e = j
    BY <1>0
  <2> QED BY <1>7, <2>1
<1>10. Filled(buf, d, piece)
  BY <1>0, <1>1, <1>3, <1>6, <1>7, <1>8, <1>9 DEF Filled
<1>11. Len(m_pBuffer) - Len(room) = d
  BY <1>1, <1>3, <1>4
<1> QED BY <1>10, <1>11 DEF buf, room

\* the buffer that stays is buf without its first s bytes
Took(buf, s) ==
  /\ s \in Nat /\ s <= Len(buf)
  /\ m_pBuffer' \in Seq(BOOLEAN) /\ Len(m_pBuffer') = Len(buf) - s
  /\ \A j \in 1 .. Len(buf) - s : m_pBuffer'[j] = buf[j + s]
  /\ m_llOffset' = m_llOffset + s

(* A buffer that stays as it is. *)
LEMMA TookNone ==
  ASSUME NEW buf \in Seq(BOOLEAN), m_llOffset \in Nat,
         m_pBuffer' = buf, m_llOffset' = m_llOffset
  PROVE  Took(buf, 0)
<1>1. PICK l \in Nat : l = Len(buf)
  BY LenProperties
<1>2. \A j \in 1 .. l : m_pBuffer'[j] = buf[j + 0]
  OBVIOUS
<1>3. m_llOffset' = m_llOffset + 0
  OBVIOUS
<1> QED BY <1>1, <1>2, <1>3 DEF Took

\* a first wrong sync byte; a second one; a packet processed, w bytes into buf
Waits(buf) ==
  /\ m_bSynced /\ m_bPrevPktSync /\ m_bSynced' = TRUE /\ m_bPrevPktSync' = FALSE
  /\ Took(buf, 0) /\ ~buf[1] /\ processed' = processed

Loses(buf) ==
  /\ m_bSynced /\ ~m_bPrevPktSync /\ m_bSynced' = FALSE /\ m_bPrevPktSync' = FALSE
  /\ Took(buf, 0) /\ ~buf[m_nTslen + 1] /\ processed' = processed

Processes(buf, w) ==
  /\ w = IF m_bPrevPktSync THEN 0 ELSE m_nTslen
  /\ m_bSynced /\ m_bSynced' = TRUE /\ m_bPrevPktSync' = TRUE
  /\ Took(buf, w + m_nTslen) /\ buf[w + 1]
  /\ processed' = arrived' * m_nTslen - Len(buf) + w + m_nTslen

(* In sync a piece ends in one of these three ways; in particular a packet
   that waits is there to be dropped, with the sync byte behind it to look at. *)
LEMMA InSync ==
  ASSUME TypeOK, BufferInv, m_bSynced, NEW buf \in Seq(BOOLEAN),
         Len(buf) >= IF m_bPrevPktSync THEN m_nTslen ELSE 2 * m_nTslen,
         arrived' \in Nat, Lose(buf) \/ Keep(buf)
  PROVE  Waits(buf) \/ Loses(buf) \/ \E w \in {0, m_nTslen} : Processes(buf, w)
<1>0. m_nTslen \in Nat /\ m_nTslen >= 2
  BY SizesAssumption
<1>1. m_bPrevPktSync \in BOOLEAN /\ m_llOffset \in Nat /\ m_bSynced \in BOOLEAN
  BY DEF TypeOK
<1>2. PICK l \in Nat : l = Len(buf)
  BY LenProperties
<1>3. PICK p \in Int : p = arrived' * m_nTslen
  <2>1. arrived' * m_nTslen \in Int
    BY <1>0
  <2> QED BY <2>1
<1>4. CASE Lose(buf)
  <2>1. m_pBuffer' = buf /\ m_llOffset' = m_llOffset /\ processed' = processed
        /\ m_bPrevPktSync' = m_bPrevPktSync /\ m_bSynced' = FALSE
        /\ ~m_bPrevPktSync /\ ~buf[m_nTslen + 1]
    BY <1>4 DEF Lose, SyncLost
  <2>2. Took(buf, 0)
    BY <1>1, <2>1, TookNone
  <2>3. m_bPrevPktSync' = FALSE
    BY <1>1, <2>1
  <2> QED BY <2>1, <2>2, <2>3 DEF Loses
<1>5. CASE Keep(buf)
  <2> DEFINE rest == SkipWaiting(buf)
             w == IF m_bPrevPktSync THEN 0 ELSE m_nTslen
  <2>0. w \in Nat /\ w + m_nTslen <= l /\ w \in {0, m_nTslen}
    BY <1>0, <1>1, <1>2
  <2>1. rest = Drop(buf, w)
    <3>1. CASE m_bPrevPktSync
      BY <3>1, DroppedNone DEF SkipWaiting
    <3>2. CASE ~m_bPrevPktSync
      BY <3>2 DEF SkipWaiting
    <3> QED BY <3>1, <3>2
  <2>2. /\ rest \in Seq(BOOLEAN) /\ Len(rest) = l - w
        /\ \A j \in 1 .. l - w : rest[j] = buf[j + w]
    <3>1. w \in 0 .. Len(buf)
      BY <1>0, <1>2, <2>0
    <3> HIDE DEF w
    <3> QED BY <1>2, <2>1, <3>1, Dropped
  <2>3. rest[1] = buf[w + 1]
    BY <1>0, <2>0, <2>2
  <2>4. /\ ~SyncLost(buf) /\ m_bPrevPktSync' = rest[1] /\ m_bSynced' = m_bSynced
        /\ rest[1] => /\ m_pBuffer' = Drop(rest, m_nTslen)
                      /\ m_llOffset' = m_llOffset + Skipped(buf, rest) + m_nTslen
                      /\ processed' = Origin(rest) + m_nTslen
        /\ ~rest[1] => /\ m_pBuffer' = rest
                       /\ m_llOffset' = m_llOffset + Skipped(buf, rest)
                       /\ processed' = processed
    BY <1>5 DEF Keep
  <2>5. Skipped(buf, rest) = w
    BY <1>2, <2>0, <2>2 DEF Skipped
  <2>6. Origin(rest) = p - (l - w)
    BY <1>3, <2>2 DEF Origin
  <2> HIDE DEF rest
  <2>7. rest[1] \in BOOLEAN
    BY <1>0, <2>0, <2>2, ElementOfSeq
  <2>8. CASE rest[1]
    <3>0. m_nTslen \in 0 .. Len(rest)
      BY <1>0, <2>0, <2>2
    <3>1. /\ m_pBuffer' \in Seq(BOOLEAN) /\ Len(m_pBuffer') = Len(rest) - m_nTslen
          /\ \A j \in 1 .. Len(rest) - m_nTslen : m_pBuffer'[j] = rest[j + m_nTslen]
      BY <2>2, <2>4, <2>8, <3>0, Dropped
    <3>2. Len(m_pBuffer') = l - (w + m_nTslen)
      BY <1>0, <2>0, <2>2, <3>1
    <3>3. \A j \in 1 .. l - (w + m_nTslen) : m_pBuffer'[j] = buf[j + (w + m_nTslen)]
      <4> SUFFICES ASSUME NEW j \in 1 .. l - (w + m_nTslen)
                   PROVE  m_pBuffer'[j] = buf[j + (w + m_nTslen)]
        OBVIOUS
      <4>1. j \in 1 .. Len(rest) - m_nTslen /\ j + m_nTslen \in 1 .. l - w
            /\ j + m_nTslen + w = j + (w + m_nTslen)
        BY <1>0, <2>0, <2>2
      <4> HIDE DEF w
      <4> QED BY <2>2, <3>1, <4>1
    <3>4. m_llOffset' = m_llOffset + (w + m_nTslen)
      BY <1>0, <1>1, <2>0, <2>4, <2>5, <2>8
    <3>5. Took(buf, w + m_nTslen)
      <4> HIDE DEF w
      <4>1. PICK s : s = w + m_nTslen
        OBVIOUS
      <4>2. s \in Nat /\ s <= l
        BY <1>0, <2>0, <4>1
      <4>3. /\ Len(m_pBuffer') = l - s /\ m_llOffset' = m_llOffset + s
            /\ \A j \in 1 .. l - s : m_pBuffer'[j] = buf[j + s]
        BY <3>2, <3>3, <3>4, <4>1
      <4>4. Took(buf, s)
        BY <1>2, <3>1, <4>2, <4>3 DEF Took
      <4> QED BY <4>1, <4>4
    <3>6. processed' = arrived' * m_nTslen - Len(buf) + w + m_nTslen
      <4>1. processed' = p - (l - w) + m_nTslen
        BY <2>4, <2>6, <2>8
      <4> HIDE DEF w
      <4>2. p - (l - w) + m_nTslen = p - l + w + m_nTslen
        BY <1>0, <2>0
      <4> QED BY <1>2, <1>3, <4>1, <4>2
    <3>7. m_bSynced' = TRUE /\ m_bPrevPktSync' = TRUE
      BY <1>1, <2>4, <2>7, <2>8
    <3>8. Processes(buf, w)
      BY <2>3, <2>8, <3>5, <3>6, <3>7 DEF Processes
    <3> HIDE DEF w
    <3> QED BY <2>0, <3>8
  <2>9. CASE ~rest[1]
    <3>1. m_bPrevPktSync
      BY <1>1, <2>3, <2>4, <2>9 DEF SyncLost
    <3>2. w = 0 /\ rest = buf
      BY <2>1, <3>1, DroppedNone
    <3>3. Took(buf, 0)
      BY <1>1, <2>4, <2>5, <2>9, <3>2, TookNone
    <3>4. m_bSynced' = TRUE /\ m_bPrevPktSync' = FALSE
      BY <1>1, <2>4, <2>7, <2>9
    <3> QED BY <2>4, <2>9, <3>1, <3>2, <3>3, <3>4 DEF Waits
  <2> QED BY <2>7, <2>8, <2>9
<1> QED BY <1>4, <1>5

\* the search finds nothing; it locks i bytes into buf and takes n packets
Seeks(buf) ==
  /\ ~m_bSynced /\ m_bSynced' = FALSE /\ m_bPrevPktSync' = m_bPrevPktSync
  /\ Took(buf, 0) /\ SyncPoints(buf) = {} /\ processed' = processed

Locks(buf, i, n) ==
  /\ ~m_bSynced /\ m_bSynced' = TRUE /\ m_bPrevPktSync' = TRUE
  /\ i \in Nat /\ i + 5 * m_nTslen <= Len(buf) /\ n \in Nat /\ n >= 5
  /\ \A k \in 0 .. 4 : buf[i + k * m_nTslen + 1]
  /\ n * m_nTslen \in Nat /\ Took(buf, i + n * m_nTslen)
  /\ processed' = arrived' * m_nTslen - Len(buf) + i + n * m_nTslen

(* Out of sync it ends in one of these two; a lock takes at least the five
   packets whose sync bytes made it one. *)
LEMMA OutOfSync ==
  ASSUME TypeOK, ~m_bSynced, NEW buf \in Seq(BOOLEAN), arrived' \in Nat, Search(buf)
  PROVE  Seeks(buf) \/ \E i, n \in Nat : Locks(buf, i, n)
<1>0. m_nTslen \in Nat /\ m_nTslen >= 2
  BY SizesAssumption
<1>1. m_bPrevPktSync \in BOOLEAN /\ m_llOffset \in Nat /\ m_bSynced \in BOOLEAN
  BY DEF TypeOK
<1>2. PICK l \in Nat : l = Len(buf)
  BY LenProperties
<1>3. PICK p \in Int : p = arrived' * m_nTslen
  <2>1. arrived' * m_nTslen \in Int
    BY <1>0
  <2> QED BY <2>1
<1>4. CASE SyncPoints(buf) = {}
  <2>1. m_pBuffer' = buf /\ m_llOffset' = m_llOffset /\ processed' = processed
        /\ m_bPrevPktSync' = m_bPrevPktSync /\ m_bSynced' = m_bSynced
    BY <1>4 DEF Search
  <2>2. Took(buf, 0)
    BY <1>1, <2>1, TookNone
  <2>3. m_bSynced' = FALSE
    BY <1>1, <2>1
  <2> QED BY <1>4, <2>1, <2>2, <2>3 DEF Seeks
<1>5. CASE SyncPoints(buf) # {}
  <2> DEFINE i == Min(SyncPoints(buf))
             locked == Drop(buf, i)
             n == LeadingPackets(locked)
  <2>1. /\ m_bSynced' = TRUE /\ m_bPrevPktSync' = TRUE
        /\ m_pBuffer' = Drop(locked, n * m_nTslen)
        /\ m_llOffset' = m_llOffset + i + n * m_nTslen
        /\ processed' = p - Len(locked) + n * m_nTslen
    BY <1>3, <1>5 DEF Search, Consume, Origin
  <2>2. i \in SyncPoints(buf)
    <3>1. SyncPoints(buf) \subseteq Nat
      BY <1>0, <1>2 DEF SyncPoints, Candidates
    <3> QED BY <1>5, <3>1, LeastIsMin
  <2> HIDE DEF i
  <2>3. i \in Nat /\ i + 5 * m_nTslen <= l /\ \A k \in 0 .. 4 : buf[i + k * m_nTslen + 1]
    BY <1>0, <1>2, <2>2 DEF SyncPoints, Candidates
  <2>4. /\ locked \in Seq(BOOLEAN) /\ Len(locked) = l - i
        /\ \A j \in 1 .. l - i : locked[j] = buf[j + i]
    <3>1. i \in 0 .. Len(buf)
      BY <1>0, <1>2, <2>3
    <3> QED BY <1>2, <3>1, Dropped
  <2> HIDE DEF locked
  <2>5. /\ n \in Nat /\ n * m_nTslen \in 0 .. Len(locked)
        /\ (n + 1) * m_nTslen <= Len(locked) => ~locked[n * m_nTslen + 1]
    BY <2>4, Leading
  <2> HIDE DEF n
  <2>6. n >= 5
    <3> SUFFICES ASSUME n \in 0 .. 4 PROVE FALSE
      BY <2>5
    <3>1. (n + 1) * m_nTslen <= 5 * m_nTslen /\ n * m_nTslen \in Nat
          /\ (n + 1) * m_nTslen = n * m_nTslen + m_nTslen
      BY <1>0
    <3>2. ~locked[n * m_nTslen + 1]
      <4>1. (n + 1) * m_nTslen <= Len(locked)
        BY <1>0, <2>3, <2>4, <3>1
      <4> QED BY <2>5, <4>1
    <3>3. n * m_nTslen + 1 \in 1 .. l - i
      BY <1>0, <2>3, <3>1
    <3>4. locked[n * m_nTslen + 1] = buf[i + n * m_nTslen + 1]
      <4>1. n * m_nTslen + 1 + i = i + n * m_nTslen + 1
        BY <2>3, <3>1
      <4> QED BY <2>4, <3>3, <4>1
    <3> QED BY <2>3, <3>2, <3>4
  <2>7. PICK t \in Nat : t = n * m_nTslen
    BY <2>5
  <2>8. t <= l - i /\ i <= l
    BY <1>0, <2>3, <2>4, <2>5, <2>7
  <2>9. /\ m_pBuffer' \in Seq(BOOLEAN) /\ Len(m_pBuffer') = l - i - t
        /\ \A j \in 1 .. l - i - t : m_pBuffer'[j] = locked[j + t]
    <3>1. t \in 0 .. Len(locked)
      BY <2>4, <2>8
    <3> QED BY <2>1, <2>4, <2>7, <3>1, Dropped
  <2>10. \A j \in 1 .. l - (i + t) : m_pBuffer'[j] = buf[j + (i + t)]
    <3> SUFFICES ASSUME NEW j \in 1 .. l - (i + t) PROVE m_pBuffer'[j] = buf[j + (i + t)]
      OBVIOUS
    <3>1. j \in 1 .. l - i - t /\ j + t \in 1 .. l - i /\ j + t + i = j + (i + t)
      BY <2>3, <2>8
    <3> QED BY <2>4, <2>9, <3>1
  <2>11. Took(buf, i + t)
    <3>1. /\ i + t \in Nat /\ i + t <= l /\ l - i - t = l - (i + t)
          /\ m_llOffset + i + t = m_llOffset + (i + t)
      BY <1>1, <2>3, <2>8
    <3> QED BY <1>2, <2>1, <2>7, <2>9, <2>10, <3>1 DEF Took
  <2>12. processed' = arrived' * m_nTslen - Len(buf) + i + n * m_nTslen
    <3>1. processed' = p - (l - i) + t
      BY <2>1, <2>4, <2>7
    <3>2. p - (l - i) + t = p - l + i + t
      BY <2>3
    <3> QED BY <1>2, <1>3, <2>7, <3>1, <3>2
  <2>13. Locks(buf, i, n)
    BY <1>1, <1>2, <2>1, <2>3, <2>5, <2>6, <2>7, <2>11, <2>12 DEF Locks
  <2> QED BY <2>3, <2>5, <2>13
<1> QED BY <1>4, <1>5

Outcome(buf) ==
  \/ Waits(buf)
  \/ Loses(buf)
  \/ \E w \in {0, m_nTslen} : Processes(buf, w)
  \/ Seeks(buf)
  \/ \E i, n \in Nat : Locks(buf, i, n)

(* Every piece that arrives. *)
LEMMA Steps ==
  ASSUME TypeOK, BufferInv, NEW piece \in Piece, AddPacket(piece)
  PROVE  \E buf, d : /\ Filled(buf, d, piece) /\ Outcome(buf)
                     /\ dropped' = dropped + d /\ arrived' = arrived + 1
<1>0. m_nTslen \in Nat /\ m_nTslen >= 2
  BY SizesAssumption
<1>1. PICK l \in Nat : l = Len(m_pBuffer)
  BY LenProperties DEF TypeOK
<1>2. arrived \in Nat /\ arrived' = arrived + 1 /\ dropped \in Nat
  BY DEF AddPacket, TypeOK
<1> DEFINE buf == MakeRoom(m_pBuffer) \o piece
<1>3. PICK d \in Nat : /\ Filled(buf, d, piece)
                       /\ Len(m_pBuffer) - Len(MakeRoom(m_pBuffer)) = d
  BY Arrives
<1>4. dropped' = dropped + d
  <2>1. dropped' = dropped + Len(m_pBuffer) - Len(MakeRoom(m_pBuffer))
    BY DEF AddPacket
  <2>2. MakeRoom(m_pBuffer) \in Seq(BOOLEAN) /\ m_pBuffer \in Seq(BOOLEAN)
    <3>1. m_pBuffer \in Seq(BOOLEAN) /\ Len(m_pBuffer) < BUFFER_SIZE
      BY DEF TypeOK
    <3>2. CASE Len(m_pBuffer) + m_nTslen >= BUFFER_SIZE
      <4>1. Len(m_pBuffer) - 5 * m_nTslen \in 0 .. Len(m_pBuffer)
        BY <1>0, <1>1, <3>2, SizesAssumption
      <4> QED BY <3>1, <3>2, <4>1, Dropped DEF MakeRoom
    <3> QED BY <3>1, <3>2 DEF MakeRoom
  <2>3. PICK m \in Nat : m = Len(MakeRoom(m_pBuffer))
    BY <2>2, LenProperties
  <2> QED BY <1>1, <1>2, <1>3, <2>1, <2>3
<1>5. IF m_bSynced THEN Lose(buf) \/ Keep(buf) ELSE Search(buf)
  BY DEF AddPacket
<1> HIDE DEF buf
<1>6. /\ buf \in Seq(BOOLEAN) /\ Len(buf) = l - d + m_nTslen
      /\ d <= l /\ (d = 0 \/ l - d = 5 * m_nTslen)
  BY <1>1, <1>3 DEF Filled
<1>7. CASE m_bSynced
  <2>1. Len(buf) >= IF m_bPrevPktSync THEN m_nTslen ELSE 2 * m_nTslen
    <3>1. m_bPrevPktSync \/ l >= m_nTslen
      BY <1>0, <1>1, <1>7 DEF BufferInv
    <3>2. Len(buf) >= m_nTslen
      BY <1>0, <1>6
    <3>3. l >= m_nTslen => Len(buf) >= 2 * m_nTslen
      BY <1>0, <1>6
    <3> QED BY <3>1, <3>2, <3>3
  <2>2. Waits(buf) \/ Loses(buf) \/ \E w \in {0, m_nTslen} : Processes(buf, w)
    BY <1>2, <1>5, <1>6, <1>7, <2>1, InSync
  <2> QED BY <1>2, <1>3, <1>4, <2>2 DEF Outcome
<1>8. CASE ~m_bSynced
  <2>1. Seeks(buf) \/ \E i, n \in Nat : Locks(buf, i, n)
    BY <1>2, <1>5, <1>6, <1>8, OutOfSync
  <2> QED BY <1>2, <1>3, <1>4, <2>1 DEF Outcome
<1> QED BY <1>7, <1>8

\* whatever happens, the buffer stays the end of what arrived
PositionInv ==
  /\ OffsetIsPosition
  /\ NoByteTwice

(* Whatever the outcome, bytes leave at the front only, and what is processed
   ends where they do. *)
LEMMA SomeTaken ==
  ASSUME NEW buf \in Seq(BOOLEAN), arrived' \in Nat, Outcome(buf)
  PROVE  /\ m_bSynced' \in BOOLEAN
         /\ m_bPrevPktSync' \in BOOLEAN \/ m_bPrevPktSync' = m_bPrevPktSync
         /\ \E s : /\ Took(buf, s)
                   /\ \/ processed' = processed
                      \/ processed' = arrived' * m_nTslen - Len(buf) + s
<1>0. m_nTslen \in Nat /\ m_nTslen >= 2
  BY SizesAssumption
<1>1. CASE Waits(buf)
  BY <1>1 DEF Waits
<1>2. CASE Loses(buf)
  BY <1>2 DEF Loses
<1>3. CASE Seeks(buf)
  BY <1>3 DEF Seeks
<1>4. PICK p : p \in Int /\ p = arrived' * m_nTslen - Len(buf)
  <2>1. arrived' * m_nTslen \in Int /\ Len(buf) \in Int
    BY <1>0, LenProperties
  <2> QED BY <2>1
<1>5. CASE \E w \in {0, m_nTslen} : Processes(buf, w)
  <2>1. PICK w \in {0, m_nTslen} : Processes(buf, w)
    BY <1>5
  <2>2. /\ Took(buf, w + m_nTslen) /\ m_bSynced' = TRUE /\ m_bPrevPktSync' = TRUE
        /\ processed' = p + w + m_nTslen
    BY <1>4, <2>1 DEF Processes
  <2>3. p + w + m_nTslen = p + (w + m_nTslen)
    BY <1>0, <1>4
  <2> QED BY <1>4, <2>2, <2>3
<1>6. CASE \E i, n \in Nat : Locks(buf, i, n)
  <2>1. PICK i \in Nat, n \in Nat : Locks(buf, i, n)
    BY <1>6
  <2>2. /\ Took(buf, i + n * m_nTslen) /\ m_bSynced' = TRUE /\ m_bPrevPktSync' = TRUE
        /\ processed' = p + i + n * m_nTslen /\ n * m_nTslen \in Nat
    BY <1>4, <2>1 DEF Locks
  <2>3. p + i + n * m_nTslen = p + (i + n * m_nTslen)
    BY <1>4, <2>2
  <2> QED BY <1>4, <2>2, <2>3
<1> QED BY <1>1, <1>2, <1>3, <1>5, <1>6 DEF Outcome

(* The types and the positions are inductive, given BufferInv. *)
LEMMA PositionKept ==
  ASSUME TypeOK, BufferInv, PositionInv, NEW piece \in Piece, AddPacket(piece)
  PROVE  TypeOK' /\ PositionInv'
<1>0. m_nTslen \in Nat /\ m_nTslen >= 2
  BY SizesAssumption
<1>1. PICK buf, d : /\ Filled(buf, d, piece) /\ Outcome(buf)
                    /\ dropped' = dropped + d /\ arrived' = arrived + 1
  BY Steps
<1>2. /\ arrived \in Nat /\ arrived' \in 0 .. MaxPackets /\ dropped \in Nat
      /\ processed \in Nat /\ m_llOffset \in Nat /\ m_bPrevPktSync \in BOOLEAN
  <2>1. arrived \in 0 .. MaxPackets /\ arrived < MaxPackets
    BY DEF TypeOK, AddPacket
  <2>2. arrived \in Nat /\ arrived' \in 0 .. MaxPackets
    BY <1>1, <2>1, SizesAssumption
  <2> QED BY <2>2 DEF TypeOK
<1>3. PICK l \in Nat : l = Len(m_pBuffer)
  BY LenProperties DEF TypeOK
<1>4. /\ buf \in Seq(BOOLEAN) /\ Len(buf) < BUFFER_SIZE
      /\ d \in Nat /\ d <= l /\ Len(buf) = l - d + m_nTslen
  BY <1>1, <1>3 DEF Filled
<1>5. PICK b : b \in Nat /\ b = Len(buf)
  BY <1>4, LenProperties
<1>6. PICK s : /\ Took(buf, s)
               /\ \/ processed' = processed
                  \/ processed' = arrived' * m_nTslen - Len(buf) + s
  BY <1>1, <1>2, <1>4, SomeTaken
<1>7. /\ s \in Nat /\ s <= b /\ m_pBuffer' \in Seq(BOOLEAN) /\ Len(m_pBuffer') = b - s
      /\ m_llOffset' = m_llOffset + s
  BY <1>5, <1>6 DEF Took
<1>8. PICK p : p \in Int /\ p = arrived * m_nTslen
  <2>1. arrived * m_nTslen \in Int
    BY <1>0, <1>2
  <2> QED BY <2>1
<1>9. arrived' * m_nTslen = p + m_nTslen
  <2>1. (arrived + 1) * m_nTslen = arrived * m_nTslen + m_nTslen
    BY <1>0, <1>2
  <2> QED BY <1>1, <1>8, <2>1
<1>10. m_llOffset + dropped = p - l /\ processed <= p - l
  BY <1>3, <1>8 DEF PositionInv, OffsetIsPosition, NoByteTwice
<1>11. m_llOffset' + dropped' = arrived' * m_nTslen - Len(m_pBuffer')
  BY <1>0, <1>1, <1>2, <1>4, <1>5, <1>7, <1>8, <1>9, <1>10
<1>a. /\ l \in Nat /\ d \in Nat /\ s \in Nat /\ p \in Int /\ p - l \in Nat
      /\ processed \in Nat /\ processed <= p - l
  <2>1. m_llOffset \in Nat /\ dropped \in Nat
    BY <1>2
  <2>2. m_llOffset + dropped \in Nat
    BY <2>1
  <2> QED BY <1>2, <1>3, <1>4, <1>7, <1>8, <1>10, <2>2
<1>12. processed' \in Nat /\ processed' <= arrived' * m_nTslen - Len(m_pBuffer')
  <2>0. /\ arrived' * m_nTslen - Len(m_pBuffer') = p - l + d + s
        /\ arrived' * m_nTslen - Len(buf) + s = p - l + d + s
    <3>1. arrived' * m_nTslen = p + m_nTslen /\ Len(m_pBuffer') = b - s /\ Len(buf) = b
      BY <1>5, <1>7, <1>9
    <3>2. b = l - d + m_nTslen
      BY <1>4, <1>5
    <3> QED BY <1>0, <1>a, <3>1, <3>2
  <2>1. CASE processed' = processed
    <3>1. processed <= p - l + d + s
      BY <1>a
    <3> QED BY <1>a, <2>0, <2>1, <3>1
  <2>2. CASE processed' = arrived' * m_nTslen - Len(buf) + s
    <3>1. processed' = p - l + d + s
      BY <2>0, <2>2
    <3>2. p - l + d + s \in Nat
      BY <1>a
    <3> QED BY <2>0, <3>1, <3>2
  <2> QED BY <1>6, <2>1, <2>2
<1>13. Len(m_pBuffer') < BUFFER_SIZE
  BY <1>4, <1>5, <1>7, SizesAssumption
<1>14. clean' \in [Phases -> Nat]
  BY DEF TypeOK, AddPacket
<1>15. m_bSynced' \in BOOLEAN /\ m_bPrevPktSync' \in BOOLEAN
  BY <1>1, <1>2, <1>4, SomeTaken
<1>16. m_llOffset' \in Nat /\ dropped' \in Nat
  BY <1>1, <1>2, <1>4, <1>7
<1> QED BY <1>2, <1>7, <1>11, <1>12, <1>13, <1>14, <1>15, <1>16
    DEF TypeOK, PositionInv, OffsetIsPosition, NoByteTwice

-----------------------------------------------------------------------------
(* The lock is late, and the buffer short *)

\* five sync bytes, a packet apart, from i on
FiveFrom(buf, i) == \A k \in 0 .. 4 : buf[i + k * m_nTslen + 1]

\* out of sync, all but the last five packets were searched in vain
SearchedInv ==
  ~m_bSynced => \A i \in 0 .. Len(m_pBuffer) - 5 * m_nTslen - 1 : ~FiveFrom(m_pBuffer, i)

(* The search locks within the last six packets: what lies before was searched. *)
LEMMA LateLock ==
  ASSUME TypeOK, SearchedInv, NEW buf, NEW d, NEW piece, Filled(buf, d, piece),
         NEW i, NEW n, Locks(buf, i, n)
  PROVE  Len(buf) - i <= 6 * m_nTslen
<1>0. m_nTslen \in Nat /\ m_nTslen >= 2
  BY SizesAssumption
<1>1. PICK l \in Nat : l = Len(m_pBuffer)
  BY LenProperties DEF TypeOK
<1>2. /\ d \in Nat /\ d <= l /\ (d = 0 \/ l - d = 5 * m_nTslen)
      /\ Len(buf) = l - d + m_nTslen
      /\ \A j \in 1 .. l - d : buf[j] = m_pBuffer[j + d]
  BY <1>1 DEF Filled
<1>3. i \in Nat /\ ~m_bSynced /\ \A k \in 0 .. 4 : buf[i + k * m_nTslen + 1]
  BY DEF Locks
<1> SUFFICES ASSUME ~(Len(buf) - i <= 6 * m_nTslen) PROVE FALSE
  OBVIOUS
<1>4. d = 0 /\ i \in 0 .. l - 5 * m_nTslen - 1
  BY <1>0, <1>1, <1>2, <1>3
<1>5. ASSUME NEW k \in 0 .. 4 PROVE m_pBuffer[i + k * m_nTslen + 1]
  <2>1. k * m_nTslen \in Nat /\ k * m_nTslen <= 4 * m_nTslen
    BY <1>0
  <2>2. /\ i + k * m_nTslen + 1 \in 1 .. l - d
        /\ i + k * m_nTslen + 1 + d = i + k * m_nTslen + 1
    BY <1>0, <1>1, <1>3, <1>4, <2>1
  <2>3. buf[i + k * m_nTslen + 1] = m_pBuffer[i + k * m_nTslen + 1]
    BY <1>2, <2>2
  <2> QED BY <1>3, <2>3
<1> QED BY <1>1, <1>3, <1>4, <1>5 DEF SearchedInv, FiveFrom

(* Both bounds on what the buffer may hold are kept. *)
LEMMA BufferKept ==
  ASSUME TypeOK, BufferInv, SearchedInv, NEW piece \in Piece,
         NEW buf, NEW d, Filled(buf, d, piece), Outcome(buf)
  PROVE  BufferInv' /\ SearchedInv'
<1>0. m_nTslen \in Nat /\ m_nTslen >= 2
  BY SizesAssumption
<1>1. PICK l \in Nat : l = Len(m_pBuffer)
  BY LenProperties DEF TypeOK
<1>2. /\ d \in Nat /\ d <= l /\ (d = 0 \/ l - d = 5 * m_nTslen)
      /\ buf \in Seq(BOOLEAN) /\ Len(buf) = l - d + m_nTslen
  BY <1>1 DEF Filled
<1>3. PICK b \in Nat : b = Len(buf)
  BY <1>2, LenProperties
<1>4. \A s : Took(buf, s) => s \in Nat /\ Len(m_pBuffer') = b - s
  BY <1>3 DEF Took
<1>5. CASE Waits(buf)
  <2>1. m_bSynced /\ m_bPrevPktSync /\ m_bSynced' = TRUE /\ m_bPrevPktSync' = FALSE
        /\ Len(m_pBuffer') = b - 0
    BY <1>4, <1>5 DEF Waits
  <2>2. l <= m_nTslen
    BY <1>1, <2>1 DEF BufferInv
  <2>3. Len(m_pBuffer') \in m_nTslen .. 2 * m_nTslen
    BY <1>0, <1>2, <1>3, <2>1, <2>2
  <2> QED BY <2>1, <2>3 DEF BufferInv, SearchedInv
<1>6. CASE Loses(buf)
  <2>1. m_bSynced /\ ~m_bPrevPktSync /\ m_bSynced' = FALSE /\ Len(m_pBuffer') = b - 0
    BY <1>4, <1>6 DEF Loses
  <2>2. l <= 2 * m_nTslen
    BY <1>0, <1>1, <2>1 DEF BufferInv
  <2>3. 0 .. Len(m_pBuffer') - 5 * m_nTslen - 1 = {}
    BY <1>0, <1>2, <1>3, <2>1, <2>2
  <2> QED BY <2>1, <2>3 DEF BufferInv, SearchedInv
<1>7. CASE \E w \in {0, m_nTslen} : Processes(buf, w)
  <2>1. PICK w \in {0, m_nTslen} : Processes(buf, w)
    BY <1>7
  <2>2. /\ w = IF m_bPrevPktSync THEN 0 ELSE m_nTslen
        /\ m_bSynced /\ m_bSynced' = TRUE /\ m_bPrevPktSync' = TRUE
        /\ Len(m_pBuffer') = b - (w + m_nTslen)
    BY <1>4, <2>1 DEF Processes
  <2>3. l - w <= m_nTslen
    BY <1>0, <1>1, <2>2 DEF BufferInv
  <2>4. Len(m_pBuffer') <= m_nTslen
    BY <1>0, <1>2, <1>3, <2>2, <2>3
  <2> QED BY <2>2, <2>4 DEF BufferInv, SearchedInv
<1>8. CASE Seeks(buf)
  <2>1. /\ m_bSynced' = FALSE /\ SyncPoints(buf) = {} /\ Len(m_pBuffer') = b
        /\ Took(buf, 0)
    <3>1. Took(buf, 0) /\ Len(m_pBuffer') = b - 0
      BY <1>4, <1>8 DEF Seeks
    <3> QED BY <1>8, <3>1 DEF Seeks
  <2>2. \A j \in 1 .. b : m_pBuffer'[j] = buf[j]
    <3>1. \A j \in 1 .. b - 0 : m_pBuffer'[j] = buf[j + 0]
      BY <1>3, <2>1 DEF Took
    <3> QED BY <3>1
  <2>3. ASSUME NEW i \in 0 .. b - 5 * m_nTslen - 1 PROVE ~FiveFrom(m_pBuffer', i)
    <3> SUFFICES ASSUME FiveFrom(m_pBuffer', i) PROVE FALSE
      OBVIOUS
    <3>1. ASSUME NEW k \in 0 .. 4 PROVE buf[i + k * m_nTslen + 1]
      <4>1. k * m_nTslen \in Nat /\ k * m_nTslen <= 4 * m_nTslen
        BY <1>0
      <4>2. i + k * m_nTslen + 1 \in 1 .. b
        BY <1>0, <4>1
      <4>3. m_pBuffer'[i + k * m_nTslen + 1]
        BY DEF FiveFrom
      <4> QED BY <2>2, <4>2, <4>3
    <3>2. i \in Candidates(buf)
      BY <1>0, <1>3 DEF Candidates
    <3> QED BY <2>1, <3>1, <3>2 DEF SyncPoints
  <2> QED BY <2>1, <2>3 DEF BufferInv, SearchedInv
<1>9. CASE \E i, n \in Nat : Locks(buf, i, n)
  <2>1. PICK i \in Nat, n \in Nat : Locks(buf, i, n)
    BY <1>9
  <2>2. b - i <= 6 * m_nTslen
    BY <1>3, <2>1, LateLock
  <2>3. /\ m_bSynced' = TRUE /\ m_bPrevPktSync' = TRUE /\ n >= 5 /\ n * m_nTslen \in Nat
        /\ Len(m_pBuffer') = b - (i + n * m_nTslen)
    BY <1>4, <2>1 DEF Locks
  <2>4. n * m_nTslen >= 5 * m_nTslen
    BY <1>0, <2>3
  <2>5. Len(m_pBuffer') <= m_nTslen
    BY <1>0, <2>2, <2>3, <2>4
  <2> QED BY <2>3, <2>5 DEF BufferInv, SearchedInv
<1> QED BY <1>5, <1>6, <1>7, <1>8, <1>9 DEF Outcome

-----------------------------------------------------------------------------
(* Where a clean run is in the buffer, and what it has led to *)

\* b ends with c pieces (at most six looked at) whose sync bytes are at phase r;
\* the last two have no other
Shows(b, r, c) ==
  /\ \A k \in 1 .. 6 :
       k <= c /\ k * m_nTslen <= Len(b) + r => b[Len(b) - k * m_nTslen + r + 1]
  /\ \A k \in 1 .. 2, j \in 1 .. Len(b) :
       k <= c /\ b[j] /\ Len(b) - j \in (k - 1) * m_nTslen .. k * m_nTslen - 1
         => j = Len(b) - k * m_nTslen + r + 1

\* the piece has one sync byte, at phase r
OnlyAt(piece, r) == \A j \in Phases : piece[j + 1] = (j = r)

(* One more clean piece behind the others. *)
LEMMA ShowsFilled ==
  ASSUME TypeOK, NEW buf, NEW d, NEW piece \in Piece, Filled(buf, d, piece),
         NEW r \in Phases, NEW c \in Nat, Shows(m_pBuffer, r, c), OnlyAt(piece, r)
  PROVE  Shows(buf, r, c + 1)
<1>0. m_nTslen \in Nat /\ m_nTslen >= 2 /\ r \in Nat /\ r < m_nTslen
  BY SizesAssumption DEF Phases
<1>1. PICK l \in Nat : l = Len(m_pBuffer)
  BY LenProperties DEF TypeOK
<1>2. /\ d \in Nat /\ d <= l
      /\ Len(buf) = l - d + m_nTslen
      /\ \A j \in 1 .. l - d : buf[j] = m_pBuffer[j + d]
      /\ \A j \in 1 .. m_nTslen : buf[l - d + j] = piece[j]
  BY <1>1 DEF Filled
<1>3. PICK e : e \in Nat /\ e = l - d
  <2>1. l - d \in Nat
    BY <1>1, <1>2
  <2> QED BY <2>1
<1>4. ASSUME NEW k \in 1 .. 6, k <= c + 1, k * m_nTslen <= Len(buf) + r
      PROVE  buf[Len(buf) - k * m_nTslen + r + 1]
  <2>1. CASE k = 1
    <3>1. r + 1 \in 1 .. m_nTslen /\ Len(buf) - k * m_nTslen + r + 1 = e + (r + 1)
      BY <1>0, <1>2, <1>3, <2>1
    <3>2. piece[r + 1]
      BY DEF OnlyAt
    <3> QED BY <1>2, <1>3, <3>1, <3>2
  <2>2. CASE k # 1
    <3>1. PICK t : t \in Nat /\ t = (k - 1) * m_nTslen /\ k * m_nTslen = t + m_nTslen /\ t >= m_nTslen
      <4>1. /\ (k - 1) * m_nTslen \in Nat /\ k * m_nTslen = (k - 1) * m_nTslen + m_nTslen
            /\ (k - 1) * m_nTslen >= m_nTslen
        BY <1>0, <2>2
      <4> QED BY <4>1
    <3>2. t <= e + r
      BY <1>0, <1>2, <1>3, <1>4, <3>1
    <3>3. m_pBuffer[l - t + r + 1]
      <4>1. k - 1 \in 1 .. 6 /\ k - 1 <= c
        BY <1>4, <2>2
      <4>2. (k - 1) * m_nTslen <= Len(m_pBuffer) + r
        BY <1>0, <1>1, <1>2, <1>3, <3>1, <3>2
      <4> QED BY <1>1, <3>1, <4>1, <4>2 DEF Shows
    <3>4. e - t + r + 1 \in 1 .. l - d /\ e - t + r + 1 + d = l - t + r + 1
      BY <1>0, <1>1, <1>2, <1>3, <3>1, <3>2
    <3>5. buf[e - t + r + 1]
      BY <1>2, <3>3, <3>4
    <3>6. Len(buf) - k * m_nTslen + r + 1 = e - t + r + 1
      BY <1>0, <1>2, <1>3, <3>1
    <3> QED BY <3>5, <3>6
  <2> QED BY <2>1, <2>2
<1>5. ASSUME NEW k \in 1 .. 2, NEW j \in 1 .. Len(buf), k <= c + 1, buf[j],
             Len(buf) - j \in (k - 1) * m_nTslen .. k * m_nTslen - 1
      PROVE  j = Len(buf) - k * m_nTslen + r + 1
  <2>1. CASE k = 1
    <3>1. Len(buf) - j \in 0 .. m_nTslen - 1 /\ j \in 1 .. e + m_nTslen
      BY <1>0, <1>2, <1>3, <1>5, <2>1
    <3>2. PICK m : m \in 1 .. m_nTslen /\ m = j - e
      <4>1. j - e \in 1 .. m_nTslen
        BY <1>0, <1>2, <1>3, <3>1
      <4> QED BY <4>1
    <3>3. piece[m]
      <4>1. j = e + m
        BY <1>3, <3>1, <3>2
      <4> QED BY <1>2, <1>3, <1>5, <3>2, <4>1
    <3>4. m - 1 \in Phases /\ m - 1 + 1 = m
      BY <1>0, <3>2 DEF Phases
    <3>5. m - 1 = r
      BY <3>3, <3>4 DEF OnlyAt
    <3> QED BY <1>0, <1>2, <1>3, <2>1, <3>1, <3>2, <3>5
  <2>2. CASE k = 2
    <3>1. Len(buf) - j \in m_nTslen .. 2 * m_nTslen - 1 /\ j \in 1 .. e + m_nTslen
      BY <1>0, <1>2, <1>3, <1>5, <2>2
    <3>2. j \in 1 .. l - d /\ j + d \in 1 .. l /\ l - (j + d) \in 0 .. m_nTslen - 1
      BY <1>0, <1>1, <1>2, <1>3, <3>1
    <3>3. m_pBuffer[j + d]
      BY <1>2, <1>5, <3>2
    <3>4. j + d = l - m_nTslen + r + 1
      <4>1. 1 \in 1 .. 2 /\ 1 <= c /\ (1 - 1) * m_nTslen = 0 /\ 1 * m_nTslen = m_nTslen
        BY <1>0, <1>5, <2>2
      <4>2. /\ j + d \in 1 .. Len(m_pBuffer)
            /\ Len(m_pBuffer) - (j + d) \in (1 - 1) * m_nTslen .. 1 * m_nTslen - 1
        BY <1>1, <3>2, <4>1
      <4>3. \A n \in 1 .. 2, x \in 1 .. Len(m_pBuffer) :
              n <= c /\ m_pBuffer[x]
                /\ Len(m_pBuffer) - x \in (n - 1) * m_nTslen .. n * m_nTslen - 1
              => x = Len(m_pBuffer) - n * m_nTslen + r + 1
        BY DEF Shows
      <4>4. j + d = Len(m_pBuffer) - 1 * m_nTslen + r + 1
        BY <3>3, <4>1, <4>2, <4>3, Zenon
      <4> QED BY <1>1, <4>1, <4>4
    <3>5. Len(buf) - k * m_nTslen = l - d - m_nTslen /\ l \in Int /\ d \in Int /\ j \in Int
      BY <1>0, <1>2, <2>2
    <3>6. j = l - d - m_nTslen + r + 1
      BY <1>0, <3>4, <3>5
    <3> QED BY <3>5, <3>6
  <2> QED BY <2>1, <2>2
<1> QED BY <1>4, <1>5 DEF Shows

(* Bytes taken from the front leave the end as it was. *)
LEMMA ShowsTaken ==
  ASSUME NEW buf \in Seq(BOOLEAN), NEW s, Took(buf, s),
         NEW r \in Phases, NEW c \in Nat, Shows(buf, r, c)
  PROVE  Shows(m_pBuffer', r, c)
<1>0. m_nTslen \in Nat /\ m_nTslen >= 2 /\ r \in Nat /\ r < m_nTslen
  BY SizesAssumption DEF Phases
<1>1. PICK b \in Nat : b = Len(buf)
  BY LenProperties
<1>2. /\ s \in Nat /\ s <= b /\ Len(m_pBuffer') = b - s
      /\ \A j \in 1 .. b - s : m_pBuffer'[j] = buf[j + s]
  BY <1>1 DEF Took
<1>3. ASSUME NEW k \in 1 .. 6, k <= c, k * m_nTslen <= Len(m_pBuffer') + r
      PROVE  m_pBuffer'[Len(m_pBuffer') - k * m_nTslen + r + 1]
  <2>1. PICK t : t \in Nat /\ t = k * m_nTslen /\ t >= m_nTslen
    <3>1. k * m_nTslen \in Nat /\ k * m_nTslen >= m_nTslen
      BY <1>0
    <3> QED BY <3>1
  <2>2. t <= b - s + r
    BY <1>2, <1>3, <2>1
  <2>3. buf[b - t + r + 1]
    <3>1. k * m_nTslen <= Len(buf) + r
      BY <1>0, <1>1, <1>2, <2>1, <2>2
    <3> QED BY <1>1, <1>3, <2>1, <3>1 DEF Shows
  <2>4. b - s - t + r + 1 \in 1 .. b - s /\ b - s - t + r + 1 + s = b - t + r + 1
    BY <1>0, <1>1, <1>2, <2>1, <2>2
  <2>5. m_pBuffer'[b - s - t + r + 1]
    BY <1>2, <2>3, <2>4
  <2> QED BY <1>2, <2>1, <2>5
<1>4. ASSUME NEW k \in 1 .. 2, NEW j \in 1 .. Len(m_pBuffer'), k <= c, m_pBuffer'[j],
             Len(m_pBuffer') - j \in (k - 1) * m_nTslen .. k * m_nTslen - 1
      PROVE  j = Len(m_pBuffer') - k * m_nTslen + r + 1
  <2>1. PICK t : t \in Nat /\ t = k * m_nTslen
    BY <1>0
  <2>2. j \in 1 .. b - s /\ j + s \in 1 .. b /\ Len(buf) - (j + s) = Len(m_pBuffer') - j
    BY <1>1, <1>2
  <2>3. buf[j + s]
    BY <1>2, <1>4, <2>2
  <2>4. j + s = Len(buf) - k * m_nTslen + r + 1
    BY <1>1, <1>4, <2>2, <2>3 DEF Shows
  <2> QED BY <1>0, <1>1, <1>2, <2>1, <2>2, <2>4
<1> QED BY <1>3, <1>4 DEF Shows

\* the buffer ends with the clean run of every phase
PatternInv == \A r \in Phases : Shows(m_pBuffer, r, clean[r])

\* how far the relock is after clean[r] pieces
Stage(r) ==
  /\ m_bSynced /\ m_bPrevPktSync /\ clean[r] >= 2 => Len(m_pBuffer) + r \in {0, m_nTslen}
  /\ m_bSynced /\ ~m_bPrevPktSync => clean[r] <= 2
  /\ ~m_bSynced => clean[r] <= 6 /\ Len(m_pBuffer) >= (clean[r] - 1) * m_nTslen

StageInv == \A r \in Phases : Stage(r)

(* A true byte of the last two pieces is at one of two places. *)
LEMMA LastTwo ==
  ASSUME NEW buf \in Seq(BOOLEAN), NEW r \in Phases, NEW c \in Nat, c >= 2, Shows(buf, r, c),
         NEW j \in 1 .. Len(buf), buf[j], Len(buf) - j < 2 * m_nTslen
  PROVE  \/ j = Len(buf) - m_nTslen + r + 1
         \/ j = Len(buf) - 2 * m_nTslen + r + 1
<1>0. m_nTslen \in Nat /\ m_nTslen >= 2 /\ r \in Nat /\ r < m_nTslen
  BY SizesAssumption DEF Phases
<1>1. PICK b \in Nat : b = Len(buf)
  BY LenProperties
<1>2. \/ b - j \in (1 - 1) * m_nTslen .. 1 * m_nTslen - 1
      \/ b - j \in (2 - 1) * m_nTslen .. 2 * m_nTslen - 1
  BY <1>0, <1>1
<1>3. 1 \in 1 .. 2 /\ 2 \in 1 .. 2 /\ 1 <= c /\ 2 <= c /\ 1 * m_nTslen = m_nTslen
  BY <1>0
<1> QED BY <1>1, <1>2, <1>3 DEF Shows

(* The next clean piece brings the next stage. *)
LEMMA StageKept ==
  ASSUME TypeOK, BufferInv, SearchedInv, NEW piece \in Piece,
         NEW buf, NEW d, Filled(buf, d, piece), Outcome(buf),
         NEW r \in Phases, NEW c \in Nat, clean[r] = c, clean'[r] = c + 1,
         Stage(r), Shows(buf, r, c + 1)
  PROVE  Stage(r)'
<1>0. m_nTslen \in Nat /\ m_nTslen >= 2 /\ r \in Nat /\ r < m_nTslen
  BY SizesAssumption DEF Phases
<1>1. PICK l \in Nat : l = Len(m_pBuffer)
  BY LenProperties DEF TypeOK
<1>2. /\ d \in Nat /\ d <= l /\ (d = 0 \/ l - d = 5 * m_nTslen)
      /\ buf \in Seq(BOOLEAN) /\ Len(buf) = l - d + m_nTslen
  BY <1>1 DEF Filled
<1>3. PICK b \in Nat : b = Len(buf)
  BY <1>2, LenProperties
<1>4. \A s : Took(buf, s) => s \in Nat /\ Len(m_pBuffer') = b - s
  BY <1>3 DEF Took
<1>5. CASE Waits(buf)
  <2>1. m_bSynced /\ m_bPrevPktSync /\ m_bSynced' = TRUE /\ m_bPrevPktSync' = FALSE /\ ~buf[1]
    BY <1>5 DEF Waits
  <2>2. ~(c >= 2)
    <3> SUFFICES ASSUME c >= 2 PROVE FALSE
      OBVIOUS
    <3>1. l + r \in {0, m_nTslen}
      BY <1>1, <2>1 DEF Stage
    <3>2. l <= m_nTslen /\ b = l + m_nTslen
      BY <1>0, <1>1, <1>2, <1>3, <2>1 DEF BufferInv
    <3>3. \/ 1 * m_nTslen <= b + r /\ b - 1 * m_nTslen + r + 1 = 1
          \/ 2 * m_nTslen <= b + r /\ b - 2 * m_nTslen + r + 1 = 1
      BY <1>0, <1>1, <3>1, <3>2
    <3>4. 1 \in 1 .. 6 /\ 2 \in 1 .. 6 /\ 1 <= c + 1 /\ 2 <= c + 1
      OBVIOUS
    <3> QED BY <1>3, <2>1, <3>3, <3>4 DEF Shows
  <2>3. clean'[r] <= 2
    BY <2>2
  <2> QED BY <2>1, <2>3 DEF Stage
<1>6. CASE Loses(buf)
  <2>1. m_bSynced /\ ~m_bPrevPktSync /\ m_bSynced' = FALSE /\ Len(m_pBuffer') = b
    <3>1. Took(buf, 0) /\ Len(m_pBuffer') = b - 0
      BY <1>4, <1>6 DEF Loses
    <3> QED BY <1>6, <3>1 DEF Loses
  <2>2. c <= 2 /\ l >= m_nTslen
    BY <1>0, <1>1, <2>1 DEF Stage, BufferInv
  <2>3. b >= 2 * m_nTslen
    BY <1>0, <1>1, <1>2, <1>3, <2>2
  <2>4. clean'[r] - 1 = c /\ c * m_nTslen <= 2 * m_nTslen /\ clean'[r] <= 6
    BY <1>0, <2>2
  <2>5. Len(m_pBuffer') >= (clean'[r] - 1) * m_nTslen
    BY <1>0, <2>1, <2>3, <2>4
  <2> QED BY <2>1, <2>4, <2>5 DEF Stage
<1>7. CASE \E w \in {0, m_nTslen} : Processes(buf, w)
  <2>1. PICK w \in {0, m_nTslen} : Processes(buf, w)
    BY <1>7
  <2>2. /\ w = IF m_bPrevPktSync THEN 0 ELSE m_nTslen
        /\ m_bSynced /\ m_bSynced' = TRUE /\ m_bPrevPktSync' = TRUE /\ buf[w + 1]
        /\ Took(buf, w + m_nTslen) /\ Len(m_pBuffer') = b - (w + m_nTslen)
    BY <1>4, <2>1 DEF Processes
  <2>3. w + m_nTslen <= b /\ l - w <= m_nTslen /\ w \in Nat
    BY <1>0, <1>1, <1>3, <2>1, <2>2 DEF BufferInv, Took
  <2>4. ASSUME c + 1 >= 2 PROVE Len(m_pBuffer') + r \in {0, m_nTslen}
    <3>1. w + 1 \in 1 .. Len(buf) /\ Len(buf) - (w + 1) < 2 * m_nTslen
      BY <1>0, <1>1, <1>2, <1>3, <2>3
    <3>2. w + 1 = b - m_nTslen + r + 1 \/ w + 1 = b - 2 * m_nTslen + r + 1
      <4>1. buf \in Seq(BOOLEAN) /\ buf[w + 1] /\ c + 1 \in Nat
        BY <1>2, <2>2
      <4>2. \/ w + 1 = Len(buf) - m_nTslen + r + 1
            \/ w + 1 = Len(buf) - 2 * m_nTslen + r + 1
        BY <2>4, <3>1, <4>1, LastTwo
      <4> QED BY <1>3, <4>2
    <3> QED BY <1>0, <1>3, <2>2, <2>3, <3>2
  <2> QED BY <2>2, <2>4 DEF Stage
<1>8. CASE Seeks(buf)
  <2>1. ~m_bSynced /\ m_bSynced' = FALSE /\ SyncPoints(buf) = {} /\ Len(m_pBuffer') = b
    <3>1. Took(buf, 0) /\ Len(m_pBuffer') = b - 0
      BY <1>4, <1>8 DEF Seeks
    <3> QED BY <1>8, <3>1 DEF Seeks
  <2>2. c <= 6 /\ l >= (c - 1) * m_nTslen
    BY <1>1, <2>1 DEF Stage
  <2>3. c # 6
    <3> SUFFICES ASSUME c = 6 PROVE FALSE
      OBVIOUS
    <3>1. b >= 6 * m_nTslen
      BY <1>0, <1>1, <1>2, <1>3, <2>2
    <3> DEFINE i == b - 6 * m_nTslen + r
    <3>2. i \in Nat /\ i \in Candidates(buf)
      BY <1>0, <1>3, <3>1 DEF Candidates
    <3>3. ASSUME NEW k \in 0 .. 4 PROVE buf[i + k * m_nTslen + 1]
      <4>1. 6 - k \in 1 .. 6 /\ 6 - k <= c + 1
        OBVIOUS
      <4>2. (6 - k) * m_nTslen <= b + r /\ b - (6 - k) * m_nTslen + r + 1 = i + k * m_nTslen + 1
        BY <1>0, <3>1
      <4>3. buf[b - (6 - k) * m_nTslen + r + 1]
        BY <1>3, <4>1, <4>2 DEF Shows
      <4> HIDE DEF i
      <4> QED BY <4>2, <4>3
    <3> HIDE DEF i
    <3>4. i \in SyncPoints(buf)
      BY <3>2, <3>3 DEF SyncPoints
    <3> QED BY <2>1, <3>4
  <2>4. b >= c * m_nTslen
    <3>1. CASE d = 0
      <4>1. c * m_nTslen = (c - 1) * m_nTslen + m_nTslen
        BY <1>0
      <4> QED BY <1>0, <1>1, <1>2, <1>3, <2>2, <3>1, <4>1
    <3>2. CASE l - d = 5 * m_nTslen
      <4>1. c * m_nTslen <= 6 * m_nTslen
        BY <1>0, <2>2
      <4> QED BY <1>0, <1>1, <1>2, <1>3, <3>2, <4>1
    <3> QED BY <1>2, <3>1, <3>2
  <2>5. clean'[r] <= 6 /\ clean'[r] - 1 = c
    BY <2>2, <2>3
  <2> QED BY <2>1, <2>4, <2>5 DEF Stage
<1>9. CASE \E i, n \in Nat : Locks(buf, i, n)
  <2>1. PICK i \in Nat, n \in Nat : Locks(buf, i, n)
    BY <1>9
  <2>2. b - i <= 6 * m_nTslen
    BY <1>3, <2>1, LateLock
  <2>3. /\ m_bSynced' = TRUE /\ m_bPrevPktSync' = TRUE /\ n >= 5 /\ n * m_nTslen \in Nat
        /\ i + 5 * m_nTslen <= b /\ buf[i + 4 * m_nTslen + 1]
        /\ Took(buf, i + n * m_nTslen) /\ Len(m_pBuffer') = b - (i + n * m_nTslen)
    BY <1>3, <1>4, <2>1 DEF Locks
  <2>4. i + n * m_nTslen <= b
    BY <1>3, <2>3 DEF Took
  <2>5. ASSUME c + 1 >= 2 PROVE Len(m_pBuffer') + r \in {0, m_nTslen}
    <3>1. i + 4 * m_nTslen + 1 \in 1 .. Len(buf) /\ Len(buf) - (i + 4 * m_nTslen + 1) < 2 * m_nTslen
      BY <1>0, <1>3, <2>2, <2>3
    <3>2. \/ i + 4 * m_nTslen + 1 = b - m_nTslen + r + 1
          \/ i + 4 * m_nTslen + 1 = b - 2 * m_nTslen + r + 1
      <4>1. buf \in Seq(BOOLEAN) /\ buf[i + 4 * m_nTslen + 1] /\ c + 1 \in Nat
        BY <1>2, <2>3
      <4>2. \/ i + 4 * m_nTslen + 1 = Len(buf) - m_nTslen + r + 1
            \/ i + 4 * m_nTslen + 1 = Len(buf) - 2 * m_nTslen + r + 1
        BY <2>5, <3>1, <4>1, LastTwo
      <4> QED BY <1>3, <4>2
    <3>3. n \in {5, 6}
      <4> SUFFICES ASSUME n >= 7 PROVE FALSE
        BY <2>3
      <4>1. n * m_nTslen >= 7 * m_nTslen
        BY <1>0
      <4> QED BY <1>0, <1>3, <2>3, <2>4, <3>2, <4>1
    <3>4. n * m_nTslen = 5 * m_nTslen \/ n * m_nTslen = 6 * m_nTslen
      BY <3>3
    <3> QED BY <1>0, <1>3, <2>3, <2>4, <3>2, <3>4
  <2> QED BY <2>3, <2>5 DEF Stage
<1> QED BY <1>5, <1>6, <1>7, <1>8, <1>9 DEF Outcome

-----------------------------------------------------------------------------
(* The theorems *)

\* the inductive invariant
SyncInv == TypeOK /\ PositionInv /\ BufferInv /\ SearchedInv /\ PatternInv /\ StageInv

(* It holds before the first piece. *)
LEMMA InitSync == Init => SyncInv
<1> SUFFICES ASSUME Init PROVE SyncInv
  OBVIOUS
<1>0. m_nTslen \in Nat /\ m_nTslen >= 2 /\ BUFFER_SIZE \in Nat /\ BUFFER_SIZE > 6 * m_nTslen
      /\ MaxPackets \in Nat
  BY SizesAssumption
<1>1. /\ m_pBuffer = <<>> /\ m_bSynced = FALSE /\ m_bPrevPktSync = TRUE
      /\ m_llOffset = 0 /\ arrived = 0 /\ processed = 0 /\ dropped = 0
      /\ clean = [r \in Phases |-> 0]
  BY DEF Init
<1>2. Len(m_pBuffer) = 0 /\ m_pBuffer \in Seq(BOOLEAN) /\ arrived * m_nTslen = 0
  BY <1>0, <1>1
<1>3. TypeOK
  <2>1. clean \in [Phases -> Nat]
    BY <1>1
  <2>2. Len(m_pBuffer) < BUFFER_SIZE /\ arrived \in 0 .. MaxPackets
    BY <1>0, <1>1, <1>2
  <2> QED BY <1>1, <1>2, <2>1, <2>2 DEF TypeOK
<1>4. PositionInv
  BY <1>1, <1>2 DEF PositionInv, OffsetIsPosition, NoByteTwice
<1>5. BufferInv
  BY <1>1 DEF BufferInv
<1>6. SearchedInv
  <2>1. 0 .. Len(m_pBuffer) - 5 * m_nTslen - 1 = {}
    BY <1>0, <1>2
  <2> QED BY <2>1 DEF SearchedInv
<1>7. PatternInv
  BY <1>1 DEF PatternInv, Shows
<1>8. StageInv
  <2>1. ASSUME NEW r \in Phases PROVE Stage(r)
    <3>1. clean[r] = 0 /\ (0 - 1) * m_nTslen <= 0
      BY <1>0, <1>1
    <3> QED BY <1>1, <1>2, <3>1 DEF Stage
  <2> QED BY <2>1 DEF StageInv
<1> QED BY <1>3, <1>4, <1>5, <1>6, <1>7, <1>8 DEF SyncInv

(* It is kept by a piece that arrives: a phase that the piece does not show
   starts again with nothing to prove. *)
LEMMA StepSync ==
  ASSUME SyncInv, NEW piece \in Piece, AddPacket(piece)
  PROVE  SyncInv'
<1>0. m_nTslen \in Nat /\ m_nTslen >= 2
  BY SizesAssumption
<1>1. TypeOK /\ PositionInv /\ BufferInv /\ SearchedInv /\ PatternInv /\ StageInv
  BY DEF SyncInv
<1>2. PICK buf, d : Filled(buf, d, piece) /\ Outcome(buf) /\ arrived' = arrived + 1
  BY <1>1, Steps
<1>3. TypeOK' /\ PositionInv'
  BY <1>1, PositionKept
<1>4. BufferInv' /\ SearchedInv'
  BY <1>1, <1>2, BufferKept
<1>5. buf \in Seq(BOOLEAN)
  BY <1>2 DEF Filled
<1>6. PICK s : Took(buf, s)
  <2>1. arrived' \in Nat
    BY <1>1, <1>2 DEF TypeOK
  <2> QED BY <1>2, <1>5, <2>1, SomeTaken
<1>7. ASSUME NEW r \in Phases PROVE Shows(m_pBuffer, r, clean[r])' /\ Stage(r)'
  <2>1. clean'[r] = IF OnlyAt(piece, r) THEN clean[r] + 1 ELSE 0
    BY DEF AddPacket, OnlyAt
  <2>2. PICK c \in Nat : c = clean[r]
    BY <1>1 DEF TypeOK
  <2>3. CASE OnlyAt(piece, r)
    <3>1. Shows(m_pBuffer, r, c) /\ Stage(r)
      BY <1>1, <2>2 DEF PatternInv, StageInv
    <3>2. Shows(buf, r, c + 1)
      BY <1>1, <1>2, <2>3, <3>1, ShowsFilled
    <3>3. c + 1 \in Nat /\ clean'[r] = c + 1
      BY <2>1, <2>2, <2>3
    <3>4. Shows(m_pBuffer', r, c + 1)
      BY <1>5, <1>6, <3>2, <3>3, ShowsTaken
    <3>5. Stage(r)'
      BY <1>1, <1>2, <2>2, <3>1, <3>2, <3>3, StageKept
    <3> QED BY <3>3, <3>4, <3>5
  <2>4. CASE ~OnlyAt(piece, r)
    <3>1. clean'[r] = 0 /\ (clean'[r] - 1) * m_nTslen <= 0
      BY <1>0, <2>1, <2>4
    <3>2. Len(m_pBuffer') \in Nat
      BY <1>3, LenProperties DEF TypeOK
    <3>3. Len(m_pBuffer') >= (clean'[r] - 1) * m_nTslen
      BY <1>0, <3>1, <3>2
    <3>4. Stage(r)'
      BY <3>1, <3>3 DEF Stage
    <3>5. Shows(m_pBuffer', r, 0)
      BY DEF Shows
    <3> QED BY <3>1, <3>4, <3>5
  <2> QED BY <2>3, <2>4
<1>8. PatternInv' /\ StageInv'
  <2>1. Phases' = Phases
    BY DEF Phases
  <2> QED BY <1>7 DEF PatternInv, StageInv
<1> QED BY <1>3, <1>4, <1>8 DEF SyncInv

(* It is inductive. *)
LEMMA SyncKept == SyncInv /\ [Next]_vars => SyncInv'
<1> SUFFICES ASSUME SyncInv, [Next]_vars PROVE SyncInv'
  OBVIOUS
<1>1. CASE UNCHANGED vars
  BY <1>1 DEF vars, SyncInv, TypeOK, PositionInv, OffsetIsPosition, NoByteTwice, BufferInv,
     SearchedInv, FiveFrom, PatternInv, Shows, StageInv, Stage
<1>2. ASSUME NEW piece \in Piece, AddPacket(piece) PROVE SyncInv'
  BY <1>2, StepSync
<1> QED BY <1>1, <1>2 DEF Next, Finished

(* It always holds. *)
LEMMA AlwaysSync == Spec => []SyncInv
BY InitSync, SyncKept, PTL DEF Spec

(* CTrCore's buffer: the variables keep their types and m_pBuffer never has
   BUFFER_SIZE bytes. *)
THEOREM TypeCorrect == Spec => []TypeOK
<1>1. SyncInv => TypeOK
  BY DEF SyncInv
<1> QED BY AlwaysSync, <1>1, PTL

(* The offset reported with every error is the position in the stream of the
   packet looked at, less the bytes the search dropped. *)
THEOREM OffsetRight == Spec => []OffsetIsPosition
<1>1. SyncInv => OffsetIsPosition
  BY DEF SyncInv, PositionInv
<1> QED BY AlwaysSync, <1>1, PTL

(* No byte is part of two processed packets: ProcessPacket sees the packets in
   stream order and never one that is still in the buffer. *)
THEOREM ProcessedInOrder == Spec => []NoByteTwice
<1>1. SyncInv => NoByteTwice
  BY DEF SyncInv, PositionInv
<1> QED BY AlwaysSync, <1>1, PTL

(* A position r after a multiple of the packet length is at phase r. *)
LEMMA PhaseOf ==
  ASSUME NEW q \in Int, NEW r \in Phases
  PROVE  (q * m_nTslen + r) % m_nTslen = r
<1>0. m_nTslen \in Nat /\ m_nTslen >= 2 /\ r \in Nat /\ r < m_nTslen
  BY SizesAssumption DEF Phases
<1>1. PICK a : a \in Int /\ a = q * m_nTslen + r
  <2>1. q * m_nTslen + r \in Int
    BY <1>0
  <2> QED BY <2>1
<1>2. PICK v : v \in Int /\ v = a \div m_nTslen
  BY <1>0, <1>1
<1>3. PICK x : x \in Int /\ x = a % m_nTslen
  BY <1>0, <1>1
<1>4. a = m_nTslen * v + x /\ 0 <= x /\ x < m_nTslen
  BY <1>0, <1>1, <1>2, <1>3
<1>5. (q - v) * m_nTslen = x - r
  BY <1>0, <1>1, <1>2, <1>3, <1>4
<1>6. q - v = 0
  <2>1. PICK z : z \in Int /\ z = q - v
    BY <1>2
  <2>2. z * m_nTslen < m_nTslen /\ z * m_nTslen > 0 - m_nTslen
    BY <1>0, <1>3, <1>4, <1>5, <2>1
  <2>3. ~(z >= 1)
    <3> SUFFICES ASSUME z >= 1 PROVE FALSE
      OBVIOUS
    <3>1. (z - 1) * m_nTslen >= 0
      BY <1>0, <2>1
    <3> QED BY <1>0, <2>1, <2>2, <3>1
  <2>4. ~(z <= 0 - 1)
    <3> SUFFICES ASSUME z <= 0 - 1 PROVE FALSE
      OBVIOUS
    <3>1. (z + 1) * m_nTslen <= 0
      BY <1>0, <2>1
    <3> QED BY <1>0, <2>1, <2>2, <3>1
  <2> QED BY <2>1, <2>3, <2>4
<1>7. x = r
  BY <1>0, <1>2, <1>3, <1>5, <1>6
<1> QED BY <1>1, <1>3, <1>7

(* Seven clean packets restore sync at their phase, whatever came before and
   whatever wrong phase was locked. *)
THEOREM SyncRestored == Spec => []Relocks
<1>1. SyncInv => Relocks
  <2> SUFFICES ASSUME SyncInv, NEW r \in Phases, clean[r] >= RelockPackets
               PROVE  /\ m_bSynced /\ m_bPrevPktSync
                      /\ (arrived * m_nTslen - Len(m_pBuffer)) % m_nTslen = r
    BY DEF Relocks
  <2>0. m_nTslen \in Nat /\ m_nTslen >= 2 /\ r \in Nat /\ r < m_nTslen
    BY SizesAssumption DEF Phases
  <2>1. /\ clean[r] \in Nat /\ clean[r] >= 7 /\ arrived \in Nat
        /\ m_bSynced \in BOOLEAN /\ m_bPrevPktSync \in BOOLEAN
    BY DEF SyncInv, TypeOK, RelockPackets
  <2>2. Stage(r)
    BY DEF SyncInv, StageInv
  <2>3. PICK l \in Nat : l = Len(m_pBuffer)
    BY LenProperties DEF SyncInv, TypeOK
  <2>4. m_bSynced /\ m_bPrevPktSync /\ l + r \in {0, m_nTslen}
    BY <2>1, <2>2, <2>3 DEF Stage
  <2>5. PICK q \in Int : arrived * m_nTslen - l = q * m_nTslen + r
    <3>1. CASE l + r = 0
      <4>1. l = 0 /\ r = 0
        BY <2>0, <2>3, <3>1
      <4> QED BY <2>0, <2>1, <4>1
    <3>2. CASE l + r = m_nTslen
      <4>1. arrived - 1 \in Int /\ (arrived - 1) * m_nTslen = arrived * m_nTslen - m_nTslen
        BY <2>0, <2>1
      <4>2. arrived * m_nTslen - l = (arrived - 1) * m_nTslen + r
        BY <2>0, <2>1, <2>3, <3>2, <4>1
      <4> QED BY <4>1, <4>2
    <3> QED BY <2>4, <3>1, <3>2
  <2> QED BY <2>3, <2>4, <2>5, PhaseOf
<1> QED BY AlwaysSync, <1>1, PTL
=============================================================================
