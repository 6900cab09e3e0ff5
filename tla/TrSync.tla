-------------------------------- MODULE TrSync --------------------------------
(***************************************************************************)
(* CTrCore::AddPacket and TryToReSync (libtr101290): finding and keeping   *)
(* the packet boundaries of a transport stream that arrives in pieces of   *)
(* m_nTslen bytes.  Of a byte only matters whether it is the sync byte     *)
(* 0x47.  What ProcessPacket does with a packet is another module's        *)
(* matter; here it is the stream position at which the packet ends.        *)
(*                                                                         *)
(* The buffer always holds the last bytes that arrived, so the position of *)
(* its first byte in the stream is what came less what is in it.           *)
(***************************************************************************)
EXTENDS Integers, Sequences, SequencesExt, FiniteSetsExt

CONSTANTS
  m_nTslen,    \* packet length, 188 in the code's callers
  BUFFER_SIZE, \* 188*20
  MaxPackets   \* bound: pieces that arrive

ASSUME SizesAssumption ==
  /\ m_nTslen \in Nat /\ m_nTslen >= 2
  /\ BUFFER_SIZE \in Nat /\ BUFFER_SIZE > 6 * m_nTslen
  /\ MaxPackets \in Nat

VARIABLES
  m_pBuffer,      \* TRUE for a sync byte; its length is m_nBufferPos
  m_bSynced,
  m_bPrevPktSync, \* the first byte of the packet before was a sync byte
  m_llOffset,     \* position reported with every error
  arrived,        \* pieces added so far
  processed,      \* stream position after the packet processed last (history)
  dropped,        \* bytes dropped for want of room (history)
  clean           \* for each phase, pieces in a row with their one sync byte there (history)

vars == <<m_pBuffer, m_bSynced, m_bPrevPktSync, m_llOffset, arrived, processed, dropped, clean>>

Piece == [1 .. m_nTslen -> BOOLEAN]
Phases == 0 .. m_nTslen - 1

Drop(buf, n) == SubSeq(buf, n + 1, Len(buf))

\* SetStartOffset(0)
Init ==
  /\ m_pBuffer = <<>> /\ m_bSynced = FALSE /\ m_bPrevPktSync = TRUE
  /\ m_llOffset = 0 /\ arrived = 0 /\ processed = 0 /\ dropped = 0
  /\ clean = [r \in Phases |-> 0]

\* mutant: the buffer grows
NeverRoom(buf) == buf

\* what is left of the buffer when it has no room for another packet
MakeRoom(buf) ==
  IF Len(buf) + m_nTslen >= BUFFER_SIZE THEN Drop(buf, Len(buf) - 5 * m_nTslen) ELSE buf

\* mutant: only the phase the buffer starts with is tried
FirstPhase(buf) == IF Len(buf) < 5 * m_nTslen THEN {} ELSE {0}

\* TryToReSync: where five sync bytes, a packet apart, may start
Candidates(buf) ==
  IF Len(buf) < 5 * m_nTslen THEN {}
  ELSE IF Len(buf) = 5 * m_nTslen THEN {0}
  ELSE 0 .. Len(buf) - 5 * m_nTslen - 1

SyncPoints(buf) ==
  {i \in Candidates(buf) : \A k \in 0 .. 4 : buf[i + k * m_nTslen + 1]}

\* whole packets at the front of buf, up to one that does not start with 0x47
LeadingPackets(buf) ==
  CHOOSE n \in 0 .. Len(buf) \div m_nTslen :
    /\ \A k \in 0 .. n - 1 : buf[k * m_nTslen + 1]
    /\ (n + 1) * m_nTslen <= Len(buf) => ~buf[n * m_nTslen + 1]

Origin(buf) == arrived' * m_nTslen - Len(buf)

\* mutant: the packets of the first lock stay in the buffer
ConsumeNothing(buf, n) == buf
Consume(buf, n) == Drop(buf, n * m_nTslen)

(* Out of sync: lock at the first candidate and process what follows. *)
Search(buf) ==
  IF SyncPoints(buf) = {}
    THEN /\ m_pBuffer' = buf
         /\ UNCHANGED <<m_bSynced, m_bPrevPktSync, m_llOffset, processed>>
    ELSE LET i == Min(SyncPoints(buf))
             locked == Drop(buf, i)
             n == LeadingPackets(locked)
         IN /\ m_bSynced' = TRUE
            /\ m_pBuffer' = Consume(locked, n)
            /\ m_llOffset' = m_llOffset + i + n * m_nTslen
            /\ m_bPrevPktSync' = TRUE
            /\ processed' = Origin(locked) + n * m_nTslen

(* In sync.  A first wrong sync byte is an error and its packet waits; a
   second one in a row is loss of sync; otherwise the waiting packet is
   dropped and the next one processed. *)
SyncLost(buf) == ~m_bPrevPktSync /\ ~buf[m_nTslen + 1]

Lose(buf) ==
  /\ SyncLost(buf)
  /\ m_bSynced' = FALSE
  /\ m_pBuffer' = buf
  /\ UNCHANGED <<m_bPrevPktSync, m_llOffset, processed>>

\* mutant: the packet that waited is not counted
UncountedSkip(buf, rest) == 0
Skipped(buf, rest) == Len(buf) - Len(rest)

SkipWaiting(buf) == IF m_bPrevPktSync THEN buf ELSE Drop(buf, m_nTslen)

Keep(buf) ==
  LET rest == SkipWaiting(buf)
      skipped == Skipped(buf, rest)
  IN /\ ~SyncLost(buf)
     /\ m_bPrevPktSync' = rest[1]
     /\ IF rest[1]
          THEN /\ m_pBuffer' = Drop(rest, m_nTslen)
               /\ m_llOffset' = m_llOffset + skipped + m_nTslen
               /\ processed' = Origin(rest) + m_nTslen
          ELSE /\ m_pBuffer' = rest
               /\ m_llOffset' = m_llOffset + skipped
               /\ UNCHANGED processed
     /\ UNCHANGED m_bSynced

AddPacket(piece) ==
  /\ arrived < MaxPackets
  /\ arrived' = arrived + 1
  /\ clean' = [r \in Phases |->
       IF \A j \in Phases : piece[j + 1] = (j = r) THEN clean[r] + 1 ELSE 0]
  /\ dropped' = dropped + Len(m_pBuffer) - Len(MakeRoom(m_pBuffer))
  /\ LET buf == MakeRoom(m_pBuffer) \o piece
     IN IF m_bSynced THEN Lose(buf) \/ Keep(buf) ELSE Search(buf)

\* the stream ends
Finished == arrived = MaxPackets /\ UNCHANGED vars

Next == (\E piece \in Piece : AddPacket(piece)) \/ Finished

Spec == Init /\ [][Next]_vars

-----------------------------------------------------------------------------
(* Properties *)

TypeOK ==
  /\ m_pBuffer \in Seq(BOOLEAN) /\ Len(m_pBuffer) < BUFFER_SIZE
  /\ m_bSynced \in BOOLEAN /\ m_bPrevPktSync \in BOOLEAN
  /\ m_llOffset \in Nat /\ arrived \in 0 .. MaxPackets
  /\ processed \in Nat /\ dropped \in Nat /\ clean \in [Phases -> Nat]

(* No byte is part of two processed packets, and none is processed that has
   left the buffer: packets are processed in stream order. *)
NoByteTwice == processed <= arrived * m_nTslen - Len(m_pBuffer)

(* Seven packets whose only sync bytes are a packet apart restore sync at
   exactly that phase, whatever came before: the buffer never keeps so little
   that a phase is not tried, and a lock at a wrong phase does not last. *)
RelockPackets == 7
Relocks ==
  \A r \in Phases : clean[r] >= RelockPackets =>
    /\ m_bSynced /\ m_bPrevPktSync
    /\ (arrived * m_nTslen - Len(m_pBuffer)) % m_nTslen = r

(* The offset every error reports (TrMsgView.cpp:98 "offset") is the position in
   the stream of the packet looked at, less the bytes that were dropped while
   the search for sync ran out of buffer: those are never added. *)
OffsetIsPosition == m_llOffset + dropped = arrived * m_nTslen - Len(m_pBuffer)
=============================================================================
