------------------------------- MODULE PsiCheck -------------------------------
(***************************************************************************)
(* CPsiCheck::PushPacket (libtr101290): the sections of a PSI/SI pid are   *)
(* put together from its packets and handed to OnRecvNewSection, or        *)
(* reported by OnCrcError.  What those two do is module TrReports.         *)
(*                                                                         *)
(* A payload is Cells cells, a section HeaderCells cells with its length   *)
(* and then that many more; a cell is <<section, index>>, so the CRC holds *)
(* of a section put together just if its cells are all there.  One step    *)
(* is one turn of the function's loop.  Every section has a CRC.  Damage   *)
(* reaches neither the length of a section nor the stuffing after it, and  *)
(* no loss is hidden from the counter (by Period packets in a row, or by a *)
(* packet without payload after it): past that sections start anywhere.    *)
(***************************************************************************)
EXTENDS Integers, Sequences, FiniteSets, SequencesExt, FiniteSetsExt

CONSTANTS
  Cells,       \* of a packet's payload, 184 bytes: less than a section may have
  HeaderCells, \* 3 bytes
  MaxLength,   \* i_section_max_size - 3
  Lengths,     \* bound: lengths of sections
  Period,      \* of the continuity counter, 16
  MaxSections, \* bound: sections sent
  MaxFaults    \* bound: packets lost, damaged, repeated or added

ASSUME SizesAssumption ==
  /\ Cells \in Nat \ {0} /\ HeaderCells \in Nat \ {0} /\ MaxLength \in Nat
  /\ Cells <= HeaderCells + MaxLength
  /\ Lengths \subseteq Nat \ {0} /\ Period \in Nat \ {0, 1}
  /\ MaxSections \in Nat \ {0} /\ MaxFaults \in Nat

VARIABLES
  sections, \* what is sent: a length, and whether stuffing follows
  stream,   \* its cells
  sent,     \* packets made of it
  lostRun,  \* packets lost in a row
  faults,
  i_continuity_counter, p_current_section, i_need, b_complete_header, \* the handle
  payload, p_new_pos, i_available, \* the packet; p_new_pos is 0 for NULL
  received,  \* sections given to OnRecvNewSection (history)
  crcErrors, \* sections given to OnCrcError (history)
  damaged,   \* sections with a damaged cell (history)
  disturbed  \* and those a loss, a repetition or an added packet met (history)

network == <<sections, stream, sent, lostRun, faults, damaged, disturbed>>
handle  == <<i_continuity_counter, p_current_section, i_need, b_complete_header>>
packet  == <<payload, p_new_pos, i_available>>
reports == <<received, crcErrors>>
vars == <<network, handle, packet, reports>>

Stuffing == <<0, 0>>
Damaged  == <<0, 1>>

Section(n) == [k \in 1 .. HeaderCells + sections[n].length |-> <<n, k>>]

\* p_current_section is <<>> between packets for NULL, and within one when it is new
None == <<>>

-----------------------------------------------------------------------------
(* The stream *)

Stuffed(s) == s \o [i \in 1 .. (Cells - (Len(s) % Cells)) % Cells |-> Stuffing]

\* the cells of a section, and stuffing up to the end of the packet
AddSection(ss, s, n) ==
  LET t == s \o [k \in 1 .. HeaderCells + ss[n].length |-> <<n, k>>]
  IN IF ss[n].fill \/ n = Len(ss) THEN Stuffed(t) ELSE t

Stream(ss) == FoldLeft(LAMBDA s, n : AddSection(ss, s, n), <<>>, [n \in 1 .. Len(ss) |-> n])

Payload(i) == SubSeq(stream, (i - 1) * Cells + 1, i * Cells)
SectionsIn(p) == {p[k][1] : k \in DOMAIN p} \ {0}

\* the section that is in two packets, the i-th and the next
Across(i) == SectionsIn(SubSeq(stream, 1, i * Cells)) \cap
             SectionsIn(SubSeq(stream, i * Cells + 1, Len(stream)))

Init ==
  /\ sections \in [1 .. MaxSections -> [length : Lengths, fill : BOOLEAN]]
  /\ stream = Stream(sections)
  /\ sent = 0 /\ lostRun = 0 /\ faults = 0
  /\ i_continuity_counter = -1 /\ p_current_section = None \* 31 + 1 is 0, too
  /\ i_need = 0 /\ b_complete_header = FALSE
  /\ payload = <<>> /\ p_new_pos = 0 /\ i_available = 0
  /\ received = <<>> /\ crcErrors = {} /\ damaged = {} /\ disturbed = {}

-----------------------------------------------------------------------------
(* PushPacket up to its loop.  b_discontinuity is set from the start and   *)
(* never cleared, so that no packet counts as a duplicate.                 *)

\* the unit start and its pointer
NewPos(p) ==
  LET starts == {k \in DOMAIN p : p[k][2] = 1 /\ p[k][1] # 0}
  IN IF starts = {} THEN 0 ELSE Min(starts)

\* mutant: a gap in the counter is not noticed
KeptOnGap(counter) == p_current_section
KeptSection(counter) ==
  IF (i_continuity_counter + 1) % Period = counter THEN p_current_section ELSE None

PushPacket(p, counter) ==
  LET kept == KeptSection(counter)
      new == NewPos(p)
  IN /\ i_continuity_counter' = counter
     /\ p_current_section' = kept
     /\ payload' = p
     /\ IF kept # None
        THEN /\ i_available' = Len(p) /\ p_new_pos' = new
             /\ UNCHANGED <<i_need, b_complete_header>>
        ELSE /\ i_available' = IF new = 0 THEN 0 ELSE Len(p) - new + 1
             /\ p_new_pos' = 0
             /\ i_need' = HeaderCells /\ b_complete_header' = FALSE
     /\ UNCHANGED reports

Idle == i_available = 0

Deliver ==
  /\ Idle /\ sent * Cells < Len(stream)
  /\ sent' = sent + 1 /\ lostRun' = 0
  /\ PushPacket(Payload(sent'), sent' % Period)
  /\ UNCHANGED <<sections, stream, faults, damaged, disturbed>>

Fault == Idle /\ faults < MaxFaults /\ faults' = faults + 1 /\ UNCHANGED <<sections, stream>>

Lose ==
  /\ Fault /\ sent * Cells < Len(stream) /\ lostRun < Period - 1
  /\ sent' = sent + 1 /\ lostRun' = lostRun + 1
  /\ disturbed' = disturbed \cup SectionsIn(Payload(sent'))
  /\ UNCHANGED <<handle, packet, reports, damaged>>

DeliverDamaged ==
  /\ Fault /\ sent * Cells < Len(stream)
  /\ sent' = sent + 1 /\ lostRun' = 0
  /\ \E k \in 1 .. Cells :
       LET p == Payload(sent') IN
       /\ p[k][2] > HeaderCells
       /\ damaged' = damaged \cup {p[k][1]}
       /\ PushPacket([p EXCEPT ![k] = Damaged], sent' % Period)
  /\ UNCHANGED disturbed

Repeat ==
  /\ Fault /\ sent > 0 /\ lostRun = 0
  /\ PushPacket(Payload(sent), sent % Period)
  /\ disturbed' = disturbed \cup SectionsIn(Payload(sent))
  /\ UNCHANGED <<sent, lostRun, damaged>>

\* Without payload the counter stays.  One that follows a lost packet would have
\* the counter expected, and hide the loss from the test.
NoPayload ==
  /\ Fault /\ sent > 0 /\ lostRun = 0
  /\ PushPacket(<<>>, sent % Period)
  /\ disturbed' = disturbed \cup Across(sent)
  /\ UNCHANGED <<sent, lostRun, damaged>>

\* a new PAT: the pid's handle is replaced
AddPmtPid ==
  /\ Fault
  /\ i_continuity_counter' = -1 /\ p_current_section' = None
  /\ disturbed' = disturbed \cup Across(sent)
  /\ UNCHANGED <<sent, lostRun, damaged, i_need, b_complete_header, packet, reports>>

Network == Deliver \/ Lose \/ DeliverDamaged \/ Repeat \/ NoPayload \/ AddPmtPid

-----------------------------------------------------------------------------
(* Its loop *)

\* the next n cells of the packet
Following(n) == LET pos == Len(payload) - i_available IN SubSeq(payload, pos + 1, pos + n)

\* a new section at pos, or no more of this packet
GoForward(pos) ==
  /\ p_current_section' = None
  /\ p_new_pos' = 0 /\ i_need' = HeaderCells /\ b_complete_header' = FALSE
  /\ i_available' = IF pos = 0 THEN 0 ELSE Len(payload) - pos + 1

TakeRest ==
  /\ 0 < i_available /\ i_available < i_need
  /\ p_current_section' = p_current_section \o Following(i_available)
  /\ i_need' = i_need - i_available
  /\ i_available' = 0
  /\ UNCHANGED <<network, i_continuity_counter, b_complete_header, payload, p_new_pos, reports>>

TooLong(length) == length > MaxLength

TakeHeader ==
  /\ 0 < i_available /\ i_need <= i_available /\ ~b_complete_header
  /\ LET data == p_current_section \o Following(i_need)
         length == sections[data[1][1]].length
     IN IF TooLong(length) THEN GoForward(p_new_pos)
        ELSE /\ p_current_section' = data
             /\ b_complete_header' = TRUE
             /\ i_available' = i_available - i_need
             /\ i_need' = length
             /\ UNCHANGED p_new_pos
  /\ UNCHANGED <<network, i_continuity_counter, payload, reports>>

\* mutant: only the pointer starts a section
PointedOnly(left) == p_new_pos

\* the section the pointer names, or the one that follows
SectionAfter(left) ==
  IF p_new_pos = 0 /\ left > 0 /\ payload[Len(payload) - left + 1] # Stuffing
  THEN Len(payload) - left + 1 ELSE p_new_pos

TakeSection ==
  /\ 0 < i_available /\ i_need <= i_available /\ b_complete_header
  /\ LET data == p_current_section \o Following(i_need)
         n == data[1][1]
     IN IF data = Section(n)
        THEN received' = Append(received, n) /\ UNCHANGED crcErrors
        ELSE crcErrors' = crcErrors \cup {n} /\ UNCHANGED received
  /\ GoForward(SectionAfter(i_available - i_need))
  /\ UNCHANGED <<network, i_continuity_counter, payload>>

Loop == TakeRest \/ TakeHeader \/ TakeSection

Next == Network \/ Loop

Spec == Init /\ [][Next]_vars

-----------------------------------------------------------------------------
(* Properties *)

(* A CRC error is reported only of a section that was damaged: packets that are
   lost, repeated or have no payload never make one out of two. *)
NoFalseCrcError == crcErrors \subseteq damaged

Complete(n) == \A k \in DOMAIN stream : stream[k][1] = n => k <= sent * Cells

(* A section that nothing happened to is received, once and in its place,
   whatever befell the sections before it, those in the same packet included,
   and however it is spread over packets.  One longer than MaxLength is left
   out in silence.  Only sections of a repeated packet come out of order, when
   all of them are received again. *)
UndisturbedReceived ==
  /\ \A i, j \in DOMAIN received :
       i < j => received[i] <= received[j] \/ {received[i], received[j]} \subseteq disturbed
  /\ \A n \in DOMAIN sections :
       Idle /\ Complete(n) /\ n \notin disturbed \cup damaged =>
         Cardinality({i \in DOMAIN received : received[i] = n})
           = IF sections[n].length <= MaxLength THEN 1 ELSE 0
=============================================================================
