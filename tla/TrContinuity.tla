----------------------------- MODULE TrContinuity -----------------------------
(***************************************************************************)
(* CTrCore::ProcessPacket (libtr101290): the continuity check of TR 101    *)
(* 290, which tells from the counters of the packets that arrive whether   *)
(* packets of a pid were lost or repeated on the way.                      *)
(*                                                                         *)
(* The sender numbers the packets of a pid that carry a payload, modulo    *)
(* 16; the others repeat the number.  The network loses packets with       *)
(* payload and repeats packets.  m_pCC is an array of unsigned long long   *)
(* whose elements start as -1, that is 2^64 - 1.                           *)
(***************************************************************************)
EXTENDS Integers

CONSTANTS
  Pid,
  NullPid,  \* 0x1FFF, whose counter means nothing
  CC,       \* values of the counter, 0x10
  Word,     \* values of an unsigned long long, 2^64
  MaxLost   \* bound: packets of a pid lost in a row

ASSUME CounterAssumption ==
  /\ CC \in Nat /\ CC >= 2
  /\ Word \in Nat /\ Word % CC = 0 /\ Word > CC
  /\ MaxLost \in Nat

VARIABLES
  m_pCC,
  sender,  \* pid -> number of the packet with payload sent last
  lost,    \* pid -> packets lost since the last that arrived (history)
  repeats, \* pid -> how often the last that arrived was repeated (history)
  met,     \* pids of which a packet has arrived (history)
  last     \* the packet processed last, what is true of it and what was reported (history)

vars == <<m_pCC, sender, lost, repeats, met, last>>

Counter == 0 .. CC - 1
Bounded(n) == IF n < MaxLost THEN n + 1 ELSE n

\* the constructor's m_pCC[i] = -1
Unset == Word - 1

NoPacket == [pid |-> NullPid, payload |-> TRUE, discontinuity |-> FALSE,
             first |-> TRUE, lost |-> 0, repeats |-> 0, error |-> FALSE]

\* the analysis may start anywhere in the stream
Init ==
  /\ m_pCC = [p \in Pid |-> Unset]
  /\ sender \in [Pid -> Counter]
  /\ lost = [p \in Pid |-> 0]
  /\ repeats = [p \in Pid |-> 0]
  /\ met = {}
  /\ last = NoPacket

-----------------------------------------------------------------------------

\* m_pCC[pid] >= 0 is true of every unsigned number
HasPrevious(p) == m_pCC[p] >= 0

\* the number follows the previous one
Follows(p, cc) == ((m_pCC[p] + 1) % Word) % CC = cc

\* a packet without payload repeats the number (mutant: it is not looked at)
RepeatsAny(p, cc) == TRUE
Repeats(p, cc) == m_pCC[p] % CC = cc

Continues(p, cc, payload) ==
  p # NullPid /\ HasPrevious(p) => IF payload THEN Follows(p, cc) ELSE Repeats(p, cc)

(* LV1_CC_ERROR. *)
ContinuityError(p, cc, payload, discontinuity) ==
  ~Continues(p, cc, payload) /\ ~discontinuity

\* the number is remembered, of every packet (mutant: of those with payload)
RememberPayload(p, cc, payload) == IF payload THEN cc ELSE m_pCC[p]
Remember(p, cc, payload) == cc

ProcessPacket(p, cc, payload, discontinuity, again) ==
  /\ m_pCC' = [m_pCC EXCEPT ![p] = Remember(p, cc, payload)]
  /\ met' = met \cup {p}
  /\ repeats' = [repeats EXCEPT ![p] = again]
  /\ lost' = [lost EXCEPT ![p] = 0]
  /\ last' = [pid |-> p, payload |-> payload, discontinuity |-> discontinuity,
              first |-> p \notin met, lost |-> lost[p], repeats |-> again,
              error |-> ContinuityError(p, cc, payload, discontinuity)]

Sent(p, payload) == IF payload THEN (sender[p] + 1) % CC ELSE sender[p]

\* a packet arrives; discontinuity_indicator may be set in its adaptation field
Arrive(p) ==
  \E payload \in BOOLEAN, discontinuity \in BOOLEAN :
    /\ sender' = [sender EXCEPT ![p] = Sent(p, payload)]
    /\ ProcessPacket(p, sender'[p], payload, discontinuity, 0)

\* the packet with payload that arrived last arrives again
ArriveAgain(p) ==
  /\ p \in met /\ lost[p] = 0 /\ last.pid = p /\ last.payload /\ ~last.discontinuity
  /\ repeats[p] < MaxLost
  /\ UNCHANGED sender
  /\ ProcessPacket(p, sender[p], TRUE, FALSE, repeats[p] + 1)

Lose(p) ==
  /\ lost[p] < MaxLost
  /\ sender' = [sender EXCEPT ![p] = Sent(p, TRUE)]
  /\ lost' = [lost EXCEPT ![p] = @ + 1]
  /\ UNCHANGED <<m_pCC, repeats, met, last>>

Next == \E p \in Pid : Arrive(p) \/ ArriveAgain(p) \/ Lose(p)

Spec == Init /\ [][Next]_vars

-----------------------------------------------------------------------------
(* Properties *)

TypeOK ==
  /\ m_pCC \in [Pid -> 0 .. Word - 1]
  /\ sender \in [Pid -> Counter]
  /\ lost \in [Pid -> 0 .. MaxLost]
  /\ repeats \in [Pid -> 0 .. MaxLost]
  /\ met \subseteq Pid
  /\ last \in [pid : Pid \cup {NullPid}, payload : BOOLEAN, discontinuity : BOOLEAN,
               first : BOOLEAN, lost : 0 .. MaxLost, repeats : 0 .. MaxLost, error : BOOLEAN]

(* A loss is reported by the first packet that arrives after it, with payload
   or without, unless a multiple of 16 packets was lost, the packet announces
   a discontinuity, or nothing of the pid had arrived before. *)
LossReported ==
  last.lost % CC # 0 /\ ~last.first /\ ~last.discontinuity /\ last.pid # NullPid
    => last.error

(* And only a loss or a repetition is, once a packet of the pid has arrived. *)
NoFalseError ==
  last.error => last.first \/ last.lost % CC # 0 \/ last.repeats > 0
=============================================================================
