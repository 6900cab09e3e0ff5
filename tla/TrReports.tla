------------------------------- MODULE TrReports ------------------------------
(***************************************************************************)
(* From the sections of the PSI/SI pids to the error counts and the        *)
(* message list of the TR 101 290 view:                                    *)
(*                                                                         *)
(*   CPsiCheck   OnRecvNewSection, OnCrcError: intervals, table ids, and   *)
(*               EIT present/following pairs (libtr101290)                 *)
(*   CTrMsgMgr   AddMsg: keeps every report, filters it by its value and   *)
(*               counts it, in total and by cause; PlayBackMsg             *)
(*   CTrView, CTrMsgView   the counts shown, the list of messages, and     *)
(*               the replay of one type of error                           *)
(*                                                                         *)
(* Everything runs in the thread that adds packets, so a report is counted *)
(* and shown in the step that makes it.  Which section comes when is the   *)
(* stream's choice; how one is put together is module PsiCheck.            *)
(*                                                                         *)
(* A packet takes one tick: the stream has a constant rate, so its packets *)
(* are the true clock, against which the intervals SysClock's estimate     *)
(* gives are held.  A section comes with the packet counted last.  Where   *)
(* the PCR jumps is the stream's choice; it stays away from its wrap.      *)
(***************************************************************************)
EXTENDS SysClock, Sequences, FiniteSets, Bags, SequencesExt, FiniteSetsExt

CONSTANTS
  Muxes,            \* bound: the streams: what may come, sections, [pid, table, service,
                    \* number, valid], and others, the reports of the rest of libtr101290;
                    \* how many reports; time; offsets, how far the PCR may be from the time
  Lower,            \* 25 ms
  m_PsiTimeOut,     \* for each table
  PcrRepetition, PcrDiscontinuity, \* 40 and 100 ms
  MAX_MSG_SAVE_CNT, \* 1000000
  MAX_MSG_CNT,      \* 5000
  MaxJumps          \* bound: jumps of the PCR

\* tables with a type of their own; those counted as SI repetition only
OwnType == {"nit_act", "nit_other", "sdt_act", "sdt_other", "eit_act_pf", "eit_other_pf", "tdt"}
SiOnly == {"bat", "eit_in8day", "eit_out8day", "tot"}
Si == OwnType \cup SiOnly
PF == {"eit_act_pf", "eit_other_pf"}
Tables == Si \cup {"rst", "pat"}

\* SetPsiTimeOutDVB, the only timeouts there are: none is below 25 ms
ASSUME LimitsAssumption ==
  /\ Lower \in Nat
  /\ \A t \in Si : m_PsiTimeOut[t] \in Nat /\ m_PsiTimeOut[t] >= Lower
  /\ MAX_MSG_SAVE_CNT \in Nat /\ MAX_MSG_CNT \in Nat \ {0}

\* BeforeWrap: no PCR is within a second of its wrap
ASSUME ClockAssumption ==
  /\ PcrMax \in Nat /\ WrapWindow \in Nat /\ Tolerance \in Nat
  /\ \A x \in Muxes : x.time \in Nat
  /\ \A x \in Muxes : \A o \in x.offsets : o \in Nat /\ o + x.time + 1 + WrapWindow < PcrMax

ASSUME MuxesAssumption ==
  \A x \in Muxes :
    /\ \A s \in x.sections : s.table \in Tables
    /\ x.others \subseteq [kind : {"pcr"}, table : {"none"}, llVal : Int, fVal : BOOLEAN]

VARIABLES
  m_pSysClock,
  m_pOldOccurTime, \* of each table
  m_bHaveEit_P, m_bHaveEit_F, m_bWaitFirstEitSection, m_PrevEitSection,
  m_vecMsg,        \* all reports
  m_nErrCnt,       \* counters of CTrMsgMgr, by type and cause
  m_pErrCnt,       \* the counts shown, by type
  m_dqLst,         \* the messages shown
  mux,             \* what the stream has
  time, offset, arrived, \* of the stream: packets, its PCR less the time, reports
  jumps,           \* of the PCR so far
  lastPcr,         \* when the last PCR came (history)
  skewed,          \* the clock's rate was taken across a jump (history)
  last,            \* when each table came last if there was a clock then (history)
  late, early,     \* intervals of each table surely past its limits (history)
  maybeLate, maybeEarly, \* and those the clock could not tell (history)
  pf               \* the EIT p/f sections that came (history)

psi   == <<m_pOldOccurTime, m_bHaveEit_P, m_bHaveEit_F, m_bWaitFirstEitSection, m_PrevEitSection>>
views == <<m_vecMsg, m_nErrCnt, m_pErrCnt, m_dqLst>>
stream == <<m_pSysClock, time, offset, jumps, lastPcr, skewed>>
hist  == <<mux, last, late, early, maybeLate, maybeEarly, pf>>
vars  == <<stream, psi, views, arrived, hist>>

llCurTime == GetPcr(m_pSysClock)

\* what may be on a pid, and the type of a section that may not; "st" is left out
AllowedOn(pid) ==
  CASE pid = "nit" -> {"nit_act", "nit_other"}
    [] pid = "sdt" -> {"sdt_act", "sdt_other", "bat"}
    [] pid = "eit" -> {"eit_act_pf", "eit_other_pf", "eit_in8day", "eit_out8day"}
    [] pid = "tdt" -> {"tdt", "tot"}
    [] OTHER -> Tables
TidType(pid) ==
  CASE pid = "nit" -> "nit_act" [] pid = "sdt" -> "sdt_act" [] pid = "eit" -> "eit_act_pf"
    [] pid = "tdt" -> "tdt"

-----------------------------------------------------------------------------
(* CTrMsgMgr.  Its counters are the bag of what it counted: a type or a    *)
(* table with a cause, "all" for the total of a type.                      *)

Types == OwnType \cup {"rst", "si", "crc", "pf", "pcr_repetition", "pcr_discontinuity"}
Counters == (Tables \cup Types) \X {"all", "timeout", "lower25ms", "tid", "crc"}
Copies(e, bag) == IF BagIn(e, bag) THEN bag[e] ELSE 0
Count(cnt, name, cause) == Copies(<<name, cause>>, cnt)

Msg(kind, table, val, flag) == [kind |-> kind, table |-> table, llVal |-> val, fVal |-> flag]

CheckFilter(m) ==
  CASE m.kind = "interval" /\ m.table \in Si ->
         m.llVal < Lower \/ m.llVal > m_PsiTimeOut[m.table]
    [] m.kind = "interval" /\ m.table = "rst" -> m.llVal < Lower
    [] m.kind = "pcr" -> m.llVal >= PcrRepetition
    [] OTHER -> TRUE

Nothing == "none"

emErrType(m) ==
  CASE m.kind = "interval" -> IF m.table \in OwnType \cup {"rst"} THEN m.table
                              ELSE IF m.table \in SiOnly THEN "si" ELSE Nothing
    [] m.kind = "pcr" -> IF m.llVal > PcrDiscontinuity /\ ~m.fVal
                         THEN "pcr_discontinuity" ELSE "pcr_repetition"
    [] m.kind = "tid" -> m.table
    [] OTHER -> m.kind

IsSiRepetition(m) == m.kind = "interval" /\ m.table \in Si

\* mutant: a short interval is forgotten among the parts of SI repetition
CausesOwnOnly(m) ==
  (IF m.kind = "interval" /\ m.table \in Si \cup {"rst"}
   THEN {<<m.table, IF m.llVal < Lower THEN "lower25ms" ELSE "timeout">>} ELSE {})
  \cup (IF m.kind \in {"tid", "crc"} THEN {<<m.table, m.kind>>} ELSE {})

\* a short interval of RST is in the parts of SI, but not in its total
Causes(m) ==
  (IF m.kind = "interval" /\ m.table \in Si \cup {"rst"}
   THEN IF m.llVal < Lower THEN {<<m.table, "lower25ms">>, <<"si", "lower25ms">>}
        ELSE {<<m.table, "timeout">>}
   ELSE {})
  \cup (IF m.kind \in {"tid", "crc"} THEN {<<m.table, m.kind>>} ELSE {})

Totals(m) == {<<emErrType(m), "all">>} \cup (IF IsSiRepetition(m) THEN {<<"si", "all">>} ELSE {})

\* ProcessReport: the counters after it
ProcessReport(cnt, m) ==
  IF emErrType(m) = Nothing THEN cnt ELSE cnt (+) SetToBag(Causes(m) \cup Totals(m))

\* mutant: nothing is dropped
RememberAll(msgs, m) == Append(msgs, m)
Remember(msgs, m) == Append(IF Len(msgs) > MAX_MSG_SAVE_CNT THEN Tail(msgs) ELSE msgs, m)

-----------------------------------------------------------------------------
(* CTrMsgView and CTrView *)

AddMsg(list, m) == Append(IF Len(list) >= MAX_MSG_CNT THEN Tail(list) ELSE list, m)

\* mutant: the SI count is not refreshed
ShownOwnOnly(m) == {emErrType(m)}
Shown(m) == {emErrType(m)} \cup (IF IsSiRepetition(m) THEN {"si"} ELSE {})

Counted(m) == CheckFilter(m) /\ emErrType(m) # Nothing

OnTrReport(v, m) ==
  LET cnt == ProcessReport(v.cnt, m) IN
  IF Counted(m)
  THEN [msgs |-> Remember(v.msgs, m), cnt |-> cnt, list |-> AddMsg(v.list, m),
        err |-> [t \in Types |-> IF t \in Shown(m) THEN Count(cnt, t, "all") ELSE v.err[t]]]
  ELSE [v EXCEPT !.msgs = Remember(v.msgs, m)]

\* the views, and what they are after a report that may not be made
Views == [msgs |-> m_vecMsg, cnt |-> m_nErrCnt, err |-> m_pErrCnt, list |-> m_dqLst]
Reported(v, ms) == IF ms = <<>> THEN v ELSE OnTrReport(v, ms[1])

Show(v) ==
  m_vecMsg' = v.msgs /\ m_nErrCnt' = v.cnt /\ m_pErrCnt' = v.err /\ m_dqLst' = v.list

\* GetErrorMsgListByErrorType, which nothing in the repository calls yet: the
\* messages shown after PlayBackMsg went over all that is kept
PlayBackMsg(type, list, m) ==
  IF Counted(m) /\ (emErrType(m) = type \/ (type = "si" /\ IsSiRepetition(m)))
  THEN AddMsg(list, m) ELSE list

Replayed(type) == FoldLeft(LAMBDA list, m : PlayBackMsg(type, list, m), <<>>, m_vecMsg)

-----------------------------------------------------------------------------
(* CPsiCheck *)

Init ==
  /\ m_pSysClock = ResetClock /\ m_pOldOccurTime = [t \in Tables |-> -1]
  /\ m_bHaveEit_P = FALSE /\ m_bHaveEit_F = FALSE /\ m_bWaitFirstEitSection = TRUE
  /\ m_PrevEitSection = <<>>
  /\ m_vecMsg = <<>> /\ m_nErrCnt = EmptyBag
  /\ m_pErrCnt = [t \in Types |-> 0] /\ m_dqLst = <<>>
  /\ time = 0 /\ jumps = 0 /\ arrived = 0
  /\ lastPcr = -1 /\ skewed = FALSE /\ last = [t \in Tables |-> <<>>]
  /\ late = EmptyBag /\ early = EmptyBag /\ maybeLate = EmptyBag /\ maybeEarly = EmptyBag
  /\ pf = <<>>
  /\ mux \in Muxes /\ offset \in mux.offsets

SubTable(s) == <<s.table, s.service>> \* with version, stream and network

IntervalReport(s) ==
  IF llCurTime = -1 \/ m_pOldOccurTime[s.table] = -1 THEN <<>>
  ELSE <<Msg("interval", s.table, diff_pcr(llCurTime, m_pOldOccurTime[s.table]), FALSE)>>

TidReport(s) ==
  IF s.table \in AllowedOn(s.pid) THEN <<>> ELSE <<Msg("tid", TidType(s.pid), -1, FALSE)>>

NewSubTable(s) ==
  s.table \in PF /\ ~m_bWaitFirstEitSection /\ m_PrevEitSection # SubTable(s)

\* CheckPrevEitPF
PFReport(s) ==
  IF NewSubTable(s) /\ ~(m_bHaveEit_P /\ m_bHaveEit_F)
  THEN <<Msg("pf", s.table, -1, FALSE)>> ELSE <<>>

\* mutant: what the table before had stays
UpdatePFKept(s) ==
  /\ m_bHaveEit_P' = (s.number = 0 \/ m_bHaveEit_P)
  /\ m_bHaveEit_F' = (s.number = 1 \/ m_bHaveEit_F)

UpdatePF(s) ==
  /\ m_bHaveEit_P' = (s.number = 0 \/ (m_bHaveEit_P /\ ~NewSubTable(s)))
  /\ m_bHaveEit_F' = (s.number = 1 \/ (m_bHaveEit_F /\ ~NewSubTable(s)))

(* What a perfect observer would note.  Behind: how far a clock without a rate
   is behind one that runs, which shows the end of the packet. *)
Behind == IF m_pSysClock.rate = NoRate THEN time - lastPcr + 1 ELSE 0

Observe(s) ==
  LET t == s.table
      known == llCurTime # -1 /\ last[t] # <<>>
      was == last[t][1]
      gap == time - was.time
      sure == jumps = was.jumps /\ ~was.skewed /\ ~skewed
      If(b) == IF t \in Si /\ known /\ b THEN SetToBag({t}) ELSE EmptyBag
      isLate == sure /\ gap - Behind > m_PsiTimeOut[t]
      isEarly == sure /\ gap + was.behind < Lower
  IN /\ last' = [last EXCEPT ![t] = IF llCurTime = -1 THEN <<>> ELSE
                   <<[time |-> time, jumps |-> jumps, skewed |-> skewed, behind |-> Behind]>>]
     /\ late' = late (+) If(isLate)
     /\ early' = early (+) If(isEarly)
     /\ maybeLate' = maybeLate (+) If(~isLate /\ (sure => gap + was.behind > m_PsiTimeOut[t]))
     /\ maybeEarly' = maybeEarly (+) If(~isEarly /\ (sure => gap - Behind < Lower))
     /\ UNCHANGED mux
     /\ pf' = IF t \in PF THEN Append(pf, s) ELSE pf

OnRecvNewSection(s) ==
  /\ Show(Reported(Reported(Reported(Views, IntervalReport(s)), TidReport(s)), PFReport(s)))
  /\ IF s.table \in PF
     THEN /\ UpdatePF(s)
          /\ m_bWaitFirstEitSection' = FALSE /\ m_PrevEitSection' = SubTable(s)
     ELSE UNCHANGED <<m_bHaveEit_P, m_bHaveEit_F, m_bWaitFirstEitSection, m_PrevEitSection>>
  /\ m_pOldOccurTime' = [m_pOldOccurTime EXCEPT ![s.table] = llCurTime]
  /\ Observe(s)

\* the tables whose CRC errors have a name
OnCrcError(t) ==
  Show(Reported(Views,
    IF t \in {"pat", "nit_act", "nit_other", "sdt_act", "sdt_other", "bat", "tot"} \cup PF
    THEN <<Msg("crc", t, -1, FALSE)>> ELSE <<>>))

-----------------------------------------------------------------------------
(* The stream and the application *)

Arrive == arrived < mux.reports /\ arrived' = arrived + 1 /\ UNCHANGED stream

Section == Arrive /\ \E s \in mux.sections : s.valid /\ OnRecvNewSection(s)

DamagedSection ==
  /\ Arrive /\ \E s \in mux.sections : ~s.valid /\ OnCrcError(s.table)
  /\ UNCHANGED <<psi, hist>>

OtherReport == Arrive /\ (\E m \in mux.others : Show(OnTrReport(Views, m))) /\ UNCHANGED <<psi, hist>>

\* CDemux::UpdateClock, the PCR pid being known: a packet without a PCR, and one
\* whose PCR goes on from the last or jumps
PayloadPacket ==
  /\ time < mux.time /\ time' = time + 1
  /\ m_pSysClock' = AddPayloadPacket(m_pSysClock)
  /\ UNCHANGED <<offset, jumps, lastPcr, skewed, psi, views, arrived, hist>>

PcrPacket(o) ==
  /\ time < mux.time /\ time' = time + 1
  /\ m_pSysClock' = AddPcrPacket(Checked(m_pSysClock, time' + o), time' + o)
  /\ offset' = o /\ lastPcr' = time'
  /\ jumps' = IF o = offset THEN jumps ELSE jumps + 1
  /\ jumps' <= MaxJumps
  /\ skewed' = (o # offset /\ m_pSysClock'.rate # NoRate)
  /\ UNCHANGED <<psi, views, arrived, hist>>

\* the result is written or sent, and its list starts anew
ReadResultToJson ==
  /\ m_dqLst # <<>> /\ m_dqLst' = <<>>
  /\ UNCHANGED <<stream, psi, m_vecMsg, m_nErrCnt, m_pErrCnt, arrived, hist>>

Next ==
  \/ Section \/ DamagedSection \/ OtherReport
  \/ PayloadPacket \/ (\E o \in mux.offsets : PcrPacket(o))
  \/ ReadResultToJson

Spec == Init /\ [][Next]_vars

-----------------------------------------------------------------------------
(* Properties *)

TypeOK ==
  /\ m_pSysClock \in [before : Nat \cup {-1}, packets : Nat, rate : Nat \X Nat]
  /\ m_pOldOccurTime \in [Tables -> Nat \cup {-1}]
  /\ m_bHaveEit_P \in BOOLEAN /\ m_bHaveEit_F \in BOOLEAN
  /\ m_bWaitFirstEitSection \in BOOLEAN
  /\ Len(m_vecMsg) <= MAX_MSG_SAVE_CNT + 1 /\ Len(m_dqLst) <= MAX_MSG_CNT
  /\ IsABag(m_nErrCnt) /\ DOMAIN m_nErrCnt \subseteq Counters /\ m_pErrCnt \in [Types -> Nat]

Sum(f, S) == FoldSet(LAMBDA t, n : f[t] + n, 0, S)
Part(cause) == [t \in Tables |-> Count(m_nErrCnt, t, cause)]

(* An interval is counted as too long or too short if the sections of the table
   surely were that far apart, and only if they may have been.  With a rate at
   both sections the clock tells exactly; without one it is late by the time
   since the last PCR.  Across a jump of the PCR, and until the PCR after it, the
   count may be wrong either way. *)
IntervalErrorsAreTrue ==
  \A t \in Si :
    /\ Part("timeout")[t] - Copies(t, late) \in 0 .. Copies(t, maybeLate)
    /\ Part("lower25ms")[t] - Copies(t, early) \in 0 .. Copies(t, maybeEarly)

\* the sections up to the i-th of p that are of its subtable, without another between
Run(p, i) == {j \in 1 .. i : \A k \in j .. i : SubTable(p[k]) = SubTable(p[i])}
Both(p, i) == {0, 1} \subseteq {p[j].number : j \in Run(p, i)}
Incomplete(p) ==
  {i \in 1 .. Len(p) - 1 : SubTable(p[i]) # SubTable(p[i + 1]) /\ ~Both(p, i)}

(* The sections of present/following make runs of one subtable; an error is
   counted for each run that is over and was without one of the two. *)
PFErrorsAreTrue == m_pErrCnt["pf"] = Cardinality(Incomplete(pf))

(* The parts the brief of a type names add up to the count shown for it.  Short
   intervals of RST are in the parts of SI repetition without being in its
   count. *)
BriefAddsUp ==
  /\ \A t \in OwnType : m_pErrCnt[t] = Part("timeout")[t] + Part("lower25ms")[t] + Part("tid")[t]
  /\ m_pErrCnt["crc"] = Sum(Part("crc"), Tables)
  /\ m_pErrCnt["si"] + Part("lower25ms")["rst"] =
       Count(m_nErrCnt, "si", "lower25ms") + Sum(Part("timeout"), Si)

(* Replaying a type lists as many messages as were counted for it, as long as
   none of the reports kept was dropped for want of room. *)
ReplayMatchesCount ==
  Len(m_vecMsg) < MAX_MSG_SAVE_CNT =>
    \A type \in Types : Len(Replayed(type)) = Min({m_pErrCnt[type], MAX_MSG_CNT})
=============================================================================
