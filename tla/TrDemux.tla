-------------------------------- MODULE TrDemux --------------------------------
(***************************************************************************)
(* CDemux (libtr101290): from the packets in sync, the PSI tables and the  *)
(* stream's own clock (SysClock), the TR 101 290 errors that are about     *)
(* time: a referred pid that does not occur, a pid nobody refers to, the   *)
(* interval between two PATs.                                              *)
(*                                                                         *)
(* A packet takes PacketTime of the 27 MHz clock: the stream has a         *)
(* constant rate, so its packets are the true clock, against which         *)
(* CSysClock's estimate is compared.  Every program's PMT is one packet    *)
(* and does not change; libdvbpsi (external) calls DumpPAT and DumpPMT     *)
(* when a table is complete.  Of the checks of a single packet (table id,  *)
(* scrambling, CRC) and of the PTS nothing is kept.                        *)
(***************************************************************************)
EXTENDS SysClock, FiniteSets, FiniteSetsExt

CONSTANTS
  Programs,      \* what the PAT announces: [pmt, pcr, es]
  Stray,         \* pids no table refers to
  PidTimeout,    \* 5000 ms
  UnreferTimeout,\* 500 ms
  PacketTime,
  StartPcr,      \* stream time of the first packet
  Jump,          \* how far the PCR jumps at a splice
  MaxSplices,    \* bound: splices
  MaxPackets,    \* bound: packets
  Stream         \* the kinds of packets the stream has

ASSUME TimesAssumption ==
  /\ PcrMax \in Nat /\ StartPcr \in 1 .. PcrMax
  /\ {WrapWindow, Tolerance, PidTimeout, UnreferTimeout, PacketTime} \subseteq 1 .. PcrMax
  /\ Jump \in Nat /\ MaxSplices \in Nat /\ MaxPackets \in Nat

PatPid == 0
Es(S) == UNION {p.es : p \in S}
Refs(S) == {p.pcr : p \in S} \cup Es(S)
PmtPids(S) == {p.pmt : p \in S}
Pids == {PatPid} \cup PmtPids(Programs) \cup Refs(Programs) \cup Stray

ASSUME PidsAssumption == Pids \subseteq Nat

VARIABLES
  m_mapPmtmInfo,     \* programs announced by the PAT
  m_vecDemuxInfoBuf, \* those whose PMT is parsed
  m_bDemuxFinish,
  m_nUsedPcrPid, m_llFirstPcr,
  m_pSysClock,       \* [before, packets, rate]: the last PCR, packets since, <<packets, time>>
  m_pOldOccurTime, m_pKnownPid, m_mapUnReferPid,
  arrived, splices,  \* packets and splices so far
  clockStart, lastPcr, \* stream time of the first PCR used, and of the last (history)
  pcrGap,            \* the longest time without one (history)
  rated,             \* stream time since when the rate has been known (history)
  firstSeen, lastSeen, \* stream time of a pid's packets (history)
  referred,          \* stream time a pid was first referred to (history)
  alarms, pidErrors, \* LV1_PID_ERROR: by the last packet; since the pid arrived (history)
  patInterval,       \* LV1_PAT_ERROR_OCC of the last packet (history)
  unrefErrors, overdue \* LV3_UNREFERENCED_PID: how many, and the pids it may be about (history)

psiVars   == <<m_mapPmtmInfo, m_vecDemuxInfoBuf, m_bDemuxFinish>>
clockVars == <<m_nUsedPcrPid, m_llFirstPcr, m_pSysClock, clockStart, lastPcr, pcrGap, rated>>
pidVars   == <<m_pOldOccurTime, m_pKnownPid, m_mapUnReferPid>>
seenVars  == <<firstSeen, lastSeen, referred>>
errorVars == <<alarms, pidErrors, patInterval, unrefErrors, overdue>>
demuxVars == <<psiVars, clockVars, pidVars, seenVars, errorVars, arrived, splices>>

DemuxInit ==
  /\ m_mapPmtmInfo = {} /\ m_vecDemuxInfoBuf = {} /\ m_bDemuxFinish = FALSE
  /\ m_nUsedPcrPid = -1 /\ m_llFirstPcr = -1 /\ m_pSysClock = ResetClock
  /\ m_pOldOccurTime = [p \in Pids |-> -1]
  /\ m_pKnownPid = {PatPid}
  /\ m_mapUnReferPid = [p \in {} |-> -1]
  /\ arrived = 0 /\ splices = 0 /\ clockStart = -1 /\ lastPcr = -1 /\ pcrGap = 0 /\ rated = -1
  /\ firstSeen = [p \in Pids |-> -1] /\ lastSeen = [p \in Pids |-> -1]
  /\ referred = [p \in Pids |-> -1]
  /\ alarms = {} /\ pidErrors = [p \in Es(Programs) |-> 0] /\ patInterval = -1
  /\ unrefErrors = 0 /\ overdue = {}

StreamTime == StartPcr + arrived * PacketTime

\* a packet: complete says that it completes a table, if its pid carries one
Packets == {k \in [pid : Pids, pcr : BOOLEAN, complete : BOOLEAN] :
             /\ k.pcr => k.pid \in {p.pcr : p \in Programs}
             /\ k.complete => k.pid \in {PatPid} \cup PmtPids(Programs)}

ASSUME StreamAssumption == Stream \subseteq Packets

Pcr == (StreamTime + splices * Jump) % (PcrMax + 1)

-----------------------------------------------------------------------------
(* CDemux::Demux: only until every announced program is parsed.  DumpPAT is
   called for packets of pid 0 as long as no program is known, DumpPMT after. *)

Demux(k) ==
  IF m_bDemuxFinish THEN UNCHANGED psiVars
  ELSE IF m_mapPmtmInfo = {}
    THEN /\ m_mapPmtmInfo' = IF k.pid = PatPid /\ k.complete THEN Programs ELSE {}
         /\ UNCHANGED <<m_vecDemuxInfoBuf, m_bDemuxFinish>>
    ELSE /\ m_vecDemuxInfoBuf' = m_vecDemuxInfoBuf \cup
              {p \in m_mapPmtmInfo : p.pmt = k.pid /\ k.complete}
         /\ m_bDemuxFinish' = (m_vecDemuxInfoBuf' = m_mapPmtmInfo)
         /\ UNCHANGED m_mapPmtmInfo

\* what DumpPAT and DumpPMT take out of the list of unreferred pids
NewRefs == (PmtPids(m_mapPmtmInfo') \ PmtPids(m_mapPmtmInfo))
             \cup Refs(m_vecDemuxInfoBuf' \ m_vecDemuxInfoBuf)

(* CDemux::UpdateClock: the first PCR pid that occurs is the clock. *)
UsedPcrPid(k) ==
  IF m_nUsedPcrPid < 0 /\ k.pcr /\ \E p \in m_vecDemuxInfoBuf' : p.pcr = k.pid
    THEN k.pid ELSE m_nUsedPcrPid

UpdateClock(k) ==
  /\ m_nUsedPcrPid' = UsedPcrPid(k)
  /\ IF m_nUsedPcrPid' < 0 THEN UNCHANGED <<m_pSysClock, m_llFirstPcr>>
     ELSE IF k.pid = m_nUsedPcrPid' /\ k.pcr
       THEN /\ m_pSysClock' = AddPcrPacket(Checked(m_pSysClock, Pcr), Pcr)
            /\ m_llFirstPcr' = IF m_llFirstPcr < 0 THEN Pcr ELSE m_llFirstPcr
       ELSE m_pSysClock' = AddPayloadPacket(m_pSysClock) /\ UNCHANGED m_llFirstPcr
  /\ LET used == k.pcr /\ k.pid = m_nUsedPcrPid'
     IN /\ clockStart' = IF used /\ clockStart = -1 THEN StreamTime ELSE clockStart
        /\ lastPcr' = IF used THEN StreamTime ELSE lastPcr
        /\ rated' = IF m_pSysClock'.rate = NoRate THEN -1
                    ELSE IF rated = -1 THEN StreamTime ELSE rated
        /\ pcrGap' = IF lastPcr = -1 THEN 0 ELSE Max({pcrGap, StreamTime - lastPcr})

-----------------------------------------------------------------------------
(* CDemux::ProcessPacket *)

llCurTime == GetPcr(m_pSysClock')

\* CheckEsPid: referred pids that have not occurred for PidTimeout; -2 marks
\* those reported (mutants: only pids that occurred; measured from the first PCR)
OverduePids ==
  {p \in Es(m_vecDemuxInfoBuf') :
     /\ m_pOldOccurTime[p] # -2
     /\ LET since == IF m_pOldOccurTime[p] = -1 THEN m_llFirstPcr' ELSE m_pOldOccurTime[p]
        IN diff_pcr(llCurTime, since) > PidTimeout}
OverdueOnceSeen ==
  {p \in Es(m_vecDemuxInfoBuf') :
     m_pOldOccurTime[p] >= 0 /\ diff_pcr(llCurTime, m_pOldOccurTime[p]) > PidTimeout}
OverdueSinceFirst ==
  {p \in Es(m_vecDemuxInfoBuf') :
     m_pOldOccurTime[p] # -2 /\ diff_pcr(llCurTime, m_llFirstPcr') > PidTimeout}
CheckEsPid == OverduePids

\* the time a packet of the pid is taken to have occurred
OccurTime == IF llCurTime < 0 THEN m_llFirstPcr' ELSE llCurTime

CheckPid(k) ==
  LET late == IF llCurTime > 0 THEN CheckEsPid ELSE {}
  IN /\ alarms' = late
     /\ pidErrors' = [p \in Es(Programs) |->
          IF p = k.pid THEN 0 ELSE IF p \in late THEN pidErrors[p] + 1 ELSE pidErrors[p]]
     /\ m_pOldOccurTime' = [p \in Pids |->
          IF p = k.pid THEN OccurTime ELSE IF p \in late THEN -2 ELSE m_pOldOccurTime[p]]

\* CheckOccTime of the PAT
CheckPat(k) ==
  LET interval == diff_pcr(llCurTime, m_pOldOccurTime[PatPid])
      timed == k.pid = PatPid /\ -1 \notin {m_pOldOccurTime[PatPid], llCurTime}
  IN patInterval' = IF timed /\ interval > 0 THEN interval ELSE -1

Waiting == [q \in DOMAIN m_mapUnReferPid \ NewRefs |-> m_mapUnReferPid[q]]

\* mutant: the pid that was reported stays in the list
KeepReported(waiting, q) == waiting
DropReported(waiting, q) == [r \in DOMAIN waiting \ {q} |-> waiting[r]]

\* pids found before the clock ran wait from now on
Start(waiting, S) == [q \in DOMAIN waiting |->
  IF waiting[q] = -1 /\ q \in S THEN llCurTime ELSE waiting[q]]

(* CheckUnreferPid: a new pid is put on the list; otherwise the first of the
   list that has waited too long leaves it, and the error names the pid of the
   packet at hand. *)
CheckUnreferPid(k) ==
  LET due == {q \in DOMAIN Waiting : /\ Waiting[q] # -1
                                     /\ diff_pcr(llCurTime, Waiting[q]) > UnreferTimeout}
      known == m_pKnownPid \cup NewRefs
  IN IF k.pid \in {PatPid} \cup PmtPids(m_vecDemuxInfoBuf')
       THEN /\ m_mapUnReferPid' = Waiting
            /\ m_pKnownPid' = known
            /\ UNCHANGED unrefErrors
     ELSE IF k.pid \notin known
       THEN /\ m_pKnownPid' = known \cup {k.pid}
            /\ m_mapUnReferPid' = [q \in DOMAIN Waiting \cup {k.pid} |->
                 IF q = k.pid THEN llCurTime ELSE Waiting[q]]
            /\ UNCHANGED unrefErrors
     ELSE IF due = {}
       THEN /\ m_mapUnReferPid' = Start(Waiting, Pids)
            /\ m_pKnownPid' = known
            /\ UNCHANGED unrefErrors
     ELSE /\ m_mapUnReferPid' = DropReported(Start(Waiting, {q \in Pids : q < Min(due)}), Min(due))
          /\ m_pKnownPid' = known
          /\ unrefErrors' = unrefErrors + 1

(* What a perfect observer would note.  Slack: how far the clock's idea of a time
   since t may be off; the clock stands still between PCRs until a rate is known. *)
Slack(t, start, gap) == IF start # -1 /\ t >= start THEN 0 ELSE PacketTime + gap

Observe(k) ==
  LET t == StreamTime
      unreferred == {p \in Pids : referred'[p] = -1 /\ p # PatPid}
  IN /\ firstSeen' = [firstSeen EXCEPT ![k.pid] = IF @ = -1 THEN t ELSE @]
     /\ lastSeen' = [lastSeen EXCEPT ![k.pid] = t]
     /\ referred' = [p \in Pids |-> IF p \in NewRefs /\ referred[p] = -1 THEN t ELSE referred[p]]
     /\ overdue' = overdue \cup {p \in unreferred :
                     /\ firstSeen'[p] # -1
                     /\ t - firstSeen'[p] + Slack(firstSeen'[p], rated', pcrGap') > UnreferTimeout}

AddPacket(k) ==
  /\ arrived < MaxPackets
  /\ Demux(k)
  /\ UpdateClock(k)
  /\ CheckPid(k) /\ CheckPat(k) /\ CheckUnreferPid(k)
  /\ Observe(k)
  /\ arrived' = arrived + 1
  /\ UNCHANGED splices

\* the PCR of the stream jumps
Splice ==
  /\ splices < MaxSplices
  /\ splices' = splices + 1
  /\ alarms' = {} /\ patInterval' = -1
  /\ UNCHANGED <<psiVars, clockVars, pidVars, seenVars, pidErrors, unrefErrors, overdue, arrived>>

\* the stream ends
Finished == arrived = MaxPackets /\ UNCHANGED demuxVars

DemuxNext == (\E k \in Stream : AddPacket(k)) \/ Splice \/ Finished

DemuxSpec == DemuxInit /\ [][DemuxNext]_demuxVars

-----------------------------------------------------------------------------
\* how long, at stream time t, a pid has been missing since the clock has run
Since(p) == Max({lastSeen[p], clockStart})
Missing(p, t) == t - Since(p)

(* A pid the PMT refers to that has not occurred for the timeout has been
   reported, whether it stopped or never began, at once when the clock has a
   rate and with the next PCR otherwise (CheckEsPid; string_res_en.h:91
   "Referred PID does not occur for a user specified period").  After a jump of
   the PCR the times noted before it mean nothing. *)
MissingPidReported ==
  splices = 0 /\ clockStart # -1 =>
    \A p \in Es(m_vecDemuxInfoBuf) :
      Missing(p, StreamTime - PacketTime) > PidTimeout + Slack(Since(p), rated, pcrGap)
        => pidErrors[p] > 0

(* Until the PCR jumps, a pid is reported missing only when it has been missing
   for the timeout, give or take the time between two PCRs, for which the clock
   may have stood still when the pid occurred (CheckEsPid, the times noted at the end of
   ProcessPacket). *)
PidErrorIsTrue ==
  [][splices' = 0 => \A p \in alarms' :
       Missing(p, StreamTime) + Slack(Since(p), rated, pcrGap') > PidTimeout]_demuxVars

(* An absence is one error, however long it lasts and whatever the PCR does
   meanwhile (Demux.cpp:303,313 "for never report agein"). *)
OneReportPerAbsence == \A p \in Es(Programs) : pidErrors[p] <= 1

(* Until the PCR jumps, every error about an unreferred pid stands for a pid of
   its own that no table referred to for the timeout, give or take the time
   between two PCRs: a pid that turns out to be a PMT, a PCR or an elementary
   stream pid in time is not reported (CheckUnreferPid with the erase calls of
   DumpPAT and DumpPMT). *)
UnreferencedPidsCounted == splices = 0 => unrefErrors <= Cardinality(overdue)

(* Until the PCR jumps, the interval reported between two PATs once there is a
   clock is the true one, give or take the time between two PCRs: packets counted twice or not at all,
   or a clock that starts anew, would show here (CheckOccTime, CSysClock). *)
PatIntervalMeasured ==
  [][arrived' > arrived /\ splices = 0 /\ lastSeen'[PatPid] = StreamTime
       /\ clockStart # -1 /\ lastSeen[PatPid] >= clockStart
     => LET error == Max({patInterval', 0}) - (StreamTime - lastSeen[PatPid])
            slack == Slack(lastSeen[PatPid], rated, pcrGap')
        IN error \in -slack .. slack]_demuxVars
=============================================================================
