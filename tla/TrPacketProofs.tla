---------------------------- MODULE TrPacketProofs ----------------------------
(***************************************************************************)
(* What CTrCore::ProcessPacket finds out about the packets of a pid, by    *)
(* itself and through CDemux.                                              *)
(*                                                                         *)
(* The continuity check is proved for every set of pids, every number of   *)
(* counter values and every width of m_pCC: once a packet of a pid has     *)
(* arrived, an error is reported exactly for a loss or a repetition.  The  *)
(* invariant that carries both properties is CountersInv: m_pCC and the    *)
(* sender's counter are as far apart as packets were lost.                 *)
(*                                                                         *)
(* The demultiplexer is proved for every set of programs, every stream and *)
(* every time limit:                                                       *)
(*                                                                         *)
(*   - AbsenceReportedOnce, whatever the PCR does;                         *)
(*   - MissingAreReported, ReportedAreMissing, UnreferencedAreOverdue and  *)
(*     PatIntervalIsTrue, until the PCR jumps or comes within a second of  *)
(*     its wrap.                                                           *)
(*                                                                         *)
(* These four compare what the code measures with the true time, and rest  *)
(* on what its clock may show (ClockInv, Near): with a rate it is one      *)
(* packet ahead of the stream, without one it stands at the last PCR.  A   *)
(* time noted is what the clock showed when it was noted (OccurInv,        *)
(* ListInv), and the difference of two such readings is the time between   *)
(* them up to Slack (Measured), for a rate that was found stays right.     *)
(***************************************************************************)
EXTENDS TrContinuity, TrDemux, FiniteSetTheorems, WellFoundedInduction, TLAPS

CountersInv ==
  \A p \in met : m_pCC[p] \in Counter /\ (m_pCC[p] + lost[p]) % CC = sender[p]

IInv == TypeOK /\ CountersInv /\ LossReported /\ NoFalseError

-----------------------------------------------------------------------------
(* Division with remainder. *)
LEMMA DivMod ==
  ASSUME NEW n \in Nat
  PROVE n = CC * (n \div CC) + (n % CC) /\ n % CC \in Counter /\ n \div CC \in Nat
  BY CounterAssumption DEF Counter

(* The remainder is determined by it. *)
LEMMA ModUnique ==
  ASSUME NEW q \in Nat, NEW r \in Counter PROVE (CC * q + r) % CC = r
  BY CounterAssumption DEF Counter

(* The counter wraps. *)
LEMMA ModSucc ==
  ASSUME NEW n \in Nat
  PROVE (n + 1) % CC = IF n % CC = CC - 1 THEN 0 ELSE (n % CC) + 1
<1> DEFINE q == n \div CC
           r == n % CC
<1>1. n = CC * q + r /\ r \in Counter /\ q \in Nat
  BY DivMod
<1> HIDE DEF q, r
<1>2. CASE r = CC - 1
  <2>1. n + 1 = CC * (q + 1) + 0
    BY <1>1, <1>2, CounterAssumption DEF Counter
  <2>2. (n + 1) % CC = 0
    BY <2>1, <1>1, ModUnique, CounterAssumption DEF Counter
  <2> QED BY <2>2, <1>2 DEF r
<1>3. CASE r # CC - 1
  <2>1. n + 1 = CC * q + (r + 1) /\ r + 1 \in Counter
    BY <1>1, <1>3, CounterAssumption DEF Counter
  <2>2. (n + 1) % CC = r + 1
    BY <2>1, <1>1, ModUnique
  <2> QED BY <2>2, <1>3 DEF r
<1> QED BY <1>2, <1>3

(* A counter value is its own remainder, and no two have the same successor. *)
LEMMA CounterMod ==
  ASSUME NEW c \in Counter
  PROVE /\ c % CC = c
        /\ (c + 1) % CC \in Counter
        /\ \A d \in Counter : (c + 1) % CC = (d + 1) % CC => c = d
<1>1. \A d \in Counter : d % CC = d /\ d \in Nat
  BY CounterAssumption DEF Counter
<1>2. \A d \in Counter : (d + 1) % CC = IF d = CC - 1 THEN 0 ELSE d + 1
  BY <1>1, ModSucc
<1> QED BY <1>1, <1>2, CounterAssumption DEF Counter

(* Adding n leaves a counter value alone exactly when n is a multiple of CC. *)
LEMMA AliasMod ==
  ASSUME NEW n \in Nat, NEW c \in Counter PROVE ((c + n) % CC = c) <=> (n % CC = 0)
  BY CounterAssumption DEF Counter

-----------------------------------------------------------------------------
(* IInv holds when the analysis starts. *)
LEMMA InitIInv == Init => IInv
  BY CounterAssumption
  DEF Init, IInv, TypeOK, CountersInv, LossReported, NoFalseError, Unset, NoPacket, Counter

(* What ProcessPacket finds once a packet of the pid has arrived: the counter
   of the next packet is the expected one if and only if no loss shows. *)
LEMMA NextPacketContinues ==
  ASSUME IInv, NEW p \in met, p # NullPid, NEW payload \in BOOLEAN
  PROVE Continues(p, Sent(p, payload), payload) <=> lost[p] % CC = 0
<1> DEFINE m == m_pCC[p]
<1>1. m \in Counter /\ sender[p] \in Counter /\ lost[p] \in Nat /\ (m + lost[p]) % CC = sender[p]
  BY DEF IInv, TypeOK, CountersInv
<1>2. m + 1 \in Nat /\ m + 1 < Word /\ m >= 0
  BY <1>1, CounterAssumption DEF Counter
<1>3. (m + 1) % Word = m + 1
  BY <1>2, CounterAssumption
<1>4. m = sender[p] <=> lost[p] % CC = 0
  BY <1>1, AliasMod
<1>5. CASE payload
  <2>1. Continues(p, Sent(p, payload), payload) <=> (m + 1) % CC = (sender[p] + 1) % CC
    BY <1>2, <1>3, <1>5 DEF Continues, HasPrevious, Follows, Sent
  <2> QED BY <2>1, <1>1, <1>4, CounterMod
<1>6. CASE ~payload
  <2>1. Continues(p, Sent(p, payload), payload) <=> m % CC = sender[p]
    BY <1>2, <1>6 DEF Continues, HasPrevious, Repeats, Sent
  <2> QED BY <2>1, <1>1, <1>4, CounterMod
<1> QED BY <1>5, <1>6

(* What ProcessPacket does to the invariant, whatever made it run. *)
LEMMA ProcessPacketIInv ==
  ASSUME IInv, NEW p \in Pid, NEW cc \in Counter, NEW payload \in BOOLEAN,
         NEW discontinuity \in BOOLEAN, NEW again \in 0 .. MaxLost,
         ProcessPacket(p, cc, payload, discontinuity, again),
         sender' = [sender EXCEPT ![p] = cc]
  PROVE TypeOK' /\ CountersInv'
<1>1. cc \in 0 .. Word - 1
  BY CounterAssumption DEF Counter
<1>2. TypeOK'
  BY <1>1, CounterAssumption
  DEF IInv, TypeOK, ProcessPacket, Remember, ContinuityError, Continues
<1>3. (cc + 0) % CC = cc
  BY CounterMod DEF Counter
<1>4. CountersInv'
  BY <1>3 DEF IInv, TypeOK, CountersInv, ProcessPacket, Remember
<1> QED BY <1>2, <1>4

(* Every step preserves IInv. *)
LEMMA NextIInv == IInv /\ [Next]_vars => IInv'
<1> SUFFICES ASSUME IInv, [Next]_vars PROVE IInv'
  OBVIOUS
<1>1. ASSUME NEW p \in Pid, Arrive(p) PROVE IInv'
  <2>1. PICK payload \in BOOLEAN, discontinuity \in BOOLEAN :
          /\ sender' = [sender EXCEPT ![p] = Sent(p, payload)]
          /\ ProcessPacket(p, sender'[p], payload, discontinuity, 0)
    BY <1>1 DEF Arrive
  <2>2. sender'[p] = Sent(p, payload) /\ Sent(p, payload) \in Counter
    BY <2>1, CounterMod DEF IInv, TypeOK, Sent
  <2>3. TypeOK' /\ CountersInv'
    <3>1. ProcessPacket(p, Sent(p, payload), payload, discontinuity, 0)
      BY <2>1, <2>2
    <3>2. 0 \in 0 .. MaxLost
      BY CounterAssumption
    <3> QED BY <2>1, <2>2, <3>1, <3>2, ProcessPacketIInv
  <2>4. /\ last'.first <=> p \notin met
        /\ last'.pid = p /\ last'.lost = lost[p] /\ last'.discontinuity = discontinuity
        /\ last'.error <=> ~Continues(p, Sent(p, payload), payload) /\ ~discontinuity
    BY <2>1, <2>2 DEF ProcessPacket, ContinuityError
  <2>5. p = NullPid => Continues(p, Sent(p, payload), payload)
    BY DEF Continues
  <2>6. p \in met /\ p # NullPid =>
          (Continues(p, Sent(p, payload), payload) <=> lost[p] % CC = 0)
    BY NextPacketContinues
  <2>7. LossReported' /\ NoFalseError'
    BY <2>4, <2>5, <2>6 DEF LossReported, NoFalseError
  <2> QED BY <2>3, <2>7 DEF IInv
<1>2. ASSUME NEW p \in Pid, ArriveAgain(p) PROVE IInv'
  <2>1. sender[p] \in Counter /\ repeats[p] + 1 \in 1 .. MaxLost
    BY <1>2, CounterAssumption DEF ArriveAgain, IInv, TypeOK
  <2>2. sender' = [sender EXCEPT ![p] = sender[p]]
    BY <1>2 DEF ArriveAgain, IInv, TypeOK
  <2>3. TypeOK' /\ CountersInv'
    <3>1. ProcessPacket(p, sender[p], TRUE, FALSE, repeats[p] + 1)
      BY <1>2 DEF ArriveAgain
    <3>2. repeats[p] + 1 \in 0 .. MaxLost
      BY <2>1
    <3> QED BY <2>1, <2>2, <3>1, <3>2, ProcessPacketIInv
  <2>4. last'.repeats > 0 /\ last'.lost = 0
    BY <1>2, <2>1 DEF ArriveAgain, ProcessPacket
  <2>5. LossReported' /\ NoFalseError'
    BY <2>4, CounterMod, CounterAssumption DEF LossReported, NoFalseError, Counter
  <2> QED BY <2>3, <2>5 DEF IInv
<1>3. ASSUME NEW p \in Pid, Lose(p) PROVE IInv'
  <2>1. TypeOK'
    BY <1>3, CounterMod, CounterAssumption DEF Lose, IInv, TypeOK, Sent
  <2>2. ASSUME NEW q \in met' PROVE m_pCC'[q] \in Counter /\ (m_pCC'[q] + lost'[q]) % CC = sender'[q]
    <3>1. CASE q = p
      <4>1. /\ m_pCC[p] \in Counter /\ lost[p] \in Nat /\ sender[p] \in Counter
            /\ (m_pCC[p] + lost[p]) % CC = sender[p]
        BY <1>3, <2>2, <3>1 DEF Lose, IInv, TypeOK, CountersInv
      <4>2. m_pCC[p] + lost[p] \in Nat /\ m_pCC[p] + (lost[p] + 1) = (m_pCC[p] + lost[p]) + 1
        BY <4>1 DEF Counter
      <4>3. (m_pCC[p] + (lost[p] + 1)) % CC = (sender[p] + 1) % CC
        BY <4>1, <4>2, ModSucc, CounterMod DEF Counter
      <4> QED BY <1>3, <3>1, <4>1, <4>3 DEF Lose, IInv, TypeOK, Sent
    <3>2. CASE q # p
      BY <1>3, <2>2, <3>2 DEF Lose, IInv, TypeOK, CountersInv
    <3> QED BY <3>1, <3>2
  <2>3. LossReported' /\ NoFalseError'
    BY <1>3 DEF Lose, IInv, LossReported, NoFalseError
  <2> QED BY <2>1, <2>2, <2>3 DEF IInv, CountersInv
<1>4. CASE UNCHANGED vars
  BY <1>4 DEF vars, IInv, TypeOK, CountersInv, LossReported, NoFalseError
<1> QED BY <1>1, <1>2, <1>3, <1>4 DEF Next

-----------------------------------------------------------------------------
(* The inductive invariant of the continuity check. *)
THEOREM Invariant == Spec => []IInv
  BY InitIInv, NextIInv, PTL DEF Spec

(* The remembered counters stay within their word, whatever arrives. *)
THEOREM TypeCorrect == Spec => []TypeOK
<1>1. IInv => TypeOK
  BY DEF IInv
<1> QED BY <1>1, Invariant, PTL

(* A loss that is no multiple of the counter's range is reported by the next
   packet of the pid. *)
THEOREM LossesReported == Spec => []LossReported
<1>1. IInv => LossReported
  BY DEF IInv
<1> QED BY <1>1, Invariant, PTL

(* Once a packet of the pid has arrived, an error means a loss or a
   repetition. *)
THEOREM ErrorsMeanLossOrRepetition == Spec => []NoFalseError
<1>1. IInv => NoFalseError
  BY DEF IInv
<1> QED BY <1>1, Invariant, PTL

-----------------------------------------------------------------------------
(* The demultiplexer: one report per absence.  CheckEsPid marks a pid it reports
   with -2, and passes over pids marked so; only a packet of the pid takes the
   mark away (MarkInv). *)

MarkInv ==
  /\ pidErrors \in [Es(Programs) -> {0, 1}]
  /\ \A p \in Es(Programs) : pidErrors[p] = 1 => m_pOldOccurTime[p] = -2

(* A packet takes a mark away only together with the count, and marks every pid
   it adds to the count, which had no mark. *)
LEMMA PacketKeepsMarks ==
  ASSUME MarkInv, NEW k \in Stream, AddPacket(k)
  PROVE  MarkInv'
<1> DEFINE late == IF llCurTime > 0 THEN CheckEsPid ELSE {}
           errors(p) == IF p = k.pid THEN 0 ELSE IF p \in late THEN pidErrors[p] + 1 ELSE pidErrors[p]
           times(p) == IF p = k.pid THEN OccurTime ELSE IF p \in late THEN -2 ELSE m_pOldOccurTime[p]
<1>1. /\ pidErrors' = [p \in Es(Programs) |-> errors(p)]
      /\ m_pOldOccurTime' = [p \in Pids |-> times(p)]
  BY DEF AddPacket, CheckPid
<1>2. \A p \in late : m_pOldOccurTime[p] # -2
  BY DEF CheckEsPid, OverduePids
<1> HIDE DEF late
<1>3. Es(Programs) \subseteq Pids
  BY DEF Pids, Refs
<1>4. \A p \in Es(Programs) : errors(p) \in {0, 1} /\ (errors(p) = 1 => times(p) = -2)
  BY <1>2, <1>3 DEF MarkInv
<1> QED BY <1>1, <1>3, <1>4 DEF MarkInv

(* An absence of a pid is one LV1_PID_ERROR, however long it lasts, however often
   the pid comes back late, and whatever the PCR and the clock do meanwhile. *)
THEOREM AbsenceReportedOnce == DemuxSpec => []OneReportPerAbsence
<1>1. DemuxInit => MarkInv
  BY DEF DemuxInit, MarkInv
<1>2. MarkInv /\ [DemuxNext]_demuxVars => MarkInv'
  <2> SUFFICES ASSUME MarkInv, [DemuxNext]_demuxVars PROVE MarkInv'
    OBVIOUS
  <2>1. CASE Splice \/ Finished \/ UNCHANGED demuxVars
    BY <2>1 DEF Splice, Finished, demuxVars, pidVars, errorVars, MarkInv
  <2> QED BY <2>1, PacketKeepsMarks DEF DemuxNext
<1>3. MarkInv => OneReportPerAbsence
  BY DEF MarkInv, OneReportPerAbsence
<1> QED BY <1>1, <1>2, <1>3, PTL DEF DemuxSpec

-----------------------------------------------------------------------------
(* The clock.  Until the PCR jumps or wraps, CSysClock counts every packet since
   the last PCR and its rate is that of the stream, so that with a rate it is one
   packet ahead of the stream and without one it stands at the last PCR. *)

\* the PCR is more than a second away from its wrap
BeforeWrap == StreamTime + WrapWindow < PcrMax

\* x is what the clock may say at stream time u, its rate known since r
Near(x, u, r, gap) ==
  /\ x \in Nat \ {0}
  /\ IF r # -1 /\ u >= r THEN x = u + PacketTime ELSE u - gap <= x /\ x <= u

RateOf(rate) == \E n \in Nat \ {0} : rate = <<n, n * PacketTime>>

\* the clock with its last PCR at pcr, counting up to time t
Runs(clock, pcr, t, r) ==
  /\ clock = [before |-> clock.before, packets |-> clock.packets, rate |-> clock.rate]
  /\ clock.before = pcr /\ clock.packets \in Nat \ {0}
  /\ clock.packets * PacketTime = t - pcr
  /\ r = -1 => clock.rate = NoRate
  /\ r # -1 => RateOf(clock.rate)

ClockInv ==
  /\ arrived \in Nat /\ pcrGap \in Nat
  /\ IF clockStart = -1
       THEN /\ m_nUsedPcrPid = -1 /\ m_llFirstPcr = -1 /\ m_pSysClock = ResetClock
            /\ lastPcr = -1 /\ rated = -1 /\ pcrGap = 0
       ELSE /\ m_nUsedPcrPid \in Nat /\ m_llFirstPcr = clockStart
            /\ clockStart \in Nat \ {0} /\ lastPcr \in Nat
            /\ clockStart <= lastPcr /\ lastPcr <= StreamTime - PacketTime
            /\ StreamTime - PacketTime - lastPcr <= pcrGap
            /\ Runs(m_pSysClock, lastPcr, StreamTime, rated)
            /\ rated # -1 => rated \in Nat /\ clockStart < rated /\ rated <= StreamTime - PacketTime

(* Stream time and the limits are numbers. *)
LEMMA Times ==
  ASSUME arrived \in Nat
  PROVE  /\ StreamTime \in Nat /\ StreamTime >= 1 /\ PacketTime \in Nat /\ PacketTime >= 1
         /\ WrapWindow \in Nat /\ WrapWindow >= 1 /\ PcrMax \in Nat /\ Tolerance \in Nat /\ Tolerance >= 1
         /\ PidTimeout \in Nat /\ PidTimeout >= 1 /\ UnreferTimeout \in Nat /\ UnreferTimeout >= 1
         /\ StreamTime >= StartPcr /\ StartPcr \in Nat /\ StartPcr >= 1
<1>1. /\ PacketTime \in 1 .. PcrMax /\ PcrMax \in Nat /\ StartPcr \in 1 .. PcrMax /\ WrapWindow \in 1 .. PcrMax
      /\ Tolerance \in 1 .. PcrMax /\ PidTimeout \in 1 .. PcrMax /\ UnreferTimeout \in 1 .. PcrMax
  BY TimesAssumption
<1>2. arrived * PacketTime \in Nat
  BY <1>1
<1> DEFINE x == arrived * PacketTime
<1>3. x \in Nat
  BY <1>2
<1> HIDE DEF x
<1>4. StreamTime = StartPcr + x
  BY DEF StreamTime, x
<1> QED BY <1>1, <1>3, <1>4

(* A packet takes PacketTime. *)
LEMMA NextTime ==
  ASSUME arrived \in Nat, arrived' = arrived + 1
  PROVE  StreamTime' = StreamTime + PacketTime
<1>1. PacketTime \in Nat /\ StartPcr \in Nat
  BY Times
<1>2. (arrived + 1) * PacketTime = arrived * PacketTime + PacketTime /\ arrived * PacketTime \in Nat
  BY <1>1
<1> QED BY <1>1, <1>2 DEF StreamTime

\* the rate cancels
LEMMA Rated ==
  ASSUME NEW n \in Nat \ {0}, NEW k \in Nat
  PROVE  (k * (n * PacketTime)) \div n = k * PacketTime
<1>1. PacketTime \in Nat
  BY TimesAssumption
<1>2. \A q \in Nat : (q * n) \div n = q
  BY Z3
<1>3. k * (n * PacketTime) = (k * PacketTime) * n /\ k * PacketTime \in Nat
  BY <1>1, Z3
<1> QED BY <1>2, <1>3

(* diff_pcr is the difference of two times, if the earlier is not close to the wrap. *)
LEMMA Differs ==
  ASSUME NEW x \in Int, NEW y \in Int, y + WrapWindow < PcrMax
  PROVE  diff_pcr(x, y) = x - y
  BY TimesAssumption DEF diff_pcr

(* A packet without PCR moves the clock's count and keeps its rate. *)
LEMMA OnePacket ==
  ASSUME NEW clock, NEW pcr \in Nat, NEW t \in Nat, NEW r, Runs(clock, pcr, t, r)
  PROVE  /\ Runs(AddPayloadPacket(clock), pcr, t + PacketTime, r)
         /\ AddPayloadPacket(clock).rate = clock.rate
<1>1. PacketTime \in Nat
  BY TimesAssumption
<1>2. /\ clock = [before |-> clock.before, packets |-> clock.packets, rate |-> clock.rate]
      /\ clock.before = pcr /\ clock.packets \in Nat \ {0} /\ clock.packets * PacketTime = t - pcr
  BY DEF Runs
<1>3. AddPayloadPacket(clock) = [before |-> pcr, packets |-> clock.packets + 1, rate |-> clock.rate]
  <2>1. clock.before # -1
    BY <1>2
  <2>2. AddPayloadPacket(clock) = [clock EXCEPT !.packets = @ + 1]
    BY <2>1 DEF AddPayloadPacket
  <2>3. clock = [before |-> pcr, packets |-> clock.packets, rate |-> clock.rate]
    BY <1>2
  <2> DEFINE n == clock.packets
             rate == clock.rate
  <2>4. clock = [before |-> pcr, packets |-> n, rate |-> rate]
    BY <2>3
  <2> HIDE DEF n, rate
  <2>5. [clock EXCEPT !.packets = @ + 1] = [before |-> pcr, packets |-> n + 1, rate |-> rate]
    BY <2>4
  <2> QED BY <2>2, <2>5 DEF n, rate
<1>4. PICK k \in Nat \ {0} : k = clock.packets /\ k * PacketTime = t - pcr
  BY <1>2
<1>5. PICK n \in Nat \ {0} : n = k + 1
  OBVIOUS
<1>9. n * PacketTime = (t + PacketTime) - pcr
  <2>1. PICK x \in Nat : x = k * PacketTime
    BY <1>1
  <2>2. n * PacketTime = x + PacketTime
    BY <1>1, <1>5, <2>1
  <2> QED BY <1>1, <1>4, <2>1, <2>2
<1>10. AddPayloadPacket(clock) = [before |-> pcr, packets |-> n, rate |-> clock.rate]
  BY <1>3, <1>4, <1>5
<1> DEFINE next == [before |-> pcr, packets |-> n, rate |-> clock.rate]
<1>6. /\ next = [before |-> next.before, packets |-> next.packets, rate |-> next.rate]
      /\ next.before = pcr /\ next.packets = n /\ next.rate = clock.rate
  OBVIOUS
<1> HIDE DEF next
<1>7. next.packets * PacketTime = (t + PacketTime) - pcr /\ next.packets \in Nat \ {0}
  BY <1>6, <1>9
<1>8. Runs(next, pcr, t + PacketTime, r)
  BY <1>6, <1>7 DEF Runs
<1> QED BY <1>6, <1>8, <1>10 DEF next

(* At most gap after a time is at most gap before now. *)
LEMMA Back ==
  ASSUME NEW t \in Nat, NEW gap \in Nat, NEW x \in Int
  PROVE  t - gap <= t /\ (gap >= t - x => t - gap <= x)
  OBVIOUS

(* Without a rate the clock shows the time of the last PCR. *)
LEMMA Standing ==
  ASSUME NEW x \in Nat \ {0}, NEW u \in Nat, NEW gap \in Nat, u - gap <= x, x <= u
  PROVE  Near(x, u, -1, gap)
  BY DEF Near

(* With a rate it shows the time at the end of the packet. *)
LEMMA Running ==
  ASSUME NEW u \in Nat, NEW r \in Nat, NEW gap \in Nat, u >= r, PacketTime \in Nat, PacketTime >= 1
  PROVE  Near(u + PacketTime, u, r, gap)
  BY DEF Near

(* What GetPcr makes of the last PCR, the packets since and the rate. *)
LEMMA Reads ==
  ASSUME NEW clock, NEW pcr \in Nat, NEW t \in Nat, NEW r, t <= PcrMax, Runs(clock, pcr, t, r)
  PROVE  GetPcr(clock) = IF r = -1 THEN pcr ELSE t
<1>1. PcrMax \in Nat /\ PacketTime \in Nat
  BY TimesAssumption
<1>2. clock.before = pcr /\ clock.packets \in Nat \ {0} /\ clock.packets * PacketTime = t - pcr
  BY DEF Runs
<1>3. CASE r = -1
  BY <1>2, <1>3 DEF Runs, GetPcr
<1>4. CASE r # -1
  <2>1. PICK n \in Nat \ {0} : clock.rate = <<n, n * PacketTime>>
    BY <1>4 DEF Runs, RateOf
  <2>2. clock.rate # NoRate /\ clock.rate[1] = n /\ clock.rate[2] = n * PacketTime
    BY <2>1 DEF NoRate
  <2>3. (clock.packets * clock.rate[2]) \div clock.rate[1] = t - pcr
    BY <1>2, <2>2, Rated
  <2>4. GetPcr(clock) = (pcr + (t - pcr)) % (PcrMax + 1)
    BY <1>2, <2>2, <2>3 DEF GetPcr
  <2>5. pcr + (t - pcr) = t /\ t % (PcrMax + 1) = t
    BY <1>1
  <2> QED BY <1>4, <2>4, <2>5
<1> QED BY <1>3, <1>4

\* what is left of the clock at a PCR, and what the PCR makes of it
LEMMA AtPcr ==
  ASSUME arrived \in Nat, ClockInv, BeforeWrap
  PROVE  LET clock == AddPcrPacket(Checked(m_pSysClock, StreamTime), StreamTime)
         IN \/ /\ rated = -1 /\ Runs(clock, StreamTime, StreamTime + PacketTime, -1)
               /\ clock.rate = NoRate
            \/ /\ clockStart # -1 /\ Runs(clock, StreamTime, StreamTime + PacketTime, 0)
               /\ clock.rate # NoRate
<1> DEFINE T == StreamTime
           kept == Checked(m_pSysClock, T)
           fresh == [before |-> T, packets |-> 1, rate |-> NoRate]
<1>1. /\ T \in Nat /\ PacketTime \in Nat /\ PcrMax \in Nat /\ Tolerance \in Nat /\ T <= PcrMax
      /\ T + WrapWindow < PcrMax
  BY Times DEF BeforeWrap
<1> HIDE DEF T
<1>2. Runs(fresh, T, T + PacketTime, -1) /\ fresh.rate = NoRate
  BY <1>1 DEF Runs
<1>3. AddPcrPacket(ResetClock, T) = fresh
  <2>1. ResetClock.before < 0
    BY DEF ResetClock
  <2>2. AddPcrPacket(ResetClock, T) = [ResetClock EXCEPT !.before = T, !.packets = 1]
    BY <2>1 DEF AddPcrPacket
  <2> QED BY <2>2 DEF ResetClock
<1>4. CASE clockStart = -1
  <2>1. m_pSysClock = ResetClock /\ rated = -1
    BY <1>4 DEF ClockInv
  <2>2. kept = ResetClock
    BY <2>1 DEF Checked, GetPcr, ResetClock
  <2> QED BY <1>2, <1>3, <2>1, <2>2 DEF T
<1>5. CASE clockStart # -1
  <2>1. /\ lastPcr \in Nat /\ lastPcr < T /\ Runs(m_pSysClock, lastPcr, T, rated)
    BY <1>1, <1>5, Times DEF ClockInv, T
  <2>2. GetPcr(m_pSysClock) = IF rated = -1 THEN lastPcr ELSE T
    BY <1>1, <2>1, Reads
  <2>3. diff_pcr(GetPcr(m_pSysClock), T) = GetPcr(m_pSysClock) - T
    BY <1>1, <2>1, <2>2, Differs
  <2>4. kept = m_pSysClock \/ (rated = -1 /\ kept = ResetClock)
    BY <1>1, <2>1, <2>2, <2>3 DEF Checked
  <2>5. CASE kept = m_pSysClock
    <3>1. /\ m_pSysClock.before = lastPcr /\ m_pSysClock.packets \in Nat \ {0}
          /\ m_pSysClock.packets * PacketTime = T - lastPcr
      BY <2>1 DEF Runs
    <3>2. AddPcrPacket(m_pSysClock, T) =
            [before |-> T, packets |-> 1, rate |-> <<m_pSysClock.packets, m_pSysClock.packets * PacketTime>>]
      BY <1>1, <2>1, <3>1 DEF AddPcrPacket
    <3>3. RateOf(AddPcrPacket(m_pSysClock, T).rate) /\ AddPcrPacket(m_pSysClock, T).rate # NoRate
      BY <3>1, <3>2 DEF RateOf, NoRate
    <3>4. Runs(AddPcrPacket(m_pSysClock, T), T, T + PacketTime, 0)
      BY <1>1, <3>2, <3>3 DEF Runs
    <3> QED BY <1>5, <2>5, <3>3, <3>4 DEF T
  <2>6. CASE rated = -1 /\ kept = ResetClock
    BY <1>2, <1>3, <2>6 DEF T
  <2> QED BY <2>4, <2>5, <2>6
<1> QED BY <1>4, <1>5

(* Before a splice and a wrap, the PCR of the stream is its time. *)
LEMMA PcrIsTime ==
  ASSUME arrived \in Nat, splices = 0, BeforeWrap
  PROVE  Pcr = StreamTime
<1>1. Jump \in Nat /\ StreamTime \in Nat /\ PcrMax \in Nat /\ StreamTime <= PcrMax
  BY Times, TimesAssumption DEF BeforeWrap
<1>2. splices * Jump = 0
  BY <1>1
<1>3. StreamTime + 0 = StreamTime /\ StreamTime % (PcrMax + 1) = StreamTime
  BY <1>1
<1> QED BY <1>2, <1>3 DEF Pcr

(* The maximum of two numbers. *)
LEMMA LargerOf ==
  ASSUME NEW x \in Int, NEW y \in Int
  PROVE  Max({x, y}) = IF x >= y THEN x ELSE y
  BY DEF Max

\* what the clock says when the packet has been counted
Reading ==
  IF clockStart' = -1 THEN llCurTime = -1 ELSE Near(llCurTime, StreamTime, rated', pcrGap')

\* what a step does to the clock's history
Goes ==
  /\ clockStart' = clockStart \/ (clockStart = -1 /\ clockStart' = StreamTime)
  /\ rated' = rated \/ (rated = -1 /\ rated' = StreamTime /\ clockStart # -1)
  /\ pcrGap' >= pcrGap

(* What a packet does to the clock: UpdateClock keeps it true, and what it shows then is
   near the time of the packet. *)
LEMMA ClockSteps ==
  ASSUME ClockInv, splices = 0, NEW k \in Stream, UpdateClock(k), arrived' = arrived + 1, BeforeWrap'
  PROVE  ClockInv' /\ Reading /\ Goes /\ BeforeWrap
<1> DEFINE T == StreamTime
           used == k.pcr /\ k.pid = m_nUsedPcrPid'
<1>1. /\ arrived \in Nat /\ arrived' \in Nat /\ T \in Nat /\ T >= 1 /\ PacketTime \in Nat /\ PacketTime >= 1
      /\ StreamTime' = T + PacketTime /\ WrapWindow \in Nat /\ PcrMax \in Nat /\ T + PacketTime <= PcrMax
      /\ T + WrapWindow < PcrMax /\ BeforeWrap /\ pcrGap \in Nat
  BY Times, NextTime DEF BeforeWrap, ClockInv
<1>2. Pcr = T
  BY <1>1, PcrIsTime
<1>3. k.pid \in Nat
  BY StreamAssumption, PidsAssumption DEF Packets
<1>4. /\ clockStart' = IF used /\ clockStart = -1 THEN T ELSE clockStart
      /\ lastPcr' = IF used THEN T ELSE lastPcr
      /\ rated' = IF m_pSysClock'.rate = NoRate THEN -1 ELSE IF rated = -1 THEN T ELSE rated
      /\ pcrGap' = IF lastPcr = -1 THEN 0 ELSE Max({pcrGap, T - lastPcr})
      /\ m_nUsedPcrPid' = UsedPcrPid(k)
  BY DEF UpdateClock
<1>5. /\ pcrGap' \in Nat /\ pcrGap' >= pcrGap
      /\ lastPcr \in Int /\ (lastPcr # -1 => pcrGap' >= T - lastPcr)
  BY <1>1, <1>4, LargerOf DEF ClockInv
<1> PICK gap \in Nat : gap = pcrGap'
  BY <1>5
<1>12. T - gap <= T /\ (lastPcr # -1 => T - gap <= lastPcr)
  BY <1>1, <1>5, Back
<1>6. used => /\ m_pSysClock' = AddPcrPacket(Checked(m_pSysClock, T), T)
              /\ m_llFirstPcr' = IF m_llFirstPcr < 0 THEN T ELSE m_llFirstPcr
  BY <1>2, <1>3 DEF UpdateClock
<1>7. ~used /\ m_nUsedPcrPid' \in Nat =>
        m_pSysClock' = AddPayloadPacket(m_pSysClock) /\ m_llFirstPcr' = m_llFirstPcr
  BY DEF UpdateClock
<1>8. m_nUsedPcrPid' < 0 => m_pSysClock' = m_pSysClock /\ m_llFirstPcr' = m_llFirstPcr
  BY DEF UpdateClock
<1>9. ~(0 - 1 >= 0) /\ -1 < 0 /\ -1 \notin Nat
  OBVIOUS
<1>10. CASE clockStart = -1
  <2>1. /\ m_nUsedPcrPid = -1 /\ m_llFirstPcr = -1 /\ m_pSysClock = ResetClock /\ lastPcr = -1 /\ rated = -1
        /\ pcrGap = 0
    BY <1>10 DEF ClockInv
  <2>2. CASE ~used
    <3>1. m_nUsedPcrPid' = -1
      BY <1>4, <2>1, <2>2 DEF UsedPcrPid
    <3>2. m_pSysClock' = ResetClock /\ m_llFirstPcr' = -1 /\ pcrGap' = 0
      BY <1>4, <1>8, <1>9, <2>1, <3>1
    <3>3. clockStart' = -1 /\ lastPcr' = -1
      BY <1>4, <1>10, <2>1, <2>2
    <3>4. ResetClock.rate = NoRate /\ ResetClock.before = -1
      BY DEF ResetClock
    <3>5. rated' = -1
      BY <1>4, <3>2, <3>4
    <3>6. llCurTime = -1
      BY <3>2, <3>4 DEF llCurTime, GetPcr
    <3>7. ClockInv'
      BY <1>1, <3>1, <3>2, <3>3, <3>5 DEF ClockInv, ResetClock, NoRate
    <3> QED BY <1>1, <1>5, <1>10, <2>1, <3>3, <3>5, <3>6, <3>7 DEF Reading, Goes
  <2>3. CASE used
    <3>1. clockStart' = T /\ lastPcr' = T /\ m_llFirstPcr' = T /\ m_nUsedPcrPid' \in Nat
      BY <1>3, <1>4, <1>6, <1>9, <1>10, <2>1, <2>3
    <3>2. Runs(m_pSysClock', T, T + PacketTime, -1) /\ m_pSysClock'.rate = NoRate
      BY <1>1, <1>6, <1>10, <2>3, AtPcr
    <3>3. rated' = -1
      BY <1>4, <3>2
    <3>4. llCurTime = T
      BY <1>1, <3>2, Reads DEF llCurTime
    <3>5. Reading
      <4>1. clockStart' # -1 /\ Near(T, T, -1, gap)
        BY <1>1, <1>12, Standing, <3>1
      <4> QED BY <3>3, <3>4, <4>1 DEF Reading
    <3>6. ClockInv'
      <4>1. Runs(m_pSysClock, lastPcr, StreamTime, rated)'
        BY <1>1, <3>1, <3>2, <3>3 DEF Runs, RateOf, NoRate
      <4> QED BY <1>1, <1>5, <3>1, <3>3, <4>1 DEF ClockInv
    <3> QED BY <1>1, <1>5, <1>10, <2>1, <3>1, <3>3, <3>5, <3>6 DEF Goes
  <2> QED BY <2>2, <2>3
<1>11. CASE clockStart # -1
  <2>1. /\ m_nUsedPcrPid \in Nat /\ m_llFirstPcr = clockStart
        /\ clockStart \in Nat \ {0} /\ lastPcr \in Nat
        /\ clockStart <= lastPcr /\ lastPcr <= T - PacketTime
        /\ T - PacketTime - lastPcr <= pcrGap
        /\ Runs(m_pSysClock, lastPcr, T, rated)
        /\ rated # -1 => rated \in Nat /\ clockStart < rated /\ rated <= T - PacketTime
    BY <1>11 DEF ClockInv
  <2>2. m_nUsedPcrPid' = m_nUsedPcrPid /\ clockStart' = clockStart
    BY <1>4, <1>11, <2>1 DEF UsedPcrPid
  <2>3. CASE ~used
    <3>1. m_pSysClock' = AddPayloadPacket(m_pSysClock) /\ m_llFirstPcr' = clockStart /\ lastPcr' = lastPcr
      BY <1>4, <1>7, <2>1, <2>2, <2>3
    <3>6. Runs(m_pSysClock', lastPcr, T + PacketTime, rated) /\ m_pSysClock'.rate = m_pSysClock.rate
      BY <1>1, <2>1, <3>1, OnePacket
    <3>5. rated' = rated
      BY <1>4, <2>1, <3>6 DEF Runs, RateOf, NoRate
    <3>7. llCurTime = IF rated = -1 THEN lastPcr ELSE T + PacketTime
      BY <1>1, <2>1, <3>6, Reads DEF llCurTime
    <3>8. Reading
      <4>1. clockStart' # -1
        BY <2>1, <2>2
      <4>2. CASE rated = -1
        <5>0. lastPcr \in Nat \ {0} /\ lastPcr # -1 /\ lastPcr <= T
          BY <1>1, <2>1
        <5>1. Near(lastPcr, T, -1, gap)
          BY <1>1, <1>12, <5>0, Standing
        <5> QED BY <3>5, <3>7, <4>1, <4>2, <5>1 DEF Reading
      <4>3. CASE rated # -1
        <5>1. Near(T + PacketTime, T, rated, gap)
          BY <1>1, Running, <2>1, <4>3
        <5> QED BY <3>5, <3>7, <4>1, <4>3, <5>1 DEF Reading
      <4> QED BY <4>2, <4>3
    <3>9. ClockInv'
      <4>1. Runs(m_pSysClock, lastPcr, StreamTime, rated)'
        BY <1>1, <3>1, <3>5, <3>6 DEF Runs, RateOf, NoRate
      <4> QED BY <1>1, <1>5, <2>1, <2>2, <3>1, <3>5, <4>1 DEF ClockInv
    <3> QED BY <1>1, <1>5, <2>2, <3>5, <3>8, <3>9 DEF Goes
  <2>4. CASE used
    <3>1. lastPcr' = T /\ m_llFirstPcr' = clockStart
      BY <1>4, <1>6, <2>1, <2>4
    <3>2. m_pSysClock' = AddPcrPacket(Checked(m_pSysClock, T), T)
      BY <1>6, <2>4
    <3>3. CASE /\ rated = -1 /\ Runs(m_pSysClock', T, T + PacketTime, -1)
               /\ m_pSysClock'.rate = NoRate
      <4>1. rated' = -1
        BY <1>4, <3>3
      <4>2. llCurTime = T
        BY <1>1, <3>3, Reads DEF llCurTime
      <4>3. Reading
        <5>1. clockStart' # -1 /\ Near(T, T, -1, gap)
          BY <1>1, <1>12, Standing, <2>1, <2>2
        <5> QED BY <4>1, <4>2, <5>1 DEF Reading
      <4>4. Runs(m_pSysClock, lastPcr, StreamTime, rated)'
        BY <1>1, <3>1, <3>3, <4>1 DEF Runs, RateOf, NoRate
      <4>5. ClockInv'
        BY <1>1, <1>5, <2>1, <2>2, <3>1, <4>1, <4>4 DEF ClockInv
      <4> QED BY <1>1, <1>5, <2>2, <3>3, <4>1, <4>3, <4>5 DEF Goes
    <3>4. CASE /\ Runs(m_pSysClock', T, T + PacketTime, 0)
               /\ m_pSysClock'.rate # NoRate
      <4>1. rated' = IF rated = -1 THEN T ELSE rated
        BY <1>4, <3>4
      <4>2. llCurTime = T + PacketTime
        BY <1>1, <3>4, Reads DEF llCurTime
      <4>3. rated' # -1 /\ rated' \in Nat /\ rated' <= T /\ clockStart < rated'
        BY <1>1, <2>1, <4>1
      <4>4. Reading
        <5>1. PICK now \in Nat : now = rated' /\ now # -1 /\ now <= T
          BY <4>3
        <5>2. clockStart' # -1 /\ Near(T + PacketTime, T, now, gap)
          BY <1>1, Running, <2>1, <2>2, <5>1
        <5> QED BY <4>2, <5>1, <5>2 DEF Reading
      <4>5. Runs(m_pSysClock, lastPcr, StreamTime, rated)'
        BY <1>1, <3>1, <3>4, <4>3 DEF Runs, RateOf, NoRate
      <4>6. ClockInv'
        BY <1>1, <1>5, <2>1, <2>2, <3>1, <4>3, <4>5 DEF ClockInv
      <4> QED BY <1>1, <1>5, <1>11, <2>2, <4>1, <4>4, <4>6 DEF Goes
    <3> QED BY <1>1, <3>2, <3>3, <3>4, AtPcr
  <2> QED BY <2>3, <2>4
<1> QED BY <1>10, <1>11

-----------------------------------------------------------------------------
(* Times noted.  What was noted of a pid is what the clock said when it occurred;
   the time that has passed since is right up to Slack. *)

(* What was near the time it was noted at stays so, whether the rate has been found since or
   the gaps have grown. *)
LEMMA NearLater ==
  ASSUME NEW x, NEW u \in Int, NEW r \in Int, NEW gap \in Nat, Near(x, u, r, gap),
         NEW t \in Nat, u < t, NEW s \in Int, s = r \/ (r = -1 /\ s = t), NEW later \in Nat, gap <= later
  PROVE  Near(x, u, s, later)
  BY DEF Near

(* The difference of two readings is the time between them up to Slack. *)
LEMMA Elapsed ==
  ASSUME NEW x, NEW u \in Nat, NEW r \in Int, NEW gap \in Nat, Near(x, u, r, gap),
         NEW y, NEW t \in Nat, NEW s \in Int, NEW later \in Nat, Near(y, t, s, later),
         u < t, s = r \/ (r = -1 /\ s = t), gap <= later
  PROVE  /\ Slack(u, s, later) = Slack(u, r, later) /\ Slack(u, s, later) \in Nat
         /\ x \in Nat /\ y \in Nat /\ x <= u + PacketTime
         /\ y - x <= (t - u) + Slack(u, s, later)
         /\ (t - u) - Slack(u, s, later) <= y - x
<1>1. PacketTime \in Nat
  BY TimesAssumption
<1>2. x \in Nat /\ y \in Nat
  BY DEF Near
<1>3. PICK p \in Nat : p = PacketTime
  BY <1>1
<1>4. CASE r # -1 /\ u >= r
  BY <1>2, <1>3, <1>4 DEF Near, Slack
<1>5. CASE ~(r # -1 /\ u >= r)
  BY <1>2, <1>3, <1>5 DEF Near, Slack
<1> QED BY <1>4, <1>5

(* And so is what diff_pcr makes of them. *)
LEMMA Measured ==
  ASSUME NEW x, NEW u \in Nat, NEW r \in Int, NEW gap \in Nat, Near(x, u, r, gap),
         NEW y, NEW t \in Nat, NEW s \in Int, NEW later \in Nat, Near(y, t, s, later),
         u < t, s = r \/ (r = -1 /\ s = t), gap <= later, (t + PacketTime) + WrapWindow < PcrMax
  PROVE  /\ Slack(u, s, later) = Slack(u, r, later) /\ Slack(u, s, later) \in Nat
         /\ diff_pcr(y, x) \in Int
         /\ diff_pcr(y, x) <= (t - u) + Slack(u, s, later)
         /\ (t - u) - Slack(u, s, later) <= diff_pcr(y, x)
<1>1. /\ Slack(u, s, later) = Slack(u, r, later) /\ Slack(u, s, later) \in Nat
      /\ x \in Nat /\ y \in Nat /\ x <= u + PacketTime
      /\ y - x <= (t - u) + Slack(u, s, later)
      /\ (t - u) - Slack(u, s, later) <= y - x
  BY Elapsed
<1>2. x + WrapWindow < PcrMax
  <2>1. PacketTime \in Nat /\ WrapWindow \in Nat /\ PcrMax \in Nat
    BY TimesAssumption
  <2>2. x <= u + PacketTime /\ x \in Nat
    BY <1>1
  <2> QED BY <2>1, <2>2
<1>3. diff_pcr(y, x) = y - x
  BY <1>1, <1>2, Differs
<1>4. y - x \in Int
  BY <1>1
<1> QED BY <1>1, <1>3, <1>4

(* A clock that is not ahead of the first PCR finds no pid overdue since then. *)
LEMMA NotAhead ==
  ASSUME NEW x \in Nat, NEW t \in Nat, x <= t, (t + PacketTime) + WrapWindow < PcrMax
  PROVE  ~ (diff_pcr(x, t) > PidTimeout)
<1>1. PacketTime \in Nat /\ WrapWindow \in Nat /\ PcrMax \in Nat /\ PidTimeout \in Nat
  BY TimesAssumption
<1>2. diff_pcr(x, t) = x - t
  BY <1>1, Differs
<1> QED BY <1>1, <1>2

PsiInv == m_mapPmtmInfo \subseteq Programs /\ m_vecDemuxInfoBuf \subseteq Programs

SeenInv ==
  /\ lastSeen \in [Pids -> Nat \cup {-1}]
  /\ \A p \in Pids : lastSeen[p] < StreamTime

\* what is noted of pid p
Noted(p) ==
  IF clockStart # -1 /\ lastSeen[p] >= clockStart
    THEN Near(m_pOldOccurTime[p], lastSeen[p], rated, pcrGap)
    ELSE m_pOldOccurTime[p] = -1

OccurInv ==
  /\ pidErrors \in [Es(Programs) -> Nat]
  /\ m_pOldOccurTime = [p \in Pids |-> m_pOldOccurTime[p]]
  /\ \A p \in Pids : \/ m_pOldOccurTime[p] = -2 /\ p \in Es(Programs) /\ pidErrors[p] > 0
                     \/ m_pOldOccurTime[p] # -2 /\ Noted(p)

TimesInv == PsiInv /\ ClockInv /\ SeenInv /\ OccurInv

\* the time a pid's absence is measured from
NotedSince(p) == IF m_pOldOccurTime[p] = -1 THEN clockStart ELSE m_pOldOccurTime[p]

(* The time CheckEsPid measures from is near the time the pid was last there, or the
   clock began. *)
LEMMA SinceNoted ==
  ASSUME TimesInv, NEW p \in Pids, clockStart # -1, m_pOldOccurTime[p] # -2
  PROVE  /\ Near(NotedSince(p), Since(p), rated, pcrGap)
         /\ Since(p) \in Nat /\ Since(p) < StreamTime
<1>1. /\ clockStart \in Nat \ {0} /\ rated \in Int /\ pcrGap \in Nat /\ clockStart < StreamTime
      /\ (rated = -1 \/ clockStart < rated)
  BY Times DEF TimesInv, ClockInv
<1>2. lastSeen[p] \in Int /\ lastSeen[p] < StreamTime /\ Noted(p)
  BY DEF TimesInv, SeenInv, OccurInv
<1>3. Since(p) = IF lastSeen[p] >= clockStart THEN lastSeen[p] ELSE clockStart
  BY <1>1, <1>2, LargerOf DEF Since
<1>4. CASE lastSeen[p] >= clockStart
  <2>1. Near(m_pOldOccurTime[p], lastSeen[p], rated, pcrGap)
    BY <1>2, <1>4 DEF Noted
  <2>2. m_pOldOccurTime[p] # -1
    BY <2>1 DEF Near
  <2>3. lastSeen[p] \in Nat
    BY <1>1, <1>2, <1>4
  <2> QED BY <1>2, <1>3, <1>4, <2>1, <2>2, <2>3 DEF NotedSince
<1>5. CASE ~(lastSeen[p] >= clockStart)
  <2>1. m_pOldOccurTime[p] = -1 /\ Since(p) = clockStart
    BY <1>2, <1>3, <1>5 DEF Noted
  <2>2. Near(clockStart, clockStart, rated, pcrGap)
    BY <1>1 DEF Near
  <2> QED BY <1>1, <2>1, <2>2 DEF NotedSince
<1> QED BY <1>4, <1>5

(* The packets of the stream have pids of the model. *)
LEMMA KindOf ==
  ASSUME NEW k \in Stream
  PROVE  k.pid \in Pids /\ k.pid \in Nat
  BY StreamAssumption, PidsAssumption DEF Packets

(* The streams of some programs are among those of all. *)
LEMMA EsOf ==
  ASSUME NEW S, S \subseteq Programs
  PROVE  Es(S) \subseteq Es(Programs) /\ Es(Programs) \subseteq Pids
  BY DEF Es, Pids, Refs

(* CDemux::Demux takes nothing but announced programs. *)
LEMMA PsiKept ==
  ASSUME PsiInv, NEW k, Demux(k)
  PROVE  PsiInv'
  BY DEF PsiInv, Demux, psiVars

(* A step of the clock, in the words of Measured. *)
LEMMA ClockAdvances ==
  ASSUME TimesInv, splices = 0, NEW k \in Stream, AddPacket(k), BeforeWrap'
  PROVE  /\ ClockInv' /\ Reading /\ Goes
         /\ rated \in Int /\ rated' \in Int /\ pcrGap \in Nat /\ pcrGap' \in Nat /\ StreamTime \in Nat
         /\ (rated' = rated \/ (rated = -1 /\ rated' = StreamTime))
         /\ pcrGap <= pcrGap'
         /\ (StreamTime + PacketTime) + WrapWindow < PcrMax
         /\ StreamTime' = StreamTime + PacketTime
<1>1. ClockInv /\ arrived' = arrived + 1 /\ UpdateClock(k) /\ arrived \in Nat
  BY DEF TimesInv, AddPacket, ClockInv
<1>2. ClockInv' /\ Reading /\ Goes
  BY <1>1, ClockSteps
<1>3. rated \in Int /\ rated' \in Int /\ pcrGap \in Nat /\ pcrGap' \in Nat
  BY <1>1, <1>2 DEF ClockInv
<1>4. StreamTime' = StreamTime + PacketTime /\ StreamTime \in Nat
  BY <1>1, NextTime, Times
<1> QED BY <1>2, <1>3, <1>4 DEF Goes, BeforeWrap

(* What the clock measures from a time it once showed. *)
LEMMA MeasuredNow ==
  ASSUME TimesInv, splices = 0, NEW k \in Stream, AddPacket(k), BeforeWrap', clockStart' # -1,
         NEW x, NEW u \in Nat, Near(x, u, rated, pcrGap), u < StreamTime
  PROVE  /\ Slack(u, rated', pcrGap') = Slack(u, rated, pcrGap') /\ Slack(u, rated, pcrGap') \in Nat
         /\ diff_pcr(llCurTime, x) \in Int /\ StreamTime - u \in Int
         /\ diff_pcr(llCurTime, x) <= (StreamTime - u) + Slack(u, rated, pcrGap')
         /\ (StreamTime - u) - Slack(u, rated, pcrGap') <= diff_pcr(llCurTime, x)
<1>1. /\ Reading /\ rated \in Int /\ rated' \in Int /\ pcrGap \in Nat /\ pcrGap' \in Nat
      /\ StreamTime \in Nat /\ (rated' = rated \/ (rated = -1 /\ rated' = StreamTime))
      /\ pcrGap <= pcrGap' /\ (StreamTime + PacketTime) + WrapWindow < PcrMax
  BY ClockAdvances
<1> DEFINE y == llCurTime
<1>2. Near(y, StreamTime, rated', pcrGap')
  BY <1>1 DEF Reading
<1> HIDE DEF y
<1>3. PICK t \in Nat, r \in Int, gap \in Nat, s \in Int, later \in Nat :
        t = StreamTime /\ r = rated /\ gap = pcrGap /\ s = rated' /\ later = pcrGap'
  BY <1>1
<1>4. /\ Near(x, u, r, gap) /\ Near(y, t, s, later) /\ u < t /\ (s = r \/ (r = -1 /\ s = t))
      /\ gap <= later /\ (t + PacketTime) + WrapWindow < PcrMax
  BY <1>1, <1>2, <1>3
<1>5. /\ Slack(u, s, later) = Slack(u, r, later) /\ Slack(u, s, later) \in Nat
      /\ diff_pcr(y, x) \in Int
      /\ diff_pcr(y, x) <= (t - u) + Slack(u, s, later)
      /\ (t - u) - Slack(u, s, later) <= diff_pcr(y, x)
  BY <1>4, Measured
<1>6. t - u \in Int
  OBVIOUS
<1> QED BY <1>3, <1>5, <1>6 DEF y

(* What is measured as over the limit is over it, up to slack. *)
LEMMA Exceeds ==
  ASSUME NEW d \in Int, NEW limit \in Int, NEW away \in Int, NEW slack \in Int,
         d > limit, d <= away + slack
  PROVE  away + slack > limit
  OBVIOUS

(* A pid reported late has been away for the timeout, give or take Slack. *)
LEMMA LateIsTrue ==
  ASSUME TimesInv, splices = 0, NEW k \in Stream, AddPacket(k), BeforeWrap', NEW p \in OverduePids, llCurTime > 0
  PROVE  Missing(p, StreamTime) + Slack(Since(p), rated, pcrGap') > PidTimeout
<1>1. /\ ClockInv' /\ Reading /\ Goes
      /\ rated \in Int /\ rated' \in Int /\ pcrGap \in Nat /\ pcrGap' \in Nat /\ StreamTime \in Nat
      /\ (rated' = rated \/ (rated = -1 /\ rated' = StreamTime))
      /\ pcrGap <= pcrGap'
      /\ (StreamTime + PacketTime) + WrapWindow < PcrMax
  BY ClockAdvances
<1>2. p \in Pids /\ m_pOldOccurTime[p] # -2
  BY PsiKept, EsOf DEF OverduePids, TimesInv, AddPacket, PsiInv
<1>3. m_pOldOccurTime[p] = -1 \/ (clockStart # -1 /\ m_pOldOccurTime[p] # -1)
  BY <1>2 DEF TimesInv, OccurInv, Noted
<1>4. clockStart' # -1 /\ m_llFirstPcr' = clockStart' /\ Near(llCurTime, StreamTime, rated', pcrGap')
  BY <1>1 DEF ClockInv, Reading
<1>5. PidTimeout \in Int
  BY TimesAssumption
<1>6. CASE clockStart # -1
  <2>1. clockStart' = clockStart
    BY <1>1, <1>6 DEF Goes
  <2>2. diff_pcr(llCurTime, NotedSince(p)) > PidTimeout
    BY <1>4, <2>1 DEF OverduePids, NotedSince
  <2>3. Near(NotedSince(p), Since(p), rated, pcrGap) /\ Since(p) \in Nat /\ Since(p) < StreamTime
    BY <1>2, <1>6, SinceNoted
  <2>4. /\ Slack(Since(p), rated, pcrGap') \in Nat
        /\ diff_pcr(llCurTime, NotedSince(p)) \in Int /\ StreamTime - Since(p) \in Int
        /\ diff_pcr(llCurTime, NotedSince(p)) <= (StreamTime - Since(p)) + Slack(Since(p), rated, pcrGap')
    BY <1>4, <2>3, MeasuredNow
  <2> QED BY <1>5, <2>2, <2>4, Exceeds DEF Missing
<1>7. CASE clockStart = -1
  <2>1. m_pOldOccurTime[p] = -1 /\ clockStart' = StreamTime /\ rated = -1
    BY <1>1, <1>3, <1>4, <1>7 DEF Goes, TimesInv, ClockInv
  <2>2. diff_pcr(llCurTime, StreamTime) > PidTimeout
    BY <1>4, <2>1 DEF OverduePids
  <2>3. rated' = -1
    BY <1>1, <1>7, <2>1 DEF Goes
  <2>4. llCurTime \in Nat /\ llCurTime <= StreamTime
    BY <1>4, <2>3 DEF Near
  <2>5. ~ (diff_pcr(llCurTime, StreamTime) > PidTimeout)
    BY <1>1, <2>4, NotAhead
  <2> QED BY <2>2, <2>5
<1> QED BY <1>6, <1>7
(* A packet moves what was last seen of its own pid. *)
LEMMA SeenStep ==
  ASSUME TimesInv, splices = 0, NEW k \in Stream, AddPacket(k), BeforeWrap'
  PROVE  /\ SeenInv' /\ lastSeen'[k.pid] = StreamTime
         /\ \A p \in Pids \ {k.pid} : lastSeen'[p] = lastSeen[p]
<1>1. /\ StreamTime \in Nat /\ StreamTime' = StreamTime + PacketTime /\ PacketTime \in Nat /\ PacketTime >= 1
  BY ClockAdvances, Times DEF TimesInv, ClockInv
<1>2. lastSeen \in [Pids -> Nat \cup {-1}] /\ \A p \in Pids : lastSeen[p] < StreamTime
  BY DEF TimesInv, SeenInv
<1>3. k.pid \in Pids /\ lastSeen' = [lastSeen EXCEPT ![k.pid] = StreamTime]
  BY KindOf DEF AddPacket, Observe
<1>4. /\ lastSeen' \in [Pids -> Nat \cup {-1}] /\ lastSeen'[k.pid] = StreamTime
      /\ \A p \in Pids \ {k.pid} : lastSeen'[p] = lastSeen[p]
  BY <1>1, <1>2, <1>3
<1>5. ASSUME NEW p \in Pids
      PROVE  lastSeen'[p] < StreamTime'
  <2>1. PICK n \in Nat \cup {-1} : n = lastSeen'[p] /\ n <= StreamTime
    BY <1>1, <1>2, <1>4
  <2>2. n < StreamTime + PacketTime
    BY <1>1, <2>1
  <2> QED BY <1>1, <2>1, <2>2
<1> QED BY <1>4, <1>5 DEF SeenInv

(* What is noted of another pid stays right. *)
LEMMA NotedKept ==
  ASSUME TimesInv, splices = 0, NEW k \in Stream, AddPacket(k), BeforeWrap',
         NEW p \in Pids, p # k.pid, Noted(p), m_pOldOccurTime'[p] = m_pOldOccurTime[p]
  PROVE  Noted(p)'
<1>1. /\ Goes /\ rated \in Int /\ rated' \in Int /\ pcrGap \in Nat /\ pcrGap' \in Nat
      /\ StreamTime \in Nat /\ (rated' = rated \/ (rated = -1 /\ rated' = StreamTime))
      /\ pcrGap <= pcrGap'
  BY ClockAdvances
<1>2. lastSeen'[p] = lastSeen[p] /\ lastSeen[p] \in Int /\ lastSeen[p] < StreamTime
  BY SeenStep DEF TimesInv, SeenInv
<1>3. CASE clockStart # -1 /\ lastSeen[p] >= clockStart
  <2>1. clockStart' = clockStart
    BY <1>1, <1>3 DEF Goes
  <2>2. PICK t \in Nat, r \in Int, gap \in Nat, s \in Int, later \in Nat, u \in Int, x \in {m_pOldOccurTime[p]} :
          /\ t = StreamTime /\ r = rated /\ gap = pcrGap /\ s = rated' /\ later = pcrGap'
          /\ u = lastSeen[p]
    BY <1>1, <1>2
  <2>3. /\ Near(x, u, r, gap) /\ u < t /\ (s = r \/ (r = -1 /\ s = t)) /\ gap <= later
    BY <1>1, <1>2, <1>3, <2>2 DEF Noted
  <2>4. Near(x, u, s, later)
    BY <2>3, NearLater
  <2> QED BY <1>2, <1>3, <2>1, <2>2, <2>4 DEF Noted
<1>4. CASE ~(clockStart # -1 /\ lastSeen[p] >= clockStart)
  <2>1. m_pOldOccurTime[p] = -1
    BY <1>4 DEF Noted
  <2>2. ~(clockStart' # -1 /\ lastSeen[p] >= clockStart')
    <3>1. CASE clockStart' = clockStart
      BY <1>4, <3>1
    <3>2. CASE clockStart' = StreamTime
      BY <1>1, <1>2, <3>2
    <3> QED BY <1>1, <3>1, <3>2 DEF Goes
  <2> QED BY <1>2, <2>1, <2>2 DEF Noted
<1> QED BY <1>3, <1>4

(* What is noted of the packet's own pid is right. *)
LEMMA NotedNow ==
  ASSUME TimesInv, splices = 0, NEW k \in Stream, AddPacket(k), BeforeWrap'
  PROVE  m_pOldOccurTime'[k.pid] # -2 /\ Noted(k.pid)'
<1>1. /\ ClockInv' /\ Reading /\ StreamTime \in Nat /\ PacketTime \in Nat
      /\ StreamTime' = StreamTime + PacketTime
  BY ClockAdvances, Times DEF TimesInv, ClockInv
<1>2. k.pid \in Pids /\ lastSeen'[k.pid] = StreamTime
  BY KindOf, SeenStep
<1>3. m_pOldOccurTime'[k.pid] = OccurTime
  BY <1>2 DEF AddPacket, CheckPid
<1>4. CASE clockStart' = -1
  <2>1. llCurTime = -1 /\ m_llFirstPcr' = -1
    BY <1>1, <1>4 DEF Reading, ClockInv
  <2> QED BY <1>3, <1>4, <2>1 DEF OccurTime, Noted
<1>5. CASE clockStart' # -1
  <2>1. Near(llCurTime, StreamTime, rated', pcrGap') /\ llCurTime \in Nat
    BY <1>1, <1>5 DEF Reading, Near
  <2>2. m_pOldOccurTime'[k.pid] = llCurTime
    BY <1>3, <2>1 DEF OccurTime
  <2>3. StreamTime >= clockStart'
    <3>1. clockStart' \in Nat /\ lastPcr' \in Nat /\ clockStart' <= lastPcr' /\ lastPcr' <= StreamTime' - PacketTime
      BY <1>1, <1>5 DEF ClockInv
    <3>2. PICK n \in Nat, m \in Nat : n = clockStart' /\ m = lastPcr'
      BY <3>1
    <3>3. (StreamTime + PacketTime) - PacketTime = StreamTime
      BY <1>1
    <3>4. n <= m /\ m <= StreamTime
      BY <1>1, <3>1, <3>2, <3>3
    <3> QED BY <1>1, <3>2, <3>4
  <2> QED BY <1>2, <1>5, <2>1, <2>2, <2>3 DEF Noted
<1> QED BY <1>4, <1>5

\* the pids CheckEsPid reports now
Late == IF llCurTime > 0 THEN OverduePids ELSE {}

(* CheckPid keeps the times noted right, and marks only pids it counts. *)
LEMMA OccurStep ==
  ASSUME TimesInv, splices = 0, NEW k \in Stream, AddPacket(k), BeforeWrap'
  PROVE  OccurInv'
<1>1. /\ pidErrors' = [p \in Es(Programs) |->
           IF p = k.pid THEN 0 ELSE IF p \in Late THEN pidErrors[p] + 1 ELSE pidErrors[p]]
      /\ m_pOldOccurTime' = [p \in Pids |->
           IF p = k.pid THEN OccurTime ELSE IF p \in Late THEN -2 ELSE m_pOldOccurTime[p]]
  BY DEF AddPacket, CheckPid, Late, CheckEsPid
<1>2. Late \subseteq Es(Programs)
  BY PsiKept, EsOf DEF Late, OverduePids, TimesInv, AddPacket, PsiInv
<1>3. /\ pidErrors \in [Es(Programs) -> Nat]
      /\ \A p \in Pids : \/ m_pOldOccurTime[p] = -2 /\ p \in Es(Programs) /\ pidErrors[p] > 0
                         \/ m_pOldOccurTime[p] # -2 /\ Noted(p)
  BY DEF TimesInv, OccurInv
<1>4. pidErrors' \in [Es(Programs) -> Nat]
  BY <1>1, <1>3
<1>5. m_pOldOccurTime' = [p \in Pids |-> m_pOldOccurTime'[p]]
  BY <1>1
<1>6. ASSUME NEW p \in Pids
      PROVE  \/ m_pOldOccurTime'[p] = -2 /\ p \in Es(Programs) /\ pidErrors'[p] > 0
             \/ m_pOldOccurTime'[p] # -2 /\ Noted(p)'
  <2>1. CASE p = k.pid
    BY <2>1, NotedNow
  <2>2. CASE p # k.pid /\ p \in Late
    BY <1>1, <1>2, <1>3, <2>2
  <2>3. CASE p # k.pid /\ p \notin Late
    <3>1. m_pOldOccurTime'[p] = m_pOldOccurTime[p] /\ (p \in Es(Programs) => pidErrors'[p] = pidErrors[p])
      BY <1>1, <2>3
    <3>2. CASE m_pOldOccurTime[p] = -2
      BY <1>3, <3>1, <3>2
    <3>3. CASE m_pOldOccurTime[p] # -2
      BY <1>3, <2>3, <3>1, <3>3, NotedKept
    <3> QED BY <3>2, <3>3
  <2> QED BY <2>1, <2>2, <2>3
<1> QED BY <1>4, <1>5, <1>6 DEF OccurInv

(* The clock and the times noted, after a packet. *)
LEMMA InvStep ==
  ASSUME TimesInv, splices = 0, NEW k \in Stream, AddPacket(k), BeforeWrap'
  PROVE  TimesInv'
BY PsiKept, ClockAdvances, SeenStep, OccurStep DEF TimesInv, AddPacket

(* A referred pid that has been away for the timeout and is not marked has
   been reported with this packet. *)
LEMMA MissingStep ==
  ASSUME TimesInv, splices = 0, NEW k \in Stream, AddPacket(k), BeforeWrap'
  PROVE  MissingPidReported'
<1> SUFFICES ASSUME clockStart' # -1, NEW p \in Es(m_vecDemuxInfoBuf'),
                    (Missing(p, StreamTime - PacketTime) > PidTimeout + Slack(Since(p), rated, pcrGap))'
             PROVE  pidErrors'[p] > 0
  BY DEF MissingPidReported
<1>1. /\ TimesInv' /\ Reading /\ Goes /\ StreamTime \in Nat /\ PacketTime \in Nat
      /\ StreamTime' = StreamTime + PacketTime
      /\ PidTimeout \in Nat /\ rated' \in Int /\ pcrGap' \in Nat
  BY InvStep, ClockAdvances, Times DEF TimesInv, ClockInv
<1>2. p \in Es(Programs) /\ p \in Pids
  BY <1>1, EsOf DEF TimesInv, PsiInv
<1>3. StreamTime' - PacketTime = StreamTime
  BY <1>1
<1>4. /\ clockStart' \in Int /\ lastSeen'[p] \in Int
      /\ Since(p)' = IF lastSeen'[p] >= clockStart' THEN lastSeen'[p] ELSE clockStart'
  BY <1>1, <1>2, LargerOf DEF TimesInv, ClockInv, SeenInv, Since
<1>5. PICK since \in Int : since = Since(p)'
  BY <1>4
<1>6. StreamTime - since > PidTimeout + Slack(since, rated', pcrGap')
  BY <1>3, <1>5 DEF Missing
<1>7. PICK slack \in Nat : slack = Slack(since, rated', pcrGap')
  <2>1. PICK r \in Int, gap \in Nat : r = rated' /\ gap = pcrGap'
    BY <1>1
  <2>2. Slack(since, r, gap) \in Nat
    BY <1>1 DEF Slack
  <2> QED BY <2>1, <2>2
<1>8. since < StreamTime
  BY <1>1, <1>6, <1>7
<1>9. p # k.pid
  <2>1. SUFFICES ASSUME p = k.pid
                 PROVE  FALSE
    OBVIOUS
  <2>2. lastSeen'[p] = StreamTime
    BY <2>1, SeenStep
  <2> QED BY <1>1, <1>4, <1>5, <1>8, <2>2
<1>10. clockStart # -1 /\ clockStart' = clockStart
  <2>1. CASE clockStart' = StreamTime
    BY <1>1, <1>4, <1>5, <1>8, <2>1
  <2>2. CASE clockStart' = clockStart
    BY <2>2
  <2> QED BY <1>1, <1>4, <1>5, <1>8, <2>1, <2>2 DEF Goes
<1>11. since = Since(p)
  BY <1>5, <1>9, <1>10, <1>2, SeenStep DEF Since
<1>12. CASE m_pOldOccurTime[p] = -2
  <2>1. pidErrors[p] > 0
    BY <1>2, <1>12 DEF TimesInv, OccurInv
  <2>2. pidErrors[p] \in Nat
    BY <1>2 DEF TimesInv, OccurInv
  <2> QED BY <1>2, <1>9, <2>1, <2>2 DEF AddPacket, CheckPid
<1>13. CASE m_pOldOccurTime[p] # -2
  <2>1. Near(NotedSince(p), since, rated, pcrGap) /\ since \in Nat
    BY <1>2, <1>10, <1>11, <1>13, SinceNoted
  <2>2. /\ diff_pcr(llCurTime, NotedSince(p)) \in Int /\ StreamTime - since \in Int
        /\ Slack(since, rated', pcrGap') = Slack(since, rated, pcrGap')
        /\ (StreamTime - since) - Slack(since, rated, pcrGap') <= diff_pcr(llCurTime, NotedSince(p))
    BY <1>8, <1>10, <2>1, MeasuredNow
  <2>3. PICK d \in Int : d = diff_pcr(llCurTime, NotedSince(p))
    BY <2>2
  <2>4. d > PidTimeout
    BY <1>1, <1>6, <1>7, <2>2, <2>3
  <2>5. m_llFirstPcr' = clockStart'
    BY <1>1 DEF TimesInv, ClockInv
  <2>6. p \in OverduePids
    BY <1>10, <1>13, <2>3, <2>4, <2>5 DEF OverduePids, NotedSince
  <2>7. llCurTime > 0
    BY <1>1 DEF Reading, Near
  <2>8. pidErrors'[p] = pidErrors[p] + 1 /\ pidErrors[p] \in Nat
    BY <1>2, <1>9, <2>6, <2>7 DEF AddPacket, CheckPid, CheckEsPid, TimesInv, OccurInv
  <2> QED BY <2>8
<1> QED BY <1>12, <1>13

(* The interval CheckOccTime measures between two PATs. *)
LEMMA PatStep ==
  ASSUME TimesInv, splices = 0, NEW k \in Stream, AddPacket(k), BeforeWrap', PatPid \notin Es(Programs),
         lastSeen'[PatPid] = StreamTime, clockStart # -1, lastSeen[PatPid] >= clockStart
  PROVE  LET error == Max({patInterval', 0}) - (StreamTime - lastSeen[PatPid])
             slack == Slack(lastSeen[PatPid], rated, pcrGap')
         IN error \in -slack .. slack
<1>1. Reading /\ Goes /\ StreamTime \in Nat
  BY ClockAdvances
<1>2. PatPid \in Pids
  BY DEF Pids
<1>3. clockStart \in Nat /\ lastSeen[PatPid] \in Int /\ lastSeen[PatPid] < StreamTime
  BY <1>2 DEF TimesInv, ClockInv, SeenInv
<1>4. PICK u \in Nat : u = lastSeen[PatPid] /\ u < StreamTime
  BY <1>3
<1>5. k.pid = PatPid
  BY <1>1, <1>2, <1>4, SeenStep
<1>6. Near(m_pOldOccurTime[PatPid], u, rated, pcrGap)
  BY <1>2, <1>4 DEF TimesInv, OccurInv, Noted
<1>7. clockStart' # -1 /\ llCurTime \in Nat
  BY <1>1 DEF Goes, Reading, Near
<1>8. PICK d \in Int, slack \in Nat, away \in Int :
        /\ d = diff_pcr(llCurTime, m_pOldOccurTime[PatPid]) /\ slack = Slack(u, rated, pcrGap')
        /\ away = StreamTime - u /\ d <= away + slack /\ away - slack <= d
  BY <1>4, <1>6, <1>7, MeasuredNow
<1>9. -1 \notin {m_pOldOccurTime[PatPid], llCurTime}
  BY <1>6, <1>7 DEF Near
<1>10. patInterval' = IF d > 0 THEN d ELSE -1
  BY <1>5, <1>8, <1>9 DEF AddPacket, CheckPat
<1>11. Max({patInterval', 0}) = IF d > 0 THEN d ELSE 0
  <2>1. CASE d > 0
    <3>1. Max({d, 0}) = d
      BY <2>1, LargerOf
    <3> QED BY <1>10, <2>1, <3>1
  <2>2. CASE ~(d > 0)
    <3>1. Max({-1, 0}) = 0
      BY LargerOf
    <3> QED BY <1>10, <2>2, <3>1
  <2> QED BY <2>1, <2>2
<1>12. away > 0
  BY <1>1, <1>4, <1>8
<1>13. (IF d > 0 THEN d ELSE 0) - away \in -slack .. slack
  BY <1>8, <1>12
<1> QED BY <1>4, <1>8, <1>11, <1>13

-----------------------------------------------------------------------------
(* The unreferred pids.  A pid on the list has been there since it first occurred,
   or since the clock ran, and no table refers to it; a pid that was reported is
   known, so that it does not come back to the list: the errors are as many as the
   pids they were about. *)

(* A set of numbers that is not empty has a least one: CheckUnreferPid reports it. *)
LEMMA Least ==
  ASSUME NEW S, S \subseteq Nat, S # {}
  PROVE  \E x \in S : \A y \in S : x <= y
<1>1. PICK x \in S : \A y \in S : ~ (<<y, x>> \in OpToRel(<, Nat))
  BY NatLessThanWellFounded, WFMin
<1>2. ASSUME NEW y \in S PROVE x <= y
  <2>1. <<y, x>> \in Nat \X Nat /\ <<y, x>>[1] = y /\ <<y, x>>[2] = x
    OBVIOUS
  <2>2. ~ (y < x)
    BY <1>1, <2>1 DEF OpToRel
  <2> QED BY <2>2
<1> QED BY <1>1, <1>2

Seen == {p \in Pids : firstSeen[p] # -1}

Waits(q) ==
  /\ q \in Pids \ {PatPid} /\ q \in m_pKnownPid /\ referred[q] = -1 /\ firstSeen[q] \in Nat
  /\ m_mapUnReferPid[q] # -1 =>
       /\ clockStart # -1
       /\ \E u \in Nat : firstSeen[q] <= u /\ u < StreamTime /\ Near(m_mapUnReferPid[q], u, rated, pcrGap)

ListInv ==
  /\ firstSeen \in [Pids -> Nat \cup {-1}] /\ \A p \in Pids : firstSeen[p] < StreamTime
  /\ PatPid \in m_pKnownPid
  /\ \A p \in Pids : referred[p] # -1 => p \in m_pKnownPid
  /\ \A q \in DOMAIN m_mapUnReferPid : Waits(q)

ReportInv ==
  /\ unrefErrors \in Nat /\ IsFiniteSet(Seen) /\ overdue \subseteq Seen
  /\ \E R \in SUBSET (overdue \cap m_pKnownPid) :
       R \cap DOMAIN m_mapUnReferPid = {} /\ Cardinality(R) = unrefErrors

\* those of the list that have waited too long
Due == {q \in DOMAIN Waiting : Waiting[q] # -1 /\ diff_pcr(llCurTime, Waiting[q]) > UnreferTimeout}

(* The list of unreferred pids after the tables were parsed. *)
LEMMA WaitingOf ==
  /\ DOMAIN Waiting = DOMAIN m_mapUnReferPid \ NewRefs
  /\ \A q \in DOMAIN Waiting : Waiting[q] = m_mapUnReferPid[q]
  BY DEF Waiting

(* The list after a packet: what stays on it keeps its time or starts now, what
   comes is the packet's pid, and a report takes away one that is due. *)
LEMMA ListSteps ==
  ASSUME NEW k, CheckUnreferPid(k), DOMAIN m_mapUnReferPid \subseteq Nat
  PROVE  /\ m_pKnownPid \cup NewRefs \subseteq m_pKnownPid'
         /\ \A q \in DOMAIN m_mapUnReferPid' :
              \/ q \in DOMAIN m_mapUnReferPid \ NewRefs /\ m_mapUnReferPid'[q] \in {m_mapUnReferPid[q], llCurTime}
              \/ q = k.pid /\ q \notin m_pKnownPid \cup NewRefs /\ q \in m_pKnownPid' /\ m_mapUnReferPid'[q] = llCurTime
         /\ \/ unrefErrors' = unrefErrors
            \/ unrefErrors' = unrefErrors + 1 /\ \E q \in Due : q \notin DOMAIN m_mapUnReferPid'
<1> DEFINE known == m_pKnownPid \cup NewRefs
<1> HIDE DEF known
<1>1. CASE k.pid \in {PatPid} \cup PmtPids(m_vecDemuxInfoBuf')
  <2>1. m_mapUnReferPid' = Waiting /\ m_pKnownPid' = known /\ unrefErrors' = unrefErrors
    BY <1>1 DEF CheckUnreferPid, known
  <2> QED BY <2>1, WaitingOf DEF known
<1>2. CASE k.pid \notin {PatPid} \cup PmtPids(m_vecDemuxInfoBuf') /\ k.pid \notin known
  <2>1. /\ m_mapUnReferPid' = [q \in DOMAIN Waiting \cup {k.pid} |-> IF q = k.pid THEN llCurTime ELSE Waiting[q]]
        /\ m_pKnownPid' = known \cup {k.pid} /\ unrefErrors' = unrefErrors
    BY <1>2 DEF CheckUnreferPid, known
  <2>2. /\ DOMAIN m_mapUnReferPid' = DOMAIN Waiting \cup {k.pid}
        /\ \A q \in DOMAIN Waiting \cup {k.pid} : m_mapUnReferPid'[q] = IF q = k.pid THEN llCurTime ELSE Waiting[q]
    BY <2>1
  <2> QED BY <1>2, <2>1, <2>2, WaitingOf DEF known
<1>3. CASE k.pid \notin {PatPid} \cup PmtPids(m_vecDemuxInfoBuf') /\ k.pid \in known /\ Due = {}
  <2>1. m_mapUnReferPid' = Start(Waiting, Pids) /\ m_pKnownPid' = known /\ unrefErrors' = unrefErrors
    BY <1>3 DEF CheckUnreferPid, known, Due
  <2>2. /\ DOMAIN m_mapUnReferPid' = DOMAIN Waiting
        /\ \A q \in DOMAIN Waiting : m_mapUnReferPid'[q] \in {Waiting[q], llCurTime}
    BY <2>1 DEF Start
  <2> QED BY <2>1, <2>2, WaitingOf DEF known
<1>4. CASE k.pid \notin {PatPid} \cup PmtPids(m_vecDemuxInfoBuf') /\ k.pid \in known /\ Due # {}
  <2>1. PICK least \in Due : least = Min(Due)
    <3>1. Due \subseteq Nat
      BY WaitingOf DEF Due
    <3>2. \E x \in Due : \A y \in Due : x <= y
      BY <1>4, <3>1, Least
    <3> QED BY <3>2 DEF Min
  <2>2. /\ m_mapUnReferPid' = DropReported(Start(Waiting, {q \in Pids : q < least}), least)
        /\ m_pKnownPid' = known /\ unrefErrors' = unrefErrors + 1
    BY <1>4, <2>1 DEF CheckUnreferPid, known, Due
  <2> DEFINE started == Start(Waiting, {q \in Pids : q < least})
  <2>3. /\ DOMAIN started = DOMAIN Waiting
        /\ \A q \in DOMAIN Waiting : started[q] \in {Waiting[q], llCurTime}
    BY DEF Start
  <2> HIDE DEF started
  <2>4. /\ DOMAIN m_mapUnReferPid' = DOMAIN Waiting \ {least}
        /\ \A q \in DOMAIN Waiting \ {least} : m_mapUnReferPid'[q] = started[q]
    BY <2>2, <2>3 DEF DropReported, started
  <2> QED BY <2>1, <2>2, <2>3, <2>4, WaitingOf DEF known
<1> QED BY <1>1, <1>2, <1>3, <1>4

(* The list is ordered, as the std::map of the code is. *)
LEMMA ListInNat ==
  ASSUME ListInv
  PROVE  DOMAIN m_mapUnReferPid \subseteq Nat
  BY PidsAssumption DEF ListInv, Waits

(* The history of a pid's first packet and first reference. *)
LEMMA ObserveSteps ==
  ASSUME TimesInv, ListInv, splices = 0, NEW k \in Stream, AddPacket(k), BeforeWrap'
  PROVE  /\ firstSeen' \in [Pids -> Nat \cup {-1}] /\ \A p \in Pids : firstSeen'[p] < StreamTime'
         /\ firstSeen'[k.pid] \in Nat /\ firstSeen'[k.pid] <= StreamTime
         /\ \A p \in Pids : firstSeen[p] # -1 => firstSeen'[p] = firstSeen[p]
         /\ Seen' \subseteq Seen \cup {k.pid} /\ Seen \subseteq Seen'
         /\ \A p \in Pids \ NewRefs : referred'[p] = referred[p]
<1>1. /\ StreamTime \in Nat /\ StreamTime' = StreamTime + PacketTime /\ PacketTime \in Nat /\ PacketTime >= 1
  BY ClockAdvances, Times DEF TimesInv, ClockInv
<1>2. firstSeen \in [Pids -> Nat \cup {-1}] /\ \A p \in Pids : firstSeen[p] < StreamTime
  BY DEF ListInv
<1>3. /\ k.pid \in Pids
      /\ firstSeen' = [firstSeen EXCEPT ![k.pid] = IF firstSeen[k.pid] = -1 THEN StreamTime ELSE firstSeen[k.pid]]
      /\ referred' = [p \in Pids |-> IF p \in NewRefs /\ referred[p] = -1 THEN StreamTime ELSE referred[p]]
  BY KindOf DEF AddPacket, Observe
<1>4. /\ firstSeen' \in [Pids -> Nat \cup {-1}] /\ firstSeen'[k.pid] \in Nat /\ firstSeen'[k.pid] <= StreamTime
      /\ \A p \in Pids : firstSeen[p] # -1 => firstSeen'[p] = firstSeen[p]
      /\ \A p \in Pids \ {k.pid} : firstSeen'[p] = firstSeen[p]
  BY <1>1, <1>2, <1>3
<1>5. ASSUME NEW p \in Pids
      PROVE  firstSeen'[p] < StreamTime'
  <2>1. PICK n \in Nat \cup {-1} : n = firstSeen'[p] /\ n <= StreamTime
    BY <1>1, <1>2, <1>4
  <2>2. n < StreamTime + PacketTime
    BY <1>1, <2>1
  <2> QED BY <1>1, <2>1, <2>2
<1> QED BY <1>3, <1>4, <1>5 DEF Seen

(* CheckUnreferPid keeps the list right: who is on it was not referred to, since a time that is
   near the one noted. *)
LEMMA ListStep ==
  ASSUME TimesInv, ListInv, splices = 0, NEW k \in Stream, AddPacket(k), BeforeWrap'
  PROVE  ListInv'
<1>1. /\ Reading /\ Goes /\ rated \in Int /\ rated' \in Int /\ pcrGap \in Nat /\ pcrGap' \in Nat
      /\ StreamTime \in Nat /\ (rated' = rated \/ (rated = -1 /\ rated' = StreamTime))
      /\ pcrGap <= pcrGap' /\ StreamTime' = StreamTime + PacketTime /\ PacketTime \in Nat /\ PacketTime >= 1
  BY ClockAdvances, Times DEF TimesInv, ClockInv
<1>2. /\ m_pKnownPid \cup NewRefs \subseteq m_pKnownPid'
      /\ \A q \in DOMAIN m_mapUnReferPid' :
           \/ q \in DOMAIN m_mapUnReferPid \ NewRefs /\ m_mapUnReferPid'[q] \in {m_mapUnReferPid[q], llCurTime}
           \/ q = k.pid /\ q \notin m_pKnownPid \cup NewRefs /\ q \in m_pKnownPid' /\ m_mapUnReferPid'[q] = llCurTime
  <2>1. CheckUnreferPid(k)
    BY DEF AddPacket
  <2> QED BY <2>1, ListInNat, ListSteps
<1>3. /\ firstSeen' \in [Pids -> Nat \cup {-1}] /\ \A p \in Pids : firstSeen'[p] < StreamTime'
      /\ firstSeen'[k.pid] \in Nat /\ firstSeen'[k.pid] <= StreamTime
      /\ \A p \in Pids : firstSeen[p] # -1 => firstSeen'[p] = firstSeen[p]
      /\ \A p \in Pids \ NewRefs : referred'[p] = referred[p]
  BY ObserveSteps
<1>4. StreamTime < StreamTime'
  BY <1>1
<1>5. ASSUME NEW q, firstSeen'[q] \in Nat, firstSeen'[q] <= StreamTime, llCurTime # -1
      PROVE  /\ clockStart' # -1
             /\ \E u \in Nat : firstSeen'[q] <= u /\ u < StreamTime' /\ Near(llCurTime, u, rated', pcrGap')
  BY <1>1, <1>4, <1>5 DEF Reading
<1>6. ASSUME NEW q \in DOMAIN m_mapUnReferPid' PROVE Waits(q)'
  <2>1. CASE /\ q \in DOMAIN m_mapUnReferPid \ NewRefs
             /\ m_mapUnReferPid'[q] \in {m_mapUnReferPid[q], llCurTime}
    <3>1. /\ q \in Pids \ {PatPid} /\ q \in m_pKnownPid /\ referred[q] = -1 /\ firstSeen[q] \in Nat
          /\ m_mapUnReferPid[q] # -1 =>
               /\ clockStart # -1
               /\ \E u \in Nat : firstSeen[q] <= u /\ u < StreamTime /\ Near(m_mapUnReferPid[q], u, rated, pcrGap)
      BY <2>1 DEF ListInv, Waits
    <3>2. q \in m_pKnownPid' /\ referred'[q] = -1 /\ firstSeen'[q] = firstSeen[q]
      BY <1>2, <1>3, <2>1, <3>1
    <3>3. firstSeen'[q] \in Nat /\ firstSeen'[q] <= StreamTime
      <4>1. firstSeen[q] < StreamTime
        BY <3>1 DEF ListInv
      <4> QED BY <1>1, <3>1, <3>2, <4>1
    <3>4. CASE m_mapUnReferPid'[q] = llCurTime
      BY <1>5, <3>1, <3>2, <3>3, <3>4 DEF Waits
    <3>5. CASE m_mapUnReferPid'[q] = m_mapUnReferPid[q] /\ m_mapUnReferPid[q] # -1
      <4>1. clockStart' # -1
        BY <1>1, <3>1, <3>5 DEF Goes
      <4>2. PICK u \in Nat : firstSeen[q] <= u /\ u < StreamTime /\ Near(m_mapUnReferPid[q], u, rated, pcrGap)
        BY <3>1, <3>5
      <4>3. PICK t \in Nat, r \in Int, gap \in Nat, s \in Int, later \in Nat,
              x \in {m_mapUnReferPid[q]} :
              t = StreamTime /\ r = rated /\ gap = pcrGap /\ s = rated' /\ later = pcrGap'
        BY <1>1
      <4>4. u \in Int /\ Near(x, u, r, gap) /\ u < t /\ (s = r \/ (r = -1 /\ s = t)) /\ gap <= later
        BY <1>1, <4>2, <4>3
      <4>5. Near(x, u, s, later)
        BY <4>4, NearLater
      <4>6. u < StreamTime'
        BY <1>1, <4>2
      <4>7. Near(m_mapUnReferPid[q], u, rated', pcrGap')
        BY <4>3, <4>5
      <4> QED BY <3>1, <3>2, <3>3, <3>5, <4>1, <4>2, <4>6, <4>7 DEF Waits
    <3>6. CASE m_mapUnReferPid'[q] = -1
      BY <3>1, <3>2, <3>3, <3>6 DEF Waits
    <3> QED BY <2>1, <3>4, <3>5, <3>6
  <2>2. CASE q = k.pid /\ q \notin m_pKnownPid \cup NewRefs /\ q \in m_pKnownPid' /\ m_mapUnReferPid'[q] = llCurTime
    <3>1. q \in Pids \ {PatPid} /\ referred[q] = -1
      BY <2>2, KindOf DEF ListInv
    <3>2. referred'[q] = -1 /\ firstSeen'[q] \in Nat /\ firstSeen'[q] <= StreamTime
      BY <1>3, <2>2, <3>1
    <3> QED BY <1>5, <2>2, <3>1, <3>2 DEF Waits
  <2> QED BY <1>2, <2>1, <2>2
<1>7. PatPid \in m_pKnownPid' /\ \A p \in Pids : referred'[p] # -1 => p \in m_pKnownPid'
  BY <1>2, <1>3 DEF ListInv
<1> QED BY <1>3, <1>6, <1>7 DEF ListInv

(* A pid that has waited too long since u has done so since it first occurred. *)
LEMMA LongerSince ==
  ASSUME NEW t \in Nat, NEW f \in Nat, NEW u \in Nat, f <= u, NEW r \in Int, NEW gap \in Nat,
         NEW d \in Int, NEW limit \in Int, d > limit, d <= (t - u) + Slack(u, r, gap)
  PROVE  (t - f) + Slack(f, r, gap) > limit
<1>1. PacketTime \in Nat
  BY TimesAssumption
<1>2. PICK p \in Nat : p = PacketTime
  BY <1>1
<1> QED BY <1>2 DEF Slack

(* A pid that is due is one the error may be about. *)
LEMMA DueIsOverdue ==
  ASSUME TimesInv, ListInv, splices = 0, NEW k \in Stream, AddPacket(k), BeforeWrap', NEW q \in Due
  PROVE  q \in overdue'
<1>1. /\ Goes /\ rated' \in Int /\ pcrGap' \in Nat /\ StreamTime \in Nat
  BY ClockAdvances
<1>2. /\ q \in DOMAIN m_mapUnReferPid \ NewRefs /\ m_mapUnReferPid[q] # -1
      /\ diff_pcr(llCurTime, m_mapUnReferPid[q]) > UnreferTimeout
  BY WaitingOf DEF Due
<1>3. /\ q \in Pids \ {PatPid} /\ referred[q] = -1 /\ firstSeen[q] \in Nat /\ clockStart # -1
      /\ \E u \in Nat : firstSeen[q] <= u /\ u < StreamTime /\ Near(m_mapUnReferPid[q], u, rated, pcrGap)
  BY <1>2 DEF ListInv, Waits
<1>4. PICK u \in Nat : firstSeen[q] <= u /\ u < StreamTime /\ Near(m_mapUnReferPid[q], u, rated, pcrGap)
  BY <1>3
<1>5. clockStart' # -1
  BY <1>1, <1>3 DEF Goes
<1>6. /\ diff_pcr(llCurTime, m_mapUnReferPid[q]) \in Int
      /\ Slack(u, rated', pcrGap') = Slack(u, rated, pcrGap')
      /\ diff_pcr(llCurTime, m_mapUnReferPid[q]) <= (StreamTime - u) + Slack(u, rated, pcrGap')
  BY <1>4, <1>5, MeasuredNow
<1>7. PICK d \in Int, r \in Int, gap \in Nat, f \in Nat, t \in Nat :
        /\ d = diff_pcr(llCurTime, m_mapUnReferPid[q]) /\ r = rated' /\ gap = pcrGap'
        /\ f = firstSeen[q] /\ t = StreamTime
  BY <1>1, <1>3, <1>6
<1>8. (t - f) + Slack(f, r, gap) > UnreferTimeout
  <2>1. d > UnreferTimeout /\ d <= (t - u) + Slack(u, r, gap) /\ f <= u /\ UnreferTimeout \in Int
    BY <1>2, <1>4, <1>6, <1>7, TimesAssumption
  <2> QED BY <2>1, LongerSince
<1>9. firstSeen'[q] = firstSeen[q] /\ referred'[q] = -1 /\ firstSeen[q] # -1
  BY <1>2, <1>3, ObserveSteps
<1>10. (StreamTime - firstSeen'[q]) + Slack(firstSeen'[q], rated', pcrGap') > UnreferTimeout
  BY <1>7, <1>8, <1>9
<1> QED BY <1>3, <1>9, <1>10 DEF AddPacket, Observe

(* An error about an unreferred pid adds a pid of its own. *)
LEMMA ReportStep ==
  ASSUME TimesInv, ListInv, ReportInv, splices = 0, NEW k \in Stream, AddPacket(k), BeforeWrap'
  PROVE  ReportInv'
<1>1. Seen' \subseteq Seen \cup {k.pid} /\ Seen \subseteq Seen' /\ IsFiniteSet(Seen)
  BY ObserveSteps DEF ReportInv
<1>2. IsFiniteSet(Seen')
  BY <1>1, FS_AddElement, FS_Subset
<1>3. overdue \subseteq overdue' /\ overdue' \subseteq Seen'
  BY <1>1 DEF AddPacket, Observe, Seen, ReportInv
<1>4. /\ m_pKnownPid \cup NewRefs \subseteq m_pKnownPid'
      /\ DOMAIN m_mapUnReferPid' \cap m_pKnownPid \subseteq DOMAIN m_mapUnReferPid
      /\ \/ unrefErrors' = unrefErrors
         \/ unrefErrors' = unrefErrors + 1 /\ \E q \in Due : q \notin DOMAIN m_mapUnReferPid'
  <2>1. CheckUnreferPid(k)
    BY DEF AddPacket
  <2> QED BY <2>1, ListInNat, ListSteps
<1>5. PICK R \in SUBSET (overdue \cap m_pKnownPid) :
        R \cap DOMAIN m_mapUnReferPid = {} /\ Cardinality(R) = unrefErrors
  BY DEF ReportInv
<1>6. IsFiniteSet(R) /\ unrefErrors \in Nat
  BY <1>5, FS_Subset DEF ReportInv
<1>7. R \in SUBSET (overdue' \cap m_pKnownPid') /\ R \cap DOMAIN m_mapUnReferPid' = {}
  BY <1>3, <1>4, <1>5
<1>8. CASE unrefErrors' = unrefErrors
  BY <1>2, <1>3, <1>5, <1>6, <1>7, <1>8 DEF ReportInv
<1>9. CASE unrefErrors' = unrefErrors + 1 /\ \E q \in Due : q \notin DOMAIN m_mapUnReferPid'
  <2>1. PICK q \in Due : q \notin DOMAIN m_mapUnReferPid'
    BY <1>9
  <2>2. q \in overdue' /\ q \in DOMAIN m_mapUnReferPid
    BY DueIsOverdue, WaitingOf DEF Due
  <2>3. q \in m_pKnownPid'
    BY <1>4, <2>2 DEF ListInv, Waits
  <2>4. q \notin R
    BY <1>5, <2>2
  <2>5. Cardinality(R \cup {q}) = unrefErrors'
    BY <1>5, <1>6, <1>9, <2>4, FS_AddElement
  <2>6. R \cup {q} \in SUBSET (overdue' \cap m_pKnownPid') /\ (R \cup {q}) \cap DOMAIN m_mapUnReferPid' = {}
    BY <1>7, <2>1, <2>2, <2>3
  <2>7. unrefErrors' \in Nat
    BY <1>6, <1>9
  <2> QED BY <1>2, <1>3, <2>5, <2>6, <2>7 DEF ReportInv
<1> QED BY <1>4, <1>8, <1>9

-----------------------------------------------------------------------------
(* Until the PCR jumps. *)
DemuxInv ==
  /\ splices \in Nat /\ arrived \in Nat
  /\ MissingPidReported
  /\ splices = 0 => TimesInv /\ ListInv /\ ReportInv

(* No packet has arrived. *)
LEMMA InitDemuxInv == DemuxInit => DemuxInv
<1> SUFFICES ASSUME DemuxInit PROVE DemuxInv
  OBVIOUS
<1>1. splices = 0 /\ arrived = 0 /\ clockStart = -1 /\ arrived \in Nat
  BY DEF DemuxInit
<1>2. StreamTime \in Nat /\ StreamTime >= 1
  BY <1>1, Times
<1>3. PsiInv /\ ClockInv
  BY <1>1 DEF DemuxInit, PsiInv, ClockInv
<1>4. SeenInv /\ OccurInv
  BY <1>1, <1>2 DEF DemuxInit, SeenInv, OccurInv, Noted
<1>5. ListInv
  BY <1>1, <1>2 DEF DemuxInit, ListInv
<1>6. ReportInv
  <2>1. Seen = {} /\ overdue = {} /\ unrefErrors = 0 /\ DOMAIN m_mapUnReferPid = {}
    BY DEF DemuxInit, Seen
  <2>2. {} \in SUBSET (overdue \cap m_pKnownPid) /\ {} \cap DOMAIN m_mapUnReferPid = {} /\ Cardinality({}) = unrefErrors
    BY <2>1, FS_EmptySet
  <2> QED BY <2>1, <2>2, FS_EmptySet DEF ReportInv
<1>7. MissingPidReported
  BY <1>1 DEF MissingPidReported
<1> QED BY <1>1, <1>3, <1>4, <1>5, <1>6, <1>7 DEF DemuxInv, TimesInv

(* A stuttering step keeps the invariant. *)
LEMMA StutterDemuxInv ==
  ASSUME DemuxInv, UNCHANGED demuxVars
  PROVE  DemuxInv'
<1> USE DEF demuxVars, psiVars, clockVars, pidVars, seenVars, errorVars
<1>1. StreamTime' = StreamTime
  BY DEF StreamTime
<1>2. PsiInv' = PsiInv /\ SeenInv' = SeenInv /\ OccurInv' = OccurInv
  BY <1>1 DEF PsiInv, SeenInv, OccurInv, Noted
<1>3. ClockInv' = ClockInv
  BY <1>1 DEF ClockInv
<1>4. ListInv' = ListInv
  BY <1>1 DEF ListInv, Waits
<1>5. ReportInv' = ReportInv
  BY DEF ReportInv, Seen
<1>6. MissingPidReported' = MissingPidReported
  BY <1>1 DEF MissingPidReported, Missing, Since
<1> QED BY <1>2, <1>3, <1>4, <1>5, <1>6 DEF DemuxInv, TimesInv

(* Every step keeps the invariant; a splice by ending what it says of times. *)
LEMMA NextDemuxInv == DemuxInv /\ [DemuxNext]_demuxVars /\ BeforeWrap' => DemuxInv'
<1> SUFFICES ASSUME DemuxInv, [DemuxNext]_demuxVars, BeforeWrap' PROVE DemuxInv'
  OBVIOUS
<1>1. ASSUME NEW k \in Stream, AddPacket(k) PROVE DemuxInv'
  <2>1. arrived' = arrived + 1 /\ splices' = splices /\ splices \in Nat /\ arrived' \in Nat
    BY <1>1 DEF AddPacket, DemuxInv
  <2>2. CASE splices = 0
    <3>1. TimesInv /\ ListInv /\ ReportInv
      BY <2>2 DEF DemuxInv
    <3> QED BY <1>1, <2>1, <2>2, <3>1, InvStep, ListStep, ReportStep, MissingStep DEF DemuxInv
  <2>3. CASE splices # 0
    BY <2>1, <2>3 DEF DemuxInv, MissingPidReported
  <2> QED BY <2>2, <2>3
<1>2. CASE Splice
  <2>1. arrived' = arrived /\ splices' = splices + 1 /\ splices \in Nat /\ arrived \in Nat
    BY <1>2 DEF Splice, DemuxInv
  <2>2. splices' \in Nat /\ splices' # 0
    BY <2>1
  <2> QED BY <2>1, <2>2 DEF DemuxInv, MissingPidReported
<1>3. CASE Finished \/ UNCHANGED demuxVars
  BY <1>3, StutterDemuxInv DEF Finished
<1> QED BY <1>1, <1>2, <1>3 DEF DemuxNext

(* The invariant the theorems about time rest on. *)
THEOREM ClockIsTrue == DemuxSpec /\ []BeforeWrap => []DemuxInv
  BY InitDemuxInv, NextDemuxInv, PTL DEF DemuxSpec

(* Until the PCR jumps or wraps, a referred pid that has been away for the timeout
   has been reported. *)
THEOREM MissingAreReported == DemuxSpec /\ []BeforeWrap => []MissingPidReported
<1>1. DemuxInv => MissingPidReported
  BY DEF DemuxInv
<1> QED BY <1>1, ClockIsTrue, PTL

(* And it is reported only when it has been. *)
THEOREM ReportedAreMissing == DemuxSpec /\ []BeforeWrap => PidErrorIsTrue
<1>1. DemuxInv /\ [DemuxNext]_demuxVars /\ BeforeWrap' =>
        [splices' = 0 => \A p \in alarms' :
           Missing(p, StreamTime) + Slack(Since(p), rated, pcrGap') > PidTimeout]_demuxVars
  <2> SUFFICES ASSUME DemuxInv, DemuxNext, BeforeWrap', splices' = 0, NEW p \in alarms'
               PROVE  Missing(p, StreamTime) + Slack(Since(p), rated, pcrGap') > PidTimeout \/ UNCHANGED demuxVars
    OBVIOUS
  <2>1. ASSUME NEW k \in Stream, AddPacket(k)
        PROVE  Missing(p, StreamTime) + Slack(Since(p), rated, pcrGap') > PidTimeout
    <3>1. splices = 0 /\ TimesInv
      BY <2>1 DEF AddPacket, DemuxInv
    <3>2. alarms' = IF llCurTime > 0 THEN OverduePids ELSE {}
      BY <2>1 DEF AddPacket, CheckPid, CheckEsPid
    <3>3. p \in OverduePids /\ llCurTime > 0
      BY <3>2
    <3> QED BY <2>1, <3>1, <3>3, LateIsTrue
  <2>2. ~ Splice
    <3>1. splices \in Nat
      BY DEF DemuxInv
    <3> QED BY <3>1 DEF Splice
  <2> QED BY <2>1, <2>2 DEF DemuxNext, Finished
<1> QED BY <1>1, ClockIsTrue, PTL DEF DemuxSpec, PidErrorIsTrue

(* Until the PCR jumps or wraps, every error about an unreferred pid stands for a
   pid of its own that no table referred to for the timeout. *)
THEOREM UnreferencedAreOverdue == DemuxSpec /\ []BeforeWrap => []UnreferencedPidsCounted
<1>1. DemuxInv => UnreferencedPidsCounted
  <2> SUFFICES ASSUME DemuxInv, splices = 0 PROVE unrefErrors <= Cardinality(overdue)
    BY DEF UnreferencedPidsCounted
  <2>1. IsFiniteSet(overdue) /\ \E R \in SUBSET overdue : Cardinality(R) = unrefErrors
    BY FS_Subset DEF DemuxInv, ReportInv
  <2> QED BY <2>1, FS_Subset
<1> QED BY <1>1, ClockIsTrue, PTL

(* Until the PCR jumps or wraps, the interval between two PATs is the true one, if
   no PMT calls pid 0 an elementary stream. *)
THEOREM PatIntervalIsTrue ==
  ASSUME PatPid \notin Es(Programs)
  PROVE  DemuxSpec /\ []BeforeWrap => PatIntervalMeasured
<1> DEFINE Measure ==
      arrived' > arrived /\ splices = 0 /\ lastSeen'[PatPid] = StreamTime
        /\ clockStart # -1 /\ lastSeen[PatPid] >= clockStart
      => LET error == Max({patInterval', 0}) - (StreamTime - lastSeen[PatPid])
             slack == Slack(lastSeen[PatPid], rated, pcrGap')
         IN error \in -slack .. slack
<1>1. DemuxInv /\ [DemuxNext]_demuxVars /\ BeforeWrap' => [Measure]_demuxVars
  <2> SUFFICES ASSUME DemuxInv, DemuxNext, BeforeWrap', arrived' > arrived, splices = 0,
                      lastSeen'[PatPid] = StreamTime, clockStart # -1, lastSeen[PatPid] >= clockStart
               PROVE  Measure
    OBVIOUS
  <2>1. arrived \in Nat /\ TimesInv
    BY DEF DemuxInv
  <2>2. PICK k \in Stream : AddPacket(k)
    <3>1. Splice \/ Finished => arrived' = arrived
      BY DEF Splice, Finished, demuxVars
    <3> QED BY <2>1, <3>1 DEF DemuxNext
  <2> QED BY <2>1, <2>2, PatStep
<1> QED BY <1>1, ClockIsTrue, PTL DEF DemuxSpec, PatIntervalMeasured
=============================================================================
