-------------------------------- MODULE SysClock -------------------------------
(***************************************************************************)
(* CSysClock (libtr101290), the time every check of an interval reads: the *)
(* last PCR and, once two PCRs gave a rate, what the packets counted since *)
(* amount to.  Without a rate it stands still at the last PCR: from the    *)
(* first PCR to the second, and for ever when each PCR is more than 10 ms  *)
(* from what the clock shows.                                              *)
(*                                                                         *)
(* A clock is a record [before, packets, rate]: the last PCR, the packets  *)
(* since, and the rate as <<packets, time they took>>.                     *)
(***************************************************************************)
EXTENDS Integers

CONSTANTS
  PcrMax,     \* PCR_MAX
  WrapWindow, \* 27000000, one second
  Tolerance   \* 270000, 10 ms

NoRate == <<0, 0>>
ResetClock == [before |-> -1, packets |-> 0, rate |-> NoRate]

\* tr101290::diff_pcr: the time from prev to cur
diff_pcr(cur, prev) ==
  IF cur > prev \/ PcrMax - prev > WrapWindow THEN cur - prev ELSE PcrMax - prev + cur

\* mutant: the packets before a PCR are counted again after it
AddPcrPacketKeep(clock, pcr) ==
  IF clock.before < 0
    THEN [clock EXCEPT !.before = pcr, !.packets = 1]
    ELSE [before |-> pcr, packets |-> clock.packets,
          rate |-> <<clock.packets, pcr - clock.before>>]

AddPcrPacket(clock, pcr) ==
  IF clock.before < 0
    THEN [clock EXCEPT !.before = pcr, !.packets = 1]
    ELSE [before |-> pcr, packets |-> 1,
          rate |-> <<clock.packets, IF pcr < clock.before THEN PcrMax - clock.before + pcr
                                                          ELSE pcr - clock.before>>]

AddPayloadPacket(clock) ==
  IF clock.before = -1 THEN clock ELSE [clock EXCEPT !.packets = @ + 1]

GetPcr(clock) ==
  IF clock.rate = NoRate THEN clock.before
  ELSE (clock.before + (clock.packets * clock.rate[2]) \div clock.rate[1]) % (PcrMax + 1)

\* CDemux::UpdateClock, before a PCR is added: a clock more than 10 ms off starts again
Checked(clock, pcr) ==
  LET calc == GetPcr(clock)
      d == diff_pcr(calc, pcr)
  IN IF calc >= 0 /\ (d > Tolerance \/ -d > Tolerance) THEN ResetClock ELSE clock
=============================================================================
