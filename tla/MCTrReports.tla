------------------------------ MODULE MCTrReports ------------------------------
(* Four streams for the counts: a NIT with PCR reports; a NIT, and an RST on a pid
   that checks it; a BAT, whole and damaged, with a NIT; two services' EIT
   present/following.  Two for the clock, whose PCR may jump within the tolerance
   and beyond it: a TDT; a TDT and a TOT. *)
EXTENDS TrReports
S(pid, table, service, number, valid) ==
  [pid |-> pid, table |-> table, service |-> service, number |-> number, valid |-> valid]
Nit == S("nit", "nit_act", 0, 0, TRUE)
Bat == S("sdt", "bat", 0, 0, TRUE)
Tdt == S("tdt", "tdt", 0, 0, TRUE)
Tot == S("tdt", "tot", 0, 0, TRUE)
Counting(sections, others) ==
  [sections |-> sections, others |-> others, reports |-> 4, time |-> 4, offsets |-> {1}]
Timed(sections, n) ==
  [sections |-> sections, others |-> {}, reports |-> 3, time |-> n, offsets |-> {2, 3, 20}]
MCMuxes ==
  {Counting({Nit}, {Msg("pcr", "none", v, f) : v \in {2, 7}, f \in BOOLEAN}),
   Counting({Nit, S("sdt", "rst", 0, 0, TRUE)}, {}),
   Counting({Nit, Bat, [Bat EXCEPT !.valid = FALSE]}, {}),
   Counting({S("eit", "eit_act_pf", s, n, TRUE) : s \in {1, 2}, n \in {0, 1}}, {}),
   Timed({Tdt}, 8), Timed({Tdt, Tot}, 5)}
MCPsiTimeOut == [t \in Tables |-> IF t \in {"tdt", "tot"} THEN 4 ELSE 2]
=============================================================================
