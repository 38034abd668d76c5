---------------------------- MODULE SubarrayDram ----------------------------
(***************************************************************************)
(* The tables of the designs that divide a bank into subarrays, each with  *)
(* a row buffer.  SALP (SALP.h, SALP.cpp; type is SALP_1, SALP_2 or MASA): *)
(* SALP_1 keeps one subarray of a bank open; SALP_2 opens a second one     *)
(* before it closes the first; MASA keeps many open and selects the one to *)
(* access.  DSARP (DSARP.h, DSARP.cpp; type is REFAB, REFPB, DARP, SARP or *)
(* DSARP): refreshes go to a whole rank (REFAB) or to one bank (the        *)
(* others), and, in SARP and DSARP, leave the other subarrays of the bank  *)
(* free.                                                                   *)
(***************************************************************************)
EXTENDS DramRules

CONSTANT type, n_sa   \* the scheme, and the number of subarrays of a bank

Levels == <<"Channel", "Rank", "Bank", "SubArray", "Row", "Column">>

is_opening == {"ACT"}

is_accessing == {"RD", "WR", "RDA", "WRA"}

\* The rows of a bank are shared out among its subarrays.
Divided(o) ==
  [o EXCEPT !.count["SubArray"] = n_sa,
            !.count["Row"] = (o.size * 2^10)
               \div ((o.dq * o.count["Bank"] * n_sa * o.count["Column"]) \div 2^10)]

-----------------------------------------------------------------------------
(* SALP                                                                    *)

scope_SALP ==
  [ACT |-> "Row", SASEL |-> "SubArray", PRE |-> IF type = "SALP_1" THEN "Bank" ELSE "SubArray", PRER |-> "Rank",
   RD |-> "Column", WR |-> "Column", RDA |-> "Column", WRA |-> "Column",
   REF |-> "Rank", PDE |-> "Rank", PDX |-> "Rank", SRE |-> "Rank",
   SRX |-> "Rank", PRE_OTHER |-> "SubArray"]

is_closing_SALP == {"RDA", "WRA", "PRE", "PRER", "PRE_OTHER"}

translate_SALP ==
  [READ |-> "RD", WRITE |-> "WR", REFRESH |-> "REF", POWERDOWN |-> "PDE",
   SELFREFRESH |-> "SRE"]

Sub(rank, a) == rank.banks[a.bank].subs[a.sub]

\* Every subarray of a rank.
AllSubs(rank) == UNION {Subs(bank) : bank \in Banks(rank)}

\* The other subarrays of the bank in a state.
Others(rank, a, state) ==
  {i \in DOMAIN rank.banks[a.bank].subs \ {a.sub} :
     rank.banks[a.bank].subs[i].state = state}

\* A mutant of AccessSub: SALP_2 precharges another subarray that is not open.
AccessSubAlways(cmd, rank, a) ==
  IF type = "SALP_2" /\ Sub(rank, a).state = "Opened" THEN "PRE_OTHER"
    ELSE OpenRow(Sub(rank, a), a.row, cmd, "ACT", "PRE")

\* What an access needs of the row buffers of its bank.
AccessSub(cmd, rank, a) ==
  LET sub == Sub(rank, a)
      hit == a.row \in sub.rows
  IN  CASE type = "SALP_1" ->
             IF hit THEN cmd ELSE IF sub.rows # {} THEN "PRE" ELSE "PRE_OTHER"
        [] type = "SALP_2" ->
             IF hit /\ sub.state = "Opened" /\ Others(rank, a, "Opened") # {}
               THEN "PRE_OTHER" ELSE OpenRow(sub, a.row, cmd, "ACT", "PRE")
        [] type = "MASA" ->
             CASE sub.state = "Closed" -> "ACT"
               [] ~hit -> "PRE"
               [] sub.state = "Opened" -> "SASEL"
               [] sub.state = "Selected" -> cmd

prereq_SALP(level, cmd, rank, a) ==
  CASE level = "Rank" /\ cmd \in {"RD", "WR"} -> Awake(rank, "PDX", "SRX")
    [] level = "Bank" /\ cmd \in {"RD", "WR"} /\ type = "SALP_1" ->
         IF rank.banks[a.bank].state = "Closed" THEN "ACT" ELSE MAX
    [] level = "SubArray" /\ cmd \in {"RD", "WR"} -> AccessSub(cmd, rank, a)
    [] level = "Rank" /\ cmd = "REF" ->
         AllClosed(IF type = "SALP_1" THEN Banks(rank) ELSE AllSubs(rank), "REF", "PRER")
    [] level = "Rank" /\ cmd = "PDE" -> EnterPowerDown(rank, "PDE", "SRX")
    [] level = "Rank" /\ cmd = "SRE" -> EnterSelfRefresh(rank, "SRE", "PDX")
    [] OTHER -> MAX

rowhit_SALP(cmd, rank, a) == cmd \in {"RD", "WR"} /\ HitsRow(Sub(rank, a), a.row)

rowopen_SALP(cmd, rank, a) ==
  /\ cmd \in {"RD", "WR"}
  /\ RowIsOpen(IF type = "SALP_1" THEN rank.banks[a.bank] ELSE Sub(rank, a))

\* The subarray takes the selection from the first other one that has it.
Selecting(rank, a) ==
  LET selected == Others(rank, a, "Selected")
      first == CHOOSE i \in selected : \A j \in selected : i <= j
  IN  IF selected = {} THEN rank
        ELSE [rank EXCEPT !.banks[a.bank].subs[first].state = "Opened"]

lambda_SALP(level, cmd, rank, a) ==
  LET one == type = "SALP_1"
      closing == {"PRE", "RDA", "WRA"} \cup (IF type = "MASA" THEN {} ELSE {"PRE_OTHER"})
  IN  CASE level = "Bank" /\ cmd = "ACT" /\ one ->
             [rank EXCEPT !.banks[a.bank].state = "Opened"]
        [] level = "Bank" /\ cmd \in closing /\ one ->
             [rank EXCEPT !.banks[a.bank].state = "Closed", !.banks[a.bank].subs[a.sub] = Close(@)]
        [] level = "SubArray" /\ cmd = "ACT" /\ type # "MASA" ->
             [rank EXCEPT !.banks[a.bank].subs[a.sub] = Open(@, a.row, "Opened")]
        [] level = "SubArray" /\ cmd = "ACT" /\ type = "MASA" ->
             Selecting([rank EXCEPT !.banks[a.bank].subs[a.sub] = Open(@, a.row, "Selected")], a)
        [] level = "SubArray" /\ cmd = "SASEL" /\ type = "MASA" ->
             Selecting([rank EXCEPT !.banks[a.bank].subs[a.sub].state = "Selected"], a)
        [] level = "SubArray" /\ cmd \in closing /\ ~one ->
             [rank EXCEPT !.banks[a.bank].subs[a.sub] = Close(@)]
        [] level = "Rank" /\ cmd = "PRER" ->
             [rank EXCEPT !.banks = [b \in DOMAIN @ |-> CloseSubs(Close(@[b]))]]
        [] level = "Rank" /\ cmd = "PDE" ->
             PowerDown(rank, IF one THEN Banks(rank) ELSE AllSubs(rank))
        [] level = "Rank" /\ cmd \in {"PDX", "SRX"} -> PowerUp(rank)
        [] level = "Rank" /\ cmd = "SRE" -> SelfRefresh(rank)
        [] OTHER -> rank

\* The subarray a PRE_OTHER is sent to: the first other one that is open, and
\* subarray 0 when there is none.
get_offending_subarray(rank, a) ==
  LET open == Others(rank, a, "Opened")
  IN  [a EXCEPT !.row = -1,
                !.sub = IF open = {} THEN 0 ELSE CHOOSE i \in open : \A j \in open : i <= j]

org_table_SALP ==
  <<<<512, 4, 0, 0, 8, 0, 0, 2^11>>, <<512, 8, 0, 0, 8, 0, 0, 2^10>>,
    <<512, 16, 0, 0, 8, 0, 0, 2^10>>, <<2^10, 4, 0, 0, 8, 0, 0, 2^11>>,
    <<2^10, 8, 0, 0, 8, 0, 0, 2^10>>, <<2^10, 16, 0, 0, 8, 0, 0, 2^10>>,
    <<2 * 2^10, 4, 0, 0, 8, 0, 0, 2^11>>,
    <<2 * 2^10, 8, 0, 0, 8, 0, 0, 2^10>>,
    <<2 * 2^10, 16, 0, 0, 8, 0, 0, 2^10>>,
    <<4 * 2^10, 4, 0, 0, 8, 0, 0, 2^11>>,
    <<4 * 2^10, 8, 0, 0, 8, 0, 0, 2^10>>,
    <<4 * 2^10, 16, 0, 0, 8, 0, 0, 2^10>>,
    <<8 * 2^10, 4, 0, 0, 8, 0, 0, 2^12>>,
    <<8 * 2^10, 8, 0, 0, 8, 0, 0, 2^11>>,
    <<8 * 2^10, 16, 0, 0, 8, 0, 0, 2^10>>>>

speed_fields_SALP ==
  <<"rate", "nBL", "nCCD", "nRTRS", "nCL", "nRCD", "nRP", "nPA", "nCWL",
    "nRAS", "nRC", "nRTP", "nWTR", "nWR", "nRA", "nWA", "nRRD", "nFAW",
    "nRFC", "nREFI", "nPD", "nXP", "nXPDLL", "nCKESR", "nXS", "nXSDLL",
    "nSCD">>

speed_table_SALP ==
  <<<<800, 4, 4, 2, 5, 5, 5, 1, 5, 15, 20, 4, 4, 6, 3, 12, 0, 0, 0, 3120, 3, 3, 10, 4, 0, 512, 1>>,
    <<800, 4, 4, 2, 6, 6, 6, 1, 5, 15, 21, 4, 4, 6, 3, 12, 0, 0, 0, 3120, 3, 3, 10, 4, 0, 512, 1>>,
    <<1066, 4, 4, 2, 6, 6, 6, 1, 6, 20, 26, 4, 4, 8, 3, 14, 0, 0, 0, 4160, 3, 4, 13, 4, 0, 512, 1>>,
    <<1066, 4, 4, 2, 7, 7, 7, 1, 6, 20, 27, 4, 4, 8, 4, 14, 0, 0, 0, 4160, 3, 4, 13, 4, 0, 512, 1>>,
    <<1066, 4, 4, 2, 8, 8, 8, 1, 6, 20, 28, 4, 4, 8, 4, 14, 0, 0, 0, 4160, 3, 4, 13, 4, 0, 512, 1>>,
    <<1333, 4, 4, 2, 8, 8, 8, 1, 7, 24, 32, 5, 5, 10, 4, 16, 0, 0, 0, 5200, 4, 4, 16, 5, 0, 512, 1>>,
    <<1333, 4, 4, 2, 9, 9, 9, 1, 7, 24, 33, 5, 5, 10, 5, 16, 0, 0, 0, 5200, 4, 4, 16, 5, 0, 512, 1>>,
    <<1600, 4, 4, 2, 9, 9, 9, 1, 8, 28, 37, 6, 6, 12, 5, 18, 0, 0, 0, 6240, 4, 5, 20, 5, 0, 512, 1>>,
    <<1600, 4, 4, 2, 10, 10, 10, 1, 8, 28, 38, 6, 6, 12, 5, 18, 0, 0, 0, 6240, 4, 5, 20, 5, 0, 512, 1>>,
    <<1600, 4, 4, 2, 11, 11, 11, 1, 8, 28, 39, 6, 6, 12, 6, 18, 0, 0, 0, 6240, 4, 5, 20, 5, 0, 512, 1>>,
    <<1866, 4, 4, 2, 11, 11, 11, 1, 9, 32, 43, 7, 7, 14, 6, 20, 0, 0, 0, 7280, 5, 6, 23, 6, 0, 512, 1>>,
    <<1866, 4, 4, 2, 12, 12, 12, 1, 9, 32, 44, 7, 7, 14, 6, 20, 0, 0, 0, 7280, 5, 6, 23, 6, 0, 512, 1>>,
    <<2133, 4, 4, 2, 12, 12, 12, 1, 10, 36, 48, 8, 8, 16, 6, 22, 0, 0, 0, 8320, 6, 7, 26, 7, 0, 512, 1>>,
    <<2133, 4, 4, 2, 13, 13, 13, 1, 10, 36, 49, 8, 8, 16, 7, 22, 0, 0, 0, 8320, 6, 7, 26, 7, 0, 512, 1>>>>

init_speed_SALP(o, s) == Ddr3Speed(o, s)

\* SALP_1: a precharge covers the bank.
OneOpen(s) ==
  UNION {
    Gap("Bank", {"ACT"}, {"PRE", "PRE_OTHER"}, s.nRAS),
    Gap("Bank", {"RD"}, {"PRE", "PRE_OTHER"}, s.nRTP),
    Gap("Bank", {"WR"}, {"PRE", "PRE_OTHER"}, s.nCWL + s.nBL + s.nWR),
    Sibling("SubArray", {"PRE", "PRE_OTHER"}, {"ACT"}, s.nPA),
    Sibling("SubArray", {"ACT"}, {"ACT"}, s.nRC - s.nRP + s.nPA),
    Sibling("SubArray", {"RDA"}, {"ACT"}, s.nRTP + s.nPA),
    Sibling("SubArray", {"WRA"}, {"ACT"}, s.nCWL + s.nBL + s.nWR + s.nPA)}

\* SALP_2: the next subarray opens early.
EarlyActivate(s) ==
  UNION {
    Sibling("SubArray", {"ACT"}, {"ACT"}, s.nRCD + s.nRA),
    Sibling("SubArray", RDs, {"ACT"}, s.nRA),
    Sibling("SubArray", WRs, {"ACT"}, s.nWA)}

\* MASA: subarrays are selected.
Selection(s) ==
  UNION {
    Gap("SubArray", {"SASEL"}, CAS, s.nSCD),
    Sibling("SubArray", {"RD"}, {"ACT", "RD", "SASEL"}, s.nRA),
    Sibling("SubArray", {"RDA"}, {"ACT", "RDA", "SASEL"}, s.nRA),
    Sibling("SubArray", {"WR"}, {"ACT", "SASEL", "WR"}, s.nWA),
    Sibling("SubArray", {"WRA"}, {"ACT", "SASEL", "WRA"}, s.nWA)}

init_timing_SALP(s) ==
  (CASE type = "SALP_1" -> OneOpen(s) [] type = "SALP_2" -> EarlyActivate(s)
     [] type = "MASA" -> Selection(s))
  \cup UNION {
    Gap("Channel", RDs, RDs, s.nBL),
    Gap("Channel", WRs, WRs, s.nBL),
    Gap("Rank", RDs, RDs, s.nCCD),
    Gap("Rank", WRs, WRs, s.nCCD),
    Gap("Rank", RDs, WRs, s.nCL + s.nCCD + 2 - s.nCWL),
    Gap("Rank", WRs, RDs, s.nCWL + s.nBL + s.nWTR),
    Sibling("Rank", RDs, CAS, s.nBL + s.nRTRS),
    Sibling("Rank", RDs, WRs, s.nCL + s.nBL + s.nRTRS - s.nCWL),
    Sibling("Rank", WRs, RDs, s.nCWL + s.nBL + s.nRTRS - s.nCL),
    Gap("Rank", {"RD"}, {"PRER"}, s.nRTP),
    Gap("Rank", {"WR"}, {"PDE", "PRER"}, s.nCWL + s.nBL + s.nWR),
    Gap("Rank", RDs, {"PDE"}, s.nCL + s.nBL + 1),
    Gap("Rank", {"WRA"}, {"PDE"}, s.nCWL + s.nBL + s.nWR + 1),
    Gap("Rank", {"PDX"}, CAS \cup {"ACT", "PDE", "PRE", "PRER", "REF", "SRE"}, s.nXP),
    Gap("Rank", {"ACT"}, {"ACT"}, s.nRRD),
    Window("Rank", {"ACT"}, {"ACT"}, 4, s.nFAW),
    Gap("Rank", {"ACT"}, {"PRER"}, s.nRAS),
    Gap("Rank", {"PRER"}, {"ACT", "REF", "SRE"}, s.nRP),
    Gap("Rank", {"PRE", "PRE_OTHER"}, {"REF", "SRE"}, s.nRP),
    Gap("Rank", {"REF"}, {"ACT", "REF"}, s.nRFC),
    Gap("Rank", {"ACT", "REF"}, {"PDE"}, 1),
    Gap("Rank", {"SRX"}, {"ACT", "PDE", "REF", "SRE"}, s.nXS),
    Gap("Rank", {"PDE"}, {"PDX"}, s.nPD),
    Gap("Rank", {"SRE"}, {"SRX"}, s.nCKESR),
    Gap("SubArray", {"ACT"}, CAS, s.nRCD),
    Gap("SubArray", {"RD"}, {"PRE"}, s.nRTP),
    Gap("SubArray", {"WR"}, {"PRE"}, s.nCWL + s.nBL + s.nWR),
    Gap("SubArray", {"RDA"}, {"ACT"}, s.nRTP + s.nRP),
    Gap("SubArray", {"WRA"}, {"ACT"}, s.nCWL + s.nBL + s.nWR + s.nRP),
    Gap("SubArray", {"ACT"}, {"ACT"}, s.nRC),
    Gap("SubArray", {"ACT"}, {"PRE"}, s.nRAS),
    Gap("SubArray", {"PRE"}, {"ACT"}, s.nRP)}

org_entry_SALP(o) == Divided(OrgEntry(Levels, org_table_SALP[o]))

speed_entry_SALP(o, i) == init_speed_SALP(org_entry_SALP(o), SpeedEntry(speed_fields_SALP, speed_table_SALP[i]))

entries_SALP(o, i) == init_timing_SALP(speed_entry_SALP(o, i))

Tables_SALP ==
  [Levels |-> Levels, nodes |-> WithNodes(Levels), scope |-> scope_SALP,
   opening |-> is_opening, accessing |-> is_accessing,
   closing |-> is_closing_SALP, translate |-> translate_SALP]

-----------------------------------------------------------------------------
(* DSARP                                                                   *)

scope_DSARP ==
  [ACT |-> "Row", PRE |-> "Bank", PREA |-> "Rank", RD |-> "Column",
   WR |-> "Column", RDA |-> "Column", WRA |-> "Column", REF |-> "Rank",
   REFPB |-> "Bank", PDE |-> "Rank", PDX |-> "Rank", SRE |-> "Rank",
   SRX |-> "Rank"]

is_closing_DSARP == {"RDA", "WRA", "PRE", "PREA"}

translate_DSARP ==
  [READ |-> "RD", WRITE |-> "WR", REFRESH |-> IF type = "REFAB" THEN "REF" ELSE "REFPB", POWERDOWN |-> "PDE",
   SELFREFRESH |-> "SRE"]

\* The row map of a bank holds its open subarrays.
prereq_DSARP(level, cmd, rank, a) ==
  LET bank == rank.banks[a.bank]
  IN  CASE level = "Rank" /\ cmd \in {"RD", "WR"} -> Awake(rank, "PDX", "SRX")
        [] level = "Bank" /\ cmd \in {"RD", "WR"} -> OpenRow(bank, a.sub, MAX, "ACT", "PRE")
        [] level = "SubArray" /\ cmd \in {"RD", "WR"} ->
             OpenRow(bank.subs[a.sub], a.row, cmd, "ACT", "PRE")
        [] level = "Rank" /\ cmd = "REF" -> AllClosed(Banks(rank), "REF", "PREA")
        [] level = "Bank" /\ cmd = "REFPB" -> AllClosed({bank}, "REFPB", "PRE")
        [] level = "Rank" /\ cmd = "PDE" -> EnterPowerDown(rank, "PDE", "SRX")
        [] level = "Rank" /\ cmd = "SRE" -> EnterSelfRefresh(rank, "SRE", "PDX")
        [] OTHER -> MAX

rowhit_DSARP(cmd, rank, a) ==
  cmd \in {"RD", "WR"} /\ HitsRow(rank.banks[a.bank].subs[a.sub], a.row)

rowopen_DSARP(cmd, rank, a) ==
  cmd \in {"RD", "WR"} /\ RowIsOpen(rank.banks[a.bank].subs[a.sub])

lambda_DSARP(level, cmd, rank, a) ==
  CASE level = "Bank" /\ cmd = "ACT" ->
         [rank EXCEPT !.banks[a.bank] = Open(@, a.sub, "Opened")]
    [] level = "SubArray" /\ cmd = "ACT" ->
         [rank EXCEPT !.banks[a.bank].subs[a.sub] = Open(@, a.row, "Opened")]
    [] level = "Bank" /\ cmd = "PRE" -> [rank EXCEPT !.banks[a.bank] = CloseSubs(Close(@))]
    [] level = "Bank" /\ cmd \in {"RDA", "WRA"} -> CloseBank(rank, a)
    [] level = "SubArray" /\ cmd \in {"RDA", "WRA"} ->
         [rank EXCEPT !.banks[a.bank].subs[a.sub] = Close(@)]
    [] level = "Bank" /\ cmd = "REFPB" -> [rank EXCEPT !.banks[a.bank].rows = {}]
    [] level = "Rank" /\ cmd = "PREA" ->
         [rank EXCEPT !.banks = [b \in DOMAIN @ |-> CloseSubs(Close(@[b]))]]
    [] level = "Rank" /\ cmd = "PDE" ->
         PowerDown(rank, UNION {Subs(bank) : bank \in Banks(rank)})
    [] level = "Rank" /\ cmd \in {"PDX", "SRX"} -> PowerUp(rank)
    [] level = "Rank" /\ cmd = "SRE" -> SelfRefresh(rank)
    [] OTHER -> rank

org_table_DSARP ==
  <<<<8 * 2^10, 8, 0, 0, 8, 0, 2^16, 2^11>>,
    <<16 * 2^10, 8, 0, 0, 8, 0, 2^17, 2^11>>,
    <<32 * 2^10, 8, 0, 0, 8, 0, 2^18, 2^11>>>>

speed_fields_DSARP ==
  <<"rate", "nBL", "nCCD", "nRTRS", "nCL", "nRCD", "nRPpb", "nRPab", "nCWL",
    "nRAS", "nRC", "nRTP", "nWTR", "nWR", "nRRD", "nFAW", "nRFCab",
    "nRFCpb", "nREFI", "nREFIpb", "nPD", "nXP", "nXPDLL", "nCKESR", "nXS",
    "nXSDLL">>

speed_table_DSARP ==
  <<<<1333, 4, 4, 2, 9, 9, 8, 9, 7, 24, 33, 5, 5, 10, 5, 30, 0, 0, 0, 0, 4, 4, 16, 5, 114, 512>>>>

\* In the high temperature mode of the header.
init_speed_DSARP(o, s) ==
  LET density == Index(<<8, 16, 32>>, o.size \div 2^10)
  IN  [s EXCEPT !.nRFCpb = <<109, 164, 275>>[density], !.nRFCab = <<234, 354, 594>>[density],
                !.nREFI = 2600, !.nREFIpb = 325]

\* A refresh keeps its whole bank busy.
WholeBank(s) ==
  UNION {
    Gap("Bank", {"REFPB"}, CAS \cup {"ACT", "PRE", "PREA"}, s.nRFCpb)}

\* A refresh keeps one subarray busy; activations beside it are spaced more.
OneSubArray(s) ==
  UNION {
    Sibling("SubArray", {"ACT"}, {"REFPB"}, CeilDiv(s.nRRD * 1138, 1000)),
    Sibling("SubArray", {"REFPB"}, {"ACT"}, CeilDiv(s.nRRD * 1138, 1000)),
    Gap("SubArray", {"REF"}, {"ACT"}, s.nRFCab),
    Gap("SubArray", {"REFPB"}, {"ACT"}, s.nRFCpb),
    Gap("SubArray", {"ACT"}, CAS, s.nRCD),
    Gap("SubArray", {"RD"}, {"PRE"}, s.nRTP),
    Gap("SubArray", {"WR"}, {"PRE"}, s.nCWL + s.nBL + s.nWR),
    Gap("SubArray", {"RDA"}, {"ACT"}, s.nRTP + s.nRPpb),
    Gap("SubArray", {"WRA"}, {"ACT"}, s.nCWL + s.nBL + s.nWR + s.nRPpb),
    Gap("SubArray", {"ACT"}, {"ACT"}, s.nRC),
    Gap("SubArray", {"ACT"}, {"PRE"}, s.nRAS),
    Gap("SubArray", {"PRE"}, {"ACT", "REF", "REFPB"}, s.nRPpb),
    Sibling("SubArray", {"ACT"}, {"ACT"}, s.nRC),
    Sibling("SubArray", {"PRE"}, {"ACT"}, s.nRPpb),
    Sibling("SubArray", {"RDA"}, {"ACT"}, s.nRTP + s.nRPpb),
    Sibling("SubArray", {"WRA"}, {"ACT"}, s.nCWL + s.nBL + s.nWR + s.nRPpb)}

init_timing_DSARP(s) ==
  (IF type \in {"SARP", "DSARP"} THEN OneSubArray(s) ELSE WholeBank(s))
  \cup UNION {
    Gap("Channel", RDs, RDs, s.nBL),
    Gap("Channel", WRs, WRs, s.nBL),
    Gap("Rank", RDs, RDs, s.nCCD),
    Gap("Rank", WRs, WRs, s.nCCD),
    Gap("Rank", RDs, WRs, s.nCL + s.nCCD + 2 - s.nCWL),
    Gap("Rank", WRs, RDs, s.nCWL + s.nBL + s.nWTR),
    Sibling("Rank", RDs, CAS, s.nBL + s.nRTRS),
    Sibling("Rank", RDs, WRs, s.nCL + s.nBL + s.nRTRS - s.nCWL),
    Sibling("Rank", WRs, RDs, s.nCWL + s.nBL + s.nRTRS - s.nCL),
    Gap("Rank", {"RD"}, {"PREA"}, s.nRTP),
    Gap("Rank", {"WR"}, {"PDE", "PREA"}, s.nCWL + s.nBL + s.nWR),
    Gap("Rank", RDs, {"PDE"}, s.nCL + s.nBL + 1),
    Gap("Rank", {"WRA"}, {"PDE"}, s.nCWL + s.nBL + s.nWR + 1),
    Gap("Rank", {"PDX"}, CAS \cup {"ACT", "PDE", "PRE", "PREA", "REF", "REFPB", "SRE"}, s.nXP),
    Gap("Rank", {"ACT"}, {"ACT"}, s.nRRD),
    Window("Rank", {"ACT"}, {"ACT"}, 4, s.nFAW),
    Gap("Rank", {"ACT"}, {"PREA"}, s.nRAS),
    Gap("Rank", {"PREA"}, {"ACT", "REF", "SRE"}, s.nRPab),
    Gap("Rank", {"PRE"}, {"REF", "SRE"}, s.nRPpb),
    Gap("Rank", {"REF"}, {"ACT", "REF", "REFPB"}, s.nRFCab),
    Gap("Rank", {"ACT", "REF", "REFPB"}, {"PDE"}, 1),
    Gap("Rank", {"SRX"}, {"ACT", "PDE", "REF", "REFPB", "SRE"}, s.nXS),
    Gap("Rank", {"REFPB"}, {"REF", "REFPB"}, s.nRFCpb),
    Gap("Rank", {"PDE"}, {"PDX"}, s.nPD),
    Gap("Rank", {"SRE"}, {"SRX"}, s.nCKESR),
    Gap("Bank", {"ACT"}, CAS, s.nRCD),
    Gap("Bank", {"RD"}, {"PRE"}, s.nRTP),
    Gap("Bank", {"WR"}, {"PRE"}, s.nCWL + s.nBL + s.nWR),
    Gap("Bank", {"RDA"}, {"ACT"}, s.nRTP + s.nRPpb),
    Gap("Bank", {"WRA"}, {"ACT"}, s.nCWL + s.nBL + s.nWR + s.nRPpb),
    Gap("Bank", {"ACT"}, {"ACT"}, s.nRC),
    Gap("Bank", {"ACT"}, {"PRE"}, s.nRAS),
    Gap("Bank", {"PRE"}, {"ACT", "REFPB"}, s.nRPpb),
    Gap("Bank", {"REFPB"}, {"REFPB"}, s.nRFCpb),
    Sibling("Bank", {"REFPB"}, {"REFPB"}, s.nRFCpb),
    Sibling("Bank", {"ACT"}, {"REFPB"}, s.nRRD),
    Sibling("Bank", {"REFPB"}, {"ACT"}, s.nRRD)}

org_entry_DSARP(o) == Divided(OrgEntry(Levels, org_table_DSARP[o]))

speed_entry_DSARP(o, i) == init_speed_DSARP(org_entry_DSARP(o), SpeedEntry(speed_fields_DSARP, speed_table_DSARP[i]))

entries_DSARP(o, i) == init_timing_DSARP(speed_entry_DSARP(o, i))

Tables_DSARP ==
  [Levels |-> Levels, nodes |-> WithNodes(Levels), scope |-> scope_DSARP,
   opening |-> is_opening, accessing |-> is_accessing,
   closing |-> is_closing_DSARP, translate |-> translate_DSARP]

=============================================================================
