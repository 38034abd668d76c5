----------------------------- MODULE MobileDram -----------------------------
(***************************************************************************)
(* The tables of the memories for mobile devices.  LPDDR3 and LPDDR4:      *)
(* reads start nDQSCK cycles later, and precharging all banks takes longer *)
(* than one; in LPDDR3 densities of 12 and 16 Gb stop the constructor; in  *)
(* LPDDR4 the refresh of a bank, REFPB, has timing entries and no          *)
(* prerequisite, and the refresh mode is the header's Refresh_1X.  Wide    *)
(* I/O has one rank, single data rate and activation windows of 2.  In     *)
(* Wide I/O 2 the organisation follows from the number of channels, and    *)
(* init_rowopen does not exist: no row ever counts as open.                *)
(***************************************************************************)
EXTENDS DramRules

Levels == <<"Channel", "Rank", "Bank", "Row", "Column">>

is_opening == {"ACT"}

is_accessing == {"RD", "WR", "RDA", "WRA"}

rowhit(cmd, rank, a) == cmd \in {"RD", "WR"} /\ HitsRow(rank.banks[a.bank], a.row)

-----------------------------------------------------------------------------
(* LPDDR                                                                   *)

rowopen(cmd, rank, a) == cmd \in {"RD", "WR"} /\ RowIsOpen(rank.banks[a.bank])

scope_LPDDR3 ==
  [ACT |-> "Row", PRE |-> "Bank", PRA |-> "Rank", RD |-> "Column",
   WR |-> "Column", RDA |-> "Column", WRA |-> "Column", REF |-> "Rank",
   REFPB |-> "Bank", PD |-> "Rank", PDX |-> "Rank", SREF |-> "Rank",
   SREFX |-> "Rank"]

is_closing_LPDDR3 == {"RDA", "WRA", "PRE", "PRA"}

translate_LPDDR3 ==
  [READ |-> "RD", WRITE |-> "WR", REFRESH |-> "REF", POWERDOWN |-> "PD",
   SELFREFRESH |-> "SREF"]

Names_LPDDR3 ==
  [prea |-> "PRA", pde |-> "PD", pdx |-> "PDX", sre |-> "SREF", srx |-> "SREFX",
   perBank |-> "REFPB"]

prereq_LPDDR3(level, cmd, rank, a) == OpenBankPrereq(Names_LPDDR3, level, cmd, rank, a)

lambda_LPDDR3(level, cmd, rank, a) == OpenBankLambda(Names_LPDDR3, level, cmd, rank, a)

org_table_LPDDR3 ==
  <<<<4 * 2^10, 16, 0, 0, 8, 2^14, 2^11>>,
    <<4 * 2^10, 32, 0, 0, 8, 2^14, 2^10>>,
    <<6 * 2^10, 16, 0, 0, 8, 3 * 2^13, 2^11>>,
    <<6 * 2^10, 32, 0, 0, 8, 3 * 2^13, 2^10>>,
    <<8 * 2^10, 16, 0, 0, 8, 2^15, 2^11>>,
    <<8 * 2^10, 32, 0, 0, 8, 2^15, 2^10>>,
    <<12 * 2^10, 16, 0, 0, 8, 3 * 2^13, 2^12>>,
    <<12 * 2^10, 32, 0, 0, 8, 3 * 2^13, 2^11>>,
    <<16 * 2^10, 16, 0, 0, 8, 2^15, 2^12>>,
    <<16 * 2^10, 32, 0, 0, 8, 2^15, 2^11>>>>

speed_fields_LPDDR3 ==
  <<"rate", "nBL", "nCCD", "nRTRS", "nDQSCK", "nCL", "nRCD", "nRPpb",
    "nRPab", "nCWL", "nRAS", "nRC", "nRTP", "nWTR", "nWR", "nRRD", "nFAW",
    "nRFCab", "nRFCpb", "nREFI", "nCKE", "nXP", "nCKESR", "nXSR">>

speed_table_LPDDR3 ==
  <<<<1333, 4, 4, 2, 2, 10, 12, 12, 14, 6, 28, 40, 5, 5, 10, 7, 34, 0, 0, 2600, 5, 5, 10, 0>>,
    <<1600, 4, 4, 2, 2, 12, 15, 15, 17, 6, 34, 48, 6, 6, 12, 8, 40, 0, 0, 3120, 6, 6, 12, 0>>,
    <<1866, 4, 4, 2, 3, 14, 17, 17, 20, 8, 40, 56, 7, 7, 14, 10, 47, 0, 0, 3640, 7, 7, 14, 0>>,
    <<2133, 4, 4, 2, 3, 16, 20, 20, 23, 8, 45, 64, 8, 8, 16, 11, 54, 0, 0, 4160, 8, 8, 16, 0>>>>

init_speed_LPDDR3(o, s) ==
  LET speed == Index(<<1333, 1600, 1866, 2133>>, s.rate)
      density == Index(<<4, 6, 8>>, o.size \div 2^10)
  IN  [s EXCEPT
        !.nRFCpb = (IF density = 1 THEN <<40, 48, 56, 64>> ELSE <<60, 72, 84, 96>>)[speed],
        !.nRFCab = (IF density = 1 THEN <<87, 104, 122, 139>> ELSE <<140, 168, 196, 224>>)[speed],
        !.nXSR = (IF density = 1 THEN <<94, 112, 131, 150>> ELSE <<147, 176, 206, 235>>)[speed]]

init_timing_LPDDR3(s) ==
  UNION {
    Gap("Channel", RDs, RDs, s.nBL),
    Gap("Channel", WRs, WRs, s.nBL),
    Gap("Rank", RDs, RDs, s.nCCD),
    Gap("Rank", WRs, WRs, s.nCCD),
    Gap("Rank", RDs, WRs, s.nCL + s.nBL + s.nDQSCK + 1 - s.nCWL),
    Gap("Rank", WRs, RDs, s.nCWL + s.nBL + s.nWTR + 1),
    Sibling("Rank", RDs, CAS, s.nBL + s.nRTRS),
    Sibling("Rank", RDs, WRs, s.nCL + s.nBL + s.nDQSCK + 1 + s.nRTRS - s.nCWL),
    Sibling("Rank", WRs, RDs, s.nCWL + s.nBL + s.nRTRS - s.nCL),
    Gap("Rank", {"RD"}, {"PRA"}, s.nRTP),
    Gap("Rank", {"WR"}, {"PD", "PRA"}, s.nCWL + s.nBL + s.nWR),
    Gap("Rank", RDs, {"PD"}, s.nCL + s.nBL + 1),
    Gap("Rank", {"WRA"}, {"PD"}, s.nCWL + s.nBL + s.nWR + 1),
    Gap("Rank", {"PDX"}, CAS \cup {"ACT", "PD", "PRA", "PRE", "REF", "REFPB", "SREF"}, s.nXP),
    Gap("Rank", {"ACT"}, {"ACT"}, s.nRRD),
    Window("Rank", {"ACT"}, {"ACT"}, 4, s.nFAW),
    Gap("Rank", {"ACT"}, {"PRA"}, s.nRAS),
    Gap("Rank", {"PRA"}, {"ACT", "REF", "SREF"}, s.nRPab),
    Gap("Rank", {"PRE"}, {"REF", "SREF"}, s.nRPpb),
    Gap("Rank", {"REF"}, {"ACT", "REF", "REFPB"}, s.nRFCab),
    Gap("Rank", {"ACT", "REF", "REFPB"}, {"PD"}, 1),
    Gap("Rank", {"SREFX"}, {"ACT", "PD", "REF", "REFPB", "SREF"}, s.nXSR),
    Gap("Rank", {"REFPB"}, {"REF"}, s.nRFCpb),
    Gap("Rank", {"PD"}, {"PDX"}, s.nCKE),
    Gap("Rank", {"SREF"}, {"SREFX"}, s.nCKESR),
    Gap("Bank", {"ACT"}, CAS, s.nRCD),
    Gap("Bank", {"RD"}, {"PRE"}, s.nRTP),
    Gap("Bank", {"WR"}, {"PRE"}, s.nCWL + s.nBL + s.nWR),
    Gap("Bank", {"RDA"}, {"ACT"}, s.nRTP + s.nRPpb),
    Gap("Bank", {"WRA"}, {"ACT"}, s.nCWL + s.nBL + s.nWR + s.nRPpb),
    Gap("Bank", {"ACT"}, {"ACT"}, s.nRC),
    Gap("Bank", {"ACT"}, {"PRE"}, s.nRAS),
    Gap("Bank", {"PRE"}, {"ACT", "REFPB"}, s.nRPpb),
    Sibling("Bank", {"ACT"}, {"REFPB"}, s.nRRD),
    Sibling("Bank", {"REFPB"}, {"ACT"}, s.nRRD),
    Gap("Bank", {"REFPB"}, {"ACT", "REFPB"}, s.nRFCpb)}

org_entry_LPDDR3(o) == OrgEntry(Levels, org_table_LPDDR3[o])

speed_entry_LPDDR3(o, i) == init_speed_LPDDR3(org_entry_LPDDR3(o), SpeedEntry(speed_fields_LPDDR3, speed_table_LPDDR3[i]))

entries_LPDDR3(o, i) == init_timing_LPDDR3(speed_entry_LPDDR3(o, i))

Tables_LPDDR3 ==
  [Levels |-> Levels, nodes |-> WithNodes(Levels), scope |-> scope_LPDDR3,
   opening |-> is_opening, accessing |-> is_accessing,
   closing |-> is_closing_LPDDR3, translate |-> translate_LPDDR3]

scope_LPDDR4 ==
  [ACT |-> "Row", PRE |-> "Bank", PREA |-> "Rank", RD |-> "Column",
   WR |-> "Column", RDA |-> "Column", WRA |-> "Column", REF |-> "Rank",
   REFPB |-> "Bank", PDE |-> "Rank", PDX |-> "Rank", SREF |-> "Rank",
   SREFX |-> "Rank"]

is_closing_LPDDR4 == {"RDA", "WRA", "PRE", "PREA"}

translate_LPDDR4 ==
  [READ |-> "RD", WRITE |-> "WR", REFRESH |-> "REF", POWERDOWN |-> "PDE",
   SELFREFRESH |-> "SREF"]

Names_LPDDR4 ==
  [prea |-> "PREA", pde |-> "PDE", pdx |-> "PDX", sre |-> "SREF", srx |-> "SREFX",
   perBank |-> "none"]

prereq_LPDDR4(level, cmd, rank, a) == OpenBankPrereq(Names_LPDDR4, level, cmd, rank, a)

lambda_LPDDR4(level, cmd, rank, a) == OpenBankLambda(Names_LPDDR4, level, cmd, rank, a)

org_table_LPDDR4 ==
  <<<<2 * 2^10, 16, 0, 0, 8, 2^14, 2^10>>,
    <<3 * 2^10, 16, 0, 0, 8, 3 * 2^13, 2^10>>,
    <<4 * 2^10, 16, 0, 0, 8, 2^15, 2^10>>>>

speed_fields_LPDDR4 ==
  <<"rate", "nBL", "nCCD", "nRTRS", "nDQSCK", "nCL", "nRCD", "nRPpb",
    "nRPab", "nCWL", "nRAS", "nRC", "nRTP", "nWTR", "nWR", "nPPD", "nRRD",
    "nFAW", "nRFCab", "nRFCpb", "nREFI", "nCKE", "nXP", "nSR", "nXSR">>

speed_table_LPDDR4 ==
  <<<<1600, 8, 8, 2, 1, 15+3, 15, 15-2, 17-2, 8+3, 34, 47, 8+2, 8, 15-1, 4, 8, 32, 0, 0, 0, 0, 6, 12, 0>>,
    <<2400, 8, 8, 2, 2, 22+3, 22, 22-2, 26-2, 11+3, 51, 71, 9+2, 12, 22-1, 4, 12, 48, 0, 0, 0, 0, 9, 18, 0>>,
    <<3200, 8, 8, 2, 3, 29+3, 29, 29-2, 34-2, 15+3, 68, 95, 12+2, 16, 29-1, 4, 16, 64, 0, 0, 0, 0, 12, 24, 0>>>>

init_speed_LPDDR4(o, s) ==
  LET speed == Index(<<1600, 2400, 3200>>, s.rate)
      density == Index(<<2, 3, 4>>, o.size \div 2^10)
  IN  [s EXCEPT !.nRFCpb = (IF density = 1 THEN <<48, 72, 96>> ELSE <<72, 108, 144>>)[speed],
                !.nRFCab = (IF density = 1 THEN <<104, 156, 208>> ELSE <<144, 216, 288>>)[speed],
                !.nREFI = <<3124, 4685, 6247>>[speed],
                !.nXSR = (IF density = 1 THEN <<110, 165, 220>> ELSE <<150, 225, 300>>)[speed]]

init_timing_LPDDR4(s) ==
  UNION {
    Gap("Channel", RDs, RDs, s.nBL),
    Gap("Channel", WRs, WRs, s.nBL),
    Gap("Rank", RDs, RDs, s.nCCD),
    Gap("Rank", WRs, WRs, s.nCCD),
    Gap("Rank", RDs, WRs, s.nCL + s.nBL + s.nDQSCK + 1 - s.nCWL),
    Gap("Rank", WRs, RDs, s.nCWL + s.nBL + s.nWTR + 1),
    Sibling("Rank", RDs, CAS, s.nBL + s.nRTRS),
    Sibling("Rank", RDs, WRs, s.nCL + s.nBL + s.nDQSCK + 1 + s.nRTRS - s.nCWL),
    Sibling("Rank", WRs, RDs, s.nCWL + s.nBL + s.nRTRS - s.nCL),
    Gap("Rank", {"RD"}, {"PREA"}, s.nRTP),
    Gap("Rank", {"WR"}, {"PDE", "PREA"}, s.nCWL + s.nBL + s.nWR),
    Gap("Rank", RDs, {"PDE"}, s.nCL + s.nBL + 1),
    Gap("Rank", {"WRA"}, {"PDE"}, s.nCWL + s.nBL + s.nWR + 1),
    Gap("Rank", {"PDX"}, CAS \cup {"ACT", "PDE", "PRE", "PREA", "REF", "REFPB", "SREF"}, s.nXP),
    Gap("Rank", {"ACT"}, {"ACT"}, s.nRRD),
    Window("Rank", {"ACT"}, {"ACT"}, 4, s.nFAW),
    Gap("Rank", {"ACT"}, {"PREA"}, s.nRAS),
    Gap("Rank", {"PREA"}, {"ACT", "REF", "SREF"}, s.nRPab),
    Gap("Rank", {"PRE"}, {"PRE"}, s.nPPD),
    Gap("Rank", {"PRE"}, {"REF", "SREF"}, s.nRPpb),
    Gap("Rank", {"REF"}, {"ACT", "REF", "REFPB"}, s.nRFCab),
    Gap("Rank", {"ACT", "REF", "REFPB"}, {"PDE"}, 1),
    Gap("Rank", {"SREFX"}, {"ACT", "PDE", "REF", "REFPB", "SREF"}, s.nXSR),
    Gap("Rank", {"REFPB"}, {"REF"}, s.nRFCpb),
    Gap("Rank", {"PDE"}, {"PDX"}, s.nCKE),
    Gap("Rank", {"SREF"}, {"SREFX"}, s.nSR),
    Gap("Bank", {"ACT"}, CAS, s.nRCD),
    Gap("Bank", {"RD"}, {"PRE"}, s.nRTP),
    Gap("Bank", {"WR"}, {"PRE"}, s.nCWL + s.nBL + s.nWR),
    Gap("Bank", {"RDA"}, {"ACT"}, s.nRTP + s.nRPpb),
    Gap("Bank", {"WRA"}, {"ACT"}, s.nCWL + s.nBL + s.nWR + s.nRPpb),
    Gap("Bank", {"ACT"}, {"ACT"}, s.nRC),
    Gap("Bank", {"ACT"}, {"PRE"}, s.nRAS),
    Gap("Bank", {"PRE"}, {"ACT", "REFPB"}, s.nRPpb),
    Sibling("Bank", {"ACT"}, {"REFPB"}, s.nRRD),
    Sibling("Bank", {"REFPB"}, {"ACT"}, s.nRRD),
    Gap("Bank", {"REFPB"}, {"ACT", "REFPB"}, s.nRFCpb)}

org_entry_LPDDR4(o) == OrgEntry(Levels, org_table_LPDDR4[o])

speed_entry_LPDDR4(o, i) == init_speed_LPDDR4(org_entry_LPDDR4(o), SpeedEntry(speed_fields_LPDDR4, speed_table_LPDDR4[i]))

entries_LPDDR4(o, i) == init_timing_LPDDR4(speed_entry_LPDDR4(o, i))

Tables_LPDDR4 ==
  [Levels |-> Levels, nodes |-> WithNodes(Levels), scope |-> scope_LPDDR4,
   opening |-> is_opening, accessing |-> is_accessing,
   closing |-> is_closing_LPDDR4, translate |-> translate_LPDDR4]

-----------------------------------------------------------------------------
(* Wide I/O and Wide I/O 2                                                 *)

is_closing_WideIO == {"RDA", "WRA", "PRE", "PRA"}

translate_WideIO ==
  [READ |-> "RD", WRITE |-> "WR", REFRESH |-> "REF", POWERDOWN |-> "PD",
   SELFREFRESH |-> "SREF"]

Names_WideIO ==
  [prea |-> "PRA", pde |-> "PD", pdx |-> "PDX", sre |-> "SREF", srx |-> "SREFX",
   perBank |-> "none"]

prereq_WideIO(level, cmd, rank, a) == OpenBankPrereq(Names_WideIO, level, cmd, rank, a)

lambda_WideIO(level, cmd, rank, a) == OpenBankLambda(Names_WideIO, level, cmd, rank, a)

scope_WideIO ==
  [ACT |-> "Row", PRE |-> "Bank", PRA |-> "Rank", RD |-> "Column",
   WR |-> "Column", RDA |-> "Column", WRA |-> "Column", REF |-> "Rank",
   PD |-> "Rank", PDX |-> "Rank", SREF |-> "Rank", SREFX |-> "Rank"]

rowopen_WideIO(cmd, rank, a) == cmd \in {"RD", "WR"} /\ RowIsOpen(rank.banks[a.bank])

org_table_WideIO ==
  <<<<256, 128, 0, 1, 4, 2^12, 2^7>>, <<512, 128, 0, 1, 4, 2^13, 2^7>>,
    <<1024, 128, 0, 1, 4, 2^14, 2^7>>, <<2048, 128, 0, 1, 4, 2^15, 2^7>>>>

speed_fields_WideIO ==
  <<"rate", "nBL", "nCCD", "nDQSCK", "nCL", "nRCD", "nRP", "nCWL", "nRAS",
    "nRC", "nRTP", "nRTW", "nWTR", "nWR", "nRRD", "nTAW", "nRFC", "nREFI",
    "nCKE", "nXP", "nCKESR", "nXSR">>

speed_table_WideIO ==
  <<<<200, 4, 4, 1, 3, 4, 4, 1, 9, 12, 4, 8, 3, 3, 2, 10, 0, 0, 3, 2, 3, 0>>,
    <<266, 4, 4, 1, 3, 5, 5, 1, 12, 16, 4, 8, 4, 4, 3, 14, 0, 0, 3, 3, 4, 0>>>>

init_speed_WideIO(o, s) ==
  LET speed == Index(<<200, 266>>, s.rate)
      density == Index(<<1, 2, 4, 8>>, o.size \div 2^8)
  IN  [s EXCEPT !.nRFC = << <<18, 26, 26, 42>>, <<24, 35, 35, 56>> >>[speed][density],
                !.nREFI = << <<3120, 1560, 780, 780>>, <<4160, 2080, 1040, 520>> >>[speed][density]]

init_timing_WideIO(s) ==
  UNION {
    Gap("Channel", RDs, RDs, s.nBL),
    Gap("Channel", WRs, WRs, s.nBL),
    Gap("Rank", RDs, RDs, s.nCCD),
    Gap("Rank", WRs, WRs, s.nCCD),
    Gap("Rank", RDs, WRs, s.nRTW),
    Gap("Rank", WRs, RDs, s.nCWL + s.nBL + s.nWTR),
    Gap("Rank", {"RD"}, {"PRA"}, s.nRTP),
    Gap("Rank", {"WR"}, {"PD", "PRA"}, s.nCWL + s.nBL + s.nWR),
    Gap("Rank", RDs, {"PD"}, s.nCL + s.nBL + 1),
    Gap("Rank", {"WRA"}, {"PD"}, s.nCWL + s.nBL + s.nWR + 1),
    Gap("Rank", {"PDX"}, CAS \cup {"ACT", "PD", "PRA", "PRE", "REF", "SREF"}, s.nXP),
    Gap("Rank", {"ACT"}, {"ACT"}, s.nRRD),
    Window("Rank", {"ACT"}, {"ACT"}, 2, s.nTAW),
    Gap("Rank", {"ACT"}, {"PRA"}, s.nRAS),
    Gap("Rank", {"PRA"}, {"ACT", "REF", "SREF"}, s.nRP),
    Gap("Rank", {"PRE"}, {"REF", "SREF"}, s.nRP),
    Gap("Rank", {"REF"}, {"ACT", "REF"}, s.nRFC),
    Gap("Rank", {"ACT", "REF"}, {"PD"}, 1),
    Gap("Rank", {"SREFX"}, {"ACT", "PD", "REF", "SREF"}, s.nXSR),
    Gap("Rank", {"PD"}, {"PDX"}, s.nCKE),
    Gap("Rank", {"SREF"}, {"SREFX"}, s.nCKESR),
    Gap("Bank", {"ACT"}, CAS, s.nRCD),
    Gap("Bank", {"RD"}, {"PRE"}, s.nRTP),
    Gap("Bank", {"WR"}, {"PRE"}, s.nCWL + s.nBL + s.nWR),
    Gap("Bank", {"RDA"}, {"ACT"}, s.nRTP + s.nRP),
    Gap("Bank", {"WRA"}, {"ACT"}, s.nCWL + s.nBL + s.nWR + s.nRP),
    Gap("Bank", {"ACT"}, {"ACT"}, s.nRC),
    Gap("Bank", {"ACT"}, {"PRE"}, s.nRAS),
    Gap("Bank", {"PRE"}, {"ACT"}, s.nRP)}

org_entry_WideIO(o) == OrgEntry(Levels, org_table_WideIO[o])

speed_entry_WideIO(o, i) == init_speed_WideIO(org_entry_WideIO(o), SpeedEntry(speed_fields_WideIO, speed_table_WideIO[i]))

entries_WideIO(o, i) == init_timing_WideIO(speed_entry_WideIO(o, i))

Tables_WideIO ==
  [Levels |-> Levels, nodes |-> WithNodes(Levels), scope |-> scope_WideIO,
   opening |-> is_opening, accessing |-> is_accessing,
   closing |-> is_closing_WideIO, translate |-> translate_WideIO]

scope_WideIO2 ==
  [ACT |-> "Row", PRE |-> "Bank", PRA |-> "Rank", RD |-> "Column",
   WR |-> "Column", RDA |-> "Column", WRA |-> "Column", REF |-> "Rank",
   REFPB |-> "Bank", PD |-> "Rank", PDX |-> "Rank", SREF |-> "Rank",
   SREFX |-> "Rank"]

rowopen_WideIO2(cmd, rank, a) == FALSE

\* The organisation with 4 channels, and with 8.
org_table_WideIO2 ==
  <<<<2 * 2^10, 64, 4, 0, 8, 2^13, 2^9>>, <<2^10, 64, 8, 0, 4, 2^14, 2^8>>>>

speed_fields_WideIO2 ==
  <<"rate", "nBL", "nCCD", "nDQSCK", "nRTRS", "nCL", "nRCD", "nRPpb",
    "nRP8b", "nRPab", "nCWL", "nRAS", "nRC", "nRTP", "nWTR", "nWR", "nRRD",
    "nFAW", "nRFCab", "nRFCpb", "nREFI", "nCKE", "nXP", "nCKESR", "nXSR">>

speed_table_WideIO2 ==
  <<<<800, 2, 2, 1, 2, 7, 8, 8, 9, 0, 5, 17, 25, 3, 4, 8, 4, 24, 72, 36, 1560, 3, 3, 6, 76>>,
    <<1066, 2, 2, 1, 2, 9, 10, 10, 12, 0, 7, 23, 33, 4, 6, 11, 6, 32, 96, 48, 2080, 3, 4, 8, 102>>>>

init_speed_WideIO2(o, s) ==
  [s EXCEPT !.nRPab = IF o.count["Channel"] = 4 THEN s.nRP8b ELSE s.nRPpb]

init_timing_WideIO2(s) ==
  UNION {
    Gap("Channel", RDs, RDs, s.nBL),
    Gap("Channel", WRs, WRs, s.nBL),
    Gap("Rank", RDs, RDs, s.nCCD),
    Gap("Rank", WRs, WRs, s.nCCD),
    Gap("Rank", RDs, WRs, s.nCL + s.nDQSCK + s.nBL + 1 - s.nCWL),
    Gap("Rank", WRs, RDs, s.nCWL + 1 + s.nBL + s.nWTR),
    Sibling("Rank", RDs, CAS, s.nBL + s.nRTRS),
    Sibling("Rank", RDs, WRs, s.nCL + s.nBL + s.nDQSCK + 1 + s.nRTRS - s.nCWL),
    Sibling("Rank", WRs, RDs, s.nCWL + s.nBL + s.nRTRS - s.nCL),
    Gap("Rank", {"RD"}, {"PRA"}, s.nRTP),
    Gap("Rank", {"WR"}, {"PD", "PRA"}, s.nCWL + 1 + s.nBL + s.nWR),
    Gap("Rank", RDs, {"PD"}, s.nCL + s.nDQSCK + s.nBL + 1),
    Gap("Rank", {"WRA"}, {"PD"}, s.nCWL + 1 + s.nBL + s.nWR + 1),
    Gap("Rank", {"PDX"}, CAS \cup {"ACT", "PD", "PRA", "PRE", "REF", "REFPB", "SREF"}, s.nXP),
    Gap("Rank", {"ACT"}, {"ACT"}, s.nRRD),
    Window("Rank", {"ACT"}, {"ACT"}, 4, s.nFAW),
    Gap("Rank", {"ACT"}, {"PRA"}, s.nRAS),
    Gap("Rank", {"PRA"}, {"ACT", "REF", "SREF"}, s.nRPab),
    Gap("Rank", {"PRE"}, {"REF", "SREF"}, s.nRPpb),
    Gap("Rank", {"REF"}, {"ACT", "REF", "REFPB"}, s.nRFCab),
    Gap("Rank", {"ACT", "REF", "REFPB"}, {"PD"}, 1),
    Gap("Rank", {"SREFX"}, {"ACT", "PD", "REF", "REFPB", "SREF"}, s.nXSR),
    Gap("Rank", {"REFPB"}, {"REF"}, s.nRFCpb),
    Gap("Rank", {"PD"}, {"PDX"}, s.nCKE),
    Gap("Rank", {"SREF"}, {"SREFX"}, s.nCKESR),
    Gap("Bank", {"ACT"}, CAS, s.nRCD),
    Gap("Bank", {"RD"}, {"PRE"}, s.nRTP),
    Gap("Bank", {"WR"}, {"PRE"}, s.nCWL + 1 + s.nBL + s.nWR),
    Gap("Bank", {"RDA"}, {"ACT"}, s.nRTP + s.nRPpb),
    Gap("Bank", {"WRA"}, {"ACT"}, s.nCWL + 1 + s.nBL + s.nWR + s.nRPpb),
    Gap("Bank", {"ACT"}, {"ACT"}, s.nRC),
    Gap("Bank", {"ACT"}, {"PRE"}, s.nRAS),
    Gap("Bank", {"PRE"}, {"ACT", "REFPB"}, s.nRPpb),
    Sibling("Bank", {"ACT"}, {"REFPB"}, s.nRRD),
    Sibling("Bank", {"REFPB"}, {"ACT"}, s.nRRD),
    Gap("Bank", {"REFPB"}, {"ACT", "REFPB"}, s.nRFCpb)}

org_entry_WideIO2(o) == OrgEntry(Levels, org_table_WideIO2[o])

speed_entry_WideIO2(o, i) == init_speed_WideIO2(org_entry_WideIO2(o), SpeedEntry(speed_fields_WideIO2, speed_table_WideIO2[i]))

entries_WideIO2(o, i) == init_timing_WideIO2(speed_entry_WideIO2(o, i))

Tables_WideIO2 ==
  [Levels |-> Levels, nodes |-> WithNodes(Levels), scope |-> scope_WideIO2,
   opening |-> is_opening, accessing |-> is_accessing,
   closing |-> is_closing_WideIO, translate |-> translate_WideIO]

=============================================================================
