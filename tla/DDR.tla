-------------------------------- MODULE DDR ---------------------------------
(***************************************************************************)
(* The tables of DDR3 and of DDR4: levels, commands and their scope,       *)
(* prerequisites, row hits, state transitions, organisations, speed bins   *)
(* and timing entries.  In DDR4 banks come in bank groups, and some gaps   *)
(* are longer inside a group; the refresh mode is the header's Refresh_1X. *)
(***************************************************************************)
EXTENDS DramRules

scope ==
  [ACT |-> "Row", PRE |-> "Bank", PREA |-> "Rank", RD |-> "Column",
   WR |-> "Column", RDA |-> "Column", WRA |-> "Column", REF |-> "Rank",
   PDE |-> "Rank", PDX |-> "Rank", SRE |-> "Rank", SRX |-> "Rank"]

is_opening == {"ACT"}

is_accessing == {"RD", "WR", "RDA", "WRA"}

is_closing == {"RDA", "WRA", "PRE", "PREA"}

translate ==
  [READ |-> "RD", WRITE |-> "WR", REFRESH |-> "REF", POWERDOWN |-> "PDE",
   SELFREFRESH |-> "SRE"]

Names ==
  [prea |-> "PREA", pde |-> "PDE", pdx |-> "PDX", sre |-> "SRE", srx |-> "SRX",
   perBank |-> "none"]

prereq(level, cmd, rank, a) == OpenBankPrereq(Names, level, cmd, rank, a)

rowhit(cmd, rank, a) == cmd \in {"RD", "WR"} /\ HitsRow(rank.banks[a.bank], a.row)

rowopen(cmd, rank, a) == cmd \in {"RD", "WR"} /\ RowIsOpen(rank.banks[a.bank])

lambda(level, cmd, rank, a) == OpenBankLambda(Names, level, cmd, rank, a)

-----------------------------------------------------------------------------
(* DDR3 (DDR3.h, DDR3.cpp).                                                *)

Levels_DDR3 == <<"Channel", "Rank", "Bank", "Row", "Column">>

org_table_DDR3 ==
  <<<<512, 4, 0, 0, 8, 2^13, 2^11>>, <<512, 8, 0, 0, 8, 2^13, 2^10>>,
    <<512, 16, 0, 0, 8, 2^12, 2^10>>, <<2^10, 4, 0, 0, 8, 2^14, 2^11>>,
    <<2^10, 8, 0, 0, 8, 2^14, 2^10>>, <<2^10, 16, 0, 0, 8, 2^13, 2^10>>,
    <<2 * 2^10, 4, 0, 0, 8, 2^15, 2^11>>,
    <<2 * 2^10, 8, 0, 0, 8, 2^15, 2^10>>,
    <<2 * 2^10, 16, 0, 0, 8, 2^14, 2^10>>,
    <<4 * 2^10, 4, 0, 0, 8, 2^16, 2^11>>,
    <<4 * 2^10, 8, 0, 0, 8, 2^16, 2^10>>,
    <<4 * 2^10, 16, 0, 0, 8, 2^15, 2^10>>,
    <<8 * 2^10, 4, 0, 0, 8, 2^16, 2^12>>,
    <<8 * 2^10, 8, 0, 0, 8, 2^16, 2^11>>,
    <<8 * 2^10, 16, 0, 0, 8, 2^16, 2^10>>>>

speed_fields_DDR3 ==
  <<"rate", "nBL", "nCCD", "nRTRS", "nCL", "nRCD", "nRP", "nCWL", "nRAS",
    "nRC", "nRTP", "nWTR", "nWR", "nRRD", "nFAW", "nRFC", "nREFI", "nPD",
    "nXP", "nXPDLL", "nCKESR", "nXS", "nXSDLL">>

speed_table_DDR3 ==
  <<<<800, 4, 4, 2, 5, 5, 5, 5, 15, 20, 4, 4, 6, 0, 0, 0, 3120, 3, 3, 10, 4, 0, 512>>,
    <<800, 4, 4, 2, 6, 6, 6, 5, 15, 21, 4, 4, 6, 0, 0, 0, 3120, 3, 3, 10, 4, 0, 512>>,
    <<1066, 4, 4, 2, 6, 6, 6, 6, 20, 26, 4, 4, 8, 0, 0, 0, 4160, 3, 4, 13, 4, 0, 512>>,
    <<1066, 4, 4, 2, 7, 7, 7, 6, 20, 27, 4, 4, 8, 0, 0, 0, 4160, 3, 4, 13, 4, 0, 512>>,
    <<1066, 4, 4, 2, 8, 8, 8, 6, 20, 28, 4, 4, 8, 0, 0, 0, 4160, 3, 4, 13, 4, 0, 512>>,
    <<1333, 4, 4, 2, 8, 8, 8, 7, 24, 32, 5, 5, 10, 0, 0, 0, 5200, 4, 4, 16, 5, 0, 512>>,
    <<1333, 4, 4, 2, 9, 9, 9, 7, 24, 33, 5, 5, 10, 0, 0, 0, 5200, 4, 4, 16, 5, 0, 512>>,
    <<1600, 4, 4, 2, 9, 9, 9, 8, 28, 37, 6, 6, 12, 0, 0, 0, 6240, 4, 5, 20, 5, 0, 512>>,
    <<1600, 4, 4, 2, 10, 10, 10, 8, 28, 38, 6, 6, 12, 0, 0, 0, 6240, 4, 5, 20, 5, 0, 512>>,
    <<1600, 4, 4, 2, 11, 11, 11, 8, 28, 39, 6, 6, 12, 0, 0, 0, 6240, 4, 5, 20, 5, 0, 512>>,
    <<1866, 4, 4, 2, 11, 11, 11, 9, 32, 43, 7, 7, 14, 0, 0, 0, 7280, 5, 6, 23, 6, 0, 512>>,
    <<1866, 4, 4, 2, 12, 12, 12, 9, 32, 44, 7, 7, 14, 0, 0, 0, 7280, 5, 6, 23, 6, 0, 512>>,
    <<2133, 4, 4, 2, 12, 12, 12, 10, 36, 48, 8, 8, 16, 0, 0, 0, 8320, 6, 7, 26, 7, 0, 512>>,
    <<2133, 4, 4, 2, 13, 13, 13, 10, 36, 49, 8, 8, 16, 0, 0, 0, 8320, 6, 7, 26, 7, 0, 512>>>>

init_speed_DDR3(o, s) == Ddr3Speed(o, s)

init_timing_DDR3(s) ==
  UNION {
    Gap("Channel", RDs, RDs, s.nBL),
    Gap("Channel", WRs, WRs, s.nBL),
    Gap("Rank", RDs, RDs, s.nCCD),
    Gap("Rank", WRs, WRs, s.nCCD),
    Gap("Rank", RDs, WRs, s.nCL + s.nCCD + 2 - s.nCWL),
    Gap("Rank", WRs, RDs, s.nCWL + s.nBL + s.nWTR),
    Sibling("Rank", RDs, CAS, s.nBL + s.nRTRS),
    Sibling("Rank", RDs, WRs, s.nCL + s.nBL + s.nRTRS - s.nCWL),
    Sibling("Rank", WRs, RDs, s.nCWL + s.nBL + s.nRTRS - s.nCL),
    Gap("Rank", {"RD"}, {"PREA"}, s.nRTP),
    Gap("Rank", {"WR"}, {"PDE", "PREA"}, s.nCWL + s.nBL + s.nWR),
    Gap("Rank", RDs, {"PDE"}, s.nCL + s.nBL + 1),
    Gap("Rank", {"WRA"}, {"PDE"}, s.nCWL + s.nBL + s.nWR + 1),
    Gap("Rank", {"PDX"}, CAS \cup {"ACT", "PDE", "PRE", "PREA", "REF", "SRE"}, s.nXP),
    Gap("Rank", {"ACT"}, {"ACT"}, s.nRRD),
    Window("Rank", {"ACT"}, {"ACT"}, 4, s.nFAW),
    Gap("Rank", {"ACT"}, {"PREA"}, s.nRAS),
    Gap("Rank", {"PREA"}, {"ACT", "REF", "SRE"}, s.nRP),
    Gap("Rank", {"PRE"}, {"REF", "SRE"}, s.nRP),
    Gap("Rank", {"ACT"}, {"REF"}, s.nRC),
    Gap("Rank", {"RDA"}, {"REF"}, s.nRTP + s.nRP),
    Gap("Rank", {"WRA"}, {"REF"}, s.nCWL + s.nBL + s.nWR + s.nRP),
    Gap("Rank", {"REF"}, {"ACT", "REF"}, s.nRFC),
    Gap("Rank", {"ACT", "REF"}, {"PDE"}, 1),
    Gap("Rank", {"SRX"}, {"ACT", "PDE", "REF", "SRE"}, s.nXS),
    Gap("Rank", {"PDE"}, {"PDX"}, s.nPD),
    Gap("Rank", {"SRE"}, {"SRX"}, s.nCKESR),
    Gap("Bank", {"ACT"}, CAS, s.nRCD),
    Gap("Bank", {"RD"}, {"PRE"}, s.nRTP),
    Gap("Bank", {"WR"}, {"PRE"}, s.nCWL + s.nBL + s.nWR),
    Gap("Bank", {"RDA"}, {"ACT"}, s.nRTP + s.nRP),
    Gap("Bank", {"WRA"}, {"ACT"}, s.nCWL + s.nBL + s.nWR + s.nRP),
    Gap("Bank", {"ACT"}, {"ACT"}, s.nRC),
    Gap("Bank", {"ACT"}, {"PRE"}, s.nRAS),
    Gap("Bank", {"PRE"}, {"ACT"}, s.nRP)}

org_entry_DDR3(o) == OrgEntry(Levels_DDR3, org_table_DDR3[o])

speed_entry_DDR3(o, i) == init_speed_DDR3(org_entry_DDR3(o), SpeedEntry(speed_fields_DDR3, speed_table_DDR3[i]))

entries_DDR3(o, i) == init_timing_DDR3(speed_entry_DDR3(o, i))

Tables_DDR3 ==
  [Levels |-> Levels_DDR3, nodes |-> WithNodes(Levels_DDR3), scope |-> scope,
   opening |-> is_opening, accessing |-> is_accessing,
   closing |-> is_closing, translate |-> translate]

-----------------------------------------------------------------------------
(* DDR4 (DDR4.h, DDR4.cpp).                                                *)

Levels_DDR4 == <<"Channel", "Rank", "BankGroup", "Bank", "Row", "Column">>

org_table_DDR4 ==
  <<<<2 * 2^10, 4, 0, 0, 4, 4, 2^15, 2^10>>,
    <<2 * 2^10, 8, 0, 0, 4, 4, 2^14, 2^10>>,
    <<2 * 2^10, 16, 0, 0, 2, 4, 2^14, 2^10>>,
    <<4 * 2^10, 4, 0, 0, 4, 4, 2^16, 2^10>>,
    <<4 * 2^10, 8, 0, 0, 4, 4, 2^15, 2^10>>,
    <<4 * 2^10, 16, 0, 0, 2, 4, 2^15, 2^10>>,
    <<8 * 2^10, 4, 0, 0, 4, 4, 2^17, 2^10>>,
    <<8 * 2^10, 8, 0, 0, 4, 4, 2^16, 2^10>>,
    <<8 * 2^10, 16, 0, 0, 2, 4, 2^16, 2^10>>>>

speed_fields_DDR4 ==
  <<"rate", "nBL", "nCCDS", "nCCDL", "nRTRS", "nCL", "nRCD", "nRP", "nCWL",
    "nRAS", "nRC", "nRTP", "nWTRS", "nWTRL", "nWR", "nRRDS", "nRRDL",
    "nFAW", "nRFC", "nREFI", "nPD", "nXP", "nXPDLL", "nCKESR", "nXS",
    "nXSDLL">>

speed_table_DDR4 ==
  <<<<1600, 4, 4, 5, 2, 11, 11, 11, 9, 28, 39, 6, 2, 6, 12, 0, 0, 0, 0, 0, 4, 5, 0, 5, 0, 0>>,
    <<1600, 4, 4, 5, 2, 12, 12, 12, 9, 28, 40, 6, 2, 6, 12, 0, 0, 0, 0, 0, 4, 5, 0, 5, 0, 0>>,
    <<1866, 4, 4, 5, 2, 13, 13, 13, 10, 32, 45, 7, 3, 7, 14, 0, 0, 0, 0, 0, 5, 6, 0, 6, 0, 0>>,
    <<1866, 4, 4, 5, 2, 14, 14, 14, 10, 32, 46, 7, 3, 7, 14, 0, 0, 0, 0, 0, 5, 6, 0, 6, 0, 0>>,
    <<2133, 4, 4, 6, 2, 15, 15, 15, 11, 36, 51, 8, 3, 8, 16, 0, 0, 0, 0, 0, 6, 7, 0, 7, 0, 0>>,
    <<2133, 4, 4, 6, 2, 16, 16, 16, 11, 36, 52, 8, 3, 8, 16, 0, 0, 0, 0, 0, 6, 7, 0, 7, 0, 0>>,
    <<2400, 0, 4, 6, 2, 16, 16, 16, 12, 39, 55, 9, 3, 9, 18, 0, 0, 0, 0, 0, 6, 8, 0, 7, 0, 0>>,
    <<2400, 4, 4, 6, 2, 18, 18, 18, 12, 39, 57, 9, 3, 9, 18, 0, 0, 0, 0, 0, 6, 8, 0, 7, 0, 0>>,
    <<3200, 0, 4, 10, 2, 22, 22, 22, 16, 56, 78, 12, 4, 12, 24, 8, 10, 40, 0, 0, 8, 10, 0, 8, 0, 0>>>>

init_speed_DDR4(o, s) ==
  LET speed == Index(<<1600, 1866, 2133, 2400, 3200>>, s.rate)
      density == Index(<<2, 4, 8>>, o.size \div 2^10)
  IN  [s EXCEPT
        !.nRRDS = (IF o.dq = 16 THEN <<5, 5, 6, 7, 9>> ELSE <<4, 4, 4, 4, 4>>)[speed],
        !.nRRDL = (IF o.dq = 16 THEN <<6, 6, 7, 8, 11>> ELSE <<5, 5, 6, 6, 8>>)[speed],
        !.nFAW = (CASE o.dq = 4 -> <<16, 16, 16, 16, 16>>
                    [] o.dq = 8 -> <<20, 22, 23, 26, 34>>
                    [] OTHER -> <<28, 28, 32, 36, 48>>)[speed],
        !.nRFC = << <<128, 150, 171, 192, 256>>, <<208, 243, 278, 312, 416>>,
                    <<280, 327, 374, 420, 560>> >>[density][speed],
        !.nREFI = <<6240, 7280, 8320, 9360, 12480>>[speed],
        !.nXS = << <<136, 159, 182, 204, 272>>, <<216, 252, 288, 324, 432>>,
                   <<288, 336, 384, 432, 576>> >>[density][speed]]

init_timing_DDR4(s) ==
  UNION {
    Gap("Channel", RDs, RDs, s.nBL),
    Gap("Channel", WRs, WRs, s.nBL),
    Gap("Rank", RDs, RDs, s.nCCDS),
    Gap("Rank", WRs, WRs, s.nCCDS),
    Gap("Rank", RDs, WRs, s.nCL + s.nBL + 2 - s.nCWL),
    Gap("Rank", WRs, RDs, s.nCWL + s.nBL + s.nWTRS),
    Sibling("Rank", RDs, CAS, s.nBL + s.nRTRS),
    Sibling("Rank", RDs, WRs, s.nCL + s.nBL + s.nRTRS - s.nCWL),
    Sibling("Rank", WRs, RDs, s.nCWL + s.nBL + s.nRTRS - s.nCL),
    Gap("Rank", {"RD"}, {"PREA"}, s.nRTP),
    Gap("Rank", {"WR"}, {"PDE", "PREA"}, s.nCWL + s.nBL + s.nWR),
    Gap("Rank", RDs, {"PDE"}, s.nCL + s.nBL + 1),
    Gap("Rank", {"WRA"}, {"PDE"}, s.nCWL + s.nBL + s.nWR + 1),
    Gap("Rank", {"PDX"}, CAS \cup {"ACT", "PDE", "PRE", "PREA", "REF", "SRE"}, s.nXP),
    Gap("Rank", {"ACT"}, {"ACT"}, s.nRRDS),
    Window("Rank", {"ACT"}, {"ACT"}, 4, s.nFAW),
    Gap("Rank", {"ACT"}, {"PREA"}, s.nRAS),
    Gap("Rank", {"PREA"}, {"ACT", "REF", "SRE"}, s.nRP),
    Gap("Rank", {"PRE"}, {"REF", "SRE"}, s.nRP),
    Gap("Rank", {"ACT"}, {"REF"}, s.nRC),
    Gap("Rank", {"RDA"}, {"REF"}, s.nRTP + s.nRP),
    Gap("Rank", {"WRA"}, {"REF"}, s.nCWL + s.nBL + s.nWR + s.nRP),
    Gap("Rank", {"REF"}, {"ACT", "REF"}, s.nRFC),
    Gap("Rank", {"ACT", "REF"}, {"PDE"}, 1),
    Gap("Rank", {"SRX"}, {"ACT", "PDE", "REF", "SRE"}, s.nXS),
    Gap("Rank", {"PDE"}, {"PDX"}, s.nPD),
    Gap("Rank", {"SRE"}, {"SRX"}, s.nCKESR),
    Gap("BankGroup", RDs, RDs, s.nCCDL),
    Gap("BankGroup", WRs, WRs, s.nCCDL),
    Gap("BankGroup", WRs, RDs, s.nCWL + s.nBL + s.nWTRL),
    Gap("BankGroup", {"ACT"}, {"ACT"}, s.nRRDL),
    Gap("Bank", {"ACT"}, CAS, s.nRCD),
    Gap("Bank", {"RD"}, {"PRE"}, s.nRTP),
    Gap("Bank", {"WR"}, {"PRE"}, s.nCWL + s.nBL + s.nWR),
    Gap("Bank", {"RDA"}, {"ACT"}, s.nRTP + s.nRP),
    Gap("Bank", {"WRA"}, {"ACT"}, s.nCWL + s.nBL + s.nWR + s.nRP),
    Gap("Bank", {"ACT"}, {"ACT"}, s.nRC),
    Gap("Bank", {"ACT"}, {"PRE"}, s.nRAS),
    Gap("Bank", {"PRE"}, {"ACT"}, s.nRP)}

org_entry_DDR4(o) == OrgEntry(Levels_DDR4, org_table_DDR4[o])

speed_entry_DDR4(o, i) == init_speed_DDR4(org_entry_DDR4(o), SpeedEntry(speed_fields_DDR4, speed_table_DDR4[i]))

entries_DDR4(o, i) == init_timing_DDR4(speed_entry_DDR4(o, i))

Tables_DDR4 ==
  [Levels |-> Levels_DDR4, nodes |-> WithNodes(Levels_DDR4), scope |-> scope,
   opening |-> is_opening, accessing |-> is_accessing,
   closing |-> is_closing, translate |-> translate]

=============================================================================
