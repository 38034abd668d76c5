--------------------------- MODULE GraphicsDram ----------------------------
(***************************************************************************)
(* The tables of the memories for graphics, whose banks form groups under  *)
(* their ranks: GDDR5 (GDDR5.h, GDDR5.cpp), with activation windows of 4   *)
(* and of 32, and HBM (HBM.h, HBM.cpp), with a refresh of one bank, REFSB, *)
(* that no request translates to.                                          *)
(***************************************************************************)
EXTENDS DramRules

Levels == <<"Channel", "Rank", "BankGroup", "Bank", "Row", "Column">>

is_opening == {"ACT"}

is_accessing == {"RD", "WR", "RDA", "WRA"}

is_closing == {"RDA", "WRA", "PRE", "PREA"}

translate ==
  [READ |-> "RD", WRITE |-> "WR", REFRESH |-> "REF", POWERDOWN |-> "PDE",
   SELFREFRESH |-> "SRE"]

rowhit(cmd, rank, a) == cmd \in {"RD", "WR"} /\ HitsRow(rank.banks[a.bank], a.row)

rowopen(cmd, rank, a) == cmd \in {"RD", "WR"} /\ RowIsOpen(rank.banks[a.bank])

-----------------------------------------------------------------------------
(* GDDR5                                                                   *)

scope_GDDR5 ==
  [ACT |-> "Row", PRE |-> "Bank", PREA |-> "Rank", RD |-> "Column",
   WR |-> "Column", RDA |-> "Column", WRA |-> "Column", REF |-> "Rank",
   PDE |-> "Rank", PDX |-> "Rank", SRE |-> "Rank", SRX |-> "Rank"]

Names_GDDR5 ==
  [prea |-> "PREA", pde |-> "PDE", pdx |-> "PDX", sre |-> "SRE", srx |-> "SRX",
   perBank |-> "none"]

prereq_GDDR5(level, cmd, rank, a) == OpenBankPrereq(Names_GDDR5, level, cmd, rank, a)

lambda_GDDR5(level, cmd, rank, a) == OpenBankLambda(Names_GDDR5, level, cmd, rank, a)

org_table_GDDR5 ==
  <<<<512, 16, 0, 1, 4, 2, 2^12, 2^10>>, <<512, 32, 0, 1, 4, 2, 2^12, 2^9>>,
    <<2^10, 16, 0, 1, 4, 4, 2^12, 2^10>>,
    <<2^10, 32, 0, 1, 4, 4, 2^12, 2^9>>,
    <<2 * 2^10, 16, 0, 1, 4, 4, 2^13, 2^10>>,
    <<2 * 2^10, 32, 0, 1, 4, 4, 2^13, 2^9>>,
    <<4 * 2^10, 16, 0, 1, 4, 4, 2^14, 2^10>>,
    <<2 * 2^10, 32, 0, 1, 4, 4, 2^14, 2^9>>,
    <<8 * 2^10, 16, 0, 1, 4, 4, 2^14, 2^11>>,
    <<8 * 2^10, 32, 0, 1, 4, 4, 2^14, 2^10>>>>

speed_fields_GDDR5 ==
  <<"rate", "nBL", "nCCDS", "nCCDL", "nCL", "nRCDR", "nRCDW", "nRP", "nCWL",
    "nRAS", "nRC", "nPPD", "nRTP", "nWTR", "nWR", "nRRD", "nFAW", "n32AW",
    "nRFC", "nREFI", "nPD", "nXPN", "nLK", "nCKESR", "nXS", "nXSDLL">>

speed_table_GDDR5 ==
  <<<<4000, 2, 2, 3, 12, 12, 10, 12, 3, 28, 40, 1, 2, 5, 12, 6, 23, 184, 0, 0, 10, 10, 0, 0, 0, 0>>,
    <<4500, 2, 2, 3, 14, 14, 12, 14, 4, 32, 46, 2, 2, 6, 14, 7, 26, 207, 0, 0, 10, 10, 0, 0, 0, 0>>,
    <<5000, 2, 2, 3, 15, 15, 13, 15, 4, 35, 50, 2, 2, 7, 15, 7, 29, 230, 0, 0, 10, 10, 0, 0, 0, 0>>,
    <<5500, 2, 2, 3, 17, 17, 14, 17, 5, 39, 56, 2, 2, 7, 17, 8, 32, 253, 0, 0, 10, 10, 0, 0, 0, 0>>,
    <<6000, 2, 2, 3, 18, 18, 15, 18, 5, 42, 60, 2, 2, 8, 18, 9, 35, 276, 0, 0, 10, 10, 0, 0, 0, 0>>,
    <<6500, 2, 2, 3, 20, 20, 17, 20, 5, 46, 66, 2, 2, 9, 20, 9, 38, 299, 0, 0, 10, 10, 0, 0, 0, 0>>,
    <<7000, 2, 2, 3, 21, 21, 18, 21, 6, 49, 70, 2, 2, 9, 21, 10, 41, 322, 0, 0, 10, 10, 0, 0, 0, 0>>>>

init_speed_GDDR5(o, s) ==
  LET speed == Index(<<4000, 4500, 5000, 5500, 6000, 6500, 7000>>, s.rate)
      density == Index(<<1, 2, 4, 8, 16>>, o.size \div 2^9)
  IN  [s EXCEPT
        !.nREFI = (IF o.size <= 1024 THEN <<3900, 4388, 4875, 5363, 5850, 6338, 6825>>
                                     ELSE <<1900, 2138, 2375, 2613, 2850, 3088, 3325>>)[speed],
        !.nRFC = << <<90, 102, 113, 124, 135, 147, 158>>, <<110, 124, 138, 152, 165, 179, 193>>,
                    <<160, 180, 200, 220, 240, 260, 280>>, <<260, 293, 325, 358, 390, 423, 455>>,
                    <<350, 394, 438, 482, 525, 569, 613>> >>[density][speed]]

init_timing_GDDR5(s) ==
  UNION {
    Gap("Channel", RDs, RDs, s.nBL),
    Gap("Channel", WRs, WRs, s.nBL),
    Gap("Rank", RDs, RDs, s.nCCDS),
    Gap("Rank", WRs, WRs, s.nCCDS),
    Gap("Rank", RDs, WRs, s.nCL + s.nCCDS + 2 - s.nCWL),
    Gap("Rank", WRs, RDs, s.nCWL + s.nBL + s.nWTR),
    Gap("Rank", {"RD"}, {"PREA"}, s.nRTP),
    Gap("Rank", {"WR"}, {"PDE", "PREA"}, s.nCWL + s.nBL + s.nWR),
    Gap("Rank", RDs, {"PDE"}, s.nCL + s.nBL + 1),
    Gap("Rank", {"WRA"}, {"PDE"}, s.nCWL + s.nBL + s.nWR + 1),
    Gap("Rank", {"PDX"}, CAS \cup {"ACT", "PDE", "PRE", "PREA", "REF", "SRE"}, s.nXPN),
    Gap("Rank", {"ACT"}, {"ACT"}, s.nRRD),
    Window("Rank", {"ACT"}, {"ACT"}, 4, s.nFAW),
    Window("Rank", {"ACT"}, {"ACT"}, 32, s.n32AW),
    Gap("Rank", {"ACT"}, {"PREA"}, s.nRAS),
    Gap("Rank", {"PREA"}, {"ACT", "REF", "SRE"}, s.nRP),
    Gap("Rank", {"PRE"}, {"REF", "SRE"}, s.nRP),
    Gap("Rank", {"PRE"}, {"PRE"}, s.nPPD),
    Gap("Rank", {"REF"}, {"ACT", "REF"}, s.nRFC),
    Gap("Rank", {"ACT", "REF"}, {"PDE"}, 1),
    Gap("Rank", {"SRX"}, {"ACT", "PDE", "REF", "SRE"}, s.nXS),
    Gap("Rank", {"PDE"}, {"PDX"}, s.nPD),
    Gap("Rank", {"SRE"}, {"SRX"}, s.nCKESR),
    Gap("BankGroup", RDs, RDs, s.nCCDL),
    Gap("BankGroup", WRs, WRs, s.nCCDL),
    Gap("Bank", {"ACT"}, RDs, s.nRCDR),
    Gap("Bank", {"ACT"}, WRs, s.nRCDW),
    Gap("Bank", {"RD"}, {"PRE"}, s.nRTP),
    Gap("Bank", {"WR"}, {"PRE"}, s.nCWL + s.nBL + s.nWR),
    Gap("Bank", {"RDA"}, {"ACT"}, s.nRTP + s.nRP),
    Gap("Bank", {"WRA"}, {"ACT"}, s.nCWL + s.nBL + s.nWR + s.nRP),
    Gap("Bank", {"ACT"}, {"ACT"}, s.nRC),
    Gap("Bank", {"ACT"}, {"PRE"}, s.nRAS),
    Gap("Bank", {"PRE"}, {"ACT"}, s.nRP)}

org_entry_GDDR5(o) == OrgEntry(Levels, org_table_GDDR5[o])

speed_entry_GDDR5(o, i) == init_speed_GDDR5(org_entry_GDDR5(o), SpeedEntry(speed_fields_GDDR5, speed_table_GDDR5[i]))

entries_GDDR5(o, i) == init_timing_GDDR5(speed_entry_GDDR5(o, i))

Tables_GDDR5 ==
  [Levels |-> Levels, nodes |-> WithNodes(Levels), scope |-> scope_GDDR5,
   opening |-> is_opening, accessing |-> is_accessing,
   closing |-> is_closing, translate |-> translate]

-----------------------------------------------------------------------------
(* HBM                                                                     *)

scope_HBM ==
  [ACT |-> "Row", PRE |-> "Bank", PREA |-> "Rank", RD |-> "Column",
   WR |-> "Column", RDA |-> "Column", WRA |-> "Column", REF |-> "Rank",
   REFSB |-> "Bank", PDE |-> "Rank", PDX |-> "Rank", SRE |-> "Rank",
   SRX |-> "Rank"]

Names_HBM ==
  [prea |-> "PREA", pde |-> "PDE", pdx |-> "PDX", sre |-> "SRE", srx |-> "SRX",
   perBank |-> "REFSB"]

prereq_HBM(level, cmd, rank, a) == OpenBankPrereq(Names_HBM, level, cmd, rank, a)

lambda_HBM(level, cmd, rank, a) == OpenBankLambda(Names_HBM, level, cmd, rank, a)

org_table_HBM ==
  <<<<2^10, 128, 0, 0, 4, 2, 2^13, 2^7>>,
    <<2 * 2^10, 128, 0, 0, 4, 2, 2^14, 2^7>>,
    <<4 * 2^10, 128, 0, 0, 4, 4, 2^14, 2^7>>>>

speed_fields_HBM ==
  <<"rate", "nBL", "nCCDS", "nCCDL", "nCL", "nRCDR", "nRCDW", "nRP", "nCWL",
    "nRAS", "nRC", "nRTP", "nWTRS", "nWTRL", "nWR", "nRRDS", "nRRDL",
    "nFAW", "nRFC", "nREFI", "nREFI1B", "nPD", "nXP", "nCKESR", "nXS">>

speed_table_HBM ==
  <<<<1000, 2, 2, 3, 7, 7, 6, 7, 4, 17, 24, 7, 2, 4, 8, 4, 5, 20, 0, 1950, 0, 5, 5, 5, 0>>>>

init_speed_HBM(o, s) ==
  LET density == Index(<<1, 2, 4>>, o.size \div 2^10)
  IN  [s EXCEPT !.nRFC = <<55, 80, 130>>[density], !.nREFI1B = <<64, 128, 256>>[density],
                !.nXS = <<60, 85, 135>>[density]]

init_timing_HBM(s) ==
  UNION {
    Gap("Channel", RDs, RDs, s.nBL),
    Gap("Channel", WRs, WRs, s.nBL),
    Gap("Rank", RDs, RDs, s.nCCDS),
    Gap("Rank", WRs, WRs, s.nCCDS),
    Gap("Rank", RDs, WRs, s.nCL + s.nCCDS + 2 - s.nCWL),
    Gap("Rank", WRs, RDs, s.nCWL + s.nBL + s.nWTRS),
    Gap("Rank", {"RD"}, {"PREA"}, s.nRTP),
    Gap("Rank", {"WR"}, {"PDE", "PREA"}, s.nCWL + s.nBL + s.nWR),
    Gap("Rank", RDs, {"PDE"}, s.nCL + s.nBL + 1),
    Gap("Rank", {"WRA"}, {"PDE"}, s.nCWL + s.nBL + s.nWR + 1),
    Gap("Rank", {"PDX"}, CAS \cup {"ACT", "PDE", "PRE", "PREA", "REF", "SRE"}, s.nXP),
    Gap("Rank", {"ACT"}, {"ACT"}, s.nRRDS),
    Window("Rank", {"ACT"}, {"ACT"}, 4, s.nFAW),
    Gap("Rank", {"ACT"}, {"PREA"}, s.nRAS),
    Gap("Rank", {"PREA"}, {"ACT", "REF", "SRE"}, s.nRP),
    Gap("Rank", {"PRE"}, {"REF", "SRE"}, s.nRP),
    Gap("Rank", {"REF"}, {"ACT", "REF"}, s.nRFC),
    Gap("Rank", {"ACT", "REF"}, {"PDE"}, 1),
    Gap("Rank", {"SRX"}, {"ACT", "PDE", "REF", "SRE"}, s.nXS),
    Gap("Rank", {"PDE"}, {"PDX"}, s.nPD),
    Gap("Rank", {"SRE"}, {"SRX"}, s.nCKESR),
    Gap("BankGroup", RDs, RDs, s.nCCDL),
    Gap("BankGroup", WRs, WRs, s.nCCDL),
    Gap("BankGroup", WRs, RDs, s.nCWL + s.nBL + s.nWTRL),
    Gap("BankGroup", {"ACT"}, {"ACT"}, s.nRRDL),
    Gap("Bank", {"ACT"}, RDs, s.nRCDR),
    Gap("Bank", {"ACT"}, WRs, s.nRCDW),
    Gap("Bank", {"RD"}, {"PRE"}, s.nRTP),
    Gap("Bank", {"WR"}, {"PRE"}, s.nCWL + s.nBL + s.nWR),
    Gap("Bank", {"RDA"}, {"ACT"}, s.nRTP + s.nRP),
    Gap("Bank", {"WRA"}, {"ACT"}, s.nCWL + s.nBL + s.nWR + s.nRP),
    Gap("Bank", {"ACT"}, {"ACT"}, s.nRC),
    Gap("Bank", {"ACT"}, {"PRE"}, s.nRAS),
    Gap("Bank", {"PRE"}, {"ACT", "REFSB"}, s.nRP),
    Gap("Bank", {"REFSB"}, {"ACT", "REFSB"}, s.nRFC)}

org_entry_HBM(o) == OrgEntry(Levels, org_table_HBM[o])

speed_entry_HBM(o, i) == init_speed_HBM(org_entry_HBM(o), SpeedEntry(speed_fields_HBM, speed_table_HBM[i]))

entries_HBM(o, i) == init_timing_HBM(speed_entry_HBM(o, i))

Tables_HBM ==
  [Levels |-> Levels, nodes |-> WithNodes(Levels), scope |-> scope_HBM,
   opening |-> is_opening, accessing |-> is_accessing,
   closing |-> is_closing, translate |-> translate]

=============================================================================
