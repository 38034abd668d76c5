---------------------------- MODULE NonVolatile -----------------------------
(***************************************************************************)
(* The tables of PCM and of STT-MRAM: commands and states of DDR3.  PCM    *)
(* has slow rows, a write path of its own and no refresh time; STT-MRAM    *)
(* three sets of row times, scaled by the page size.                       *)
(***************************************************************************)
EXTENDS DramRules

Levels == <<"Channel", "Rank", "Bank", "Row", "Column">>

scope ==
  [ACT |-> "Row", PRE |-> "Bank", PREA |-> "Rank", RD |-> "Column",
   WR |-> "Column", RDA |-> "Column", WRA |-> "Column", REF |-> "Rank",
   PDE |-> "Rank", PDX |-> "Rank", SRE |-> "Rank", SRX |-> "Rank"]

is_opening == {"ACT"}

is_accessing == {"RD", "WR", "RDA", "WRA"}

is_closing == {"RDA", "WRA", "PRE", "PREA"}

translate ==
  [READ |-> "RD", WRITE |-> "WR", REFRESH |-> "REF", POWERDOWN |-> "PDE",
   SELFREFRESH |-> "SRE"]

Names ==
  [prea |-> "PREA", pde |-> "PDE", pdx |-> "PDX", sre |-> "SRE", srx |-> "SRX",
   perBank |-> "none"]

prereq(level, cmd, rank, a) == OpenBankPrereq(Names, level, cmd, rank, a)

rowhit(cmd, rank, a) == cmd \in {"RD", "WR"} /\ HitsRow(rank.banks[a.bank], a.row)

rowopen(cmd, rank, a) == cmd \in {"RD", "WR"} /\ RowIsOpen(rank.banks[a.bank])

lambda(level, cmd, rank, a) == OpenBankLambda(Names, level, cmd, rank, a)

org_table ==
  <<<<512, 4, 0, 0, 8, 2^13, 2^11>>, <<512, 8, 0, 0, 8, 2^13, 2^10>>,
    <<512, 16, 0, 0, 8, 2^12, 2^10>>, <<2^10, 4, 0, 0, 8, 2^14, 2^11>>,
    <<2^10, 8, 0, 0, 8, 2^14, 2^10>>, <<2^10, 16, 0, 0, 8, 2^13, 2^10>>,
    <<2 * 2^10, 4, 0, 0, 8, 2^15, 2^11>>,
    <<2 * 2^10, 8, 0, 0, 8, 2^15, 2^10>>,
    <<2 * 2^10, 16, 0, 0, 8, 2^14, 2^10>>,
    <<4 * 2^10, 4, 0, 0, 8, 2^16, 2^11>>,
    <<4 * 2^10, 8, 0, 0, 8, 2^16, 2^10>>,
    <<4 * 2^10, 16, 0, 0, 8, 2^15, 2^10>>,
    <<8 * 2^10, 4, 0, 0, 8, 2^16, 2^12>>,
    <<8 * 2^10, 8, 0, 0, 8, 2^16, 2^11>>,
    <<8 * 2^10, 16, 0, 0, 8, 2^16, 2^10>>>>

org_entry(o) == OrgEntry(Levels, org_table[o])

-----------------------------------------------------------------------------
(* PCM (PCM.h, PCM.cpp).                                                   *)

speed_fields_PCM ==
  <<"rate", "nBL", "nCCD", "nRTRS", "nCL", "nRCD", "nRP", "nCWL", "nRAS",
    "nRC", "nRTP", "nWTR", "nWR", "nRRDact", "nRRDpre", "nFAW", "nRFC",
    "nREFI", "nPD", "nXP", "nXPDLL", "nCKESR", "nXS", "nXSDLL">>

speed_table_PCM ==
  <<<<800, 4, 4, 2, 5, 22, 60, 5, 22, 60, 3, 3, 6, 2, 11, 0, 0, 3900, 0, 3, 10, 4, 0, 512>>>>

init_speed_PCM(o, s) ==
  LET page == (o.dq * o.count["Column"]) \div 2^13
      chip == IF o.size \in {512, 2^10, 2^11, 2^12}
                THEN Index(<<512, 2^10, 2^11, 2^12>>, o.size) ELSE 5
  IN  [s EXCEPT !.nFAW = IF page = 1 THEN 16 ELSE 20, !.nRFC = 0,
                !.nXS = <<40, 48, 68, 108, 144>>[chip]]

init_timing_PCM(s) ==
  UNION {
    Gap("Channel", RDs, RDs, s.nBL),
    Gap("Channel", WRs, WRs, s.nBL),
    Gap("Rank", RDs, RDs, s.nCCD),
    Gap("Rank", WRs, WRs, s.nCCD),
    Gap("Rank", RDs, WRs, s.nCL + s.nCCD + 2 - s.nCWL),
    Gap("Rank", WRs, RDs, s.nCWL + s.nBL + s.nWTR),
    Sibling("Rank", RDs, CAS, s.nBL + s.nRTRS),
    Sibling("Rank", RDs, WRs, s.nCL + s.nBL + s.nRTRS - s.nCWL),
    Sibling("Rank", WRs, RDs, s.nCWL + s.nBL + s.nRTRS - s.nCL),
    Gap("Rank", {"RD"}, {"PREA"}, s.nRTP),
    Gap("Rank", {"WR"}, {"PDE", "PREA"}, s.nCWL + s.nBL + s.nWR),
    Gap("Rank", RDs, {"PDE"}, s.nCL + s.nBL + 1),
    Gap("Rank", {"WRA"}, {"PDE"}, s.nCWL + s.nBL + s.nWR + 1),
    Gap("Rank", {"PDX"}, CAS \cup {"ACT", "PDE", "PRE", "PREA", "REF", "SRE"}, s.nXP),
    Gap("Rank", {"ACT"}, {"ACT"}, s.nRRDact),
    Gap("Rank", {"PRE"}, {"PRE"}, s.nRRDact),
    Gap("Rank", {"ACT"}, {"PREA"}, s.nRAS),
    Window("Rank", {"ACT"}, {"ACT"}, 4, s.nFAW),
    Gap("Rank", {"PREA"}, {"ACT", "REF", "SRE"}, s.nRP),
    Gap("Rank", {"PRE"}, {"REF", "SRE"}, s.nRP),
    Gap("Rank", {"REF"}, {"ACT", "REF"}, s.nRFC),
    Gap("Rank", {"ACT", "REF"}, {"PDE"}, 1),
    Gap("Rank", {"SRX"}, {"ACT", "PDE", "REF", "SRE"}, s.nXS),
    Gap("Rank", {"PDE"}, {"PDX"}, s.nPD),
    Gap("Rank", {"SRE"}, {"SRX"}, s.nCKESR),
    Gap("Bank", {"ACT"}, CAS, s.nRCD),
    Gap("Bank", {"RD"}, {"PRE"}, s.nRTP),
    Gap("Bank", {"WR"}, {"PRE"}, s.nCWL + s.nBL + s.nWR),
    Gap("Bank", {"RDA"}, {"ACT"}, s.nRTP + s.nRP),
    Gap("Bank", {"WRA"}, {"ACT"}, s.nCWL + s.nBL + s.nWR + s.nRP),
    Gap("Bank", {"ACT"}, {"ACT"}, s.nRC),
    Gap("Bank", {"ACT"}, {"PRE"}, s.nRAS),
    Gap("Bank", {"PRE"}, {"ACT"}, s.nRP)}

speed_entry_PCM(o, i) == init_speed_PCM(org_entry(o), SpeedEntry(speed_fields_PCM, speed_table_PCM[i]))

entries_PCM(o, i) == init_timing_PCM(speed_entry_PCM(o, i))

Tables_PCM ==
  [Levels |-> Levels, nodes |-> WithNodes(Levels), scope |-> scope,
   opening |-> is_opening, accessing |-> is_accessing,
   closing |-> is_closing, translate |-> translate]

-----------------------------------------------------------------------------
(* STTMRAM (STTMRAM.h, STTMRAM.cpp).                                       *)

speed_fields_STTMRAM ==
  <<"rate", "nBL", "nCCD", "nRTRS", "nCL", "nRCD", "nRP", "nCWL", "nRAS",
    "nRC", "nRTP", "nWTR", "nWR", "nRRD", "nFAW", "nRFC", "nREFI", "nPD",
    "nXP", "nXPDLL", "nCKESR", "nXS", "nXSDLL">>

speed_table_STTMRAM ==
  <<<<1600, 4, 4, 2, 11, 14, 14, 8, 20, 34, 6, 6, 12, 12, 12, 1, 6240, 4, 5, 20, 5, 0, 512>>,
    <<1600, 4, 4, 2, 11, 17, 17, 8, 23, 40, 6, 6, 12, 15, 15, 1, 6240, 4, 5, 20, 5, 0, 512>>,
    <<1600, 4, 4, 2, 11, 22, 22, 8, 28, 50, 6, 6, 12, 20, 20, 1, 6240, 4, 5, 20, 5, 0, 512>>>>

init_speed_STTMRAM(o, s) ==
  LET page == (o.dq * o.count["Column"]) \div 2^13
      chip == IF o.size \in {512, 2^10, 2^11, 2^12}
                THEN Index(<<512, 2^10, 2^11, 2^12>>, o.size) ELSE 5
  IN  [s EXCEPT !.nRRD = CeilDiv(@ * (IF page = 1 THEN 5 ELSE 6), 10),
                !.nFAW = CeilDiv(@ * (IF page = 1 THEN 24 ELSE 32), 10),
                !.nRFC = 1,
                !.nXS = CeilDiv(@ * <<80, 96, 136, 216, 288>>[chip], 10)]

init_timing_STTMRAM(s) ==
  UNION {
    Gap("Channel", RDs, RDs, s.nBL),
    Gap("Channel", WRs, WRs, s.nBL),
    Gap("Rank", RDs, RDs, s.nCCD),
    Gap("Rank", WRs, WRs, s.nCCD),
    Gap("Rank", RDs, WRs, s.nCL + s.nCCD + 2 - s.nCWL),
    Gap("Rank", WRs, RDs, s.nCWL + s.nBL + s.nWTR),
    Sibling("Rank", RDs, CAS, s.nBL + s.nRTRS),
    Sibling("Rank", RDs, WRs, s.nCL + s.nBL + s.nRTRS - s.nCWL),
    Sibling("Rank", WRs, RDs, s.nCWL + s.nBL + s.nRTRS - s.nCL),
    Gap("Rank", {"RD"}, {"PREA"}, s.nRTP),
    Gap("Rank", {"WR"}, {"PDE", "PREA"}, s.nCWL + s.nBL + s.nWR),
    Gap("Rank", RDs, {"PDE"}, s.nCL + s.nBL + 1),
    Gap("Rank", {"WRA"}, {"PDE"}, s.nCWL + s.nBL + s.nWR + 1),
    Gap("Rank", {"PDX"}, CAS \cup {"ACT", "PDE", "PRE", "PREA", "REF", "SRE"}, s.nXP),
    Gap("Rank", {"ACT"}, {"ACT"}, s.nRRD),
    Window("Rank", {"ACT"}, {"ACT"}, 4, s.nFAW),
    Gap("Rank", {"ACT"}, {"PREA"}, s.nRAS),
    Gap("Rank", {"PREA"}, {"ACT", "REF", "SRE"}, s.nRP),
    Gap("Rank", {"PRE"}, {"REF", "SRE"}, s.nRP),
    Gap("Rank", {"REF"}, {"ACT", "REF"}, s.nRFC),
    Gap("Rank", {"ACT", "REF"}, {"PDE"}, 1),
    Gap("Rank", {"SRX"}, {"ACT", "PDE", "REF", "SRE"}, s.nXS),
    Gap("Rank", {"PDE"}, {"PDX"}, s.nPD),
    Gap("Rank", {"SRE"}, {"SRX"}, s.nCKESR),
    Gap("Bank", {"ACT"}, CAS, s.nRCD),
    Gap("Bank", {"RD"}, {"PRE"}, s.nRTP),
    Gap("Bank", {"WR"}, {"PRE"}, s.nCWL + s.nBL + s.nWR),
    Gap("Bank", {"RDA"}, {"ACT"}, s.nRTP + s.nRP),
    Gap("Bank", {"WRA"}, {"ACT"}, s.nCWL + s.nBL + s.nWR + s.nRP),
    Gap("Bank", {"ACT"}, {"ACT"}, s.nRC),
    Gap("Bank", {"ACT"}, {"PRE"}, s.nRAS),
    Gap("Bank", {"PRE"}, {"ACT"}, s.nRP)}

speed_entry_STTMRAM(o, i) == init_speed_STTMRAM(org_entry(o), SpeedEntry(speed_fields_STTMRAM, speed_table_STTMRAM[i]))

entries_STTMRAM(o, i) == init_timing_STTMRAM(speed_entry_STTMRAM(o, i))

Tables_STTMRAM ==
  [Levels |-> Levels, nodes |-> WithNodes(Levels), scope |-> scope,
   opening |-> is_opening, accessing |-> is_accessing,
   closing |-> is_closing, translate |-> translate]

=============================================================================
