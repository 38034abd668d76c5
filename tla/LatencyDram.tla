---------------------------- MODULE LatencyDram -----------------------------
(***************************************************************************)
(* The tables of two designs that shorten DDR3's row times.  AL-DRAM       *)
(* (ALDRAM.h, ALDRAM.cpp) has a cold and a hot set of them; its timing     *)
(* entries are built from a raw row of the speed table, not from the entry *)
(* init_speed completes, and init_rowopen is never called: no row ever     *)
(* counts as open.  In tiered-latency DRAM (TLDRAM.h, TLDRAM.cpp) every    *)
(* segment_ratio-th row of a bank is in its fast part and has row commands *)
(* of its own, EXTENSION migrates a row (MIG), and there is no             *)
(* auto-precharge.                                                         *)
(***************************************************************************)
EXTENDS DramRules

CONSTANTS
  temperature,    \* AL-DRAM: the row times in force, "HOT" or "COLD"
  segment_ratio   \* TL-DRAM: one row in segment_ratio is a fast one

Levels == <<"Channel", "Rank", "Bank", "Row", "Column">>

rowhit(cmd, rank, a) == cmd \in {"RD", "WR"} /\ HitsRow(rank.banks[a.bank], a.row)

org_table ==
  <<<<512, 4, 0, 0, 8, 2^13, 2^11>>, <<512, 8, 0, 0, 8, 2^13, 2^10>>,
    <<512, 16, 0, 0, 8, 2^12, 2^10>>, <<2^10, 4, 0, 0, 8, 2^14, 2^11>>,
    <<2^10, 8, 0, 0, 8, 2^14, 2^10>>, <<2^10, 16, 0, 0, 8, 2^13, 2^10>>,
    <<2 * 2^10, 4, 0, 0, 8, 2^15, 2^11>>,
    <<2 * 2^10, 8, 0, 0, 8, 2^15, 2^10>>,
    <<2 * 2^10, 16, 0, 0, 8, 2^14, 2^10>>,
    <<4 * 2^10, 4, 0, 0, 8, 2^16, 2^11>>,
    <<4 * 2^10, 8, 0, 0, 8, 2^16, 2^10>>,
    <<4 * 2^10, 16, 0, 0, 8, 2^15, 2^10>>,
    <<8 * 2^10, 4, 0, 0, 8, 2^16, 2^12>>,
    <<8 * 2^10, 8, 0, 0, 8, 2^16, 2^11>>,
    <<8 * 2^10, 16, 0, 0, 8, 2^16, 2^10>>>>

init_speed(o, s) == Ddr3Speed(o, s)

org_entry(o) == OrgEntry(Levels, org_table[o])

-----------------------------------------------------------------------------
(* ALDRAM                                                                  *)

scope_ALDRAM ==
  [ACT |-> "Row", PRE |-> "Bank", PREA |-> "Rank", RD |-> "Column",
   WR |-> "Column", RDA |-> "Column", WRA |-> "Column", REF |-> "Rank",
   PDE |-> "Rank", PDX |-> "Rank", SRE |-> "Rank", SRX |-> "Rank"]

is_opening_ALDRAM == {"ACT"}

is_accessing_ALDRAM == {"RD", "WR", "RDA", "WRA"}

is_closing_ALDRAM == {"RDA", "WRA", "PRE", "PREA"}

translate_ALDRAM ==
  [READ |-> "RD", WRITE |-> "WR", REFRESH |-> "REF", POWERDOWN |-> "PDE",
   SELFREFRESH |-> "SRE"]

Names ==
  [prea |-> "PREA", pde |-> "PDE", pdx |-> "PDX", sre |-> "SRE", srx |-> "SRX",
   perBank |-> "none"]

prereq_ALDRAM(level, cmd, rank, a) == OpenBankPrereq(Names, level, cmd, rank, a)

lambda_ALDRAM(level, cmd, rank, a) == OpenBankLambda(Names, level, cmd, rank, a)

rowopen_ALDRAM(cmd, rank, a) == FALSE

speed_fields_ALDRAM ==
  <<"rate", "nBL", "nCCD", "nRTRS", "nCL", "nRCD", "nRP", "nCWL", "nRAS",
    "nRC", "nRTP", "nWTR", "nWR", "nRRD", "nFAW", "nRFC", "nREFI", "nPD",
    "nXP", "nXPDLL", "nCKESR", "nXS", "nXSDLL">>

speed_table_ALDRAM ==
  [COLD |-> <<<<800, 4, 4, 2, 5, 5-1, 5-1, 5, 15-5, 20-6, 4, 4, 6, 0, 0, 0, 3120, 3, 3, 10, 4, 0, 512>>,
                <<800, 4, 4, 2, 6, 6-1, 6-1, 5, 15-5, 21-6, 4, 4, 6, 0, 0, 0, 3120, 3, 3, 10, 4, 0, 512>>,
                <<1066, 4, 4, 2, 6, 6-1, 6-1, 6, 20-5, 26-6, 4, 4, 8, 0, 0, 0, 4160, 3, 4, 13, 4, 0, 512>>,
                <<1066, 4, 4, 2, 7, 7-1, 7-1, 6, 20-5, 27-6, 4, 4, 8, 0, 0, 0, 4160, 3, 4, 13, 4, 0, 512>>,
                <<1066, 4, 4, 2, 8, 8-1, 8-1, 6, 20-5, 28-6, 4, 4, 8, 0, 0, 0, 4160, 3, 4, 13, 4, 0, 512>>,
                <<1333, 4, 4, 2, 8, 8-1, 8-1, 7, 24-5, 32-6, 5, 5, 10, 0, 0, 0, 5200, 4, 4, 16, 5, 0, 512>>,
                <<1333, 4, 4, 2, 9, 9-1, 9-1, 7, 24-5, 33-6, 5, 5, 10, 0, 0, 0, 5200, 4, 4, 16, 5, 0, 512>>,
                <<1600, 4, 4, 2, 9, 9-2, 9-2, 8, 28-10, 37-12, 6, 6, 12, 0, 0, 0, 6240, 4, 5, 20, 5, 0, 512>>,
                <<1600, 4, 4, 2, 10, 10-2, 10-2, 8, 28-10, 38-12, 6, 6, 12, 0, 0, 0, 6240, 4, 5, 20, 5, 0, 512>>,
                <<1600, 4, 4, 2, 11, 11-2, 11-2, 8, 28-10, 39-12, 6, 6, 12, 0, 0, 0, 6240, 4, 5, 20, 5, 0, 512>>,
                <<1866, 4, 4, 2, 11, 11-2, 11-2, 9, 32-10, 43-12, 7, 7, 14, 0, 0, 0, 7280, 5, 6, 23, 6, 0, 512>>,
                <<1866, 4, 4, 2, 12, 12-2, 12-3, 9, 32-10, 44-13, 7, 7, 14, 0, 0, 0, 7280, 5, 6, 23, 6, 0, 512>>,
                <<2133, 4, 4, 2, 12, 12-2, 12-3, 10, 36-10, 48-13, 8, 8, 16, 0, 0, 0, 8320, 6, 7, 26, 7, 0, 512>>,
                <<2133, 4, 4, 2, 13, 13-2, 13-3, 10, 36-10, 49-13, 8, 8, 16, 0, 0, 0, 8320, 6, 7, 26, 7, 0, 512>>>>,
   HOT |-> <<<<800, 4, 4, 2, 5, 5, 5, 5, 15, 20, 4, 4, 6, 0, 0, 0, 3120, 3, 3, 10, 4, 0, 512>>,
               <<800, 4, 4, 2, 6, 6, 6, 5, 15, 21, 4, 4, 6, 0, 0, 0, 3120, 3, 3, 10, 4, 0, 512>>,
               <<1066, 4, 4, 2, 6, 6, 6, 6, 20, 26, 4, 4, 8, 0, 0, 0, 4160, 3, 4, 13, 4, 0, 512>>,
               <<1066, 4, 4, 2, 7, 7, 7, 6, 20, 27, 4, 4, 8, 0, 0, 0, 4160, 3, 4, 13, 4, 0, 512>>,
               <<1066, 4, 4, 2, 8, 8, 8, 6, 20, 28, 4, 4, 8, 0, 0, 0, 4160, 3, 4, 13, 4, 0, 512>>,
               <<1333, 4, 4, 2, 8, 8, 8, 7, 24, 32, 5, 5, 10, 0, 0, 0, 5200, 4, 4, 16, 5, 0, 512>>,
               <<1333, 4, 4, 2, 9, 9, 9, 7, 24, 33, 5, 5, 10, 0, 0, 0, 5200, 4, 4, 16, 5, 0, 512>>,
               <<1600, 4, 4, 2, 9, 9, 9, 8, 28, 37, 6, 6, 12, 0, 0, 0, 6240, 4, 5, 20, 5, 0, 512>>,
               <<1600, 4, 4, 2, 10, 10, 10, 8, 28, 38, 6, 6, 12, 0, 0, 0, 6240, 4, 5, 20, 5, 0, 512>>,
               <<1600, 4, 4, 2, 11, 11, 11, 8, 28, 39, 6, 6, 12, 0, 0, 0, 6240, 4, 5, 20, 5, 0, 512>>,
               <<1866, 4, 4, 2, 11, 11, 11, 9, 32, 43, 7, 7, 14, 0, 0, 0, 7280, 5, 6, 23, 6, 0, 512>>,
               <<1866, 4, 4, 2, 12, 12, 12, 9, 32, 44, 7, 7, 14, 0, 0, 0, 7280, 5, 6, 23, 6, 0, 512>>,
               <<2133, 4, 4, 2, 12, 12, 12, 10, 36, 48, 8, 8, 16, 0, 0, 0, 8320, 6, 7, 26, 7, 0, 512>>,
               <<2133, 4, 4, 2, 13, 13, 13, 10, 36, 49, 8, 8, 16, 0, 0, 0, 8320, 6, 7, 26, 7, 0, 512>>>>]

init_timing_ALDRAM(s) ==
  UNION {
    Gap("Channel", RDs, RDs, s.nBL),
    Gap("Channel", WRs, WRs, s.nBL),
    Gap("Rank", RDs, RDs, s.nCCD),
    Gap("Rank", WRs, WRs, s.nCCD),
    Gap("Rank", RDs, WRs, s.nCL + s.nCCD + 2 - s.nCWL),
    Gap("Rank", WRs, RDs, s.nCWL + s.nBL + s.nWTR),
    Sibling("Rank", RDs, CAS, s.nBL + s.nRTRS),
    Sibling("Rank", RDs, WRs, s.nCL + s.nBL + s.nRTRS - s.nCWL),
    Sibling("Rank", WRs, RDs, s.nCWL + s.nBL + s.nRTRS - s.nCL),
    Gap("Rank", {"RD"}, {"PREA"}, s.nRTP),
    Gap("Rank", {"WR"}, {"PDE", "PREA"}, s.nCWL + s.nBL + s.nWR),
    Gap("Rank", RDs, {"PDE"}, s.nCL + s.nBL + 1),
    Gap("Rank", {"WRA"}, {"PDE"}, s.nCWL + s.nBL + s.nWR + 1),
    Gap("Rank", {"PDX"}, CAS \cup {"ACT", "PDE", "PRE", "PREA", "REF", "SRE"}, s.nXP),
    Gap("Rank", {"ACT"}, {"ACT"}, s.nRRD),
    Window("Rank", {"ACT"}, {"ACT"}, 4, s.nFAW),
    Gap("Rank", {"ACT"}, {"PREA"}, s.nRAS),
    Gap("Rank", {"PREA"}, {"ACT", "REF", "SRE"}, s.nRP),
    Gap("Rank", {"PRE"}, {"REF", "SRE"}, s.nRP),
    Gap("Rank", {"REF"}, {"ACT", "REF"}, s.nRFC),
    Gap("Rank", {"ACT", "REF"}, {"PDE"}, 1),
    Gap("Rank", {"SRX"}, {"ACT", "PDE", "REF", "SRE"}, s.nXS),
    Gap("Rank", {"PDE"}, {"PDX"}, s.nPD),
    Gap("Rank", {"SRE"}, {"SRX"}, s.nCKESR),
    Gap("Bank", {"ACT"}, CAS, s.nRCD),
    Gap("Bank", {"RD"}, {"PRE"}, s.nRTP),
    Gap("Bank", {"WR"}, {"PRE"}, s.nCWL + s.nBL + s.nWR),
    Gap("Bank", {"RDA"}, {"ACT"}, s.nRTP + s.nRP),
    Gap("Bank", {"WRA"}, {"ACT"}, s.nCWL + s.nBL + s.nWR + s.nRP),
    Gap("Bank", {"ACT"}, {"ACT"}, s.nRC),
    Gap("Bank", {"ACT"}, {"PRE"}, s.nRAS),
    Gap("Bank", {"PRE"}, {"ACT"}, s.nRP)}

speed_entry_ALDRAM(o, i) == init_speed(org_entry(o), SpeedEntry(speed_fields_ALDRAM, speed_table_ALDRAM["COLD"][i]))

\* Built from a raw row: HOT at first, COLD from the first refresh on.
entries_ALDRAM(o, i) == init_timing_ALDRAM(SpeedEntry(speed_fields_ALDRAM, speed_table_ALDRAM[temperature][i]))

Tables_ALDRAM ==
  [Levels |-> Levels, nodes |-> WithNodes(Levels), scope |-> scope_ALDRAM,
   opening |-> is_opening_ALDRAM, accessing |-> is_accessing_ALDRAM,
   closing |-> is_closing_ALDRAM, translate |-> translate_ALDRAM]

-----------------------------------------------------------------------------
(* TLDRAM                                                                  *)

scope_TLDRAM ==
  [ACT |-> "Row", PRE |-> "Bank", PREA |-> "Rank", RD |-> "Column",
   WR |-> "Column", REF |-> "Rank", PDE |-> "Rank", PDX |-> "Rank",
   SRE |-> "Rank", SRX |-> "Rank", ACTF |-> "Row", PREF |-> "Bank",
   PREAF |-> "Rank", MIG |-> "Column", ACTM |-> "Row", PREM |-> "Bank",
   PREAM |-> "Rank"]

is_opening_TLDRAM == {"ACT", "ACTF", "ACTM"}

is_accessing_TLDRAM == {"RD", "WR", "MIG"}

is_closing_TLDRAM == {"PRE", "PREF", "PREM", "PREA", "PREAF", "PREAM"}

translate_TLDRAM ==
  [READ |-> "RD", WRITE |-> "WR", REFRESH |-> "REF", POWERDOWN |-> "PDE",
   SELFREFRESH |-> "SRE", EXTENSION |-> "MIG"]

Fast(row) == row % segment_ratio = 0

\* A refresh of the rank names no row: its id is -1, and so the far PREA closes.
prereq_TLDRAM(level, cmd, rank, a) ==
  LET bank == rank.banks[a.bank]
  IN  CASE level = "Rank" /\ cmd \in {"RD", "WR", "MIG"} -> Awake(rank, "PDX", "SRX")
        [] level = "Bank" /\ cmd \in {"RD", "WR"} ->
             OpenRow(bank, a.row, cmd, IF Fast(a.row) THEN "ACTF" ELSE "ACT",
                                       IF Fast(a.row) THEN "PREF" ELSE "PRE")
        [] level = "Bank" /\ cmd = "MIG" -> OpenRow(bank, a.row, cmd, "ACTM", "PREM")
        [] level = "Rank" /\ cmd = "REF" ->
             AllClosed(Banks(rank), "REF", IF segment_ratio = 1 THEN "PREAF" ELSE "PREA")
        [] level = "Rank" /\ cmd = "PDE" -> EnterPowerDown(rank, "PDE", "SRX")
        [] level = "Rank" /\ cmd = "SRE" -> EnterSelfRefresh(rank, "SRE", "PDX")
        [] OTHER -> MAX

rowopen_TLDRAM(cmd, rank, a) == cmd \in {"RD", "WR"} /\ RowIsOpen(rank.banks[a.bank])

lambda_TLDRAM(level, cmd, rank, a) ==
  CASE level = "Bank" /\ cmd \in is_opening_TLDRAM -> OpenBank(rank, a)
    [] level = "Bank" /\ cmd \in {"PRE", "PREF", "PREM"} -> CloseBank(rank, a)
    [] level = "Rank" /\ cmd \in {"PREA", "PREAF", "PREAM"} -> CloseBanks(rank)
    [] level = "Rank" /\ cmd = "PDE" -> PowerDown(rank, Banks(rank))
    [] level = "Rank" /\ cmd \in {"PDX", "SRX"} -> PowerUp(rank)
    [] level = "Rank" /\ cmd = "SRE" -> SelfRefresh(rank)
    [] OTHER -> rank

speed_fields_TLDRAM ==
  <<"rate", "nBL", "nCCD", "nRTRS", "nCL", "nRCD", "nRP", "nCWL", "nRAS",
    "nRC", "nRTP", "nWTR", "nWR", "nRRD", "nFAW", "nRFC", "nREFI", "nPD",
    "nXP", "nXPDLL", "nCKESR", "nXS", "nXSDLL", "nRCDF", "nRPF", "nRASF",
    "nRCF", "nRCDM", "nRPM", "nRASM", "nRCM">>

speed_table_TLDRAM ==
  <<<<800, 4, 4, 2, 5, 5, 5, 5, 15, 20, 4, 4, 6, 0, 0, 0, 3120, 3, 3, 10, 4, 0, 512, 3, 3, 10, 13, 6, 6, 20, 26>>,
    <<800, 4, 4, 2, 6, 6, 6, 5, 15, 21, 4, 4, 6, 0, 0, 0, 3120, 3, 3, 10, 4, 0, 512, 3, 3, 10, 13, 6, 6, 20, 26>>,
    <<1066, 4, 4, 2, 6, 6, 6, 6, 20, 26, 4, 4, 8, 0, 0, 0, 4160, 3, 4, 13, 4, 0, 512, 3, 3, 10, 13, 6, 6, 20, 26>>,
    <<1066, 4, 4, 2, 7, 7, 7, 6, 20, 27, 4, 4, 8, 0, 0, 0, 4160, 3, 4, 13, 4, 0, 512, 3, 3, 10, 13, 6, 6, 20, 26>>,
    <<1066, 4, 4, 2, 8, 8, 8, 6, 20, 28, 4, 4, 8, 0, 0, 0, 4160, 3, 4, 13, 4, 0, 512, 3, 3, 10, 13, 6, 6, 20, 26>>,
    <<1333, 4, 4, 2, 8, 8, 8, 7, 24, 32, 5, 5, 10, 0, 0, 0, 5200, 4, 4, 16, 5, 0, 512, 3, 3, 10, 13, 6, 6, 20, 26>>,
    <<1333, 4, 4, 2, 9, 9, 9, 7, 24, 33, 5, 5, 10, 0, 0, 0, 5200, 4, 4, 16, 5, 0, 512, 3, 3, 10, 13, 6, 6, 20, 26>>,
    <<1600, 4, 4, 2, 9, 9, 9, 8, 28, 37, 6, 6, 12, 0, 0, 0, 6240, 4, 5, 20, 5, 0, 512, 3, 3, 10, 13, 6, 6, 20, 26>>,
    <<1600, 4, 4, 2, 10, 10, 10, 8, 28, 38, 6, 6, 12, 0, 0, 0, 6240, 4, 5, 20, 5, 0, 512, 3, 3, 10, 13, 6, 6, 20, 26>>,
    <<1600, 4, 4, 2, 11, 11, 11, 8, 28, 39, 6, 6, 12, 0, 0, 0, 6240, 4, 5, 20, 5, 0, 512, 3, 3, 10, 13, 6, 6, 20, 26>>,
    <<1866, 4, 4, 2, 11, 11, 11, 9, 32, 43, 7, 7, 14, 0, 0, 0, 7280, 5, 6, 23, 6, 0, 512, 3, 3, 10, 13, 6, 6, 20, 26>>,
    <<1866, 4, 4, 2, 12, 12, 12, 9, 32, 44, 7, 7, 14, 0, 0, 0, 7280, 5, 6, 23, 6, 0, 512, 3, 3, 10, 13, 6, 6, 20, 26>>,
    <<2133, 4, 4, 2, 12, 12, 12, 10, 36, 48, 8, 8, 16, 0, 0, 0, 8320, 6, 7, 26, 7, 0, 512, 3, 3, 10, 13, 6, 6, 20, 26>>,
    <<2133, 4, 4, 2, 13, 13, 13, 10, 36, 49, 8, 8, 16, 0, 0, 0, 8320, 6, 7, 26, 7, 0, 512, 3, 3, 10, 13, 6, 6, 20, 26>>>>

init_timing_TLDRAM(s) ==
  UNION {
    Gap("Channel", {"RD", "MIG"}, {"MIG", "RD"}, s.nBL),
    Gap("Channel", {"WR"}, {"WR"}, s.nBL),
    Gap("Rank", {"RD", "MIG"}, {"MIG", "RD"}, s.nCCD),
    Gap("Rank", {"WR"}, {"WR"}, s.nCCD),
    Gap("Rank", {"RD", "MIG"}, {"WR"}, s.nCL + s.nCCD + 2 - s.nCWL),
    Gap("Rank", {"WR"}, {"MIG", "RD"}, s.nCWL + s.nBL + s.nWTR),
    Sibling("Rank", {"RD", "MIG"}, {"MIG", "RD", "WR"}, s.nBL + s.nRTRS),
    Sibling("Rank", {"RD", "MIG"}, {"WR"}, s.nCL + s.nBL + s.nRTRS - s.nCWL),
    Gap("Rank", {"RD", "MIG"}, {"PREA", "PREAF", "PREAM"}, s.nRTP),
    Sibling("Rank", {"WR"}, {"MIG", "RD"}, s.nCWL + s.nBL + s.nRTRS - s.nCL),
    Gap("Rank", {"WR"}, {"PDE", "PREA", "PREAF", "PREAM"}, s.nCWL + s.nBL + s.nWR),
    Gap("Rank", {"RD", "MIG"}, {"PDE"}, s.nCL + s.nBL + 1),
    Gap("Rank", {"PDX"}, {"ACT", "ACTF", "ACTM", "MIG", "PDE", "PRE", "PREF", "PREM", "RD", "REF", "SRE", "WR"}, s.nXP),
    Gap("Rank", {"ACT", "ACTF", "ACTM"}, {"ACT", "ACTF", "ACTM"}, s.nRRD),
    Window("Rank", {"ACT", "ACTF", "ACTM"}, {"ACT", "ACTF", "ACTM"}, 4, s.nFAW),
    Gap("Rank", {"ACT"}, {"PRE", "PREA", "PREAF", "PREAM", "PREF", "PREM"}, s.nRAS),
    Gap("Rank", {"ACTF"}, {"PRE", "PREA", "PREAF", "PREAM", "PREF", "PREM"}, s.nRASF),
    Gap("Rank", {"ACTM"}, {"PRE", "PREA", "PREAF", "PREAM", "PREF", "PREM"}, s.nRASM),
    Gap("Rank", {"PRE"}, {"ACT", "ACTF", "ACTM", "REF", "SRE"}, s.nRP),
    Gap("Rank", {"PREA"}, {"REF", "SRE"}, s.nRP),
    Gap("Rank", {"PREF"}, {"ACT", "ACTF", "ACTM", "REF", "SRE"}, s.nRPF),
    Gap("Rank", {"PREAF"}, {"REF", "SRE"}, s.nRPF),
    Gap("Rank", {"PREM"}, {"ACT", "ACTF", "ACTM", "REF", "SRE"}, s.nRPM),
    Gap("Rank", {"PREAM"}, {"REF", "SRE"}, s.nRPM),
    Gap("Rank", {"REF"}, {"ACT", "ACTF", "ACTM", "REF"}, s.nRFC),
    Gap("Rank", {"ACT", "ACTF", "ACTM", "REF"}, {"PDE"}, 1),
    Gap("Rank", {"SRX"}, {"ACT", "ACTF", "ACTM", "PDE", "REF", "SRE"}, s.nXS),
    Gap("Rank", {"PDE"}, {"PDX"}, s.nPD),
    Gap("Rank", {"SRE"}, {"SRX"}, s.nCKESR),
    Gap("Bank", {"ACT"}, {"MIG", "RD", "WR"}, s.nRCD),
    Gap("Bank", {"ACTF"}, {"MIG", "RD", "WR"}, s.nRCDF),
    Gap("Bank", {"ACTM"}, {"MIG", "RD", "WR"}, s.nRCDM),
    Gap("Bank", {"RD", "MIG"}, {"PRE", "PREF", "PREM"}, s.nRTP),
    Gap("Bank", {"WR"}, {"PRE", "PREF"}, s.nCWL + s.nBL + s.nWR),
    Gap("Bank", {"ACT"}, {"ACT", "ACTF", "ACTM"}, s.nRC),
    Gap("Bank", {"ACTF"}, {"ACT", "ACTF", "ACTM"}, s.nRCF),
    Gap("Bank", {"ACTM"}, {"ACT", "ACTF", "ACTM"}, s.nRCM),
    Gap("Bank", {"ACT"}, {"PRE", "PREF", "PREM"}, s.nRAS),
    Gap("Bank", {"ACTF"}, {"PRE", "PREF", "PREM"}, s.nRASF),
    Gap("Bank", {"ACTM"}, {"PRE", "PREF", "PREM"}, s.nRASM),
    Gap("Bank", {"PRE"}, {"ACT", "ACTF", "ACTM"}, s.nRP),
    Gap("Bank", {"PREF"}, {"ACT", "ACTF", "ACTM"}, s.nRPF),
    Gap("Bank", {"PREM"}, {"ACT", "ACTF", "ACTM"}, s.nRPM)}

speed_entry_TLDRAM(o, i) == init_speed(org_entry(o), SpeedEntry(speed_fields_TLDRAM, speed_table_TLDRAM[i]))

entries_TLDRAM(o, i) == init_timing_TLDRAM(speed_entry_TLDRAM(o, i))

Tables_TLDRAM ==
  [Levels |-> Levels, nodes |-> WithNodes(Levels), scope |-> scope_TLDRAM,
   opening |-> is_opening_TLDRAM, accessing |-> is_accessing_TLDRAM,
   closing |-> is_closing_TLDRAM, translate |-> translate_TLDRAM]

=============================================================================
