-------------------------------- MODULE Dram --------------------------------
(***************************************************************************)
(* The class DRAM<T> (DRAM.h) over the tables of any standard: a tree of   *)
(* nodes, one per level down to the bank or subarray, that is walked from  *)
(* the channel down to decode a request into the command it needs next, to *)
(* change the states when a command is issued, and to keep the earliest    *)
(* clock of every command.  Also the controller's RowTable (Scheduler.h),  *)
(* which mirrors the open rows by watching the commands.                   *)
(***************************************************************************)
EXTENDS DramRules

CONSTANT Table   \* the tables of each standard (Tables): DRAM<T> is a template over them

-----------------------------------------------------------------------------
(* Every memory standard of the simulator by name: DRAM<T> is instantiated *)
(* with each, takes its tables and calls its lambdas.  AL-DRAM appears     *)
(* once for each set of row times, SALP and DSARP once for each scheme     *)
(* (TL-DRAM does not read the temperature).                                *)

Dd == INSTANCE DDR
Gd == INSTANCE GraphicsDram
Mb == INSTANCE MobileDram
Nv == INSTANCE NonVolatile
Ah == INSTANCE LatencyDram WITH temperature <- "HOT", segment_ratio <- 2
Ac == INSTANCE LatencyDram WITH temperature <- "COLD", segment_ratio <- 2
S1 == INSTANCE SubarrayDram WITH type <- "SALP_1", n_sa <- 8
S2 == INSTANCE SubarrayDram WITH type <- "SALP_2", n_sa <- 8
Ms == INSTANCE SubarrayDram WITH type <- "MASA", n_sa <- 8
Ra == INSTANCE SubarrayDram WITH type <- "REFAB", n_sa <- 8
Rp == INSTANCE SubarrayDram WITH type <- "REFPB", n_sa <- 8
Da == INSTANCE SubarrayDram WITH type <- "DARP", n_sa <- 8
Sa == INSTANCE SubarrayDram WITH type <- "SARP", n_sa <- 8
Ds == INSTANCE SubarrayDram WITH type <- "DSARP", n_sa <- 8

Standard ==
  {"DDR3", "DDR4", "GDDR5", "HBM", "LPDDR3", "LPDDR4", "WideIO",
   "WideIO2", "PCM", "STTMRAM", "ALDRAM_HOT", "ALDRAM_COLD", "TLDRAM", "SALP_1",
   "SALP_2", "MASA", "REFAB", "REFPB", "DARP", "SARP", "DSARP"}

\* A table gives every command its level, every request its command, and the
\* commands that open, access or close rows.
ASSUME TableAssumption ==
  \A std \in Standard :
    LET t == Table[std]
    IN  /\ t.scope \in [DOMAIN t.scope -> Range(t.Levels)]
        /\ t.translate \in [DOMAIN t.translate -> DOMAIN t.scope]
        /\ t.opening \cup t.accessing \cup t.closing \subseteq DOMAIN t.scope

\* The tables of a standard.
Tables ==
  [std \in Standard |->
    CASE std = "DDR3" -> Dd!Tables_DDR3
      [] std = "DDR4" -> Dd!Tables_DDR4
      [] std = "GDDR5" -> Gd!Tables_GDDR5
      [] std = "HBM" -> Gd!Tables_HBM
      [] std = "LPDDR3" -> Mb!Tables_LPDDR3
      [] std = "LPDDR4" -> Mb!Tables_LPDDR4
      [] std = "WideIO" -> Mb!Tables_WideIO
      [] std = "WideIO2" -> Mb!Tables_WideIO2
      [] std = "PCM" -> Nv!Tables_PCM
      [] std = "STTMRAM" -> Nv!Tables_STTMRAM
      [] std = "ALDRAM_HOT" -> Ah!Tables_ALDRAM
      [] std = "ALDRAM_COLD" -> Ac!Tables_ALDRAM
      [] std = "TLDRAM" -> Ac!Tables_TLDRAM
      [] std = "SALP_1" -> S1!Tables_SALP
      [] std = "SALP_2" -> S2!Tables_SALP
      [] std = "MASA" -> Ms!Tables_SALP
      [] std = "REFAB" -> Ra!Tables_DSARP
      [] std = "REFPB" -> Rp!Tables_DSARP
      [] std = "DARP" -> Da!Tables_DSARP
      [] std = "SARP" -> Sa!Tables_DSARP
      [] std = "DSARP" -> Ds!Tables_DSARP]

\* Its prerequisite, row-hit, open-row and state-transition lambdas.
prereq(std, level, cmd, rank, a) ==
  CASE std \in {"DDR3", "DDR4"} -> Dd!prereq(level, cmd, rank, a)
    [] std = "GDDR5" -> Gd!prereq_GDDR5(level, cmd, rank, a)
    [] std = "HBM" -> Gd!prereq_HBM(level, cmd, rank, a)
    [] std = "LPDDR3" -> Mb!prereq_LPDDR3(level, cmd, rank, a)
    [] std = "LPDDR4" -> Mb!prereq_LPDDR4(level, cmd, rank, a)
    [] std \in {"WideIO", "WideIO2"} -> Mb!prereq_WideIO(level, cmd, rank, a)
    [] std \in {"PCM", "STTMRAM"} -> Nv!prereq(level, cmd, rank, a)
    [] std = "ALDRAM_HOT" -> Ah!prereq_ALDRAM(level, cmd, rank, a)
    [] std = "ALDRAM_COLD" -> Ac!prereq_ALDRAM(level, cmd, rank, a)
    [] std = "TLDRAM" -> Ac!prereq_TLDRAM(level, cmd, rank, a)
    [] std = "SALP_1" -> S1!prereq_SALP(level, cmd, rank, a)
    [] std = "SALP_2" -> S2!prereq_SALP(level, cmd, rank, a)
    [] std = "MASA" -> Ms!prereq_SALP(level, cmd, rank, a)
    [] std = "REFAB" -> Ra!prereq_DSARP(level, cmd, rank, a)
    [] std = "REFPB" -> Rp!prereq_DSARP(level, cmd, rank, a)
    [] std = "DARP" -> Da!prereq_DSARP(level, cmd, rank, a)
    [] std = "SARP" -> Sa!prereq_DSARP(level, cmd, rank, a)
    [] std = "DSARP" -> Ds!prereq_DSARP(level, cmd, rank, a)

rowhit(std, cmd, rank, a) ==
  CASE std \in {"DDR3", "DDR4"} -> Dd!rowhit(cmd, rank, a)
    [] std \in {"GDDR5", "HBM"} -> Gd!rowhit(cmd, rank, a)
    [] std \in {"LPDDR3", "LPDDR4", "WideIO", "WideIO2"} -> Mb!rowhit(cmd, rank, a)
    [] std \in {"PCM", "STTMRAM"} -> Nv!rowhit(cmd, rank, a)
    [] std = "ALDRAM_HOT" -> Ah!rowhit(cmd, rank, a)
    [] std = "ALDRAM_COLD" -> Ac!rowhit(cmd, rank, a)
    [] std = "TLDRAM" -> Ac!rowhit(cmd, rank, a)
    [] std = "SALP_1" -> S1!rowhit_SALP(cmd, rank, a)
    [] std = "SALP_2" -> S2!rowhit_SALP(cmd, rank, a)
    [] std = "MASA" -> Ms!rowhit_SALP(cmd, rank, a)
    [] std = "REFAB" -> Ra!rowhit_DSARP(cmd, rank, a)
    [] std = "REFPB" -> Rp!rowhit_DSARP(cmd, rank, a)
    [] std = "DARP" -> Da!rowhit_DSARP(cmd, rank, a)
    [] std = "SARP" -> Sa!rowhit_DSARP(cmd, rank, a)
    [] std = "DSARP" -> Ds!rowhit_DSARP(cmd, rank, a)

rowopen(std, cmd, rank, a) ==
  CASE std \in {"DDR3", "DDR4"} -> Dd!rowopen(cmd, rank, a)
    [] std \in {"GDDR5", "HBM"} -> Gd!rowopen(cmd, rank, a)
    [] std \in {"LPDDR3", "LPDDR4"} -> Mb!rowopen(cmd, rank, a)
    [] std = "WideIO" -> Mb!rowopen_WideIO(cmd, rank, a)
    [] std = "WideIO2" -> Mb!rowopen_WideIO2(cmd, rank, a)
    [] std \in {"PCM", "STTMRAM"} -> Nv!rowopen(cmd, rank, a)
    [] std = "ALDRAM_HOT" -> Ah!rowopen_ALDRAM(cmd, rank, a)
    [] std = "ALDRAM_COLD" -> Ac!rowopen_ALDRAM(cmd, rank, a)
    [] std = "TLDRAM" -> Ac!rowopen_TLDRAM(cmd, rank, a)
    [] std = "SALP_1" -> S1!rowopen_SALP(cmd, rank, a)
    [] std = "SALP_2" -> S2!rowopen_SALP(cmd, rank, a)
    [] std = "MASA" -> Ms!rowopen_SALP(cmd, rank, a)
    [] std = "REFAB" -> Ra!rowopen_DSARP(cmd, rank, a)
    [] std = "REFPB" -> Rp!rowopen_DSARP(cmd, rank, a)
    [] std = "DARP" -> Da!rowopen_DSARP(cmd, rank, a)
    [] std = "SARP" -> Sa!rowopen_DSARP(cmd, rank, a)
    [] std = "DSARP" -> Ds!rowopen_DSARP(cmd, rank, a)

lambda(std, level, cmd, rank, a) ==
  CASE std \in {"DDR3", "DDR4"} -> Dd!lambda(level, cmd, rank, a)
    [] std = "GDDR5" -> Gd!lambda_GDDR5(level, cmd, rank, a)
    [] std = "HBM" -> Gd!lambda_HBM(level, cmd, rank, a)
    [] std = "LPDDR3" -> Mb!lambda_LPDDR3(level, cmd, rank, a)
    [] std = "LPDDR4" -> Mb!lambda_LPDDR4(level, cmd, rank, a)
    [] std \in {"WideIO", "WideIO2"} -> Mb!lambda_WideIO(level, cmd, rank, a)
    [] std \in {"PCM", "STTMRAM"} -> Nv!lambda(level, cmd, rank, a)
    [] std = "ALDRAM_HOT" -> Ah!lambda_ALDRAM(level, cmd, rank, a)
    [] std = "ALDRAM_COLD" -> Ac!lambda_ALDRAM(level, cmd, rank, a)
    [] std = "TLDRAM" -> Ac!lambda_TLDRAM(level, cmd, rank, a)
    [] std = "SALP_1" -> S1!lambda_SALP(level, cmd, rank, a)
    [] std = "SALP_2" -> S2!lambda_SALP(level, cmd, rank, a)
    [] std = "MASA" -> Ms!lambda_SALP(level, cmd, rank, a)
    [] std = "REFAB" -> Ra!lambda_DSARP(level, cmd, rank, a)
    [] std = "REFPB" -> Rp!lambda_DSARP(level, cmd, rank, a)
    [] std = "DARP" -> Da!lambda_DSARP(level, cmd, rank, a)
    [] std = "SARP" -> Sa!lambda_DSARP(level, cmd, rank, a)
    [] std = "DSARP" -> Ds!lambda_DSARP(level, cmd, rank, a)

\* The completed speed entry and the timing entries of organisation o and speed i.
speed_entry(std, o, i) ==
  CASE std = "DDR3" -> Dd!speed_entry_DDR3(o, i)
    [] std = "DDR4" -> Dd!speed_entry_DDR4(o, i)
    [] std = "GDDR5" -> Gd!speed_entry_GDDR5(o, i)
    [] std = "HBM" -> Gd!speed_entry_HBM(o, i)
    [] std = "LPDDR3" -> Mb!speed_entry_LPDDR3(o, i)
    [] std = "LPDDR4" -> Mb!speed_entry_LPDDR4(o, i)
    [] std = "WideIO" -> Mb!speed_entry_WideIO(o, i)
    [] std = "WideIO2" -> Mb!speed_entry_WideIO2(o, i)
    [] std = "PCM" -> Nv!speed_entry_PCM(o, i)
    [] std = "STTMRAM" -> Nv!speed_entry_STTMRAM(o, i)
    [] std = "ALDRAM_HOT" -> Ah!speed_entry_ALDRAM(o, i)
    [] std = "ALDRAM_COLD" -> Ac!speed_entry_ALDRAM(o, i)
    [] std = "TLDRAM" -> Ac!speed_entry_TLDRAM(o, i)
    [] std = "SALP_1" -> S1!speed_entry_SALP(o, i)
    [] std = "SALP_2" -> S2!speed_entry_SALP(o, i)
    [] std = "MASA" -> Ms!speed_entry_SALP(o, i)
    [] std = "REFAB" -> Ra!speed_entry_DSARP(o, i)
    [] std = "REFPB" -> Rp!speed_entry_DSARP(o, i)
    [] std = "DARP" -> Da!speed_entry_DSARP(o, i)
    [] std = "SARP" -> Sa!speed_entry_DSARP(o, i)
    [] std = "DSARP" -> Ds!speed_entry_DSARP(o, i)

entries(std, o, i) ==
  CASE std = "DDR3" -> Dd!entries_DDR3(o, i)
    [] std = "DDR4" -> Dd!entries_DDR4(o, i)
    [] std = "GDDR5" -> Gd!entries_GDDR5(o, i)
    [] std = "HBM" -> Gd!entries_HBM(o, i)
    [] std = "LPDDR3" -> Mb!entries_LPDDR3(o, i)
    [] std = "LPDDR4" -> Mb!entries_LPDDR4(o, i)
    [] std = "WideIO" -> Mb!entries_WideIO(o, i)
    [] std = "WideIO2" -> Mb!entries_WideIO2(o, i)
    [] std = "PCM" -> Nv!entries_PCM(o, i)
    [] std = "STTMRAM" -> Nv!entries_STTMRAM(o, i)
    [] std = "ALDRAM_HOT" -> Ah!entries_ALDRAM(o, i)
    [] std = "ALDRAM_COLD" -> Ac!entries_ALDRAM(o, i)
    [] std = "TLDRAM" -> Ac!entries_TLDRAM(o, i)
    [] std = "SALP_1" -> S1!entries_SALP(o, i)
    [] std = "SALP_2" -> S2!entries_SALP(o, i)
    [] std = "MASA" -> Ms!entries_SALP(o, i)
    [] std = "REFAB" -> Ra!entries_DSARP(o, i)
    [] std = "REFPB" -> Rp!entries_DSARP(o, i)
    [] std = "DARP" -> Da!entries_DSARP(o, i)
    [] std = "SARP" -> Sa!entries_DSARP(o, i)
    [] std = "DSARP" -> Ds!entries_DSARP(o, i)

-----------------------------------------------------------------------------
(* The walks down the tree.                                                *)

NodeLevels(std) == Table[std].nodes

HasSubs(std) == \E i \in DOMAIN NodeLevels(std) : NodeLevels(std)[i] = "SubArray"

Depth(std, level) == Index(Table[std].Levels, level)

\* A rank of banks, all closed and powered up.
NewRank(std, banks, subs) ==
  LET closed == [state |-> "Closed", rows |-> {}]
      sub == [i \in IF HasSubs(std) THEN subs ELSE {} |-> closed]
  IN  [state |-> "PowerUp",
       banks |-> [b \in banks |-> [state |-> "Closed", rows |-> {}, subs |-> sub]]]

\* The levels a walk for this address visits: it stops below the rank when the
\* address names no bank.
Visited(std, a) ==
  IF a.bank = NoBank THEN <<"Channel", "Rank">> ELSE NodeLevels(std)

\* The first prerequisite met on the way down, or else the command itself.
decode(std, cmd, rank, a) ==
  LET level == Visited(std, a)
      asked == [i \in DOMAIN level |-> prereq(std, level[i], cmd, rank, a)]
  IN  Head(SelectSeq(asked, LAMBDA p : p # MAX) \o <<cmd>>)

check_row_hit(std, cmd, rank, a) == a.bank # NoBank /\ rowhit(std, cmd, rank, a)

check_row_open(std, cmd, rank, a) == a.bank # NoBank /\ rowopen(std, cmd, rank, a)

\* Every level down to the scope of the command takes its transition.
update_state(std, cmd, rank, a) ==
  LET scope == Table[std].scope[cmd]
      levels == SelectSeq(Visited(std, a), LAMBDA l : Depth(std, l) <= Depth(std, scope))
      after[n \in 0..Len(levels)] ==
        IF n = 0 THEN rank ELSE lambda(std, levels[n], cmd, after[n - 1], a)
  IN  after[Len(levels)]

-----------------------------------------------------------------------------
(* The row table: at most one entry, a row, per row group (the bank, or    *)
(* the subarray) of the channel.                                           *)

SameBank(e, a) == e.rank = a.rank /\ e.bank = a.bank
SameGroup(e, a) == SameBank(e, a) /\ e.sub = a.sub

\* A mutant of Removed: every row group of the bank is taken out.
RemovedByBank(std, cmd, table, a) ==
  IF cmd \notin Table[std].closing THEN {}
    ELSE {e \in table : IF Table[std].scope[cmd] = "Rank" THEN e.rank = a.rank ELSE SameBank(e, a)}

\* The entries a closing command takes out: those in its scope; an access that
\* closes takes its own row group only.
Removed(std, cmd, table, a) ==
  LET scope == IF cmd \in Table[std].accessing THEN "Group" ELSE Table[std].scope[cmd]
  IN  IF cmd \notin Table[std].closing THEN {}
        ELSE {e \in table : CASE scope = "Rank" -> e.rank = a.rank
                              [] scope = "Bank" /\ HasSubs(std) -> SameBank(e, a)
                              [] OTHER -> SameGroup(e, a)}

\* An entry that is there already is kept.
Inserted(std, cmd, table, a) ==
  IF cmd \in Table[std].opening /\ ~\E e \in table : SameGroup(e, a) THEN {a} ELSE {}

RowTable(std, cmd, table, a) ==
  (table \cup Inserted(std, cmd, table, a)) \ Removed(std, cmd, table, a)

\* Its assertions: an access finds its own row, and closing removes something.
RowTableAsserts(std, cmd, table, a) ==
  /\ cmd \in Table[std].accessing => \E e \in table : SameGroup(e, a) /\ e.row = a.row
  /\ cmd \in Table[std].closing => Removed(std, cmd, table, a) # {}

=============================================================================
