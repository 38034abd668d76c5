------------------------------- MODULE MCDram -------------------------------
(***************************************************************************)
(* Small instances of the DRAM devices.  A behaviour is that of one part:  *)
(* the clocks of a channel ("timing", the actions of DramTiming), or the   *)
(* states of a rank under any order of requests ("state").                 *)
(***************************************************************************)
EXTENDS DramTiming

VARIABLES part, device, nodes, row_table
stateVars == <<device, nodes, row_table>>
allVars == <<part, vars, stateVars>>

State == INSTANCE DramState
  WITH BankIds <- {<<0, 0>>, <<0, 1>>}, SubIds <- {0, 1, 2}, RowIds <- {0, 1},
       ClosesRows <- TRUE, std <- device, rank <- nodes, table <- row_table

Idle == "idle"

PartInit ==
  \/ part = "timing" /\ Init /\ device = Idle /\ nodes = Idle /\ row_table = Idle
  \/ /\ part = "state" /\ State!Init
     /\ config = Idle /\ warm = Idle /\ ranks = Idle /\ next = Idle /\ prev = Idle
     /\ issued = Idle

\* The timing part stops after its last command.
PartNext ==
  \/ part = "timing" /\ Next /\ UNCHANGED <<part, stateVars>>
  \/ part = "state" /\ State!Next /\ UNCHANGED <<part, vars>>

PartSpec == PartInit /\ [][PartNext]_allVars

-----------------------------------------------------------------------------
(* The configurations and the addresses of the timing part.                *)

At(r, b, i, row) == [rank |-> r, bank |-> b, sub |-> i, row |-> row]

Groups(d) == "BankGroup" \in Range(NodeLevels(d))

\* mixed: a bank with two rows, a bank of its group, one of another group, one of
\* another rank, and another subarray, where the standard has them; banked: five
\* banks of one rank, in two groups where there are groups.
MCWorkload ==
  [mixed |->
     [d \in Standard |->
        {At(0, <<0, 0>>, 0, 0), At(0, <<0, 0>>, 0, 1), At(0, <<0, 1>>, 0, 0)}
        \cup (IF Groups(d) THEN {At(0, <<1, 0>>, 0, 0)} ELSE {})
        \cup (IF d \in {"GDDR5", "WideIO", "HBM"} THEN {} ELSE {At(1, <<0, 0>>, 0, 0)})
        \cup (IF HasSubs(d) THEN {At(0, <<0, 0>>, 1, 0)} ELSE {})],
   banked |->
     [d \in Standard |->
        {At(0, <<IF Groups(d) THEN b % 2 ELSE 0, b>>, 0, 0) : b \in 0..4}]]

MCTypes == [mixed |-> {"READ", "WRITE"}, banked |-> {"READ"}]
MCClosesRows == [mixed |-> {"DDR3", "DDR4"}, banked |-> {}]
MCWarm == [mixed |-> BOOLEAN, banked |-> {FALSE}]
MCMaxIssues == [mixed |-> 3, banked |-> 5]

\* The standards whose tables keep every rule of DramTiming, and those with an
\* activation window.
Complete == {"DDR3", "DDR4", "GDDR5", "HBM", "LPDDR3", "LPDDR4", "WideIO", "WideIO2", "PCM",
             "STTMRAM", "MASA", "REFAB", "REFPB", "DARP", "SARP", "DSARP"}
Windowed == {"DDR3", "DDR4", "GDDR5", "HBM", "LPDDR4", "WideIO", "WideIO2"}
MCConfigs ==
  {<<d, 1, 1, "mixed">> : d \in Complete} \cup {<<d, 1, 1, "banked">> : d \in Windowed}

MCSpeed(c) == speed_entry(c[1], c[2], c[3])
MCTiming(c) == entries(c[1], c[2], c[3])

-----------------------------------------------------------------------------
(* The properties of DramTiming, while it runs.                            *)

\* The rules of the devices, whatever the order of the commands: no two bursts
\* overlap on the data bus and its drivers pause between ranks; no row is closed
\* before it is restored, and none opened before its buffer has precharged; no
\* rank opens a row or refreshes during a refresh, nor opens more rows in its
\* window than it may (the tables of init_timing, and update_timing of DRAM.h).
TimingRulesKept ==
  part = "timing" =>
    /\ TypeOK
    /\ BurstsDisjoint /\ RanksSwitch
    /\ RowsAreRestored /\ BanksPrecharge
    /\ RefreshesFinish /\ ActivationsSpread

-----------------------------------------------------------------------------
(* The properties of DramState, while it runs.                             *)

\* The code knows in four ways what is open: the states of the nodes, the rows of
\* the buffers, the controller's row table and the row-hit test.  They agree, and
\* no request's first command meets a state that the code asserts against.
OpenRowsAgree ==
  part = "state" =>
    /\ State!TypeOK /\ State!OneRowPerBuffer
    /\ State!RowTableAgrees /\ State!HitsAgree /\ State!AssertsHold

\* The prerequisites never send a request round in a circle.
EveryRequestGetsThrough == part = "state" => State!EveryRequestGetsThrough
=============================================================================
