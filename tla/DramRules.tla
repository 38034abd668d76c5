----------------------------- MODULE DramRules -----------------------------
(***************************************************************************)
(* What the fifteen memory standards of the simulator share: the shape of  *)
(* a timing entry, the rows of the tables of organisations and speeds, and *)
(* the handful of rules their prerequisite, row-hit and state-transition   *)
(* lambdas are written with.  A rank is a record of its power state and    *)
(* of its banks; a bank keeps its state and the rows it holds open, and,   *)
(* in the standards with subarrays, the same for every subarray.  Bank     *)
(* groups keep no state in any standard: a bank is named by its group and  *)
(* its number.  An address names the rank, the bank, the subarray and the  *)
(* row of a request; NoBank stands for the -1 of a refresh of a rank.      *)
(***************************************************************************)
EXTENDS Integers, Sequences, FiniteSets, Functions

NoBank == <<-1, -1>>

\* MAX is the code's "no prerequisite here"; Fails is its assert(false).
MAX == "MAX"
Fails == "Fails"

RDs == {"RD", "RDA"}
WRs == {"WR", "WRA"}
CAS == RDs \cup WRs

-----------------------------------------------------------------------------
(* Tables.                                                                 *)

\* Every command of From keeps every command of To away for val cycles, in
\* the node of that level it was sent to.
Gap(level, From, To, val) ==
  [level : {level}, from : From, to : To, dist : {1}, val : {val}, sibling : {FALSE}]

\* The same for the siblings of that node.
Sibling(level, From, To, val) ==
  [level : {level}, from : From, to : To, dist : {1}, val : {val}, sibling : {TRUE}]

\* Counted from the dist-th last command: at most dist of them in val cycles.
Window(level, From, To, dist, val) ==
  [level : {level}, from : From, to : To, dist : {dist}, val : {val}, sibling : {FALSE}]

\* The levels that have nodes: rows are not instantiated.
WithNodes(levels) == SelectSeq(levels, LAMBDA l : l \notin {"Row", "Column"})

Index(seq, x) == CHOOSE i \in DOMAIN seq : seq[i] = x

\* A row of a speed table, as a record of its fields.
SpeedEntry(fields, row) == [f \in Range(fields) |-> row[Index(fields, f)]]

\* A row of an organisation table: the density in megabits, the width of the
\* chip and the number of nodes of every level (0: set by the configuration).
OrgEntry(levels, row) ==
  [size |-> row[1], dq |-> row[2],
   count |-> [l \in Range(levels) |-> row[Index(levels, l) + 2]]]

\* The activation and refresh times of DDR3 and of the standards built on it,
\* by data rate, page size and density.
Ddr3Speed(o, s) ==
  LET rate == Index(<<800, 1066, 1333, 1600, 1866, 2133>>, s.rate)
      page == (o.dq * o.count["Column"]) \div 2^13
      chip == IF o.size \in {512, 2^10, 2^11, 2^12}
                THEN Index(<<512, 2^10, 2^11, 2^12>>, o.size) ELSE 5
  IN  [s EXCEPT
        !.nRRD = (IF page = 1 THEN <<4, 4, 4, 5, 5, 5>> ELSE <<4, 6, 5, 6, 6, 6>>)[rate],
        !.nFAW = (IF page = 1 THEN <<16, 20, 20, 24, 26, 27>>
                              ELSE <<20, 27, 30, 32, 33, 34>>)[rate],
        !.nRFC = << <<36, 44, 64, 104, 140>>, <<48, 59, 86, 139, 187>>,
                    <<60, 74, 107, 174, 234>>, <<72, 88, 128, 208, 280>>,
                    <<84, 103, 150, 243, 327>>, <<96, 118, 171, 278, 374>> >>[rate][chip],
        !.nXS = << <<40, 48, 68, 108, 144>>, <<54, 64, 91, 144, 192>>,
                   <<67, 80, 114, 180, 240>>, <<80, 96, 136, 216, 288>>,
                   <<94, 112, 159, 252, 336>>, <<107, 128, 182, 288, 384>> >>[rate][chip]]

\* ceil(n / d) of non-negative integers.
CeilDiv(n, d) == (n + d - 1) \div d

-----------------------------------------------------------------------------
(* Prerequisites.                                                          *)

\* A command to a powered-down rank wakes it up first.
Awake(rank, exitPowerDown, exitSelfRefresh) ==
  CASE rank.state = "PowerUp" -> MAX
    [] rank.state \in {"ActPowerDown", "PrePowerDown"} -> exitPowerDown
    [] rank.state = "SelfRefresh" -> exitSelfRefresh
    [] OTHER -> Fails

\* An access needs its own row open in the bank (or subarray).
OpenRow(node, row, cmd, act, pre) ==
  CASE node.state = "Closed" -> act
    [] node.state = "Opened" -> IF row \in node.rows THEN cmd ELSE pre
    [] OTHER -> Fails

\* A refresh needs the nodes it covers closed.
AllClosed(nodes, ref, pre) ==
  IF \A n \in nodes : n.state = "Closed" THEN ref ELSE pre

EnterPowerDown(rank, enter, exitSelfRefresh) ==
  CASE rank.state \in {"PowerUp", "ActPowerDown", "PrePowerDown"} -> enter
    [] rank.state = "SelfRefresh" -> exitSelfRefresh
    [] OTHER -> Fails

EnterSelfRefresh(rank, enter, exitPowerDown) ==
  CASE rank.state \in {"PowerUp", "SelfRefresh"} -> enter
    [] rank.state \in {"ActPowerDown", "PrePowerDown"} -> exitPowerDown
    [] OTHER -> Fails

-----------------------------------------------------------------------------
(* Row hits and open rows.                                                 *)

HitsRow(node, row) == node.state # "Closed" /\ row \in node.rows

RowIsOpen(node) == node.state # "Closed"

-----------------------------------------------------------------------------
(* State transitions.                                                      *)

Banks(rank) == {rank.banks[b] : b \in DOMAIN rank.banks}
Subs(bank) == {bank.subs[i] : i \in DOMAIN bank.subs}

\* A node that is opened on a row, in the state given; a row map keeps the
\* rows it already holds.
Open(node, row, state) == [node EXCEPT !.state = state, !.rows = @ \cup {row}]
Close(node) == [node EXCEPT !.state = "Closed", !.rows = {}]
CloseSubs(bank) == [bank EXCEPT !.subs = [i \in DOMAIN @ |-> Close(@[i])]]

OpenBank(rank, a) == [rank EXCEPT !.banks[a.bank] = Open(@, a.row, "Opened")]
CloseBank(rank, a) == [rank EXCEPT !.banks[a.bank] = Close(@)]
CloseBanks(rank) == [rank EXCEPT !.banks = [b \in DOMAIN @ |-> Close(@[b])]]

PowerDown(rank, nodes) ==
  [rank EXCEPT !.state = IF \A n \in nodes : n.state = "Closed"
                           THEN "PrePowerDown" ELSE "ActPowerDown"]
PowerUp(rank) == [rank EXCEPT !.state = "PowerUp"]
SelfRefresh(rank) == [rank EXCEPT !.state = "SelfRefresh"]

-----------------------------------------------------------------------------
(* The rules of a standard whose banks have no subarrays; n names its      *)
(* commands for all banks, power-down and self-refresh.                    *)

OpenBankPrereq(n, level, cmd, rank, a) ==
  CASE level = "Rank" /\ cmd \in {"RD", "WR"} -> Awake(rank, n.pdx, n.srx)
    [] level = "Bank" /\ cmd \in {"RD", "WR"} ->
         OpenRow(rank.banks[a.bank], a.row, cmd, "ACT", "PRE")
    [] level = "Rank" /\ cmd = "REF" -> AllClosed(Banks(rank), "REF", n.prea)
    [] level = "Bank" /\ cmd = n.perBank -> AllClosed({rank.banks[a.bank]}, cmd, "PRE")
    [] level = "Rank" /\ cmd = n.pde -> EnterPowerDown(rank, n.pde, n.srx)
    [] level = "Rank" /\ cmd = n.sre -> EnterSelfRefresh(rank, n.sre, n.pdx)
    [] OTHER -> MAX

OpenBankLambda(n, level, cmd, rank, a) ==
  CASE level = "Bank" /\ cmd = "ACT" -> OpenBank(rank, a)
    [] level = "Bank" /\ cmd \in {"PRE", "RDA", "WRA"} -> CloseBank(rank, a)
    [] level = "Rank" /\ cmd = n.prea -> CloseBanks(rank)
    [] level = "Rank" /\ cmd = n.pde -> PowerDown(rank, Banks(rank))
    [] level = "Rank" /\ cmd \in {n.pdx, n.srx} -> PowerUp(rank)
    [] level = "Rank" /\ cmd = n.sre -> SelfRefresh(rank)
    [] OTHER -> rank

=============================================================================
