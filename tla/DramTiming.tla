----------------------------- MODULE DramTiming -----------------------------
(***************************************************************************)
(* The clocks of one channel of any standard: every node keeps, for every  *)
(* command, the earliest clock at which it may be issued, and the clocks   *)
(* of its last commands (DRAM.h, check, get_next and update_timing).       *)
(* Requests arrive in any order; the first command of each is issued as    *)
(* soon as every node on its way allows it.  A run starts from an idle     *)
(* channel, all closed or with row 0 of every bank open, and is MaxIssues  *)
(* commands long: a gap of the tables relates two commands, or the first   *)
(* and the last of a window, and idling longer only lets it expire.        *)
(***************************************************************************)
EXTENDS Dram, FiniteSetsExt

CONSTANTS Configs,          \* a standard, an organisation, a speed and a workload each
          Workload,         \* what the requests name, per workload and standard
          Types,            \* the accesses requested: READ, WRITE, per workload
          ClosesRows,       \* per workload, the standards whose policy is ClosedAP
          Warm,             \* whether rows start open, per workload
          MaxIssues,        \* commands per behaviour of a workload
          Speed(_), Timing(_)   \* of a configuration, what the standard's constructor and
                                \* init_timing fill in (speed_entry and entries of Dram)

VARIABLES config, warm,     \* the configuration, and whether rows start open
          ranks,            \* the states of the nodes, per rank
          next, prev,       \* earliest clocks, and last clocks, per node and command
          issued            \* the commands so far: [cmd, at, a]
vars == <<config, warm, ranks, next, prev, issued>>

std == config[1]
load == config[4]

\* The gaps of every configuration, as pairs of a distance and a length: those a
\* command cmd starts for a command to, in its own node of a level or beside it.
Gaps(sibling) ==
  [c \in Configs |->
     LET all == {e \in Timing(c) : e.sibling = sibling}
     IN  [l \in Range(NodeLevels(c[1])) |->
            [cmd \in DOMAIN Table[c[1]].scope |->
               LET here == {e \in all : e.level = l /\ e.from = cmd}
               IN  [to \in {e.to : e \in here} |->
                      {<<e.dist, e.val>> : e \in {x \in here : x.to = to}}]]]]
OwnGaps == Gaps(FALSE)
SiblingGaps == Gaps(TRUE)
Speeds == [c \in Configs |-> Speed(c)]
s == Speeds[config]

-----------------------------------------------------------------------------
(* Nodes: named by their level and their place in the tree.                *)

WholeRank(r) == [rank |-> r, bank |-> NoBank, sub |-> -1, row |-> -1]
Requested(c) == Workload[c[4]][c[1]]
Ranks(c) == {a.rank : a \in Requested(c)}
Named(c) == Requested(c) \cup {WholeRank(r) : r \in Ranks(c)}
Place(a) == <<a.rank, a.bank, a.sub>>

Node(a, level) ==
  [level |-> level,
   path |-> CASE level = "Channel" -> <<>>
              [] level = "Rank" -> <<a.rank>>
              [] level = "BankGroup" -> <<a.rank, a.bank[1]>>
              [] level = "Bank" -> <<a.rank, a.bank>>
              [] level = "SubArray" -> Place(a)]

\* The nodes on the way of an address, and their children beside that way.
Way(d, a) == {Node(a, l) : l \in Range(Visited(d, a))}
Aside(c, a) ==
  LET d == c[1]
      parent(x, l) == Node(x, Table[d].Levels[Depth(d, l) - 1])
  IN  UNION {{Node(x, l) : l \in {k \in Range(NodeLevels(d)) \ {"Channel"} :
                                     parent(x, k) \in Way(d, a)}} : x \in Requested(c)}
        \ Way(d, a)

Nodes == [c \in Configs |-> UNION {Way(c[1], a) : a \in Requested(c)}]
OnWay ==
  [c \in Configs |-> [p \in {Place(a) : a \in Named(c)} |->
     Way(c[1], CHOOSE a \in Named(c) : Place(a) = p)]]
Beside ==
  [c \in Configs |-> [p \in {Place(a) : a \in Named(c)} |->
     Aside(c, CHOOSE a \in Named(c) : Place(a) = p)]]

Checked ==
  [c \in Configs |-> [p \in DOMAIN OnWay[c] |-> [cmd \in DOMAIN Table[c[1]].scope |->
     {n \in OnWay[c][p] : Depth(c[1], n.level) <= Depth(c[1], Table[c[1]].scope[cmd])}]]]

\* The commands whose entries look further back than the last one.
History(d) == {"ACT", "ACTF", "ACTM"} \cap DOMAIN Table[d].scope
MaxDist == 32

-----------------------------------------------------------------------------
(* The earliest clock, and the update of the clocks.                       *)

Smaller(x, y) == IF x < y THEN x ELSE y
Largest(S) == CHOOSE x \in S : \A y \in S : y <= x

clk == IF issued = <<>> THEN 0 ELSE issued[Len(issued)].at
\* One command per cycle, and none before the clock of a node on its way.
get_next(cmd, a) ==
  Largest({clk + 1} \cup {next[n][cmd] : n \in Checked[config][Place(a)][cmd]})

\* A mutant of Later: the last gap wins, not the longest.
LaterOverwrites(n, gaps, past) ==
  [to \in DOMAIN next[n] |->
     IF to \notin DOMAIN gaps THEN next[n][to]
       ELSE Largest({past[g[1]] + g[2] : g \in {x \in gaps[to] : x[1] <= Len(past)}} \cup {-1})]

\* The clocks of a node after a command: a gap counted from the dist-th last
\* command needs that much history.
Later(n, gaps, past) ==
  [to \in DOMAIN next[n] |->
     IF to \notin DOMAIN gaps THEN next[n][to]
       ELSE Largest({next[n][to]} \cup
                    {past[g[1]] + g[2] : g \in {x \in gaps[to] : x[1] <= Len(past)}})]

update_timing(cmd, a, at) ==
  LET on == OnWay[config][Place(a)]
      clocks(n) == IF cmd \notin DOMAIN prev[n] THEN <<at>>
                     ELSE <<at>> \o SubSeq(prev[n][cmd], 1, Smaller(Len(prev[n][cmd]), MaxDist - 1))
  IN  /\ next' = [n \in DOMAIN next |->
                    CASE n \in on -> Later(n, OwnGaps[config][n.level][cmd], clocks(n))
                      [] n \in Beside[config][Place(a)] ->
                           Later(n, SiblingGaps[config][n.level][cmd], <<at>>)
                      [] OTHER -> next[n]]
      /\ prev' = [n \in DOMAIN prev |->
                    IF n \in on /\ cmd \in History(std)
                      THEN [prev[n] EXCEPT ![cmd] = clocks(n)] ELSE prev[n]]

-----------------------------------------------------------------------------
(* Requests.                                                               *)

translate(type) == Table[std].translate[type]

OpenAll(c, r) ==
  LET d == c[1]
      own == {a \in Requested(c) : a.rank = r /\ a.row = 0}
      new == NewRank(d, {a.bank : a \in own}, {a.sub : a \in own})
      one == {a \in own : \A x \in own : x.bank = a.bank => a.sub <= x.sub}
      act == IF d = "TLDRAM" THEN "ACTF" ELSE "ACT"
  IN  FoldSet(LAMBDA a, rank : update_state(d, act, rank, a), new, one)

Init ==
  /\ config \in Configs
  /\ warm \in Warm[load]
  /\ ranks = [r \in Ranks(config) |->
                IF warm THEN OpenAll(config, r)
                  ELSE NewRank(std, {a.bank : a \in Requested(config)},
                               {a.sub : a \in Requested(config)})]
  /\ next = [n \in Nodes[config] |-> [cmd \in DOMAIN Table[std].scope |-> -1]]
  /\ prev = [n \in Nodes[config] |-> [cmd \in History(std) |-> <<>>]]
  /\ issued = <<>>

get_addr_vec(cmd, a) ==
  IF cmd # "PRE_OTHER" THEN a
    ELSE CASE std = "SALP_1" -> S1!get_offending_subarray(ranks[a.rank], a)
           [] std = "SALP_2" -> S2!get_offending_subarray(ranks[a.rank], a)
           [] OTHER -> a

issue_cmd(cmd, a) ==
  \E at \in {get_next(cmd, a)} :
    /\ ranks' = [ranks EXCEPT ![a.rank] = update_state(std, cmd, @, a)]
    /\ update_timing(cmd, a, at)
    /\ issued' = Append(issued, [cmd |-> cmd, at |-> at, a |-> a])
    /\ UNCHANGED <<config, warm>>

Upgrades(cmd) ==
  {cmd} \cup (IF std \notin ClosesRows[load] THEN {}
                ELSE CASE cmd = "RD" -> {"RDA"} [] cmd = "WR" -> {"WRA"} [] OTHER -> {})

Access ==
  \E type \in Types[load], a \in Requested(config) :
    \E first \in {decode(std, translate(type), ranks[a.rank], a)} :
      \E cmd \in Upgrades(first) : issue_cmd(cmd, get_addr_vec(first, a))

RefreshAddress ==
  IF translate("REFRESH") = "REF" THEN {WholeRank(r) : r \in Ranks(config)}
    ELSE {[a EXCEPT !.row = -1] : a \in Requested(config)}

Refresh ==
  \E a \in RefreshAddress :
    issue_cmd(decode(std, translate("REFRESH"), ranks[a.rank], a), a)

Next == Len(issued) < MaxIssues[load] /\ (Access \/ Refresh)

Spec == Init /\ [][Next]_vars

-----------------------------------------------------------------------------
(* Properties.                                                             *)

TypeOK ==
  /\ config \in Configs /\ warm \in BOOLEAN
  /\ DOMAIN ranks = Ranks(config)
  /\ \A n \in DOMAIN next : \A cmd \in DOMAIN next[n] : next[n][cmd] >= -1
  /\ Len(issued) <= MaxIssues[load]
  /\ \A i \in 1..(Len(issued) - 1) : issued[i].at < issued[i + 1].at

Field(name, perBank) == IF name \in DOMAIN s THEN s[name] ELSE s[perBank]
Optional(name) == IF name \in DOMAIN s THEN s[name] ELSE 0

Transfers == {i \in DOMAIN issued : issued[i].cmd \in CAS}
Start(e) == e.at + (IF e.cmd \in RDs THEN s.nCL + Optional("nDQSCK") ELSE s.nCWL)

\* Whatever the order of the commands, their bursts never overlap: the entries
\* between commands of one rank, of its bank groups and of sibling ranks leave
\* no pair out (init_timing of every standard, DRAM.h update_timing).
BurstsDisjoint ==
  \A i, j \in Transfers :
    i # j => \/ Start(issued[i]) + s.nBL <= Start(issued[j])
             \/ Start(issued[j]) + s.nBL <= Start(issued[i])

\* The bus changes its driver with a pause of nRTRS: after a burst of a rank,
\* one of another rank, unless both are writes (the entries for sibling ranks).
RanksSwitch ==
  \A i, j \in Transfers :
    /\ issued[i].a.rank # issued[j].a.rank /\ Start(issued[i]) <= Start(issued[j])
    /\ ~(issued[i].cmd \in WRs /\ issued[j].cmd \in WRs)
    => Start(issued[i]) + s.nBL + Optional("nRTRS") <= Start(issued[j])

\* Only in the SALP schemes is the row buffer one of a subarray.
SameBuffer(x, y) ==
  SameBank(x, y) /\ (std \in {"SALP_1", "SALP_2", "MASA"} => x.sub = y.sub)

Opens(e, b) == e.cmd \in Table[std].opening /\ SameBuffer(e.a, b)
Closes(e, b) ==
  /\ e.cmd \in Table[std].closing
  /\ e.a.rank = b.rank
  /\ Table[std].scope[e.cmd] = "Rank" \/ SameBuffer(e.a, b)

\* The command that closed the row the i-th command opened, and the clock at
\* which the bank starts to precharge.
ClosedBy(i) ==
  {j \in (i + 1)..Len(issued) : Closes(issued[j], issued[i].a)
     /\ \A k \in (i + 1)..(j - 1) : ~Closes(issued[k], issued[i].a)}
Precharges(j) ==
  LET e == issued[j]
  IN  CASE e.cmd = "RDA" -> e.at + s.nRTP
        [] e.cmd = "WRA" -> e.at + s.nCWL + s.nBL + s.nWR
        [] OTHER -> e.at

\* A row stays open until it is restored, and until every burst from or to it
\* is through: a precharge of the bank, of all banks, or at the end of an
\* access waits for them all (the entries towards PRE, PREA and their kin).
RowsAreRestored ==
  \A i \in DOMAIN issued : Opens(issued[i], issued[i].a) =>
    \A j \in ClosedBy(i) :
      /\ issued[j].cmd \notin CAS => issued[j].at >= issued[i].at + s.nRAS
      /\ \A k \in Transfers :
           i < k /\ k < j /\ SameBuffer(issued[k].a, issued[i].a) =>
             Precharges(j) >=
               issued[k].at + (IF issued[k].cmd \in RDs THEN s.nRTP ELSE s.nCWL + s.nBL + s.nWR)

\* A row buffer precharges in full before it is opened or refreshed again,
\* however it was closed (the entries from PRE, PREA, RDA and WRA).
BanksPrecharge ==
  \A i \in DOMAIN issued : Opens(issued[i], issued[i].a) =>
    \A j \in ClosedBy(i) : \A k \in (j + 1)..Len(issued) :
      \/ Opens(issued[k], issued[i].a)
      \/ issued[k].cmd = "REF" /\ issued[k].a.rank = issued[i].a.rank
      \/ issued[k].cmd = "REFPB" /\ SameBank(issued[k].a, issued[i].a)
      => issued[k].at >= Precharges(j) + Field("nRP", "nRPpb")

\* A refresh keeps the rank busy: nothing in it opens, and no other refresh
\* starts, before it ends, whether rows were open when it was asked for or not.
RefreshesFinish ==
  \A i, j \in DOMAIN issued :
    /\ i < j /\ issued[i].a.rank = issued[j].a.rank
    /\ issued[i].cmd = "REF" /\ issued[j].cmd \in Table[std].opening \cup {"REF"}
    => issued[j].at >= issued[i].at + Field("nRFC", "nRFCab")

\* No rank opens more rows than its charge pumps allow: four in nFAW, in
\* WideIO two in nTAW, wherever its banks are and whatever was issued in
\* between (the entries that look further back than the last command).
ActivationsSpread ==
  LET most == IF std = "WideIO" THEN 2 ELSE 4
      window == Field("nFAW", "nTAW")
  IN  \A i, j \in {k \in DOMAIN issued : issued[k].cmd \in Table[std].opening} :
        /\ i < j /\ issued[i].a.rank = issued[j].a.rank
        /\ Cardinality({k \in i..j : /\ issued[k].cmd \in Table[std].opening
                                     /\ issued[k].a.rank = issued[i].a.rank}) > most
        => issued[j].at >= issued[i].at + window

=============================================================================
