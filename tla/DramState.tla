----------------------------- MODULE DramState ------------------------------
(***************************************************************************)
(* One rank of any standard under every order of requests: each step the   *)
(* controller takes some request and issues the first command it needs     *)
(* (Controller.h, tick and issue_cmd), or, when its row policy closes      *)
(* rows, precharges a row group of the row table.  Clocks are left out:    *)
(* any request may come next.                                              *)
(***************************************************************************)
EXTENDS Dram

CONSTANTS BankIds, SubIds, RowIds,   \* what the addresses name
          ClosesRows                 \* the row policy is ClosedAP, not Opened

VARIABLES std,     \* the standard
          rank,    \* the states of its nodes
          table    \* the controller's row table
vars == <<std, rank, table>>

Address ==
  [rank : {0}, bank : BankIds, sub : IF HasSubs(std) THEN SubIds ELSE {0}, row : RowIds]
WholeRank == [rank |-> 0, bank |-> NoBank, sub |-> -1, row |-> -1]

Init ==
  /\ std \in Standard
  /\ rank = NewRank(std, BankIds, SubIds)
  /\ table = {}

-----------------------------------------------------------------------------
(* Requests and the commands they need.                                    *)

translate(type) == Table[std].translate[type]

Accesses == {"READ", "WRITE"} \cup (IF std = "TLDRAM" THEN {"EXTENSION"} ELSE {})

\* The address a command is sent to: PRE_OTHER goes to the subarray in the way.
get_addr_vec(cmd, a) ==
  IF cmd # "PRE_OTHER" THEN a
    ELSE CASE std = "SALP_1" -> S1!get_offending_subarray(rank, a)
           [] std = "SALP_2" -> S2!get_offending_subarray(rank, a)
           [] OTHER -> a

get_first_cmd(type, a) == decode(std, translate(type), rank, a)

\* The commands an access may be upgraded to: its auto-precharge form, when no
\* other request hits the row.
cmd_issue_autoprecharge(cmd) ==
  {cmd} \cup (IF ~ClosesRows \/ std = "TLDRAM" THEN {}
                ELSE CASE cmd = "RD" -> {"RDA"} [] cmd = "WR" -> {"WRA"} [] OTHER -> {})

issue_cmd(cmd, a) ==
  /\ rank' = update_state(std, cmd, rank, a)
  /\ table' = RowTable(std, cmd, table, a)
  /\ UNCHANGED std

Access ==
  \E type \in Accesses, a \in Address : \E first \in {get_first_cmd(type, a)} :
    \E cmd \in cmd_issue_autoprecharge(first) : issue_cmd(cmd, get_addr_vec(first, a))

\* Refreshes cover the rank; those of DSARP's other schemes cover one bank.
RefreshAddress ==
  IF translate("REFRESH") = "REF" THEN {WholeRank}
    ELSE [rank : {0}, bank : BankIds, sub : {-1}, row : {-1}]

Refresh == \E a \in RefreshAddress : issue_cmd(get_first_cmd("REFRESH", a), a)

LowPowerTypes == {"POWERDOWN", "SELFREFRESH"}
LowPower ==
  \E type \in LowPowerTypes : issue_cmd(get_first_cmd(type, WholeRank), WholeRank)

\* Every request there can be, as its type and its address.
Requests ==
  (Accesses \X Address) \cup ({"REFRESH"} \X RefreshAddress) \cup (LowPowerTypes \X {WholeRank})

\* A victim of the row policy.
SpeculativePrecharge == ClosesRows /\ \E e \in table : issue_cmd("PRE", e)

Next == Access \/ Refresh \/ LowPower \/ SpeculativePrecharge

Spec == Init /\ [][Next]_vars

-----------------------------------------------------------------------------
(* Properties.                                                             *)

Buffer ==
  IF HasSubs(std) THEN {<<b, i>> : b \in BankIds, i \in SubIds} ELSE {<<b, 0>> : b \in BankIds}
BufferState(f) ==
  IF HasSubs(std) THEN rank.banks[f[1]].subs[f[2]] ELSE rank.banks[f[1]]

TypeOK ==
  /\ std \in Standard
  /\ rank.state \in {"PowerUp", "ActPowerDown", "PrePowerDown", "SelfRefresh"}
  /\ \A f \in Buffer : /\ BufferState(f).state \in {"Closed", "Opened", "Selected"}
                       /\ BufferState(f).rows \subseteq RowIds
  /\ table \subseteq Address

\* A row buffer holds at most one row, and a row if and only if it is not
\* closed; MASA selects at most one subarray of a bank; SALP-1 and DSARP open at
\* most one subarray of a bank, and then the bank is open too (the row maps and
\* the states that the lambdas of every standard keep at several levels).
OneRowPerBuffer ==
  /\ \A f \in Buffer : /\ Cardinality(BufferState(f).rows) <= 1
                       /\ (BufferState(f).rows = {}) <=> (BufferState(f).state = "Closed")
  /\ \A b \in BankIds :
       LET bank == rank.banks[b]
           In(states) == {i \in DOMAIN bank.subs : bank.subs[i].state \in states}
       IN  /\ Cardinality(In({"Selected"})) <= 1
           /\ std \in {"SALP_1", "REFAB", "REFPB", "DARP", "SARP", "DSARP"} =>
                /\ Cardinality(In({"Opened"})) <= 1
                /\ (bank.state = "Opened") <=> (In({"Opened"}) # {})

\* The row table, which only watches the commands go by, holds exactly the rows
\* that are open in the nodes (RowTable::update, Scheduler.h).
RowTableAgrees ==
  table = UNION {{[rank |-> 0, bank |-> f[1], sub |-> f[2], row |-> r] :
                    r \in BufferState(f).rows} : f \in Buffer}

\* What issuing the first command of any request would assert: a state no
\* lambda expects, a row-table entry that is missing, and a PRE_OTHER sent to a
\* subarray that is not open.
AssertsHold ==
  LET Sent(cmd, to) ==
        /\ cmd # Fails
        /\ \A c \in cmd_issue_autoprecharge(cmd) : RowTableAsserts(std, c, table, to)
        /\ cmd = "PRE_OTHER" => \E e \in table : SameGroup(e, to)
      Needed(cmd, a) == Sent(cmd, get_addr_vec(cmd, a))
      Holds(type, a) == Needed(get_first_cmd(type, a), a)
  IN  \A q \in Requests : Holds(q[1], q[2])

\* The scheduler's row-hit test, the decoder and the row table agree: an access
\* hits exactly when the table holds its row, and in a rank that is awake a hit
\* needs no row to be opened: at most the selection of its subarray, or the
\* closing of another one (is_row_hit and get_first_cmd, Controller.h).
HitsAgree ==
  \A type \in {"READ", "WRITE"}, a \in Address :
    \A hit \in {check_row_hit(std, translate(type), rank, a)}, first \in {get_first_cmd(type, a)} :
      /\ hit <=> \E e \in table : SameGroup(e, a) /\ e.row = a.row
      /\ hit /\ rank.state = "PowerUp" => first \in {translate(type), "SASEL", "PRE_OTHER"}
      /\ first = translate(type) => hit

\* Left alone, any request reaches its own command after at most five others:
\* the prerequisites never send it round in a circle.
Steps == 6
EveryRequestGetsThrough ==
  LET To(cmd, r, a) == CASE cmd # "PRE_OTHER" -> a
                         [] std = "SALP_1" -> S1!get_offending_subarray(r, a)
                         [] std = "SALP_2" -> S2!get_offending_subarray(r, a)
      Issued(type, cmd, r, a) == [rank |-> update_state(std, cmd, r, To(cmd, r, a)),
                                  done |-> cmd = translate(type)]
      Step(type, s, a) ==
        IF s.done THEN s
          ELSE Issued(type, decode(std, translate(type), s.rank, a), s.rank, a)
      Done(type, a) ==
        LET after[n \in 0..Steps] ==
              IF n = 0 THEN [rank |-> rank, done |-> FALSE] ELSE Step(type, after[n - 1], a)
        IN  after[Steps].done
  IN  \A q \in Requests : Done(q[1], q[2])

=============================================================================
