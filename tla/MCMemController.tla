-------------------------- MODULE MCMemController ---------------------------
(***************************************************************************)
(* Instances of MemController for TLC: one rank and one bank.               *)
(***************************************************************************)
EXTENDS MemController

Row(bank, row) == [rank |-> 0, bank |-> <<0, bank>>, sub |-> 0, row |-> row]
OneBank == {Row(0, 0), Row(0, 1)}

=============================================================================
