----------------------------- MODULE MCCashPool -----------------------------
(***************************************************************************)
(* Instances of CashPool for TLC: a split into two cash outputs, payments  *)
(* of one deposit, and one send whose consumed outputs pay for it.         *)
(***************************************************************************)
EXTENDS CashPool

MCFunds == <<[owner |-> "a", amount |-> 9, cash |-> FALSE],
             [owner |-> "a", amount |-> 3, cash |-> TRUE]>>
MCFundsMix == MCFunds \o <<[owner |-> "b", amount |-> 8, cash |-> TRUE]>>
MCRefund == {[pay |-> 2, extra |-> 0], [pay |-> 2, extra |-> 3]}
\* With the sends whose consumed outputs nearly, or just, pay for it.
MCSends == MCRefund \union {[pay |-> 2, extra |-> 1], [pay |-> 2, extra |-> 2]}

\* The instance with two accounts: two sends, two switches, or one of each.
MCMix == sends + switches <= 2
=============================================================================
