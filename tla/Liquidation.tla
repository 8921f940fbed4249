---------------------------- MODULE Liquidation ----------------------------
(***************************************************************************)
(* What contracts/src/HyperLendLiquidator.sol promises its owner: a        *)
(* liquidation happens as a whole and pays at least the profit asked for,  *)
(* or nothing has happened.                                                *)
(***************************************************************************)
EXTENDS Naturals

CONSTANT MinProfits

VARIABLES
  user,      \* the borrower's debt and collateral
  wealth,    \* what owner and contract hold of the debt asset
  loan,      \* what the contract owes the Pool
  asked      \* the least profit of the transaction under way, or None

None == [profit |-> 0, running |-> FALSE]
Asked(m) == [profit |-> m, running |-> TRUE]

Init ==
  /\ user \in [debt : Nat, coll : Nat] /\ wealth \in Nat
  /\ loan = 0 /\ asked = None

Ask(m) ==
  /\ ~asked.running /\ asked' = Asked(m)
  /\ UNCHANGED <<user, wealth, loan>>

\* Some debt is repaid, some collateral taken, the loan given back.
Done ==
  /\ asked.running /\ asked' = None
  /\ user'.debt < user.debt /\ user'.coll <= user.coll
  /\ wealth' >= wealth + asked.profit
  /\ loan' = 0

Undone ==
  /\ asked.running /\ asked' = None
  /\ UNCHANGED <<user, wealth, loan>>

\* Tokens arrive, or the borrower's position moves, between transactions.
Outside ==
  /\ ~asked.running /\ wealth' >= wealth
  /\ UNCHANGED <<loan, asked>>

Next == Done \/ Undone \/ Outside \/ \E m \in MinProfits : Ask(m)

Spec == Init /\ [][Next]_<<user, wealth, loan, asked>>
=============================================================================
