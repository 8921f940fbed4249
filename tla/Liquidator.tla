----------------------------- MODULE Liquidator -----------------------------
(***************************************************************************)
(* contracts/src/HyperLendLiquidator.sol, step by step: one transaction    *)
(* pushes a price, borrows the debt asset, liquidates, swaps what it       *)
(* seized in one or two legs, repays and pays its owner, or is undone as a *)
(* whole.  The Pool, the swap venues and the oracle adapter are outside    *)
(* the contract: what they give is free, what they can take is bounded by  *)
(* the contract's allowances.  Only the owner starts a transaction, and    *)
(* only the Pool calls back, so the callback is a step of it.              *)
(***************************************************************************)
EXTENDS Naturals

CONSTANTS
  MinProfits,      \* values of minProfit
  PREMIUM,         \* of a flash loan
  MaxOut,          \* bound: a swap gives no more
  MaxDebt,         \* bound: debt and collateral of the borrower at the start
  MaxDust          \* bound: no token arrives when so many are here or paid out

ASSUME LiquidatorAssumption ==
  /\ MinProfits \subseteq Nat /\ PREMIUM \in Nat
  /\ MaxOut \in Nat /\ MaxDebt \in Nat /\ MaxDust \in Nat

Tokens == {"debt", "coll", "mid"}
Spenders == {"pool", "venue", "venue2"}

VARIABLES
  pc,       \* idle, or the next step of the transaction
  tx,       \* its arguments, and balBefore
  user,     \* the borrower's position
  under,    \* whether the Pool lets it be liquidated
  held,     \* the contract's tokens
  paid,     \* tokens sent to the owner
  allow,    \* allowances the contract has given
  loan,     \* what it owes the Pool
  locked,   \* _locked = 2
  saved     \* what a revert restores

state == <<user, under, held, paid, allow, loan, locked>>
vars == <<pc, tx, state, saved>>

PCs == {"idle", "push", "lend", "cover", "swap", "swap2", "repay", "pull", "settle"}
Requests == [flash : BOOLEAN, same : BOOLEAN, twoLegs : BOOLEAN,
             cover : Nat, minProfit : Nat, balBefore : Nat]

Image == [user |-> user, under |-> under, held |-> held, paid |-> paid]

NoTokens == [t \in Tokens |-> 0]
NoTx == [flash |-> FALSE, same |-> FALSE, twoLegs |-> FALSE, cover |-> 0, minProfit |-> 0,
         balBefore |-> 0]
NoImage == [user |-> [debt |-> 0, coll |-> 0], under |-> FALSE, held |-> NoTokens, paid |-> NoTokens]
NoAllowance == [t \in Tokens |-> [s \in Spenders |-> 0]]

Init ==
  /\ pc = "idle" /\ user \in [debt : 0..MaxDebt, coll : 0..MaxDebt] /\ under \in BOOLEAN
  /\ held = NoTokens /\ paid = NoTokens /\ allow = NoAllowance
  /\ loan = 0 /\ locked = FALSE /\ tx = NoTx /\ saved = NoImage

-----------------------------------------------------------------------------
(***************************************************************************)
(* The transaction                                                         *)
(***************************************************************************)

AfterPush(flash) == IF flash THEN "lend" ELSE "cover"

\* liquidate, liquidateTwoLeg, liquidateWithPush
Enter(flash, same, twoLegs, push, cover, minProfit) ==
  /\ pc = "idle" /\ ~locked /\ locked' = TRUE
  /\ push => ~twoLegs      \* there is no entry with both
  /\ tx' = [flash |-> flash, same |-> same, twoLegs |-> twoLegs, cover |-> cover,
            minProfit |-> minProfit, balBefore |-> held["debt"]]
  /\ pc' = IF push THEN "push" ELSE AfterPush(flash)
  /\ saved' = Image
  /\ UNCHANGED <<user, under, held, paid, allow, loan>>

\* The oracle takes the price or refuses it; both let the transaction go on.
Push ==
  /\ pc = "push" /\ pc' = AfterPush(tx.flash)
  /\ under' \in {under, TRUE}
  /\ UNCHANGED <<tx, user, held, paid, allow, loan, locked, saved>>

\* flashLoanSimple: the Pool lends and calls executeOperation.
Lend ==
  /\ pc = "lend" /\ pc' = "cover"
  /\ held' = [held EXCEPT !["debt"] = @ + tx.cover]
  /\ loan' = tx.cover + PREMIUM
  /\ UNCHANGED <<tx, user, under, paid, allow, locked, saved>>

\* Variant: the rest of the allowance is not taken back.
AfterUse_Kept(token, spender, given, used) == [allow EXCEPT ![token][spender] = given - used]

\* Variant: what was given is taken off once more.
AfterUse_Decreased(token, spender, given, used) ==
  [allow EXCEPT ![token][spender] = (given - used) - given]

\* _forceApprove to the amount given, a call that uses some of it, and
\* _forceApprove to 0.
AfterUse(token, spender, given, used) == [allow EXCEPT ![token][spender] = 0]

AfterSwaps == IF tx.flash THEN "repay" ELSE "settle"
CollToken == IF tx.same THEN "debt" ELSE "coll"

\* liquidationCall pulls what it takes, which is covered by the allowance, and
\* sends the collateral.
Cover ==
  /\ pc = "cover" /\ under
  /\ \E pulled \in 1..tx.cover, seized \in 0..user.coll :
       /\ pulled <= user.debt /\ pulled <= held["debt"]
       /\ user' = [debt |-> user.debt - pulled, coll |-> user.coll - seized]
       /\ held' = [[held EXCEPT !["debt"] = @ - pulled] EXCEPT ![CollToken] = @ + seized]
       /\ allow' = AfterUse("debt", "pool", tx.cover, pulled)
  /\ pc' = IF tx.same THEN AfterSwaps ELSE "swap"
  /\ UNCHANGED <<tx, under, paid, loan, locked, saved>>

\* A venue takes at most what it may and gives something for it.
Trade(from, to, venue) ==
  /\ held[from] > 0
  /\ \E in \in 0..held[from], out \in 0..MaxOut :
       /\ held' = [held EXCEPT ![from] = @ - in, ![to] = @ + out]
       /\ allow' = AfterUse(from, venue, held[from], in)
  /\ UNCHANGED <<tx, user, under, paid, loan, locked, saved>>

Swap ==
  /\ pc = "swap" /\ pc' = IF tx.twoLegs THEN "swap2" ELSE AfterSwaps
  /\ Trade("coll", IF tx.twoLegs THEN "mid" ELSE "debt", "venue")

Swap2 ==
  /\ pc = "swap2" /\ pc' = AfterSwaps
  /\ Trade("mid", "debt", "venue2")

\* The end of executeOperation: CannotRepay, or an allowance for the Pool.
Repay ==
  /\ pc = "repay" /\ pc' = "pull"
  /\ held["debt"] >= loan
  /\ allow' = [allow EXCEPT !["debt"]["pool"] = loan]
  /\ UNCHANGED <<tx, user, under, held, paid, loan, locked, saved>>

\* The Pool takes amount and premium back.
Pull ==
  /\ pc = "pull" /\ pc' = "settle"
  /\ allow["debt"]["pool"] >= loan /\ held["debt"] >= loan
  /\ held' = [held EXCEPT !["debt"] = @ - loan]
  /\ allow' = [allow EXCEPT !["debt"]["pool"] = @ - loan]
  /\ loan' = 0
  /\ UNCHANGED <<tx, user, under, paid, locked, saved>>

\* Variant: the balance the contract had before counts as profit.
Profitable_Whole == held["debt"] >= tx.minProfit

\* The difference is taken in checked arithmetic.
Profitable == held["debt"] >= tx.balBefore + tx.minProfit

\* The end of _liquidate: the profit is measured, everything goes to the owner.
Settle ==
  /\ pc = "settle" /\ pc' = "idle"
  /\ Profitable
  /\ paid' = [paid EXCEPT !["debt"] = @ + held["debt"]]
  /\ held' = [held EXCEPT !["debt"] = 0]
  /\ locked' = FALSE /\ tx' = NoTx /\ saved' = NoImage
  /\ UNCHANGED <<user, under, allow, loan>>

\* A guard fails, a call fails, or the gas runs out: nothing has happened.
Revert ==
  /\ pc # "idle" /\ pc' = "idle"
  /\ user' = saved.user /\ under' = saved.under /\ held' = saved.held /\ paid' = saved.paid
  /\ allow' = NoAllowance /\ loan' = 0 /\ locked' = FALSE
  /\ tx' = NoTx /\ saved' = NoImage

-----------------------------------------------------------------------------
(***************************************************************************)
(* Between transactions                                                    *)
(***************************************************************************)

\* sweep(token)
Sweep(t) ==
  /\ pc = "idle" /\ held[t] > 0
  /\ held' = [held EXCEPT ![t] = 0] /\ paid' = [paid EXCEPT ![t] = @ + held[t]]
  /\ UNCHANGED <<pc, tx, user, under, allow, loan, locked, saved>>

\* An airdrop, or the operator funds the contract for the capital path.
Arrive(t) ==
  /\ pc = "idle" /\ held[t] + paid[t] < MaxDust
  /\ held' = [held EXCEPT ![t] = @ + 1]
  /\ UNCHANGED <<pc, tx, user, under, paid, allow, loan, locked, saved>>

Price ==
  /\ pc = "idle" /\ under' = ~under
  /\ UNCHANGED <<pc, tx, user, held, paid, allow, loan, locked, saved>>

Next ==
  \/ \E flash, same, twoLegs, push \in BOOLEAN, cover \in 1..MaxDebt, m \in MinProfits :
       Enter(flash, same, twoLegs, push, cover, m)
  \/ Push \/ Lend \/ Cover \/ Swap \/ Swap2 \/ Repay \/ Pull \/ Settle \/ Revert
  \/ \E t \in Tokens : Sweep(t) \/ Arrive(t)
  \/ Price

Spec == Init /\ [][Next]_vars

-----------------------------------------------------------------------------
(***************************************************************************)
(* Properties                                                              *)
(***************************************************************************)

\* The values every variable keeps.
TypeOK ==
  /\ pc \in PCs /\ tx \in Requests
  /\ user \in [debt : Nat, coll : Nat] /\ under \in BOOLEAN
  /\ held \in [Tokens -> Nat] /\ paid \in [Tokens -> Nat]
  /\ allow \in [Tokens -> [Spenders -> Nat]] /\ loan \in Nat /\ locked \in BOOLEAN
  /\ saved \in [user : [debt : Nat, coll : Nat], under : BOOLEAN,
                held : [Tokens -> Nat], paid : [Tokens -> Nat]]

\* "allowance reset": outside a transaction nobody may take a token from the
\* contract, whatever part of what it was allowed a venue or the Pool has used.
NoDanglingAllowance == pc = "idle" => allow = NoAllowance /\ ~locked

\* A transaction shows only when it is over: until then the outside sees what
\* a revert would restore.
Seen == IF pc = "idle" THEN Image ELSE saved
Promise == INSTANCE Liquidation WITH
  user <- Seen.user, wealth <- Seen.held["debt"] + Seen.paid["debt"],
  loan <- IF pc = "idle" THEN loan ELSE 0,
  asked <- [profit |-> tx.minProfit, running |-> pc # "idle"]

\* A liquidation is all or nothing: the loan is repaid, debt and collateral of
\* the borrower have moved, and the owner has at least minProfit more of the
\* debt asset than owner and contract had before, or nothing has changed; also
\* when the contract held tokens, when a venue takes less than allowed or gives
\* nothing, on both paths, with one leg, two legs or none.
AllOrNothing == Promise!Spec
=============================================================================
