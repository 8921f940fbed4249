-------------------------- MODULE LiquidatorProofs --------------------------
(***************************************************************************)
(* Proofs about the contract, for any amounts, premium and bounds.         *)
(*                                                                         *)
(* AllowInv says where in a transaction an allowance may be open; TxInv    *)
(* ties the state of the transaction to the image a revert would restore,  *)
(* and carries the refinement of Liquidation.                              *)
(***************************************************************************)
EXTENDS Liquidator, TLAPS

-----------------------------------------------------------------------------
(***************************************************************************)
(* Types                                                                   *)
(***************************************************************************)

LEMMA NothingType ==
  /\ NoTokens \in [Tokens -> Nat] /\ NoAllowance \in [Tokens -> [Spenders -> Nat]]
  /\ NoTx \in Requests
  /\ NoImage \in [user : [debt : Nat, coll : Nat], under : BOOLEAN,
                  held : [Tokens -> Nat], paid : [Tokens -> Nat]]
<1>1. NoTokens \in [Tokens -> Nat] BY DEF NoTokens
<1>2. NoAllowance \in [Tokens -> [Spenders -> Nat]] BY DEF NoAllowance
<1>3. NoTx \in Requests BY DEF NoTx, Requests
<1> QED BY <1>1, <1>2, <1>3 DEF NoImage

LEMMA InitType == Init => TypeOK
<1> SUFFICES ASSUME Init PROVE TypeOK OBVIOUS
<1>1. user \in [debt : Nat, coll : Nat]
  <2>1. PICK d \in 0..MaxDebt, c \in 0..MaxDebt : user = [debt |-> d, coll |-> c] BY DEF Init
  <2> QED BY <2>1, LiquidatorAssumption
<1> QED BY <1>1, NothingType DEF Init, TypeOK, PCs

\* One entry of a function of naturals is changed to a natural.
LEMMA UpdateType ==
  ASSUME NEW f \in [Tokens -> Nat], NEW t \in Tokens, NEW n \in Nat
  PROVE  [f EXCEPT ![t] = n] \in [Tokens -> Nat]
OBVIOUS

LEMMA AfterUseType ==
  ASSUME TypeOK, NEW token \in Tokens, NEW s \in Spenders, NEW given, NEW used
  PROVE  AfterUse(token, s, given, used) \in [Tokens -> [Spenders -> Nat]]
BY DEF AfterUse, TypeOK

LEMMA TradeType ==
  ASSUME TypeOK, NEW from \in Tokens, NEW to \in Tokens, NEW v \in Spenders,
         Trade(from, to, v), pc' \in PCs
  PROVE  TypeOK'
<1>1. PICK in \in 0..held[from], out \in 0..MaxOut :
        /\ held' = [held EXCEPT ![from] = @ - in, ![to] = @ + out]
        /\ allow' = AfterUse(from, v, held[from], in)
  BY DEF Trade
<1>2. held[from] \in Nat /\ held[to] \in Nat /\ in \in Nat /\ out \in Nat
  BY LiquidatorAssumption DEF TypeOK
<1>3. held[from] - in \in Nat BY <1>1, <1>2
<1>4. held' \in [Tokens -> Nat]
  BY <1>1, <1>2, <1>3 DEF TypeOK
<1>5. allow' \in [Tokens -> [Spenders -> Nat]] BY <1>1, AfterUseType
<1> QED BY <1>4, <1>5 DEF Trade, TypeOK

LEMMA CoverType == ASSUME TypeOK, Cover PROVE TypeOK'
<1>1. PICK pulled \in 1..tx.cover, seized \in 0..user.coll :
        /\ pulled <= user.debt /\ pulled <= held["debt"]
        /\ user' = [debt |-> user.debt - pulled, coll |-> user.coll - seized]
        /\ held' = [[held EXCEPT !["debt"] = @ - pulled] EXCEPT ![CollToken] = @ + seized]
        /\ allow' = AfterUse("debt", "pool", tx.cover, pulled)
  BY DEF Cover
<1>2. pulled \in Nat /\ seized \in Nat /\ user.debt \in Nat /\ user.coll \in Nat /\ held["debt"] \in Nat
  BY DEF TypeOK, Tokens, Requests
<1>3. user' \in [debt : Nat, coll : Nat] BY <1>1, <1>2
<1>4. [held EXCEPT !["debt"] = @ - pulled] \in [Tokens -> Nat]
  <2>1. held["debt"] - pulled \in Nat BY <1>1, <1>2
  <2> QED BY <2>1, UpdateType DEF TypeOK, Tokens
<1>5. CollToken \in Tokens BY DEF CollToken, Tokens
<1>6. held' \in [Tokens -> Nat] BY <1>1, <1>2, <1>4, <1>5
<1>7. allow' \in [Tokens -> [Spenders -> Nat]] BY <1>1, AfterUseType DEF Tokens, Spenders
<1>8. pc' \in PCs BY DEF Cover, PCs, AfterSwaps
<1> QED BY <1>3, <1>6, <1>7, <1>8 DEF Cover, TypeOK

LEMMA NextType == TypeOK /\ [Next]_vars => TypeOK'
<1> SUFFICES ASSUME TypeOK, [Next]_vars PROVE TypeOK' OBVIOUS
<1> USE LiquidatorAssumption
<1>1. ASSUME NEW flash \in BOOLEAN, NEW same \in BOOLEAN, NEW twoLegs \in BOOLEAN,
             NEW push \in BOOLEAN, NEW cover \in 1..MaxDebt, NEW m \in MinProfits,
             Enter(flash, same, twoLegs, push, cover, m)
      PROVE  TypeOK'
  <2>1. held["debt"] \in Nat /\ cover \in Nat /\ m \in Nat BY DEF TypeOK, Tokens
  <2>2. tx' \in Requests BY <1>1, <2>1 DEF Enter, Requests
  <2>3. saved' = Image BY <1>1 DEF Enter
  <2>4. pc' \in PCs BY <1>1 DEF Enter, PCs, AfterPush
  <2> QED BY <1>1, <2>2, <2>3, <2>4 DEF Enter, TypeOK, Image
<1>2. ASSUME Push PROVE TypeOK'
  BY <1>2 DEF Push, TypeOK, PCs, AfterPush
<1>3. ASSUME Lend PROVE TypeOK'
  <2>1. tx.cover \in Nat /\ held["debt"] \in Nat BY DEF TypeOK, Requests, Tokens
  <2>2. held["debt"] + tx.cover \in Nat BY <2>1
  <2>3. held' \in [Tokens -> Nat] BY <1>3, <2>2, UpdateType DEF Lend, TypeOK, Tokens
  <2> QED BY <1>3, <2>1, <2>3 DEF Lend, TypeOK, PCs
<1>4. ASSUME Cover PROVE TypeOK' BY <1>4, CoverType
<1>5. ASSUME Swap PROVE TypeOK'
  <2>1. pc' \in PCs BY <1>5 DEF Swap, PCs, AfterSwaps
  <2>2. Trade("coll", IF tx.twoLegs THEN "mid" ELSE "debt", "venue") BY <1>5 DEF Swap
  <2> QED BY <2>1, <2>2, TradeType DEF Tokens, Spenders
<1>6. ASSUME Swap2 PROVE TypeOK'
  <2>1. pc' \in PCs BY <1>6 DEF Swap2, PCs, AfterSwaps
  <2>2. Trade("mid", "debt", "venue2") BY <1>6 DEF Swap2
  <2> QED BY <2>1, <2>2, TradeType DEF Tokens, Spenders
<1>7. ASSUME Repay PROVE TypeOK'
  BY <1>7 DEF Repay, TypeOK, PCs, Tokens, Spenders
<1>8. ASSUME Pull PROVE TypeOK'
  <2>1. held["debt"] \in Nat /\ allow["debt"]["pool"] \in Nat /\ loan \in Nat
    BY DEF TypeOK, Tokens, Spenders
  <2>2. held["debt"] - loan \in Nat /\ allow["debt"]["pool"] - loan \in Nat BY <1>8, <2>1 DEF Pull
  <2>3. held' \in [Tokens -> Nat] BY <1>8, <2>2 DEF Pull, TypeOK
  <2>4. allow' \in [Tokens -> [Spenders -> Nat]] BY <1>8, <2>2 DEF Pull, TypeOK
  <2> QED BY <1>8, <2>3, <2>4 DEF Pull, TypeOK, PCs
<1>9. ASSUME Settle PROVE TypeOK'
  <2>1. held["debt"] \in Nat /\ paid["debt"] \in Nat BY DEF TypeOK, Tokens
  <2>2. paid["debt"] + held["debt"] \in Nat BY <2>1
  <2>3. paid' \in [Tokens -> Nat] BY <1>9, <2>2, UpdateType DEF Settle, TypeOK, Tokens
  <2>4. held' \in [Tokens -> Nat] BY <1>9, UpdateType DEF Settle, TypeOK, Tokens
  <2> QED BY <1>9, <2>3, <2>4, NothingType DEF Settle, TypeOK, PCs
<1>10. ASSUME Revert PROVE TypeOK'
  BY <1>10, NothingType DEF Revert, TypeOK, PCs
<1>11. ASSUME NEW t \in Tokens, Sweep(t) PROVE TypeOK'
  <2>1. held[t] \in Nat /\ paid[t] \in Nat BY DEF TypeOK
  <2> QED BY <1>11, <2>1 DEF Sweep, TypeOK
<1>12. ASSUME NEW t \in Tokens, Arrive(t) PROVE TypeOK'
  BY <1>12 DEF Arrive, TypeOK
<1>13. ASSUME Price PROVE TypeOK'
  BY <1>13 DEF Price, TypeOK
<1>14. ASSUME UNCHANGED vars PROVE TypeOK'
  BY <1>14 DEF vars, state, TypeOK
<1> QED
  BY <1>1, <1>2, <1>3, <1>4, <1>5, <1>6, <1>7, <1>8, <1>9, <1>10, <1>11, <1>12, <1>13, <1>14
  DEF Next

\* Every variable keeps its type: in particular the checked subtractions of the
\* contract never go below zero.
THEOREM LiquidatorTypeCorrect == Spec => []TypeOK
BY InitType, NextType, PTL DEF Spec

-----------------------------------------------------------------------------
(***************************************************************************)
(* Allowances                                                              *)
(***************************************************************************)

\* Between two steps the only allowance open is that of the repayment.
AllowInv ==
  /\ pc # "pull" => allow = NoAllowance
  /\ pc = "pull" => allow = [NoAllowance EXCEPT !["debt"]["pool"] = loan]
  /\ locked <=> pc # "idle"

LEMMA ForcedToZero ==
  ASSUME NEW t \in Tokens, NEW s \in Spenders PROVE [NoAllowance EXCEPT ![t][s] = 0] = NoAllowance
BY DEF NoAllowance

LEMMA NextAllow == TypeOK /\ AllowInv /\ [Next]_vars => AllowInv'
<1> SUFFICES ASSUME TypeOK, AllowInv, [Next]_vars PROVE AllowInv' OBVIOUS
<1>1. ASSUME NEW flash \in BOOLEAN, NEW same \in BOOLEAN, NEW twoLegs \in BOOLEAN,
             NEW push \in BOOLEAN, NEW cover \in 1..MaxDebt, NEW m \in MinProfits,
             Enter(flash, same, twoLegs, push, cover, m)
      PROVE  AllowInv'
  BY <1>1 DEF Enter, AllowInv, AfterPush
<1>2. ASSUME Push \/ Lend PROVE AllowInv' BY <1>2 DEF Push, Lend, AllowInv, AfterPush
<1>3. ASSUME NEW t \in Tokens, NEW s \in Spenders, NEW given, NEW used,
             pc \notin {"pull", "idle"}, pc' \notin {"pull", "idle"}, locked' = locked,
             allow' = AfterUse(t, s, given, used)
      PROVE  AllowInv'
  BY <1>3, ForcedToZero DEF AllowInv, AfterUse
<1>4. ASSUME Cover PROVE AllowInv'
  <2>1. PICK used \in 1..tx.cover : allow' = AfterUse("debt", "pool", tx.cover, used)
    BY <1>4 DEF Cover
  <2>2. pc = "cover" /\ pc' \notin {"pull", "idle"} /\ locked' = locked
    BY <1>4 DEF Cover, AfterSwaps
  <2> QED BY <1>3, <2>1, <2>2 DEF Tokens, Spenders
<1>5. ASSUME NEW from \in Tokens, NEW to, NEW v \in Spenders, Trade(from, to, v),
             pc \in {"swap", "swap2"}, pc' \notin {"pull", "idle"}
      PROVE  AllowInv'
  <2>1. PICK used \in 0..held[from] : allow' = AfterUse(from, v, held[from], used)
    BY <1>5 DEF Trade
  <2> QED BY <1>3, <1>5, <2>1 DEF Trade
<1>6. ASSUME Swap PROVE AllowInv'
  BY <1>5, <1>6 DEF Swap, AfterSwaps, Tokens, Spenders
<1>7. ASSUME Swap2 PROVE AllowInv'
  BY <1>5, <1>7 DEF Swap2, AfterSwaps, Tokens, Spenders
<1>8. ASSUME Repay PROVE AllowInv' BY <1>8 DEF Repay, AllowInv
<1>9. ASSUME Pull PROVE AllowInv'
  <2>1. loan \in Nat /\ "debt" \in Tokens /\ "pool" \in Spenders BY DEF TypeOK, Tokens, Spenders
  <2>2. allow = [NoAllowance EXCEPT !["debt"]["pool"] = loan] BY <1>9 DEF Pull, AllowInv
  <2>3. allow["debt"]["pool"] - loan = 0 BY <2>1, <2>2 DEF NoAllowance
  <2>4. allow' = [allow EXCEPT !["debt"]["pool"] = 0] BY <1>9, <2>3 DEF Pull
  <2>5. allow' = [NoAllowance EXCEPT !["debt"]["pool"] = 0]
    BY <2>1, <2>2, <2>4 DEF NoAllowance
  <2>6. allow' = NoAllowance BY <2>1, <2>5, ForcedToZero
  <2> QED BY <1>9, <2>6 DEF Pull, AllowInv
<1>10. ASSUME Settle \/ Revert PROVE AllowInv' BY <1>10 DEF Settle, Revert, AllowInv
<1>11. ASSUME NEW t \in Tokens, Sweep(t) \/ Arrive(t) PROVE AllowInv'
  BY <1>11 DEF Sweep, Arrive, AllowInv
<1>12. ASSUME Price \/ UNCHANGED vars PROVE AllowInv' BY <1>12 DEF Price, vars, state, AllowInv
<1> QED
  BY <1>1, <1>2, <1>4, <1>6, <1>7, <1>8, <1>9, <1>10, <1>11, <1>12 DEF Next

\* Outside a transaction no allowance is open, whatever was used of those given.
THEOREM NoDanglingAllowanceHolds == Spec => []NoDanglingAllowance
<1>1. Init => AllowInv BY DEF Init, AllowInv
<1>2. AllowInv => NoDanglingAllowance BY DEF AllowInv, NoDanglingAllowance
<1> QED BY <1>1, <1>2, NextAllow, LiquidatorTypeCorrect, PTL DEF Spec

-----------------------------------------------------------------------------
(***************************************************************************)
(* All or nothing                                                          *)
(***************************************************************************)

Covered == {"swap", "swap2", "repay", "pull", "settle"}
NothingLent == {"idle", "push", "lend", "settle"}

\* What was paid and measured when the transaction began is what a revert would
\* restore; past the liquidation debt has fallen; the loan is open in the callback.
TxInv ==
  /\ pc = "idle" => tx = NoTx
  /\ pc # "idle" => paid = saved.paid /\ tx.balBefore = saved.held["debt"]
  /\ pc \in {"push", "lend", "cover"} => user = saved.user
  /\ pc = "lend" => tx.flash
  /\ pc \in Covered => user.debt < saved.user.debt /\ user.coll <= saved.user.coll
  /\ pc \in NothingLent \/ ~tx.flash => loan = 0

LEMMA InitTx == Init => TxInv
BY DEF Init, TxInv, Covered, NothingLent

LEMMA NextTx == TypeOK /\ TxInv /\ [Next]_vars => TxInv'
<1> SUFFICES ASSUME TypeOK, TxInv, [Next]_vars PROVE TxInv' OBVIOUS
<1> USE DEF Covered, NothingLent
<1>1. ASSUME NEW flash \in BOOLEAN, NEW same \in BOOLEAN, NEW twoLegs \in BOOLEAN,
             NEW push \in BOOLEAN, NEW cover \in 1..MaxDebt, NEW m \in MinProfits,
             Enter(flash, same, twoLegs, push, cover, m)
      PROVE  TxInv'
  BY <1>1 DEF Enter, TxInv, AfterPush, Image
<1>2. ASSUME Push PROVE TxInv' BY <1>2 DEF Push, TxInv, AfterPush
<1>3. ASSUME Lend PROVE TxInv' BY <1>3 DEF Lend, TxInv
<1>4. ASSUME Cover PROVE TxInv'
  <2>1. PICK pulled \in 1..tx.cover, seized \in 0..user.coll :
          /\ pulled <= user.debt
          /\ user' = [debt |-> user.debt - pulled, coll |-> user.coll - seized]
    BY <1>4 DEF Cover
  <2>2. user.debt \in Nat /\ user.coll \in Nat /\ tx.cover \in Nat BY DEF TypeOK, Requests
  <2>3. user'.debt < user.debt /\ user'.coll <= user.coll BY <2>1, <2>2
  <2>4. pc = "cover" /\ pc' \in Covered /\ (pc' = "settle" => ~tx.flash)
    BY <1>4 DEF Cover, AfterSwaps
  <2> QED BY <1>4, <2>3, <2>4 DEF Cover, TxInv
<1>5. ASSUME Swap PROVE TxInv'
  <2>1. pc' \in Covered /\ (pc' = "settle" => ~tx.flash) BY <1>5 DEF Swap, AfterSwaps
  <2> QED BY <1>5, <2>1 DEF Swap, Trade, TxInv
<1>6. ASSUME Swap2 PROVE TxInv'
  <2>1. pc' \in Covered /\ (pc' = "settle" => ~tx.flash) BY <1>6 DEF Swap2, AfterSwaps
  <2> QED BY <1>6, <2>1 DEF Swap2, Trade, TxInv
<1>7. ASSUME Repay \/ Pull PROVE TxInv' BY <1>7 DEF Repay, Pull, TxInv
<1>8. ASSUME Settle \/ Revert PROVE TxInv' BY <1>8 DEF Settle, Revert, TxInv
<1>9. ASSUME NEW t \in Tokens, Sweep(t) \/ Arrive(t) PROVE TxInv'
  BY <1>9 DEF Sweep, Arrive, TxInv
<1>10. ASSUME Price \/ UNCHANGED vars PROVE TxInv' BY <1>10 DEF Price, vars, state, TxInv
<1> QED
  BY <1>1, <1>2, <1>3, <1>4, <1>5, <1>6, <1>7, <1>8, <1>9, <1>10 DEF Next

\* The state of Liquidation, as the outside sees it.
Outer == <<Seen.user, Seen.held["debt"] + Seen.paid["debt"],
           IF pc = "idle" THEN loan ELSE 0,
           [profit |-> tx.minProfit, running |-> pc # "idle"]>>

LEMMA InitPromise == TypeOK /\ Init => Promise!Init
<1> SUFFICES ASSUME TypeOK, Init PROVE Promise!Init OBVIOUS
<1>1. pc = "idle" /\ Seen = Image BY DEF Init, Seen
<1>2. Seen.user \in [debt : Nat, coll : Nat] BY <1>1 DEF Image, TypeOK
<1>3. Seen.held["debt"] + Seen.paid["debt"] \in Nat BY <1>1 DEF Image, TypeOK, Tokens
<1>4. tx.minProfit = 0 BY DEF Init, NoTx
<1> QED BY <1>1, <1>2, <1>3, <1>4 DEF Init, Promise!Init, Promise!None

\* A step within the transaction does not show.
LEMMA InnerStep ==
  ASSUME pc # "idle", pc' # "idle", UNCHANGED <<tx, saved>> PROVE UNCHANGED Outer
BY DEF Outer, Seen

LEMMA SettleDone == ASSUME TypeOK, TxInv, Settle PROVE Promise!Done
<1>1. pc = "settle" /\ pc' = "idle" BY DEF Settle
<1>2. Seen = saved /\ Seen' = Image' BY <1>1 DEF Seen
<1>3. /\ user' = user /\ held'["debt"] = 0 /\ paid'["debt"] = paid["debt"] + held["debt"]
      /\ loan' = loan /\ tx'.minProfit = 0
  BY DEF Settle, TypeOK, Tokens, NoTx
<1>4. /\ paid = saved.paid /\ tx.balBefore = saved.held["debt"] /\ loan = 0
      /\ user.debt < saved.user.debt /\ user.coll <= saved.user.coll
  BY <1>1 DEF TxInv, Covered, NothingLent
<1>5. held["debt"] >= saved.held["debt"] + tx.minProfit BY <1>4 DEF Settle, Profitable
<1>6. /\ held["debt"] \in Nat /\ paid["debt"] \in Nat /\ tx.minProfit \in Nat
      /\ saved.held["debt"] \in Nat
  BY DEF TypeOK, Tokens, Requests
<1>7. Seen'.held["debt"] + Seen'.paid["debt"] = paid["debt"] + held["debt"]
  BY <1>2, <1>3, <1>6 DEF Image
<1>8. Seen.held["debt"] + Seen.paid["debt"] = saved.held["debt"] + paid["debt"]
  BY <1>2, <1>4
<1>9. Seen'.held["debt"] + Seen'.paid["debt"]
        >= (Seen.held["debt"] + Seen.paid["debt"]) + tx.minProfit
  BY <1>5, <1>6, <1>7, <1>8
<1>10. Seen'.user.debt < Seen.user.debt /\ Seen'.user.coll <= Seen.user.coll
  BY <1>2, <1>3, <1>4 DEF Image
<1> QED BY <1>1, <1>3, <1>4, <1>9, <1>10 DEF Promise!Done, Promise!None

LEMMA RevertUndone == ASSUME TxInv, Revert PROVE Promise!Undone
<1>1. Seen = saved /\ Seen' = Image' BY DEF Revert, Seen
<1>2. Seen'.user = Seen.user /\ Seen'.held = Seen.held /\ Seen'.paid = Seen.paid
  BY <1>1 DEF Revert, Image
<1>3. tx'.minProfit = 0 BY DEF Revert, NoTx
<1> QED BY <1>2, <1>3 DEF Revert, Promise!Undone, Promise!None

\* Between transactions owner and contract lose nothing.
LEMMA OutsideStep ==
  ASSUME pc = "idle", pc' = "idle", UNCHANGED <<tx, loan>>,
         held'["debt"] + paid'["debt"] >= held["debt"] + paid["debt"]
  PROVE  Promise!Outside
BY DEF Promise!Outside, Seen, Image

LEMMA NextPromise == TypeOK /\ TxInv /\ [Next]_vars => [Promise!Next]_Outer
<1> SUFFICES ASSUME TypeOK, TxInv, [Next]_vars PROVE [Promise!Next]_Outer OBVIOUS
<1>0. \A t \in Tokens : held[t] \in Nat /\ paid[t] \in Nat BY DEF TypeOK
<1>1. ASSUME NEW flash \in BOOLEAN, NEW same \in BOOLEAN, NEW twoLegs \in BOOLEAN,
             NEW push \in BOOLEAN, NEW cover \in 1..MaxDebt, NEW m \in MinProfits,
             Enter(flash, same, twoLegs, push, cover, m)
      PROVE  Promise!Ask(m)
  <2>1. pc = "idle" /\ pc' # "idle" /\ saved' = Image /\ tx'.minProfit = m /\ loan = 0
    BY <1>1 DEF Enter, AfterPush, TxInv, NothingLent
  <2>2. Seen = Image /\ Seen' = Image BY <2>1 DEF Seen
  <2> QED BY <2>1, <2>2 DEF Promise!Ask, Promise!Asked
<1>2. ASSUME Push \/ Lend \/ Cover \/ Swap \/ Swap2 \/ Repay \/ Pull PROVE UNCHANGED Outer
  <2>1. pc # "idle" /\ pc' # "idle" /\ UNCHANGED <<tx, saved>>
    BY <1>2 DEF Push, Lend, Cover, Swap, Swap2, Repay, Pull, Trade, AfterPush, AfterSwaps
  <2> QED BY <2>1, InnerStep
<1>3. ASSUME Settle PROVE Promise!Done BY <1>3, SettleDone
<1>4. ASSUME Revert PROVE Promise!Undone BY <1>4, RevertUndone
<1>5. ASSUME NEW t \in Tokens, Sweep(t) PROVE Promise!Outside
  <2>1. held'["debt"] + paid'["debt"] >= held["debt"] + paid["debt"]
    <3>1. CASE t = "debt"
      <4>1. held'["debt"] = 0 /\ paid'["debt"] = paid["debt"] + held["debt"]
        BY <1>5, <3>1 DEF Sweep, TypeOK
      <4> QED BY <1>0, <1>5, <3>1, <4>1
    <3>2. CASE t # "debt"
      <4>1. held'["debt"] = held["debt"] /\ paid'["debt"] = paid["debt"]
        BY <1>5, <3>2 DEF Sweep, TypeOK, Tokens
      <4> QED BY <1>0, <4>1 DEF Tokens
    <3> QED BY <3>1, <3>2
  <2> QED BY <1>5, <2>1, OutsideStep DEF Sweep
<1>6. ASSUME NEW t \in Tokens, Arrive(t) PROVE Promise!Outside
  <2>1. held'["debt"] >= held["debt"] /\ paid' = paid
    BY <1>0, <1>6 DEF Arrive, TypeOK, Tokens
  <2>2. held'["debt"] \in Nat /\ held["debt"] \in Nat /\ paid["debt"] \in Nat
    BY <1>0, <1>6 DEF Arrive, TypeOK, Tokens
  <2>3. held'["debt"] + paid'["debt"] >= held["debt"] + paid["debt"] BY <2>1, <2>2
  <2> QED BY <1>6, <2>3, OutsideStep DEF Arrive
<1>7. ASSUME Price PROVE Promise!Outside
  <2>1. held'["debt"] + paid'["debt"] >= held["debt"] + paid["debt"]
    BY <1>0, <1>7 DEF Price, Tokens
  <2> QED BY <1>7, <2>1, OutsideStep DEF Price
<1>8. ASSUME UNCHANGED vars PROVE UNCHANGED Outer BY <1>8 DEF vars, state, Outer, Seen, Image
<1> QED
  BY <1>1, <1>2, <1>3, <1>4, <1>5, <1>6, <1>7, <1>8 DEF Next, Promise!Next

\* The contract implements its promise: as seen from outside, a transaction
\* liquidates, repays the loan and pays at least minProfit, or does nothing.
THEOREM AllOrNothingHolds == Spec => AllOrNothing
BY InitType, InitTx, InitPromise, NextTx, NextPromise, LiquidatorTypeCorrect, PTL
DEF Spec, AllOrNothing, Promise!Spec, Outer
=============================================================================
