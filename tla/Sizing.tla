-------------------------------- MODULE Sizing --------------------------------
(***************************************************************************)
(* The size of a liquidation: analysis/aave.py's own arithmetic, and that  *)
(* of the Pool it has to foresee.  Values are in the oracle's base units,  *)
(* percentages in parts of PCT; both tokens have UNIT wei, so that it      *)
(* cancels out between them.                                               *)
(*                                                                         *)
(* A position is a record: debt, coll (wei), dp, cp (oracle prices), other *)
(* (value of the user's other debts), deep (HF <= 0.95), emode (the Pool   *)
(* applies the category's bonus) and known (the book has the category).    *)
(***************************************************************************)
EXTENDS Integers

CONSTANTS
  PCT, UNIT,
  MIN_LEFTOVER,    \* MIN_LEFTOVER_USD, and half of MAX_CF_THRESHOLD_USD
  BONUS, EBONUS,   \* of the reserve, and of the eMode category
  FEE              \* of the bonus, to the treasury

ASSUME SizingAssumption ==
  /\ PCT \in Nat \ {0} /\ UNIT \in Nat \ {0} /\ MIN_LEFTOVER \in Nat
  /\ BONUS \in Nat /\ EBONUS \in Nat /\ PCT < EBONUS /\ EBONUS <= BONUS /\ FEE \in 0..PCT

PercentMul(x, p) == (x * p + PCT \div 2) \div PCT
PercentDiv(x, p) == (x * PCT + p \div 2) \div p
Least(s) == CHOOSE x \in s : \A y \in s : x <= y
Most(s) == CHOOSE x \in s : \A y \in s : x >= y

Val(wei, price) == (wei * price) \div UNIT
Wei(val, price) == (val * UNIT) \div price

\* As before 5 August: the bonus of the reserve, whatever the category.
Bonus_Reserve(p) == BONUS

\* emode_bonus: a category that could not be read counts as none.
Bonus(p) == IF p.emode /\ p.known THEN EBONUS ELSE BONUS

HalfOfAll(p) == PercentMul(Val(p.debt, p.dp) + p.other, PCT \div 2)

\* Above the threshold and not deep, half of the whole debt.
Halved(p) == /\ Val(p.coll, p.cp) >= 2 * MIN_LEFTOVER
             /\ Val(p.debt, p.dp) >= 2 * MIN_LEFTOVER
             /\ ~p.deep
             /\ Val(p.debt, p.dp) > HalfOfAll(p)
MaxLiquidatable(p) == IF Halved(p) THEN Wei(HalfOfAll(p), p.dp) ELSE p.debt

\* The debt that buys all of the collateral.
DebtForAll(p, bonus) == PercentDiv((p.cp * p.coll) \div p.dp, bonus)

Seized(p, pulled, bonus) == PercentMul((p.dp * pulled) \div p.cp, bonus)
AfterFee(gross, bonus) == gross - PercentMul(gross - PercentDiv(gross, bonus), FEE)

-----------------------------------------------------------------------------
(***************************************************************************)
(* size_liquidation                                                        *)
(***************************************************************************)

NoSize == [cover |-> 0, pulled |-> 0, received |-> 0, full |-> FALSE]

\* Overshoot of a full close, for interest until the shot lands.
Buffered(wei) == (wei * 101) \div 100

\* Variant: the leftovers may be as small as the Pool allows.
DustFloor_Bare == MIN_LEFTOVER
DustFloor == (MIN_LEFTOVER * 105) \div 100

\* Neither leg is closed: both keep more than the Pool's least leftover.
PartialVal(p, most) ==
  Least({Val(most, p.dp), Val(p.debt, p.dp) - DustFloor,
         PercentDiv(Most({Val(p.coll, p.cp) - DustFloor, 0}), Bonus(p))})
PartialPull(p, most) ==
  IF PartialVal(p, most) <= 0 THEN 0
  ELSE Least({Wei((PartialVal(p, most) * 995) \div 1000, p.dp), most})
Partial(p, most) ==
  LET pulled == PartialPull(p, most)
  IN IF pulled = 0 THEN NoSize
     ELSE [cover |-> pulled, pulled |-> pulled, full |-> FALSE,
           received |-> AfterFee(Least({Seized(p, pulled, Bonus(p)), p.coll}), Bonus(p))]

\* The whole debt, all of the collateral, or a part of both; at most `most`.
SizeUpTo(p, most) ==
  LET bonus == Bonus(p)
      all == DebtForAll(p, bonus)
  IN CASE most = 0 -> NoSize
       [] most > 0 /\ most >= p.debt /\ all >= p.debt ->
            [cover |-> Buffered(p.debt), pulled |-> p.debt, full |-> FALSE,
             received |-> AfterFee(Least({Seized(p, p.debt, bonus), p.coll}), bonus)]
       [] most > 0 /\ all < p.debt /\ all <= most ->
            [cover |-> Buffered(all), pulled |-> all, full |-> TRUE,
             received |-> AfterFee(p.coll, bonus)]
       [] OTHER -> Partial(p, most)

\* Nothing to cover or nothing that arrives is no size.
Worth(size) == IF size.cover = 0 \/ size.received = 0 THEN NoSize ELSE size

FullSize(p) == Worth(SizeUpTo(p, MaxLiquidatable(p)))

\* _resize: a share of the full size is sized anew.
ShareOf(p, num, den) == Least({(FullSize(p).pulled * num) \div den, MaxLiquidatable(p)})
Chunk(p, num, den) == Worth(SizeUpTo(p, ShareOf(p, num, den)))

-----------------------------------------------------------------------------
(***************************************************************************)
(* The Pool: liquidationCall with its close factor, its clamp to the       *)
(* collateral, its rule against leftovers and its fee.                     *)
(***************************************************************************)
Pool(p, cover) ==
  LET bonus == IF p.emode THEN EBONUS ELSE BONUS
      most == Least({cover, MaxLiquidatable(p)})
      clamped == Seized(p, most, bonus) > p.coll
      pulled == IF clamped THEN DebtForAll(p, bonus) ELSE most
      gross == IF clamped THEN p.coll ELSE Seized(p, most, bonus)
  IN [pulled |-> pulled, received |-> AfterFee(gross, bonus),
      reverts |-> /\ pulled < p.debt /\ gross < p.coll
                  /\ \/ Val(p.debt - pulled, p.dp) < MIN_LEFTOVER
                     \/ Val(p.coll - gross, p.cp) < MIN_LEFTOVER]

\* Where all of the collateral is to be seized, what may be covered exceeds
\* what that takes by two wei of either token.
Roomy(p, s) ==
  s.full => (Least({s.cover, MaxLiquidatable(p)}) - s.pulled) * p.dp >= 2 * (p.dp + p.cp)

\* The hundredth of overshoot of a full seizure fits below the close factor.
Buffers(p, s) == s.full /\ Halved(p) => s.cover <= MaxLiquidatable(p)

\* What the read of a position may be off by when the shot lands: a fifth of a
\* per cent of one oracle price, half a per cent of interest, or the HF on the
\* other side of 0.95.
Drifted(p) ==
  {p, [p EXCEPT !.debt = @ + @ \div 200], [p EXCEPT !.deep = ~@]}
    \cup {[p EXCEPT !.cp = @ + d * (@ \div 499)] : d \in {-1, 1}}
    \cup {[p EXCEPT !.dp = @ + d * (@ \div 499)] : d \in {-1, 1}}
=============================================================================
