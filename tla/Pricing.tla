-------------------------------- MODULE Pricing -------------------------------
(***************************************************************************)
(* From a target to a shot: evaluate walks the ladder of chunks, largest   *)
(* first, and asks the venues of bot/routers.py and bot/liqd.py for the    *)
(* exit of each, until one of them pays.  A venue answers as it likes; an  *)
(* answer is what it gives (in debt wei) and its price impact.             *)
(***************************************************************************)
EXTENDS Sizing, Sequences

CONSTANTS
  Positions,       \* targets
  CHUNKS,          \* CHUNK_FRACTIONS after the whole
  LastDen,         \* bound: from here on the fractions halve no more
  MIN_FRACTION,    \* the least fraction f_lo, as the den of 1 / den
  DEPTH,           \* EXIT_CAP_USD of the collateral
  MIN_PROFIT, GAS, \* values
  PREMIUM,         \* of a flash loan, in parts of PCT
  FLASH, SAME_ASSET, KYBER,   \* USE_FLASHLOAN, and the switches
  LEG2_HAIRCUT, SLIPPAGE,     \* of what the first of two legs is to give, in parts of PCT
  Impacts, MAX_IMPACT

Position == [debt : Nat \ {0}, coll : Nat \ {0}, dp : Nat \ {0}, cp : Nat \ {0}, other : Nat,
             deep : BOOLEAN, emode : BOOLEAN, known : BOOLEAN, kind : {"plain", "same", "pt"}]

ASSUME PricingAssumption ==
  /\ LastDen \in Nat
  /\ CHUNKS \in Seq(Nat \X (Nat \ {0})) /\ CHUNKS # <<>> /\ CHUNKS[1][1] <= CHUNKS[1][2]
  /\ \A k \in 2..Len(CHUNKS) : CHUNKS[k][1] * CHUNKS[k-1][2] <= CHUNKS[k-1][1] * CHUNKS[k][2]
  /\ MIN_FRACTION \in Nat /\ DEPTH \in Nat /\ MIN_PROFIT \in Nat /\ GAS \in Nat /\ PREMIUM \in 0..PCT
  /\ FLASH \in BOOLEAN /\ SAME_ASSET \in BOOLEAN /\ KYBER \in BOOLEAN
  /\ Impacts \subseteq Nat /\ MAX_IMPACT \in Nat
  /\ Positions \subseteq Position

\* The least leftover is a thousand dollars in units of 1e-8: next to it a wei,
\* or a bonus of a base unit, is nothing.
ASSUME LeftoverAssumption ==
  /\ MIN_LEFTOVER >= 100 /\ 1000 * BONUS <= MIN_LEFTOVER * PCT
  /\ \A p \in Positions : 1000 * p.cp <= MIN_LEFTOVER * UNIT

\* A bonus is no more than what it is paid on, the least leftover many base
\* units, and the second leg sells no more than the first may give at worst: one
\* per cent each by default, the haircut by HL_LEG2_HAIRCUT.  Only SoldArrives
\* needs it.
ASSUME DriftAssumption ==
  /\ MIN_LEFTOVER >= 10000 /\ BONUS <= 2 * PCT
  /\ LEG2_HAIRCUT \in 0..PCT /\ SLIPPAGE \in 0..LEG2_HAIRCUT

VARIABLES
  pos,     \* the target
  pc,      \* size, liqd, kyber, leg2, gate, or the outcome: fire, none
  rung,    \* the next fraction: 0 for the whole, its place in CHUNKS, or past it
  frac,    \* and its value
  size,    \* the chunk in hand
  best,    \* its best quote
  first    \* whether a rung has had a result

vars == <<pos, pc, rung, frac, size, best, first>>

\* What comes out, its impact, what is sold; of two legs, what the first is to
\* give and what the second sells of it.
NoQuote == [out |-> 0, impact |-> 0, sold |-> 0, under |-> 0, mid |-> 0]

\* _build_row gives no row when nothing of the position can be sized.
Init ==
  /\ pos \in Positions /\ FullSize(pos) # NoSize /\ pc = "size"
  /\ rung = 0 /\ frac = <<1, 1>>
  /\ size = NoSize /\ best = NoQuote /\ first = FALSE

-----------------------------------------------------------------------------
(***************************************************************************)
(* The gate                                                                *)
(***************************************************************************)

\* Variant: the premium is left out.
Owed_NoPremium(s) == s.pulled

\* What the liquidation consumes; the premium is charged on all that is lent.
Owed(s) == IF FLASH THEN s.pulled + (s.cover * PREMIUM + PCT - 1) \div PCT ELSE s.pulled

Pays(s, out) == (out - Owed(s)) * pos.dp >= (MIN_PROFIT + GAS) * UNIT
MinProfitWei == (MIN_PROFIT * UNIT) \div pos.dp

\* Proceeds about the gate: one wei short, just enough, twice as much.
Outs == LET enough == Owed(size) + ((MIN_PROFIT + GAS) * UNIT + pos.dp - 1) \div pos.dp
        IN {enough - 1, enough, 2 * enough}

\* A rung that brings nothing is followed by the next.
Refused == pc' = "size" /\ first' = TRUE /\ best' = NoQuote /\ UNCHANGED <<pos, rung, frac, size>>

Gate ==
  /\ pc = "gate"
  /\ \/ /\ best.impact <= MAX_IMPACT /\ Pays(size, best.out)
        /\ pc' = "fire" /\ UNCHANGED <<pos, rung, frac, size, best, first>>
     \/ ~(best.impact <= MAX_IMPACT /\ Pays(size, best.out)) /\ Refused

-----------------------------------------------------------------------------
(***************************************************************************)
(* The ladder                                                              *)
(***************************************************************************)

\* Variant: the descent doubles the wrong end of the fraction.
Halves_Growing == <<2 * frac[1], frac[2]>>

\* The whole, the list, then halves of its last, down to the least that pays.
Halves == <<frac[1], 2 * frac[2]>>
NextRung ==
  IF rung < Len(CHUNKS) THEN rung' = rung + 1 /\ frac' = CHUNKS[rung + 1]
  ELSE /\ rung' = Len(CHUNKS) + 1
       /\ frac' = IF frac[2] < LastDen THEN Halves ELSE frac

\* Variant: the descent has no floor.
Below_NoFloor == FALSE

\* Whether the descent has come below the least fraction.
Below == rung > Len(CHUNKS) /\ frac[1] * MIN_FRACTION < frac[2]

Sized == IF rung = 0 THEN FullSize(pos) ELSE Chunk(pos, frac[1], frac[2])

\* No rung is left, or the time for them is used up, which is looked at only
\* when there is a result.
Stop ==
  /\ pc = "size" /\ (Below \/ first)
  /\ pc' = "none" /\ UNCHANGED <<pos, rung, frac, size, best, first>>

\* The next rung cannot be sized.
Skip ==
  /\ pc = "size" /\ ~Below /\ Sized = NoSize
  /\ NextRung /\ UNCHANGED <<pos, pc, size, best, first>>

\* The next rung, and who is asked for its exit: nobody when the collateral is
\* the debt asset, Pendle for a PT, LiquidSwap for the rest; more than the
\* depth measured is not asked for.
Try ==
  /\ pc = "size" /\ ~Below /\ Sized # NoSize
  /\ size' = Sized /\ NextRung
  /\ \/ /\ pos.kind = "same" /\ SAME_ASSET /\ pc' = "gate"
        /\ best' = [NoQuote EXCEPT !.out = Sized.received, !.sold = Sized.received]
        /\ UNCHANGED first
     \/ /\ pos.kind # "same" /\ Val(Sized.received, pos.cp) <= DEPTH
        /\ pc' = IF pos.kind = "pt" THEN "leg1" ELSE "liqd"
        /\ UNCHANGED <<best, first>>
     \/ /\ IF pos.kind = "same" THEN ~SAME_ASSET ELSE Val(Sized.received, pos.cp) > DEPTH
        /\ pc' = "size" /\ first' = TRUE /\ UNCHANGED best
  /\ UNCHANGED pos

-----------------------------------------------------------------------------
(***************************************************************************)
(* The venues                                                              *)
(***************************************************************************)

\* Variants: all that is expected is sold; the haircut is added.
Sold_Whole == size.received
Sold_More == (size.received * 1003) \div 1000

\* The haircut: the router pulls the amount written into its call.
Sold == (size.received * 997) \div 1000

Quoted(out, impact) == best' = [NoQuote EXCEPT !.out = out, !.impact = impact, !.sold = Sold]

\* LiquidSwap answers; when it looks like garbage Kyber is asked, too.
Liqd(out, impact) ==
  /\ pc = "liqd" /\ Quoted(out, impact)
  /\ pc' = IF KYBER /\ impact >= MAX_IMPACT THEN "kyber" ELSE "gate"
  /\ UNCHANGED <<pos, rung, frac, size, first>>

\* It has no route, or fails.
LiqdFails ==
  /\ pc = "liqd" /\ KYBER /\ pc' = "kyber"
  /\ UNCHANGED <<pos, rung, frac, size, best, first>>

\* It hangs until the wall: nobody else is asked for this rung; neither is
\* anybody when Kyber is switched off.
LiqdHangs == pc = "liqd" /\ Refused

\* The larger of the two is taken.
Kyber(out, impact) ==
  /\ pc = "kyber" /\ pc' = "gate"
  /\ IF out > best.out THEN Quoted(out, impact) ELSE UNCHANGED best
  /\ UNCHANGED <<pos, rung, frac, size, first>>

\* The quote of LiquidSwap, if there is one, has to do.
KyberFails ==
  /\ pc = "kyber"
  /\ \/ best # NoQuote /\ pc' = "gate" /\ UNCHANGED <<pos, rung, frac, size, best, first>>
     \/ best = NoQuote /\ Refused

\* A PT: Pendle for its underlying; that is all if it is the debt asset.
Leg1(out, impact, over) ==
  /\ pc = "leg1"
  /\ IF over THEN pc' = "gate" /\ Quoted(out, impact)
     ELSE pc' = "leg2" /\ best' = [NoQuote EXCEPT !.impact = impact, !.sold = Sold, !.under = out]
  /\ UNCHANGED <<pos, rung, frac, size, first>>

Leg1Fails == pc = "leg1" /\ Refused

\* The same of the second leg: it pulls what is written into its call.
Mid == (best.under * (PCT - LEG2_HAIRCUT)) \div PCT

\* LiquidSwap for the rest of the way; the impacts of both add up.
Leg2(out, impact) ==
  /\ pc = "leg2" /\ pc' = "gate"
  /\ best' = [best EXCEPT !.out = out, !.impact = @ + impact, !.mid = Mid]
  /\ UNCHANGED <<pos, rung, frac, size, first>>

Leg2Fails == pc = "leg2" /\ Refused

\* LiquidSwap has a wall (QUOTE_WALL_SEC): its calls end.
Walled ==
  \/ Gate \/ Stop \/ Skip \/ Try \/ LiqdFails \/ LiqdHangs \/ Leg2Fails
  \/ \E out \in Outs, i \in Impacts : Liqd(out, i) \/ Leg2(out, i)

\* Those to Kyber and Pendle have a timeout per read only.
Open ==
  \/ KyberFails \/ Leg1Fails
  \/ \E out \in Outs, i \in Impacts :
       Kyber(out, i) \/ \E over \in BOOLEAN : Leg1(out, i, over)

Done == pc \in {"fire", "none"} /\ UNCHANGED vars

Next == Walled \/ Open \/ Done

\* An answer of Kyber or Pendle may trickle in for ever.
Spec == Init /\ [][Next]_vars /\ WF_vars(Walled)

-----------------------------------------------------------------------------
(***************************************************************************)
(* Properties                                                              *)
(***************************************************************************)

\* The values every variable keeps.
TypeOK ==
  /\ pos \in Positions /\ pc \in {"size", "liqd", "kyber", "leg1", "leg2", "gate", "fire", "none"}
  /\ rung \in 0..(Len(CHUNKS) + 1) /\ frac \in Nat \X (Nat \ {0}) /\ first \in BOOLEAN
  /\ size.cover \in Nat /\ size.pulled \in 0..size.cover /\ size.received \in 0..pos.coll
  /\ best.out \in Nat /\ best.impact \in Nat /\ best.sold \in 0..size.received
  /\ best.under \in Nat /\ best.mid \in 0..best.under

\* The Pool does with a chunk what was planned for it, to the wei: what it
\* pulls, what arrives, and no revert for a leftover; for the whole and for every
\* rung, whichever of debt, collateral, close factor and least leftover binds.
\* Not so, against "revert-free", if the category of the user could not be read,
\* or a full seizure is within two wei of what may be covered (Roomy).
SizedAsPool ==
  size # NoSize /\ (pos.emode => pos.known) /\ Roomy(pos, size) =>
    LET done == Pool(pos, size.cover)
    IN ~done.reverts /\ done.pulled = size.pulled /\ done.received = size.received

\* A shot survives what may happen until it lands, the tick of an oracle, some
\* interest, an HF that passes 0.95: the Pool does not revert, the router finds
\* the collateral it was told to sell, and the second one, if there are two, what
\* the first leaves at its worst.  Not so if the drift brings the position under
\* the close factor of a half, or if a full seizure already under it has no
\* place for its buffer (Buffers).
SoldArrives ==
  pc = "fire" /\ pos.kind # "same" /\ (pos.emode => pos.known) /\ Buffers(pos, size) =>
    /\ \A p \in Drifted(pos) :
         (Halved(p) => Halved(pos)) =>
           ~Pool(p, size.cover).reverts /\ best.sold <= Pool(p, size.cover).received
    /\ best.mid <= (best.under * (PCT - SLIPPAGE)) \div PCT

\* A shot that was worth it here passes the contract's own gate: after the Pool
\* has taken its pull, the loan and the premium as Aave rounds it, the profit
\* it demands is there, whichever venue, chunk and path it was; with the same
\* room for a full seizure.
ProfitReal ==
  pc = "fire" /\ (pos.emode => pos.known) /\ Roomy(pos, size) =>
    best.out - Pool(pos, size.cover).pulled
      - (IF FLASH THEN PercentMul(size.cover, PREMIUM) ELSE 0) >= MinProfitWei

\* Down the ladder a chunk is never larger than the one before, so that "the
\* largest profitable size wins".  It may be the same: where the rule against
\* leftovers binds, several fractions lead to one chunk.
Descends == [][Try /\ size # NoSize => size'.pulled <= size.pulled]_vars

\* Every evaluation ends, also when no rung can be sized or no venue has a route;
\* unless an answer of Kyber or Pendle, whose calls have no wall, never ends.
EvalEnds == <>(pc \in {"fire", "none"}) \/ <>[](pc \in {"kyber", "leg1"})
=============================================================================
