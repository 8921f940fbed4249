---------------------------- MODULE MCPriceWatch ----------------------------
(* Two feeds on two adapters, and positions that borrow one against the other, *)
(* with an other asset on the same feeds or without.                           *)
EXTENDS PriceWatch, TLC

CONSTANTS hype, eth
AdapterMC == (hype :> "A") @@ (eth :> "B")
PricesMC == (hype :> {0, 1, 4}) @@ (eth :> {0, 3})
Position(c, coll, debt, more, owes) ==
  [cushion |-> c, coll |-> coll, debt |-> debt, more |-> more, owes |-> owes]
PositionsMC ==
  {Position(0, {hype}, {eth}, {}, {}), Position(0, {hype}, {hype}, {}, {eth}),
   Position(-1, {hype, eth}, {hype}, {}, {}), Position(-2, {hype}, {}, {}, {eth}),
   Position(-5, {hype}, {}, {hype, eth}, {}), Position(-6, {hype}, {}, {hype, eth}, {})}
=============================================================================
