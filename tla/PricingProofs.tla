----------------------------- MODULE PricingProofs ----------------------------
(***************************************************************************)
(* Proofs about the sizing and the ladder, for any prices, balances,       *)
(* bonuses, fees, thresholds and answers of the venues.                    *)
(***************************************************************************)
EXTENDS Pricing, TLAPS

-----------------------------------------------------------------------------
(***************************************************************************)
(* Integer division and least values                                       *)
(***************************************************************************)

LEMMA DivRange ==
  ASSUME NEW a \in Int, NEW c \in Nat \ {0}
  PROVE  a \div c \in Int /\ c * (a \div c) <= a /\ a < c * (a \div c) + c
OBVIOUS

LEMMA DivMono ==
  ASSUME NEW a \in Int, NEW b \in Int, NEW c \in Nat \ {0}, a <= b
  PROVE  a \div c <= b \div c
<1> DEFINE p == a \div c
           q == b \div c
<1>1. p \in Int /\ q \in Int /\ c * p <= a /\ b < c * q + c BY DivRange
<1> HIDE DEF p, q
<1>2. c * p < c * (q + 1) BY <1>1
<1>3. p < q + 1 BY <1>1, <1>2
<1> QED BY <1>1, <1>3 DEF p, q

LEMMA DivBelow ==
  ASSUME NEW a \in Nat, NEW n \in Nat, NEW c \in Nat \ {0}, a < (n + 1) * c
  PROVE  a \div c \in 0..n
<1> DEFINE p == a \div c
<1>1. p \in Int /\ c * p <= a /\ a < c * p + c BY DivRange
<1> HIDE DEF p
<1>2. p < n + 1 BY <1>1
<1>3. p > -1 BY <1>1
<1> QED BY <1>1, <1>2, <1>3 DEF p

LEMMA DivNat ==
  ASSUME NEW a \in Nat, NEW c \in Nat \ {0} PROVE a \div c \in Nat
OBVIOUS

LEMMA MulMono ==
  ASSUME NEW a \in Int, NEW b \in Int, NEW c \in Nat, a <= b
  PROVE  a * c <= b * c /\ a * c \in Int /\ b * c \in Int
OBVIOUS

LEMMA LeastOfTwo ==
  ASSUME NEW x \in Int, NEW y \in Int PROVE Least({x, y}) = IF x <= y THEN x ELSE y
BY DEF Least

LEMMA LeastOfThree ==
  ASSUME NEW x \in Int, NEW y \in Int, NEW z \in Int
  PROVE  /\ Least({x, y, z}) \in {x, y, z}
         /\ Least({x, y, z}) <= x /\ Least({x, y, z}) <= y /\ Least({x, y, z}) <= z
<1>1. \E m \in {x, y, z} : \A n \in {x, y, z} : m <= n
  <2>1. CASE x <= y /\ x <= z BY <2>1
  <2>2. CASE y <= x /\ y <= z BY <2>2
  <2>3. CASE z <= x /\ z <= y BY <2>3
  <2> QED BY <2>1, <2>2, <2>3
<1> QED BY <1>1 DEF Least

LEMMA MostOfTwo ==
  ASSUME NEW x \in Int, NEW y \in Int PROVE Most({x, y}) = IF x >= y THEN x ELSE y
BY DEF Most

-----------------------------------------------------------------------------
(***************************************************************************)
(* Sizing                                                                  *)
(***************************************************************************)

LEMMA PositionType ==
  ASSUME NEW p \in Position
  PROVE  /\ p.debt \in Nat \ {0} /\ p.coll \in Nat \ {0}
         /\ p.dp \in Nat \ {0} /\ p.cp \in Nat \ {0} /\ p.other \in Nat
BY DEF Position

LEMMA Placed == Positions \subseteq Position
BY PricingAssumption

LEMMA BonusType == ASSUME NEW p PROVE Bonus(p) \in Nat \ {0} /\ PCT < Bonus(p)
BY SizingAssumption DEF Bonus

LEMMA PercentType ==
  ASSUME NEW x \in Nat, NEW q \in Nat
  PROVE  PercentMul(x, q) \in Nat /\ (q # 0 => PercentDiv(x, q) \in Nat)
<1>1. x * q + PCT \div 2 \in Nat /\ PCT \in Nat \ {0} BY SizingAssumption
<1>2. PercentMul(x, q) \in Nat BY <1>1, DivNat DEF PercentMul
<1>3. ASSUME q # 0 PROVE PercentDiv(x, q) \in Nat
  <2>1. x * PCT + q \div 2 \in Nat BY SizingAssumption
  <2> QED BY <1>3, <2>1, DivNat DEF PercentDiv
<1> QED BY <1>2, <1>3

\* Less than the whole of a number is at most the number, however rounded.
LEMMA PercentPart ==
  ASSUME NEW x \in Nat, NEW q \in 0..PCT PROVE PercentMul(x, q) \in 0..x
<1>1. PCT \in Nat \ {0} /\ q \in Nat /\ q <= PCT BY SizingAssumption
<1>2. x * q <= x * PCT /\ x * q \in Nat /\ x * PCT \in Nat BY <1>1
<1>3. PCT \div 2 \in Nat /\ PCT \div 2 < PCT BY <1>1
<1>4. (x + 1) * PCT = x * PCT + PCT BY <1>1
<1>5. x * q + PCT \div 2 < (x + 1) * PCT BY <1>1, <1>2, <1>3, <1>4
<1>6. x * q + PCT \div 2 \in Nat BY <1>2, <1>3
<1> QED BY <1>1, <1>5, <1>6, DivBelow DEF PercentMul

LEMMA WithoutBonus ==
  ASSUME NEW x \in Nat, NEW b \in Nat, PCT < b PROVE PercentDiv(x, b) \in 0..x
<1>1. PCT \in Nat \ {0} /\ b \in Nat \ {0} BY SizingAssumption
<1>2. x * PCT <= x * b /\ x * PCT \in Nat /\ x * b \in Nat BY <1>1
<1>3. b \div 2 \in Nat /\ b \div 2 < b BY <1>1
<1>4. (x + 1) * b = x * b + b BY <1>1
<1>5. x * PCT + b \div 2 < (x + 1) * b BY <1>1, <1>2, <1>3, <1>4
<1>6. x * PCT + b \div 2 \in Nat BY <1>2, <1>3
<1> QED BY <1>1, <1>5, <1>6, DivBelow DEF PercentDiv

\* The treasury takes no more than there is.
LEMMA FeeType ==
  ASSUME NEW gross \in Nat, NEW b \in Nat, PCT < b PROVE AfterFee(gross, b) \in 0..gross
<1> DEFINE part == gross - PercentDiv(gross, b)
<1>1. PercentDiv(gross, b) \in 0..gross BY WithoutBonus
<1>2. part \in 0..gross BY <1>1
<1>3. FEE \in 0..PCT BY SizingAssumption
<1>4. PercentMul(part, FEE) \in 0..part
  <2> HIDE DEF part
  <2> QED BY <1>2, <1>3, PercentPart
<1> QED BY <1>2, <1>4 DEF AfterFee

LEMMA ValType ==
  ASSUME NEW w \in Nat, NEW price \in Nat \ {0} PROVE Val(w, price) \in Nat /\ Wei(w, price) \in Nat
<1>1. w * price \in Nat /\ w * UNIT \in Nat /\ UNIT \in Nat \ {0} BY SizingAssumption
<1> QED BY <1>1, DivNat DEF Val, Wei

LEMMA LimitsType ==
  ASSUME NEW p \in Position
  PROVE  MaxLiquidatable(p) \in Nat /\ DebtForAll(p, Bonus(p)) \in Nat
<1>1. Val(p.debt, p.dp) + p.other \in Nat BY PositionType, ValType
<1>2. PCT \div 2 \in Nat BY SizingAssumption
<1>3. HalfOfAll(p) \in Nat BY <1>1, <1>2, PercentType DEF HalfOfAll
<1>4. MaxLiquidatable(p) \in Nat BY <1>3, PositionType, ValType DEF MaxLiquidatable
<1>5. p.cp * p.coll \in Nat BY PositionType
<1>6. (p.cp * p.coll) \div p.dp \in Nat BY <1>5, PositionType, DivNat
<1> QED BY <1>4, <1>6, BonusType, PercentType DEF DebtForAll

\* The value of a partial liquidation grows with what it may cover.
LEMMA PartialValType ==
  ASSUME NEW p \in Position, NEW m \in Nat
  PROVE  /\ PartialVal(p, m) \in Int
         /\ \A n \in Nat : n <= m => PartialVal(p, n) <= PartialVal(p, m)
<1> DEFINE y == Val(p.debt, p.dp) - DustFloor
           z == PercentDiv(Most({Val(p.coll, p.cp) - DustFloor, 0}), Bonus(p))
<1>1. DustFloor \in Nat
  <2>1. MIN_LEFTOVER * 105 \in Nat BY SizingAssumption
  <2> QED BY <2>1, DivNat DEF DustFloor
<1>2. y \in Int BY <1>1, PositionType, ValType
<1>3. z \in Int
  <2>1. Val(p.coll, p.cp) - DustFloor \in Int BY <1>1, PositionType, ValType
  <2>2. Most({Val(p.coll, p.cp) - DustFloor, 0}) \in Nat BY <2>1, MostOfTwo
  <2> QED BY <2>2, BonusType, PercentType
<1>4. \A n \in Nat : PartialVal(p, n) = Least({Val(n, p.dp), y, z}) BY DEF PartialVal
<1> HIDE DEF y, z
<1>5. \A n \in Nat : Val(n, p.dp) \in Int BY PositionType, ValType
<1>6. PartialVal(p, m) \in Int
  <2>1. Val(m, p.dp) \in Int BY <1>5
  <2>2. Least({Val(m, p.dp), y, z}) \in {Val(m, p.dp), y, z} BY <1>2, <1>3, <2>1, LeastOfThree
  <2>3. Least({Val(m, p.dp), y, z}) \in Int BY <1>2, <1>3, <2>1, <2>2
  <2> QED BY <1>4, <2>3
<1>7. ASSUME NEW n \in Nat, n <= m PROVE PartialVal(p, n) <= PartialVal(p, m)
  <2>1. Val(n, p.dp) <= Val(m, p.dp)
    <3>1. n * p.dp <= m * p.dp /\ n * p.dp \in Int /\ m * p.dp \in Int
      BY <1>7, PositionType, MulMono
    <3> QED BY <3>1, SizingAssumption, DivMono DEF Val
  <2>2. /\ Least({Val(n, p.dp), y, z}) \in {Val(n, p.dp), y, z}
        /\ Least({Val(n, p.dp), y, z}) <= Val(n, p.dp)
        /\ Least({Val(n, p.dp), y, z}) <= y /\ Least({Val(n, p.dp), y, z}) <= z
    BY <1>2, <1>3, <1>5, LeastOfThree
  <2>3. Least({Val(m, p.dp), y, z}) \in {Val(m, p.dp), y, z}
    BY <1>2, <1>3, <1>5, LeastOfThree
  <2>4. Least({Val(n, p.dp), y, z}) <= Least({Val(m, p.dp), y, z})
    BY <1>2, <1>3, <1>5, <2>1, <2>2, <2>3
  <2> QED BY <1>4, <2>4
<1> QED BY <1>6, <1>7

LEMMA PartialPullType ==
  ASSUME NEW p \in Position, NEW m \in Nat
  PROVE  /\ PartialPull(p, m) \in 0..m
         /\ \A n \in Nat : n <= m => PartialPull(p, n) <= PartialPull(p, m)
<1> DEFINE amount(v) == Wei((v * 995) \div 1000, p.dp)
<1>1. ASSUME NEW v \in Int, v > 0 PROVE amount(v) \in Nat
  <2>1. v * 995 \in Nat BY <1>1
  <2>2. (v * 995) \div 1000 \in Nat BY <2>1, DivNat
  <2> QED BY <2>2, PositionType, ValType
<1>2. ASSUME NEW v \in Int, NEW w \in Int, v > 0, v <= w PROVE amount(v) <= amount(w)
  <2> DEFINE a == (v * 995) \div 1000
             b == (w * 995) \div 1000
  <2>1. a \in Int /\ b \in Int /\ a <= b BY <1>2, DivMono
  <2> HIDE DEF a, b
  <2>2. UNIT \in Nat BY SizingAssumption
  <2>3. a * UNIT <= b * UNIT /\ a * UNIT \in Int /\ b * UNIT \in Int BY <2>1, <2>2, MulMono
  <2>4. (a * UNIT) \div p.dp <= (b * UNIT) \div p.dp BY <2>3, PositionType, DivMono
  <2> QED BY <2>4 DEF a, b, Wei
<1>3. \A n \in Nat : PartialVal(p, n) \in Int BY PartialValType
<1>4. ASSUME NEW n \in Nat, PartialVal(p, n) <= 0 PROVE PartialPull(p, n) = 0
  BY <1>4 DEF PartialPull
<1>5. ASSUME NEW n \in Nat, ~(PartialVal(p, n) <= 0)
      PROVE  PartialPull(p, n) = Least({amount(PartialVal(p, n)), n})
  BY <1>5 DEF PartialPull
<1> HIDE DEF amount
<1>6. ASSUME NEW n \in Nat PROVE PartialPull(p, n) \in 0..n
  <2>1. CASE PartialVal(p, n) <= 0
    <3>1. PartialPull(p, n) = 0 BY <1>4, <2>1
    <3> QED BY <3>1
  <2>2. CASE ~(PartialVal(p, n) <= 0)
    <3>1. PartialVal(p, n) > 0 BY <1>3, <2>2
    <3>2. amount(PartialVal(p, n)) \in Nat BY <1>1, <1>3, <3>1
    <3>3. Least({amount(PartialVal(p, n)), n}) \in 0..n BY <3>2, LeastOfTwo
    <3> QED BY <1>5, <2>2, <3>3
  <2> QED BY <2>1, <2>2
<1>7. ASSUME NEW n \in Nat, n <= m PROVE PartialPull(p, n) <= PartialPull(p, m)
  <2>1. PartialVal(p, n) \in Int /\ PartialVal(p, m) \in Int /\ PartialVal(p, n) <= PartialVal(p, m)
    BY <1>7, PartialValType
  <2>2. CASE PartialVal(p, n) <= 0
    <3>1. PartialPull(p, n) = 0 /\ PartialPull(p, m) \in 0..m BY <1>4, <1>6, <2>2
    <3> QED BY <3>1
  <2>3. CASE ~(PartialVal(p, n) <= 0)
    <3>1. PartialVal(p, n) > 0 /\ ~(PartialVal(p, m) <= 0) /\ PartialVal(p, m) > 0
      BY <2>1, <2>3
    <3>2. amount(PartialVal(p, n)) \in Nat /\ amount(PartialVal(p, m)) \in Nat
      BY <1>1, <2>1, <3>1
    <3>3. amount(PartialVal(p, n)) <= amount(PartialVal(p, m)) BY <1>2, <2>1, <3>1
    <3>4. Least({amount(PartialVal(p, n)), n}) <= Least({amount(PartialVal(p, m)), m})
      BY <1>7, <3>2, <3>3, LeastOfTwo
    <3> QED BY <1>5, <2>3, <3>1, <3>4
  <2> QED BY <2>2, <2>3
<1> QED BY <1>6, <1>7

\* What a size is good for.
SizeOK(p, s, most) ==
  /\ s.cover \in Nat /\ s.pulled \in 0..s.cover /\ s.received \in 0..p.coll
  /\ s.pulled <= most /\ (s.cover # 0 => s.pulled # 0)

LEMMA BufferedType ==
  ASSUME NEW w \in Nat PROVE Buffered(w) \in Nat /\ w <= Buffered(w) /\ (Buffered(w) # 0 => w # 0)
BY DEF Buffered

\* The ways to size: the whole debt, all of the collateral, a part, nothing.
LEMMA SizeWays ==
  ASSUME NEW p \in Position, NEW most \in Nat
  PROVE  LET all == DebtForAll(p, Bonus(p))
         IN /\ most = 0 => SizeUpTo(p, most) = NoSize
            /\ most > 0 /\ most >= p.debt /\ all >= p.debt =>
                 SizeUpTo(p, most) =
                   [cover |-> Buffered(p.debt), pulled |-> p.debt, full |-> FALSE,
                    received |-> AfterFee(Least({Seized(p, p.debt, Bonus(p)), p.coll}), Bonus(p))]
            /\ most > 0 /\ all < p.debt /\ all <= most =>
                 SizeUpTo(p, most) =
                   [cover |-> Buffered(all), pulled |-> all, full |-> TRUE,
                    received |-> AfterFee(p.coll, Bonus(p))]
            /\ most > 0 /\ ~(most >= p.debt /\ all >= p.debt) /\ ~(all < p.debt /\ all <= most) =>
                 SizeUpTo(p, most) = Partial(p, most)
<1>1. DebtForAll(p, Bonus(p)) \in Nat /\ p.debt \in Nat BY LimitsType, PositionType
<1> DEFINE all == DebtForAll(p, Bonus(p))
<1>2. CASE most = 0 BY <1>2 DEF SizeUpTo
<1>3. CASE most > 0 /\ most >= p.debt /\ all >= p.debt BY <1>1, <1>3 DEF SizeUpTo
<1>4. CASE most > 0 /\ all < p.debt /\ all <= most BY <1>1, <1>4 DEF SizeUpTo
<1>5. CASE /\ most > 0 /\ ~(most >= p.debt /\ all >= p.debt)
           /\ ~(all < p.debt /\ all <= most)
  <2>1. SizeUpTo(p, most) = Partial(p, most) BY <1>1, <1>5 DEF SizeUpTo
  <2> QED BY <1>1, <1>5, <2>1
<1> QED BY <1>1, <1>2, <1>3, <1>4, <1>5

LEMMA ReceivedType ==
  ASSUME NEW p \in Position, NEW w \in Nat
  PROVE  /\ AfterFee(Least({Seized(p, w, Bonus(p)), p.coll}), Bonus(p)) \in 0..p.coll
         /\ AfterFee(p.coll, Bonus(p)) \in 0..p.coll
<1>1. p.dp * w \in Nat /\ p.coll \in Nat BY PositionType
<1>2. (p.dp * w) \div p.cp \in Nat BY <1>1, PositionType, DivNat
<1>3. Seized(p, w, Bonus(p)) \in Nat BY <1>2, BonusType, PercentType DEF Seized
<1> DEFINE gross == Least({Seized(p, w, Bonus(p)), p.coll})
<1>4. gross \in 0..p.coll BY <1>1, <1>3, LeastOfTwo
<1> HIDE DEF gross
<1>5. AfterFee(gross, Bonus(p)) \in 0..gross BY <1>1, <1>4, BonusType, FeeType
<1>6. AfterFee(gross, Bonus(p)) \in 0..p.coll BY <1>1, <1>4, <1>5
<1>7. AfterFee(p.coll, Bonus(p)) \in 0..p.coll BY <1>1, BonusType, FeeType
<1> QED BY <1>6, <1>7 DEF gross

LEMMA NoSizeOK == ASSUME NEW p \in Position, NEW most \in Nat PROVE SizeOK(p, NoSize, most)
BY PositionType DEF SizeOK, NoSize

\* A size pulls at most what it may and delivers at most what there is.
LEMMA SizeType ==
  ASSUME NEW p \in Position, NEW most \in Nat PROVE SizeOK(p, SizeUpTo(p, most), most)
<1> DEFINE all == DebtForAll(p, Bonus(p))
<1>1. all \in Nat /\ p.debt \in Nat /\ p.debt # 0 BY LimitsType, PositionType
<1>2. CASE most = 0 BY <1>2, NoSizeOK, SizeWays
<1>3. CASE most > 0 /\ most >= p.debt /\ all >= p.debt
  <2> DEFINE got == AfterFee(Least({Seized(p, p.debt, Bonus(p)), p.coll}), Bonus(p))
  <2>1. SizeUpTo(p, most) =
          [cover |-> Buffered(p.debt), pulled |-> p.debt, full |-> FALSE, received |-> got]
    BY <1>3, SizeWays
  <2>2. got \in 0..p.coll BY <1>1, ReceivedType
  <2> HIDE DEF got
  <2>3. Buffered(p.debt) \in Nat /\ p.debt <= Buffered(p.debt) BY <1>1, BufferedType
  <2> QED BY <1>1, <1>3, <2>1, <2>2, <2>3 DEF SizeOK
<1>4. CASE most > 0 /\ all < p.debt /\ all <= most
  <2> DEFINE got == AfterFee(p.coll, Bonus(p))
  <2>1. SizeUpTo(p, most) =
          [cover |-> Buffered(all), pulled |-> all, full |-> TRUE, received |-> got]
    BY <1>4, SizeWays
  <2>2. got \in 0..p.coll BY <1>1, ReceivedType
  <2>3. Buffered(all) \in Nat /\ all <= Buffered(all) /\ (Buffered(all) # 0 => all # 0)
    BY <1>1, BufferedType
  <2> HIDE DEF got, all
  <2> QED BY <1>1, <1>4, <2>1, <2>2, <2>3 DEF SizeOK
<1>5. CASE /\ most > 0 /\ ~(most >= p.debt /\ all >= p.debt)
           /\ ~(all < p.debt /\ all <= most)
  <2> DEFINE w == PartialPull(p, most)
             got == AfterFee(Least({Seized(p, w, Bonus(p)), p.coll}), Bonus(p))
  <2>1. w \in 0..most /\ w \in Nat
    <3>1. w \in 0..most BY PartialPullType
    <3> HIDE DEF w
    <3> QED BY <3>1
  <2>2. SizeUpTo(p, most) = Partial(p, most) BY <1>5, SizeWays
  <2>3. CASE w = 0
    <3>1. Partial(p, most) = NoSize BY <2>3 DEF Partial
    <3> QED BY <2>2, <3>1, NoSizeOK
  <2>4. CASE w # 0
    <3>1. Partial(p, most) = [cover |-> w, pulled |-> w, full |-> FALSE, received |-> got]
      BY <2>4 DEF Partial
    <3>2. got \in 0..p.coll
      <4> HIDE DEF w
      <4> QED BY <2>1, ReceivedType
    <3> HIDE DEF got, w
    <3> QED BY <2>1, <2>2, <2>4, <3>1, <3>2 DEF SizeOK
  <2> QED BY <2>3, <2>4
<1> QED BY <1>1, <1>2, <1>3, <1>4, <1>5

LEMMA PulledWays ==
  ASSUME NEW p \in Position, NEW most \in Nat
  PROVE  LET all == DebtForAll(p, Bonus(p))
             pulled == SizeUpTo(p, most).pulled
         IN /\ most = 0 => pulled = 0
            /\ most > 0 /\ most >= p.debt /\ all >= p.debt => pulled = p.debt
            /\ most > 0 /\ all < p.debt /\ all <= most => pulled = all
            /\ most > 0 /\ ~(most >= p.debt /\ all >= p.debt) /\ ~(all < p.debt /\ all <= most)
                 => pulled = PartialPull(p, most)
<1> DEFINE all == DebtForAll(p, Bonus(p))
<1>1. ASSUME most = 0 PROVE SizeUpTo(p, most).pulled = 0
  <2>1. SizeUpTo(p, most) = NoSize BY <1>1, SizeWays
  <2> QED BY <2>1 DEF NoSize
<1>2. ASSUME most > 0, most >= p.debt, all >= p.debt PROVE SizeUpTo(p, most).pulled = p.debt
  <2>1. SizeUpTo(p, most) =
          [cover |-> Buffered(p.debt), pulled |-> p.debt, full |-> FALSE,
           received |-> AfterFee(Least({Seized(p, p.debt, Bonus(p)), p.coll}), Bonus(p))]
    BY <1>2, SizeWays
  <2> QED BY <2>1
<1>3. ASSUME most > 0, all < p.debt, all <= most PROVE SizeUpTo(p, most).pulled = all
  <2>1. SizeUpTo(p, most) = [cover |-> Buffered(all), pulled |-> all, full |-> TRUE,
                             received |-> AfterFee(p.coll, Bonus(p))]
    BY <1>3, SizeWays
  <2> QED BY <2>1
<1>4. ASSUME most > 0, ~(most >= p.debt /\ all >= p.debt), ~(all < p.debt /\ all <= most)
      PROVE  SizeUpTo(p, most).pulled = PartialPull(p, most)
  <2>1. Partial(p, most).pulled = PartialPull(p, most) BY DEF Partial, NoSize
  <2>2. SizeUpTo(p, most) = Partial(p, most) BY <1>4, SizeWays
  <2> QED BY <2>1, <2>2
<1> QED BY <1>1, <1>2, <1>3, <1>4

\* What may cover more pulls no less.
LEMMA SizeMono ==
  ASSUME NEW p \in Position, NEW m \in Nat, NEW n \in Nat, n <= m
  PROVE  SizeUpTo(p, n).pulled <= SizeUpTo(p, m).pulled
<1> DEFINE all == DebtForAll(p, Bonus(p))
           s == SizeUpTo(p, n).pulled
           t == SizeUpTo(p, m).pulled
<1>1. all \in Nat /\ p.debt \in Nat /\ p.debt > 0
  <2>1. p.debt \in Nat \ {0} BY PositionType
  <2> QED BY <2>1, LimitsType
<1>2. s \in Nat /\ t \in Nat /\ s <= n
  <2>1. SizeOK(p, SizeUpTo(p, n), n) /\ SizeOK(p, SizeUpTo(p, m), m) BY SizeType
  <2> QED BY <2>1 DEF SizeOK
<1>3. PartialPull(p, n) <= PartialPull(p, m) BY PartialPullType
<1>4. /\ n = 0 => s = 0
      /\ n > 0 /\ n >= p.debt /\ all >= p.debt => s = p.debt
      /\ n > 0 /\ all < p.debt /\ all <= n => s = all
      /\ n > 0 /\ ~(n >= p.debt /\ all >= p.debt) /\ ~(all < p.debt /\ all <= n)
           => s = PartialPull(p, n)
  BY PulledWays
<1>5. /\ m > 0 /\ m >= p.debt /\ all >= p.debt => t = p.debt
      /\ m > 0 /\ all < p.debt /\ all <= m => t = all
      /\ m > 0 /\ ~(m >= p.debt /\ all >= p.debt) /\ ~(all < p.debt /\ all <= m)
           => t = PartialPull(p, m)
  BY PulledWays
<1> SUFFICES s <= t OBVIOUS
<1> HIDE DEF all, s, t
<1>6. CASE n = 0 BY <1>2, <1>4, <1>6
<1>7. CASE n > 0 /\ n >= p.debt /\ all >= p.debt BY <1>1, <1>4, <1>5, <1>7
<1>8. CASE n > 0 /\ all < p.debt /\ all <= n BY <1>1, <1>4, <1>5, <1>8
<1>9. CASE n > 0 /\ all >= p.debt /\ n < p.debt
  BY <1>1, <1>2, <1>3, <1>4, <1>5, <1>9
<1>10. CASE n > 0 /\ all < p.debt /\ n < all
  BY <1>1, <1>2, <1>3, <1>4, <1>5, <1>10
<1> QED BY <1>1, <1>6, <1>7, <1>8, <1>9, <1>10

-----------------------------------------------------------------------------
(***************************************************************************)
(* The ladder                                                              *)
(***************************************************************************)

\* A smaller share of a number is not larger, rounded down.
LEMMA ShareMono ==
  ASSUME NEW x \in Nat, NEW a \in Nat, NEW b \in Nat \ {0}, NEW c \in Nat, NEW d \in Nat \ {0},
         c * b <= a * d
  PROVE  (x * c) \div d <= (x * a) \div b
<1> DEFINE p == (x * c) \div d
           q == (x * a) \div b
<1>1. x * c \in Int /\ x * a \in Int OBVIOUS
<1>2. p \in Int /\ q \in Int /\ d * p <= x * c /\ x * a < b * q + b BY <1>1, DivRange
<1> SUFFICES ASSUME p > q PROVE FALSE BY <1>2
<1> HIDE DEF p, q
<1>3. x * (c * b) <= x * (a * d) BY MulMono
<1>4. (d * p) * b <= (x * c) * b BY <1>1, <1>2, MulMono
<1>5. (x * a) * d < (b * (q + 1)) * d BY <1>1, <1>2
<1>6. (b * (q + 1)) * d <= (b * p) * d BY <1>2
<1>7. (x * c) * b = x * (c * b) /\ (x * a) * d = x * (a * d) OBVIOUS
<1>8. (d * p) * b = (b * p) * d BY <1>2
<1> QED BY <1>2, <1>3, <1>4, <1>5, <1>6, <1>7, <1>8

\* The fraction is the rung's, and the size in hand was cut with one not smaller.
Ladder ==
  /\ pos \in Positions /\ rung \in 0..(Len(CHUNKS) + 1) /\ frac \in Nat \X (Nat \ {0})
  /\ rung = 0 => frac = <<1, 1>>
  /\ rung \in 1..Len(CHUNKS) => frac = CHUNKS[rung]
  /\ size # NoSize =>
       /\ rung > 0
       /\ \E m \in Nat : size = SizeUpTo(pos, m) /\ ShareOf(pos, frac[1], frac[2]) <= m

LEMMA ChunksType ==
  /\ Len(CHUNKS) \in Nat /\ Len(CHUNKS) > 0
  /\ \A k \in 1..Len(CHUNKS) : CHUNKS[k] \in Nat \X (Nat \ {0})
BY PricingAssumption

LEMMA FullType ==
  ASSUME NEW p \in Position PROVE FullSize(p).pulled \in Nat /\ MaxLiquidatable(p) \in Nat
<1>1. MaxLiquidatable(p) \in Nat BY LimitsType
<1>2. SizeOK(p, SizeUpTo(p, MaxLiquidatable(p)), MaxLiquidatable(p)) BY <1>1, SizeType
<1> QED BY <1>1, <1>2 DEF FullSize, Worth, NoSize, SizeOK

LEMMA ShareType ==
  ASSUME NEW p \in Position, NEW f \in Nat \X (Nat \ {0})
  PROVE  ShareOf(p, f[1], f[2]) \in Nat /\ ShareOf(p, f[1], f[2]) <= MaxLiquidatable(p)
<1>1. f[1] \in Nat /\ f[2] \in Nat \ {0} OBVIOUS
<1>2. FullSize(p).pulled * f[1] \in Nat BY <1>1, FullType
<1>3. (FullSize(p).pulled * f[1]) \div f[2] \in Nat BY <1>1, <1>2, DivNat
<1> QED BY <1>3, FullType, LeastOfTwo DEF ShareOf

\* The fractions come down.
LEMMA NextFraction ==
  ASSUME Ladder, NextRung
  PROVE  /\ rung' \in 1..(Len(CHUNKS) + 1) /\ frac' \in Nat \X (Nat \ {0})
         /\ rung' \in 1..Len(CHUNKS) => frac' = CHUNKS[rung']
         /\ frac'[1] * frac[2] <= frac[1] * frac'[2]
<1>1. frac \in Nat \X (Nat \ {0}) /\ rung \in 0..(Len(CHUNKS) + 1) BY DEF Ladder
<1>2. CASE rung < Len(CHUNKS)
  <2>1. rung' = rung + 1 /\ frac' = CHUNKS[rung + 1] /\ rung + 1 \in 1..Len(CHUNKS)
    BY <1>1, <1>2, ChunksType DEF NextRung
  <2>2. CASE rung = 0
    <3>1. frac = <<1, 1>> /\ frac' = CHUNKS[1] BY <2>1, <2>2 DEF Ladder
    <3>2. frac'[1] \in Nat /\ frac'[2] \in Nat /\ frac'[1] <= frac'[2]
      BY <2>1, <3>1, ChunksType, PricingAssumption
    <3>3. frac[1] = 1 /\ frac[2] = 1 BY <3>1
    <3>4. frac'[1] * frac[2] <= frac[1] * frac'[2] BY <3>2, <3>3
    <3> QED BY <2>1, <3>4, ChunksType
  <2>3. CASE rung > 0
    <3>1. frac = CHUNKS[rung] /\ rung + 1 \in 2..Len(CHUNKS)
      BY <1>1, <1>2, <2>3, ChunksType DEF Ladder
    <3>2. CHUNKS[rung + 1][1] * CHUNKS[(rung + 1) - 1][2]
            <= CHUNKS[(rung + 1) - 1][1] * CHUNKS[rung + 1][2]
      BY <3>1, PricingAssumption
    <3>3. (rung + 1) - 1 = rung BY <1>1
    <3> QED BY <2>1, <3>1, <3>2, <3>3, ChunksType
  <2> QED BY <1>1, <2>2, <2>3
<1>3. CASE ~(rung < Len(CHUNKS))
  <2>1. rung' = Len(CHUNKS) + 1 /\ frac' \in {Halves, frac} BY <1>3 DEF NextRung
  <2>2. frac[1] \in Nat /\ frac[2] \in Nat \ {0} /\ frac = <<frac[1], frac[2]>> BY <1>1
  <2>3. 2 * frac[2] \in Nat \ {0} BY <2>2
  <2>4. Halves \in Nat \X (Nat \ {0}) BY <2>2, <2>3 DEF Halves
  <2>5. frac[1] * frac[2] <= frac[1] * (2 * frac[2]) BY <2>2
  <2>6. frac'[1] * frac[2] <= frac[1] * frac'[2]
    <3>1. CASE frac' = Halves
      <4>1. frac'[1] = frac[1] /\ frac'[2] = 2 * frac[2] BY <3>1 DEF Halves
      <4> QED BY <2>5, <4>1
    <3>2. CASE frac' = frac BY <2>2, <3>2
    <3> QED BY <2>1, <3>1, <3>2
  <2> QED BY <1>1, <2>1, <2>4, <2>6, ChunksType
<1> QED BY <1>2, <1>3

LEMMA NextShare ==
  ASSUME Ladder, NextRung
  PROVE  ShareOf(pos, frac'[1], frac'[2]) <= ShareOf(pos, frac[1], frac[2])
<1>1. frac[1] \in Nat /\ frac[2] \in Nat \ {0} /\ pos \in Positions BY DEF Ladder
<1>2. frac'[1] \in Nat /\ frac'[2] \in Nat \ {0} /\ frac'[1] * frac[2] <= frac[1] * frac'[2]
  BY NextFraction
<1> DEFINE x == FullSize(pos).pulled
           s == (x * frac[1]) \div frac[2]
           t == (x * frac'[1]) \div frac'[2]
<1>3. x \in Nat /\ MaxLiquidatable(pos) \in Nat BY <1>1, FullType, Placed
<1> HIDE DEF x
<1>4. t <= s BY <1>1, <1>2, <1>3, ShareMono
<1>5. s \in Nat /\ t \in Nat
  <2>1. x * frac[1] \in Nat /\ x * frac'[1] \in Nat BY <1>1, <1>2, <1>3
  <2> QED BY <1>1, <1>2, <2>1, DivNat
<1>6. /\ ShareOf(pos, frac[1], frac[2]) = Least({s, MaxLiquidatable(pos)})
      /\ ShareOf(pos, frac'[1], frac'[2]) = Least({t, MaxLiquidatable(pos)})
  BY DEF ShareOf, x
<1> HIDE DEF s, t
<1> QED BY <1>3, <1>4, <1>5, <1>6, LeastOfTwo

\* The next size comes from no more than this one did.
LEMMA SizedCut ==
  ASSUME Ladder
  PROVE  \E m \in Nat : /\ ShareOf(pos, frac[1], frac[2]) <= m
                        /\ Sized = Worth(SizeUpTo(pos, m))
                        /\ rung > 0 => m = ShareOf(pos, frac[1], frac[2])
<1>1. frac \in Nat \X (Nat \ {0}) /\ pos \in Positions /\ rung \in Nat BY ChunksType DEF Ladder
<1>2. ShareOf(pos, frac[1], frac[2]) \in Nat /\ MaxLiquidatable(pos) \in Nat
      /\ ShareOf(pos, frac[1], frac[2]) <= MaxLiquidatable(pos)
  BY <1>1, ShareType, Placed, FullType
<1>3. CASE rung = 0
  <2>1. Sized = Worth(SizeUpTo(pos, MaxLiquidatable(pos))) BY <1>3 DEF Sized, FullSize
  <2> QED BY <1>2, <1>3, <2>1
<1>4. CASE rung # 0
  <2>1. Sized = Worth(SizeUpTo(pos, ShareOf(pos, frac[1], frac[2]))) BY <1>4 DEF Sized, Chunk
  <2> QED BY <1>2, <2>1
<1> QED BY <1>3, <1>4

LEMMA LadderInit == Init => Ladder
<1> SUFFICES ASSUME Init PROVE Ladder OBVIOUS
<1>1. Len(CHUNKS) \in Nat /\ Len(CHUNKS) > 0 BY ChunksType
<1>2. pos \in Positions /\ rung = 0 /\ frac = <<1, 1>> /\ size = NoSize BY DEF Init
<1>3. frac \in Nat \X (Nat \ {0}) BY <1>2
<1>4. rung \in 0..(Len(CHUNKS) + 1) /\ ~(rung \in 1..Len(CHUNKS)) BY <1>1, <1>2
<1> QED BY <1>2, <1>3, <1>4 DEF Ladder

LEMMA SkipLadder == ASSUME Ladder, Skip PROVE Ladder'
<1>1. NextRung /\ pos' = pos /\ size' = size BY DEF Skip
<1>2. pos' \in Positions BY <1>1 DEF Ladder
<1>3. /\ rung' \in 1..(Len(CHUNKS) + 1) /\ frac' \in Nat \X (Nat \ {0})
      /\ rung' \in 1..Len(CHUNKS) => frac' = CHUNKS[rung']
  BY <1>1, NextFraction
<1>4. rung' \in 0..(Len(CHUNKS) + 1) /\ rung' > 0 BY <1>3, ChunksType
<1>5. ASSUME size' # NoSize
      PROVE  \E m \in Nat : size' = SizeUpTo(pos', m) /\ ShareOf(pos', frac'[1], frac'[2]) <= m
  <2>1. PICK m \in Nat : size = SizeUpTo(pos, m) /\ ShareOf(pos, frac[1], frac[2]) <= m
    BY <1>1, <1>5 DEF Ladder
  <2>2. ShareOf(pos, frac'[1], frac'[2]) <= ShareOf(pos, frac[1], frac[2]) BY <1>1, NextShare
  <2>3. ShareOf(pos, frac'[1], frac'[2]) \in Nat BY <1>1, <1>2, <1>3, ShareType, Placed
  <2>4. ShareOf(pos, frac[1], frac[2]) \in Nat BY ShareType, Placed DEF Ladder
  <2> QED BY <1>1, <2>1, <2>2, <2>3, <2>4
<1> QED BY <1>2, <1>3, <1>4, <1>5 DEF Ladder

LEMMA TryLadder == ASSUME Ladder, Try PROVE Ladder'
<1>1. NextRung /\ pos' = pos /\ size' = Sized /\ Sized # NoSize BY DEF Try
<1>2. pos' \in Positions BY <1>1 DEF Ladder
<1>3. /\ rung' \in 1..(Len(CHUNKS) + 1) /\ frac' \in Nat \X (Nat \ {0})
      /\ rung' \in 1..Len(CHUNKS) => frac' = CHUNKS[rung']
  BY <1>1, NextFraction
<1>4. rung' \in 0..(Len(CHUNKS) + 1) /\ rung' > 0 BY <1>3, ChunksType
<1>5. \E m \in Nat : size' = SizeUpTo(pos', m) /\ ShareOf(pos', frac'[1], frac'[2]) <= m
  <2>1. PICK m \in Nat : ShareOf(pos, frac[1], frac[2]) <= m /\ Sized = Worth(SizeUpTo(pos, m))
    BY SizedCut
  <2>2. Sized = SizeUpTo(pos, m) BY <1>1, <2>1 DEF Worth
  <2>3. ShareOf(pos, frac'[1], frac'[2]) <= ShareOf(pos, frac[1], frac[2]) BY <1>1, NextShare
  <2>4. ShareOf(pos, frac'[1], frac'[2]) \in Nat BY <1>1, <1>2, <1>3, ShareType, Placed
  <2>5. ShareOf(pos, frac[1], frac[2]) \in Nat BY ShareType, Placed DEF Ladder
  <2> QED BY <1>1, <2>1, <2>2, <2>3, <2>4, <2>5
<1> QED BY <1>2, <1>3, <1>4, <1>5 DEF Ladder

\* What leaves the ladder alone.
LEMMA OtherSteps ==
  ASSUME [Next]_vars, ~Skip, ~Try PROVE UNCHANGED <<pos, rung, frac, size>>
<1>1. CASE Gate BY <1>1 DEF Gate, Refused
<1>2. CASE Stop BY <1>2 DEF Stop
<1>3. CASE LiqdFails \/ LiqdHangs \/ KyberFails \/ Leg1Fails \/ Leg2Fails
  BY <1>3 DEF LiqdFails, LiqdHangs, KyberFails, Leg1Fails, Leg2Fails, Refused
<1>4. CASE \E out \in Outs, i \in Impacts :
             \/ Liqd(out, i) \/ Kyber(out, i) \/ Leg2(out, i)
             \/ \E over \in BOOLEAN : Leg1(out, i, over)
  BY <1>4 DEF Liqd, Kyber, Leg1, Leg2
<1>5. CASE Done \/ UNCHANGED vars BY <1>5 DEF Done, vars
<1> QED BY <1>1, <1>2, <1>3, <1>4, <1>5 DEF Next, Walled, Open

LEMMA LadderStep == Ladder /\ [Next]_vars => Ladder'
<1> SUFFICES ASSUME Ladder, [Next]_vars PROVE Ladder' OBVIOUS
<1>1. CASE Skip BY <1>1, SkipLadder
<1>2. CASE Try BY <1>2, TryLadder
<1>3. CASE ~Skip /\ ~Try
  <2>1. UNCHANGED <<pos, rung, frac, size>> BY <1>3, OtherSteps
  <2> QED BY <2>1 DEF Ladder
<1> QED BY <1>1, <1>2, <1>3

\* A try after the first takes no more than the one before.
LEMMA TryDescends == ASSUME Ladder, Try, size # NoSize PROVE size'.pulled <= size.pulled
<1>1. pos \in Positions /\ frac \in Nat \X (Nat \ {0}) /\ rung > 0 BY DEF Ladder
<1>2. PICK m \in Nat : size = SizeUpTo(pos, m) /\ ShareOf(pos, frac[1], frac[2]) <= m
  BY DEF Ladder
<1>3. PICK n \in Nat : Sized = Worth(SizeUpTo(pos, n)) /\ n = ShareOf(pos, frac[1], frac[2])
  BY <1>1, SizedCut
<1>4. size' = SizeUpTo(pos, n) BY <1>3 DEF Try, Worth
<1> QED BY <1>1, <1>2, <1>3, <1>4, SizeMono, Placed

\* evaluate walks the chunks of a position downwards, whatever its prices and
\* whatever the list of fractions: no rung covers more than the one before it.
THEOREM DescendsHolds == Spec => Descends
<1>1. Ladder /\ [Next]_vars => [Try /\ size # NoSize => size'.pulled <= size.pulled]_vars
  BY TryDescends
<1> QED BY <1>1, LadderInit, LadderStep, PTL DEF Spec, Descends

-----------------------------------------------------------------------------
(***************************************************************************)
(* The venues and the gate                                                 *)
(***************************************************************************)

States == {"size", "liqd", "kyber", "leg1", "leg2", "gate", "fire", "none"}

SizeT == size.cover \in Nat /\ size.pulled \in 0..size.cover /\ size.received \in 0..pos.coll
BestT == /\ best \in [out : Nat, impact : Nat, sold : 0..size.received, under : Nat, mid : Nat]
         /\ best.mid <= best.under

\* A chunk is asked for only with something to cover, a quote is kept only
\* until the next chunk, and a shot has passed the gate.
Priced ==
  /\ Ladder /\ pc \in States /\ first \in BOOLEAN
  /\ SizeT /\ BestT
  /\ pc \in {"liqd", "kyber", "leg1", "leg2", "gate", "fire"} => size.pulled # 0
  /\ pc \in {"size", "liqd", "leg1"} => best = NoQuote
  /\ pc = "fire" => Pays(size, best.out)

LEMMA NoQuoteType ==
  ASSUME SizeT, pos \in Positions
  PROVE  /\ NoQuote \in [out : Nat, impact : Nat, sold : 0..size.received, under : Nat, mid : Nat]
         /\ NoQuote.mid <= NoQuote.under
BY PositionType DEF SizeT, NoQuote

LEMMA PricedType == Priced => TypeOK
BY DEF Priced, Ladder, States, SizeT, BestT, TypeOK

LEMMA SizedType ==
  ASSUME Ladder, Sized # NoSize
  PROVE  /\ Sized.cover \in Nat /\ Sized.pulled \in 0..Sized.cover
         /\ Sized.received \in 0..pos.coll /\ Sized.pulled # 0
<1>1. PICK m \in Nat : Sized = Worth(SizeUpTo(pos, m)) BY SizedCut
<1>2. Sized = SizeUpTo(pos, m) /\ Sized.cover # 0 BY <1>1 DEF Worth
<1>3. SizeOK(pos, Sized, m) BY <1>2, SizeType, Placed DEF Ladder
<1> QED BY <1>2, <1>3 DEF SizeOK

LEMMA SoldType == ASSUME size.received \in Nat PROVE Sold \in 0..size.received
BY DEF Sold

\* The second leg sells a part of what the first is to give.
LEMMA MidRange == ASSUME NEW u \in Nat PROVE (u * (PCT - LEG2_HAIRCUT)) \div PCT \in 0..u
<1> DEFINE n == u * (PCT - LEG2_HAIRCUT)
<1>1. PCT \in Nat \ {0} /\ PCT - LEG2_HAIRCUT \in Nat /\ PCT - LEG2_HAIRCUT <= PCT
  BY SizingAssumption, DriftAssumption
<1>2. n \in Nat /\ n < (u + 1) * PCT
  <2> DEFINE up == u * PCT
  <2>1. n \in Nat /\ n <= up /\ up \in Nat
    <3>1. (PCT - LEG2_HAIRCUT) * u <= PCT * u BY <1>1, MulMono
    <3> QED BY <1>1, <3>1
  <2>2. (u + 1) * PCT = up + PCT BY <1>1
  <2> HIDE DEF n, up
  <2> QED BY <1>1, <2>1, <2>2
<1> HIDE DEF n
<1>3. n \div PCT \in 0..u BY <1>1, <1>2, DivBelow
<1> QED BY <1>3 DEF n

LEMMA MidType == ASSUME BestT PROVE Mid \in 0..best.under
BY MidRange DEF BestT, Mid

\* The premium as it is planned, and as Aave rounds it.
LEMMA PremiumType ==
  ASSUME NEW c \in Nat
  PROVE  /\ (c * PREMIUM + PCT - 1) \div PCT \in Nat /\ PercentMul(c, PREMIUM) \in Nat
         /\ PercentMul(c, PREMIUM) <= (c * PREMIUM + PCT - 1) \div PCT
<1>1. PCT \in Nat \ {0} /\ PREMIUM \in Nat BY SizingAssumption, PricingAssumption
<1>2. c * PREMIUM \in Nat BY <1>1
<1> DEFINE x == c * PREMIUM
<1> HIDE DEF x
<1>3. x \in Nat BY <1>2 DEF x
<1>4. PCT \div 2 \in Nat /\ PCT \div 2 <= PCT - 1 BY <1>1
<1>5. x + PCT \div 2 \in Nat /\ x + PCT - 1 \in Nat /\ x + PCT \div 2 <= x + PCT - 1
  BY <1>1, <1>3, <1>4
<1>6. (x + PCT \div 2) \div PCT <= (x + PCT - 1) \div PCT BY <1>1, <1>5, DivMono
<1>7. (x + PCT \div 2) \div PCT \in Nat /\ (x + PCT - 1) \div PCT \in Nat BY <1>1, <1>5, DivNat
<1> QED BY <1>6, <1>7 DEF x, PercentMul

LEMMA OwedType ==
  ASSUME NEW s, s.cover \in Nat, s.pulled \in Nat PROVE Owed(s) \in Nat /\ s.pulled <= Owed(s)
<1>1. (s.cover * PREMIUM + PCT - 1) \div PCT \in Nat BY PremiumType
<1> DEFINE x == (s.cover * PREMIUM + PCT - 1) \div PCT
<1> HIDE DEF x
<1>2. x \in Nat BY <1>1 DEF x
<1>3. Owed(s) = IF FLASH THEN s.pulled + x ELSE s.pulled BY DEF Owed, x
<1> QED BY <1>2, <1>3

LEMMA OutsType ==
  ASSUME SizeT, size.pulled # 0, pos \in Positions, NEW out \in Outs PROVE out \in Nat
<1>1. Owed(size) \in Nat /\ size.pulled <= Owed(size) /\ size.pulled \in Nat
  BY OwedType DEF SizeT
<1> DEFINE y == ((MIN_PROFIT + GAS) * UNIT + pos.dp - 1) \div pos.dp
           enough == Owed(size) + y
<1>2. (MIN_PROFIT + GAS) * UNIT \in Nat BY SizingAssumption, PricingAssumption
<1>3. (MIN_PROFIT + GAS) * UNIT + pos.dp - 1 \in Nat BY <1>2, PositionType, Placed
<1>4. y \in Nat BY <1>3, PositionType, Placed, DivNat
<1>5. Outs = {enough - 1, enough, 2 * enough} BY DEF Outs
<1>6. enough \in Nat /\ enough > 0
  <2> HIDE DEF y
  <2> QED BY <1>1, <1>4
<1> HIDE DEF enough
<1>7. out \in {enough - 1, enough, 2 * enough} BY <1>5
<1> QED BY <1>6, <1>7

LEMMA PricedInit == Init => Priced
<1> SUFFICES ASSUME Init PROVE Priced OBVIOUS
<1>1. pos \in Positions /\ pc = "size" /\ size = NoSize /\ best = NoQuote /\ first = FALSE
  BY DEF Init
<1>2. SizeT BY <1>1, PositionType, Placed DEF SizeT, NoSize
<1>3. BestT BY <1>1, <1>2, NoQuoteType DEF BestT
<1> QED BY <1>1, <1>2, <1>3, LadderInit DEF Priced, States

\* A rung that brings nothing leaves the size and forgets the quote.
LEMMA RefusedPriced == ASSUME Priced, Ladder', Refused PROVE Priced'
<1>1. pc' = "size" /\ first' = TRUE /\ best' = NoQuote /\ size' = size /\ pos' = pos BY DEF Refused
<1>2. SizeT' BY <1>1 DEF Priced, SizeT
<1>3. BestT' BY <1>1, <1>2, NoQuoteType DEF BestT, Priced, Ladder
<1> QED BY <1>1, <1>2, <1>3 DEF Priced, States

\* Nothing but where it stands has changed.
LEMMA MovedPriced ==
  ASSUME Priced, Ladder', UNCHANGED <<pos, size, best, first>>, pc' \in States,
         pc' \in {"liqd", "kyber", "leg1", "leg2", "gate", "fire"} => size.pulled # 0,
         pc' \in {"size", "liqd", "leg1"} => best = NoQuote,
         pc' = "fire" => Pays(size, best.out)
  PROVE  Priced'
<1>1. SizeT' BY DEF Priced, SizeT
<1>2. BestT' BY DEF Priced, BestT
<1>3. first' \in BOOLEAN BY DEF Priced
<1>4. pc' = "fire" => Pays(size, best.out)' BY DEF Pays
<1> QED BY <1>1, <1>2, <1>3, <1>4 DEF Priced

LEMMA QuotedPriced ==
  ASSUME Priced, Ladder', NEW out \in Outs, NEW impact \in Nat, Quoted(out, impact),
         UNCHANGED <<pos, size, first>>, size.pulled # 0, pc' \in {"kyber", "leg2", "gate"}
  PROVE  Priced'
<1>1. best' = [out |-> out, impact |-> impact, sold |-> Sold, under |-> 0, mid |-> 0]
  BY DEF Quoted, NoQuote
<1>2. SizeT' /\ first' \in BOOLEAN BY DEF Priced, SizeT
<1>3. out \in Nat BY OutsType DEF Priced, Ladder
<1>4. size.received \in Nat BY PositionType DEF Priced, Ladder, SizeT
<1>5. Sold \in 0..size.received BY <1>4, SoldType
<1>6. BestT' BY <1>1, <1>3, <1>5 DEF BestT
<1> QED BY <1>2, <1>6 DEF Priced, States

LEMMA TryPriced == ASSUME Priced, Ladder', Try PROVE Priced'
<1>1. /\ pos' = pos /\ size' = Sized /\ Sized # NoSize
      /\ pc' \in {"gate", "leg1", "liqd", "size"} /\ best = NoQuote /\ first' \in BOOLEAN
  BY DEF Try, Priced
<1>2. /\ size'.cover \in Nat /\ size'.pulled \in 0..size'.cover
      /\ size'.received \in 0..pos.coll /\ size'.pulled # 0
  BY <1>1, SizedType DEF Priced
<1>3. SizeT' BY <1>1, <1>2 DEF SizeT
<1>4. CASE best' = NoQuote
  <2>1. size'.received \in Nat BY <1>1, <1>2, PositionType DEF Priced, Ladder
  <2>2. BestT' BY <1>4, <2>1 DEF BestT, NoQuote
  <2> QED BY <1>1, <1>2, <1>3, <1>4, <2>2 DEF Priced, States
<1>5. CASE /\ pc' = "gate"
           /\ best' = [out |-> Sized.received, impact |-> 0, sold |-> Sized.received,
                       under |-> 0, mid |-> 0]
  <2>1. size'.received \in Nat /\ size'.received = Sized.received
    BY <1>1, <1>2, PositionType DEF Priced, Ladder
  <2>2. BestT' BY <1>5, <2>1 DEF BestT
  <2> QED BY <1>1, <1>2, <1>3, <1>5, <2>2 DEF Priced, States
<1> QED BY <1>1, <1>4, <1>5 DEF Try, NoQuote

LEMMA PricedStep == Priced /\ [Next]_vars => Priced'
<1> SUFFICES ASSUME Priced, [Next]_vars PROVE Priced' OBVIOUS
<1>1. Ladder' BY LadderStep DEF Priced
<1>2. CASE Gate
  <2>1. CASE Refused BY <1>1, <2>1, RefusedPriced
  <2>2. CASE pc' = "fire" /\ Pays(size, best.out) /\ UNCHANGED <<pos, size, best, first>>
    <3>1. size.pulled # 0 BY <1>2 DEF Gate, Priced
    <3> QED BY <1>1, <2>2, <3>1, MovedPriced DEF States
  <2> QED BY <1>2, <2>1, <2>2 DEF Gate
<1>3. CASE Stop BY <1>1, <1>3, MovedPriced DEF Stop, States
<1>4. CASE Skip
  <2>1. pc' = "size" /\ best = NoQuote /\ UNCHANGED <<pos, size, best, first>>
    BY <1>4 DEF Skip, Priced
  <2> QED BY <1>1, <2>1, MovedPriced DEF States
<1>5. CASE Try BY <1>1, <1>5, TryPriced
<1>6. CASE LiqdFails
  <2>1. pc' = "kyber" /\ size.pulled # 0 /\ UNCHANGED <<pos, size, best, first>>
    BY <1>6 DEF LiqdFails, Priced
  <2> QED BY <1>1, <2>1, MovedPriced DEF States
<1>7. CASE LiqdHangs BY <1>1, <1>7, RefusedPriced DEF LiqdHangs
<1>8. CASE KyberFails
  <2>1. CASE pc = "kyber" /\ pc' = "gate" /\ UNCHANGED <<pos, size, best, first>>
    <3>1. size.pulled # 0 BY <2>1 DEF Priced
    <3> QED BY <1>1, <2>1, <3>1, MovedPriced DEF States
  <2>2. CASE Refused BY <1>1, <2>2, RefusedPriced
  <2> QED BY <1>8, <2>1, <2>2 DEF KyberFails
<1>9. CASE Leg1Fails \/ Leg2Fails BY <1>1, <1>9, RefusedPriced DEF Leg1Fails, Leg2Fails
<1>10. ASSUME NEW out \in Outs, NEW i \in Impacts,
              \/ Liqd(out, i) \/ Kyber(out, i) \/ Leg2(out, i)
              \/ \E over \in BOOLEAN : Leg1(out, i, over)
       PROVE  Priced'
  <2>0. out \in Nat
    <3>1. pos \in Positions /\ SizeT BY DEF Priced, Ladder
    <3>2. pc \in {"liqd", "kyber", "leg1", "leg2"} BY <1>10 DEF Liqd, Kyber, Leg1, Leg2
    <3>3. size.pulled # 0 BY <3>2 DEF Priced
    <3> QED BY <3>1, <3>3, OutsType
  <2>1. i \in Nat BY PricingAssumption
  <2>2. CASE Liqd(out, i)
    <3>1. pc' \in {"kyber", "gate"} /\ size.pulled # 0 BY <2>2 DEF Liqd, Priced
    <3> QED BY <1>1, <2>1, <2>2, <3>1, QuotedPriced DEF Liqd
  <2>3. CASE Kyber(out, i)
    <3>1. pc' = "gate" /\ size.pulled # 0 /\ UNCHANGED <<pos, size, first>>
      BY <2>3 DEF Kyber, Priced
    <3>2. CASE Quoted(out, i) BY <1>1, <2>1, <3>1, <3>2, QuotedPriced
    <3>3. CASE UNCHANGED best BY <1>1, <3>1, <3>3, MovedPriced DEF States
    <3> QED BY <2>3, <3>2, <3>3 DEF Kyber
  <2>4. CASE Leg2(out, i)
    <3>1. /\ pc' = "gate" /\ size.pulled # 0 /\ UNCHANGED <<pos, size, first>>
          /\ best' = [best EXCEPT !.out = out, !.impact = @ + i, !.mid = Mid]
      BY <2>4 DEF Leg2, Priced
    <3>2. out \in Nat BY <2>0
    <3>3. BestT'
      <4>1. Mid \in 0..best.under BY MidType DEF Priced
      <4>2. /\ best \in [out : Nat, impact : Nat, sold : 0..size.received, under : Nat, mid : Nat]
            /\ size' = size
        BY <3>1 DEF Priced, BestT
      <4>3. /\ best' = [out |-> out, impact |-> best.impact + i, sold |-> best.sold,
                       under |-> best.under, mid |-> Mid]
            /\ Mid \in Nat /\ Mid <= best.under /\ best.impact + i \in Nat
        <5> DEFINE m == Mid
        <5>1. best' = [best EXCEPT !.out = out, !.impact = @ + i, !.mid = m] BY <3>1
        <5>2. m \in 0..best.under BY <4>1
        <5> HIDE DEF m
        <5>3. best' = [out |-> out, impact |-> best.impact + i, sold |-> best.sold,
                       under |-> best.under, mid |-> m]
          BY ONLY <4>2, <5>1
        <5>4. m \in Nat /\ m <= best.under /\ best.impact + i \in Nat BY <2>1, <4>2, <5>2
        <5> QED BY <5>3, <5>4 DEF m
      <4> HIDE DEF Mid
      <4> QED BY <3>2, <4>2, <4>3 DEF BestT
    <3>4. SizeT' BY <3>1 DEF Priced, SizeT
    <3>5. first' \in BOOLEAN BY <3>1 DEF Priced
    <3> QED BY <1>1, <3>1, <3>3, <3>4, <3>5 DEF Priced, States
  <2>5. ASSUME NEW over \in BOOLEAN, Leg1(out, i, over) PROVE Priced'
    <3>1. /\ pc' \in {"gate", "leg2"} /\ size.pulled # 0 /\ UNCHANGED <<pos, size, first>>
          /\ over => Quoted(out, i)
          /\ ~over => best' = [out |-> 0, impact |-> i, sold |-> Sold, under |-> out, mid |-> 0]
      BY <2>5 DEF Leg1, Priced, NoQuote
    <3>2. CASE over
      <4>1. Quoted(out, i) /\ pc' \in {"kyber", "leg2", "gate"} BY <3>1, <3>2, Zenon
      <4> QED BY <1>1, <2>1, <3>1, <4>1, QuotedPriced
    <3>3. CASE ~over
      <4>1. out \in Nat BY <2>0
      <4>2. size.received \in Nat BY PositionType DEF Priced, Ladder, SizeT
      <4>3. Sold \in 0..size.received BY <4>2, SoldType
      <4>4. best' = [out |-> 0, impact |-> i, sold |-> Sold, under |-> out, mid |-> 0]
        BY ONLY <3>1, <3>3, Zenon
      <4>7. BestT' BY <2>1, <3>1, <4>1, <4>3, <4>4 DEF BestT
      <4>5. SizeT' BY <3>1 DEF Priced, SizeT
      <4>6. first' \in BOOLEAN BY <3>1 DEF Priced
      <4> QED BY <1>1, <3>1, <4>5, <4>6, <4>7 DEF Priced, States
    <3> QED BY <3>2, <3>3
  <2> QED BY <1>10, <2>2, <2>3, <2>4, <2>5
<1>11. CASE Done \/ UNCHANGED vars
  <2>1. UNCHANGED vars BY <1>11 DEF Done
  <2> QED BY <1>1, <2>1, MovedPriced DEF vars, Priced
<1> QED BY <1>2, <1>3, <1>4, <1>5, <1>6, <1>7, <1>8, <1>9, <1>10, <1>11 DEF Next, Walled, Open

\* evaluate and the venues keep the values the gate computes with: what is
\* pulled within what is lent, what is sold within what is to arrive.
THEOREM PricingTypeCorrect == Spec => []TypeOK
BY PricedInit, PricedStep, PricedType, PTL DEF Spec

\* Whatever passed the gate demands of the proceeds covers what the contract
\* checks, when the Pool pulls what was planned.
LEMMA PaysReal ==
  ASSUME Priced, pc = "fire", Pool(pos, size.cover).pulled = size.pulled
  PROVE  best.out - Pool(pos, size.cover).pulled
           - (IF FLASH THEN PercentMul(size.cover, PREMIUM) ELSE 0) >= MinProfitWei
<1> DEFINE due == (size.cover * PREMIUM + PCT - 1) \div PCT
           real == PercentMul(size.cover, PREMIUM)
           must == (MIN_PROFIT * UNIT) \div pos.dp
           o == best.out
           w == size.pulled
           d == pos.dp
           least == MIN_PROFIT * UNIT
           all == (MIN_PROFIT + GAS) * UNIT
<1>1. size.cover \in Nat /\ w \in Nat /\ o \in Nat /\ d \in Nat \ {0}
  BY PositionType, Placed DEF Priced, Ladder, SizeT, BestT
<1>2. due \in Nat /\ real \in Nat /\ real <= due BY <1>1, PremiumType
<1>3. Pays(size, o) BY DEF Priced
<1>4. Owed(size) = IF FLASH THEN w + due ELSE w BY DEF Owed
<1>5. (o - Owed(size)) * d >= all BY <1>3 DEF Pays
<1>6. least \in Nat /\ all \in Nat /\ least <= all
  <2>1. MIN_PROFIT \in Nat /\ GAS \in Nat /\ UNIT \in Nat BY SizingAssumption, PricingAssumption
  <2> QED BY <2>1
<1>7. must \in Int /\ d * must <= least BY <1>1, <1>6, DivRange
<1>8. MinProfitWei = must BY DEF MinProfitWei
<1> DEFINE gain == o - Owed(size)
<1>9. gain \in Int BY <1>1, <1>2, <1>4
<1>10. gain >= must
  <2> HIDE DEF gain, must, d, all, least
  <2>1. gain * d >= all BY <1>5 DEF gain, d, all
  <2>2. d * must <= gain * d BY <1>1, <1>6, <1>7, <1>9, <2>1
  <2> QED BY <1>1, <1>7, <1>9, <2>2
<1> SUFFICES o - w - (IF FLASH THEN real ELSE 0) >= must BY <1>8
<1>11. FLASH \in BOOLEAN BY PricingAssumption
<1> HIDE DEF due, real, must, o, w
<1> QED BY <1>1, <1>2, <1>4, <1>7, <1>10, <1>11

LEMMA RealFollows == Priced /\ SizedAsPool => ProfitReal
<1> SUFFICES ASSUME Priced, SizedAsPool, pc = "fire", pos.emode => pos.known, Roomy(pos, size)
             PROVE  best.out - Pool(pos, size.cover).pulled
                      - (IF FLASH THEN PercentMul(size.cover, PREMIUM) ELSE 0) >= MinProfitWei
  BY DEF ProfitReal
<1>1. size # NoSize BY DEF Priced, NoSize
<1>2. Pool(pos, size.cover).pulled = size.pulled BY <1>1 DEF SizedAsPool
<1> QED BY <1>2, PaysReal

\* A shot of _evaluate_one that was worth it here passes the contract's gate,
\* for any prices, sizes, premium and answers of the venues, as long as the
\* Pool does what was planned.
THEOREM ProfitFollows == Spec /\ []SizedAsPool => []ProfitReal
BY RealFollows, PricedInit, PricedStep, PTL DEF Spec

-----------------------------------------------------------------------------
(***************************************************************************)
(* The Pool's arithmetic and the planner's                                 *)
(***************************************************************************)

\* Division that rounds to the nearest is off by a half at most.
LEMMA Nearest ==
  ASSUME NEW y \in Nat, NEW c \in Nat \ {0}
  PROVE  LET s == (y + c \div 2) \div c
         IN s \in Nat /\ 2 * (c * s) <= 2 * y + c /\ 2 * y <= 2 * (c * s) + c
<1> DEFINE h == c \div 2
           s == (y + h) \div c
<1>1. h \in Nat /\ 2 * h <= c /\ c <= 2 * h + 1 OBVIOUS
<1>2. y + h \in Nat BY <1>1
<1>3. s \in Nat /\ c * s <= y + h /\ y + h < c * s + c BY <1>2, DivRange, DivNat
<1> DEFINE cs == c * s
<1>4. cs \in Nat /\ cs <= y + h /\ y + h < cs + c BY <1>3
<1>5. 2 * cs <= 2 * y + c /\ 2 * y <= 2 * cs + c
  <2> HIDE DEF h, cs
  <2> QED BY <1>1, <1>4
<1> QED BY <1>3, <1>5

LEMMA Times ==
  ASSUME NEW a \in Int, NEW b \in Int, NEW c \in Nat, a <= b
  PROVE  c * a <= c * b
OBVIOUS

\* What covers the debt and more buys no more than there is.
LEMMA WholeFits ==
  ASSUME NEW dp \in Nat \ {0}, NEW cp \in Nat \ {0}, NEW b \in Nat \ {0}, NEW e \in Nat \ {0},
         NEW D \in Nat, NEW C \in Nat, NEW X \in Nat, NEW Y \in Nat, NEW A \in Nat, NEW S \in Nat,
         dp * X <= cp * C, 2 * (b * A) <= 2 * (X * e) + b,
         cp * Y <= dp * D, 2 * (e * S) <= 2 * (Y * b) + e, D < A
  PROVE  S <= C
<1>1. b * (D + 1) <= b * A BY Times
<1>2. 2 * (b * D) <= 2 * (X * e) BY <1>1
<1>3. dp * (b * D) <= dp * (X * e) BY <1>2
<1>4. e * (dp * X) <= e * (cp * C) BY Times
<1>5. b * (cp * Y) <= b * (dp * D) BY Times
<1>6. cp * (2 * (e * S)) <= cp * (2 * (Y * b) + e) BY Times
<1> DEFINE k == cp * e
<1>7. 2 * (k * S) <= 2 * (k * C) + k
  <2>1. dp * (X * e) = e * (dp * X) /\ e * (cp * C) = k * C OBVIOUS
  <2>2. b * (cp * Y) = cp * (Y * b) /\ b * (dp * D) = dp * (b * D) OBVIOUS
  <2>3. cp * (2 * (e * S)) = 2 * (k * S) /\ cp * (2 * (Y * b) + e) = 2 * (cp * (Y * b)) + k
    OBVIOUS
  <2> DEFINE z == cp * (Y * b)
  <2>4. z <= k * C BY <1>3, <1>4, <1>5, <2>1, <2>2
  <2>5. 2 * (k * S) <= 2 * z + k BY <1>6, <2>3
  <2> DEFINE ks == k * S
             kc == k * C
  <2>6. z \in Int /\ ks \in Int /\ kc \in Int /\ k \in Int OBVIOUS
  <2> HIDE DEF z, ks, kc, k
  <2>7. z <= kc BY <2>4 DEF kc
  <2>8. 2 * ks <= 2 * z + k BY <2>5 DEF ks
  <2>9. 2 * ks <= 2 * kc + k BY <2>6, <2>7, <2>8
  <2> QED BY <2>9 DEF ks, kc
<1> SUFFICES ASSUME C < S PROVE FALSE OBVIOUS
<1>8. k \in Nat /\ k > 0 OBVIOUS
<1> HIDE DEF k
<1>9. k * (C + 1) <= k * S BY <1>8, Times
<1>10. k * (C + 1) = k * C + k BY <1>8
<1> DEFINE ks == k * S
           kc == k * C
<1>11. ks \in Int /\ kc \in Int BY <1>8
<1> HIDE DEF ks, kc
<1>12. 2 * ks <= 2 * kc + k BY <1>7 DEF ks, kc
<1>13. kc + k <= ks BY <1>9, <1>10 DEF ks, kc
<1> QED BY <1>8, <1>11, <1>12, <1>13

\* Two wei of both tokens more than buys the collateral, and the Pool would
\* seize more than there is.
LEMMA AllClamped ==
  ASSUME NEW dp \in Nat \ {0}, NEW cp \in Nat \ {0}, NEW b \in Nat \ {0}, NEW e \in Nat \ {0},
         NEW q \in Nat, NEW C \in Nat, NEW X \in Nat, NEW Y \in Nat, NEW A \in Nat, NEW S \in Nat,
         e < b, cp * C <= dp * X + dp, 2 * (X * e) <= 2 * (b * A) + b,
         dp * q <= cp * Y + cp, 2 * (Y * b) <= 2 * (e * S) + e,
         dp * A + 2 * dp + 2 * cp <= dp * q
  PROVE  C < S
<1> DEFINE k == cp * e
           bda == b * (dp * A)
           bd == b * dp
           bc == b * cp
           kc == k * C
           ks == k * S
           edx == e * (dp * X)
           ed == e * dp
           bcy == b * (cp * Y)
<1>1. /\ k \in Nat /\ bda \in Nat /\ bd \in Nat /\ bc \in Nat /\ kc \in Nat /\ ks \in Nat
      /\ edx \in Nat /\ ed \in Nat /\ bcy \in Nat /\ bc > 0
  OBVIOUS
<1>2. kc <= edx + ed
  <2>1. e * (cp * C) <= e * (dp * X + dp) BY Times
  <2>2. e * (cp * C) = kc /\ e * (dp * X + dp) = edx + ed OBVIOUS
  <2> QED BY <2>1, <2>2
<1>3. 2 * edx <= 2 * bda + bd
  <2>1. dp * (2 * (X * e)) <= dp * (2 * (b * A) + b) BY Times
  <2>2. dp * (2 * (X * e)) = 2 * edx /\ dp * (2 * (b * A) + b) = 2 * bda + bd OBVIOUS
  <2> QED BY <2>1, <2>2
<1>4. bda + 2 * bd + 2 * bc <= bcy + bc
  <2>1. dp * A + 2 * dp + 2 * cp <= cp * Y + cp OBVIOUS
  <2>2. b * (dp * A + 2 * dp + 2 * cp) <= b * (cp * Y + cp) BY <2>1, Times
  <2>3. /\ b * (dp * A + 2 * dp + 2 * cp) = bda + 2 * bd + 2 * bc
        /\ b * (cp * Y + cp) = bcy + bc
    OBVIOUS
  <2> QED BY <2>2, <2>3
<1>5. 2 * bcy <= 2 * ks + k
  <2>1. cp * (2 * (Y * b)) <= cp * (2 * (e * S) + e) BY Times
  <2>2. cp * (2 * (Y * b)) = 2 * bcy /\ cp * (2 * (e * S) + e) = 2 * ks + k OBVIOUS
  <2> QED BY <2>1, <2>2
<1>6. ed <= bd
  <2>1. dp * e <= dp * b BY Times
  <2> QED BY <2>1
<1>7. k <= bc
  <2>1. cp * e <= cp * b BY Times
  <2> QED BY <2>1
<1>8. kc < ks
  <2> HIDE DEF k, bda, bd, bc, kc, ks, edx, ed, bcy
  <2> QED BY <1>1, <1>2, <1>3, <1>4, <1>5, <1>6, <1>7
<1> SUFFICES ASSUME S <= C PROVE FALSE OBVIOUS
<1>9. k * S <= k * C BY <1>1, Times
<1> QED BY <1>8, <1>9

LEMMA Cancel ==
  ASSUME NEW a \in Int, NEW b \in Int, NEW c \in Nat \ {0}, c * a <= c * b
  PROVE  a <= b
<1> SUFFICES ASSUME b + 1 <= a PROVE FALSE OBVIOUS
<1>1. c * (b + 1) <= c * a BY Times
<1>2. c * (b + 1) = c * b + c OBVIOUS
<1> DEFINE x == c * a
           y == c * b
<1>3. x \in Int /\ y \in Int /\ x <= y /\ y + c <= x BY <1>1, <1>2
<1> HIDE DEF x, y
<1> QED BY <1>3

LEMMA DivWhole ==
  ASSUME NEW a \in Nat, NEW c \in Nat \ {0}
  PROVE  a \div c \in Nat /\ c * (a \div c) <= a /\ a <= c * (a \div c) + c
<1> DEFINE x == c * (a \div c)
<1>1. a \div c \in Nat /\ x \in Int /\ x <= a /\ a < x + c BY DivRange, DivNat
<1>2. a <= x + c
  <2> HIDE DEF x
  <2> QED BY <1>1
<1> QED BY <1>1, <1>2

\* A part leaves of the debt what the Pool wants left, also at another price.
LEMMA KeepsDebt ==
  ASSUME NEW dp \in Nat \ {0}, NEW dp2 \in Nat \ {0}, NEW u \in Nat \ {0}, NEW D \in Nat,
         NEW D2 \in Nat, NEW P \in Nat, NEW w \in Nat, NEW d \in Nat, NEW M \in Nat, NEW v \in Nat,
         NEW val \in Nat, D <= D2, 498 * dp <= 499 * dp2,
         u * val <= D * dp, v <= val - d, 1000 * w <= 995 * v, dp * P <= w * u, 104 * M <= 100 * d
  PROVE  M * u <= (D2 - P) * dp2
<1> DEFINE uw == u * w
           ud == u * d
           uv == u * val
           um == u * M
           x == D * dp
           y == dp * P
           t == D - P
           l == t * dp
           l2 == t * dp2
           r == (D2 - P) * dp2
<1>1. /\ uw \in Nat /\ ud \in Nat /\ uv \in Nat /\ um \in Nat /\ x \in Nat /\ y \in Nat
      /\ t \in Int /\ l \in Int /\ l2 \in Int /\ r \in Int
  OBVIOUS
<1>2. 1000 * uw <= 995 * uv - 995 * ud
  <2>1. 1000 * w <= 995 * (val - d) OBVIOUS
  <2>2. u * (1000 * w) <= u * (995 * (val - d)) BY <2>1, Times
  <2>3. u * (1000 * w) = 1000 * uw /\ u * (995 * (val - d)) = 995 * uv - 995 * ud OBVIOUS
  <2> QED BY <2>2, <2>3
<1>3. 104 * um <= 100 * ud
  <2>1. u * (104 * M) <= u * (100 * d) BY Times
  <2>2. u * (104 * M) = 104 * um /\ u * (100 * d) = 100 * ud OBVIOUS
  <2> QED BY <2>1, <2>2
<1>4. uv <= x /\ y <= uw /\ l = x - y OBVIOUS
<1>5. ud <= uv
  <2>1. d <= val OBVIOUS
  <2> QED BY <2>1, Times
<1>6. ud <= l
  <2> HIDE DEF uw, ud, uv, um, x, y, l
  <2> QED BY <1>1, <1>2, <1>4, <1>5
<1>7. 0 <= t
  <2>1. dp * 0 <= dp * t
    <3>1. dp * t = l /\ dp * 0 = 0 OBVIOUS
    <3> HIDE DEF l, ud, t
    <3> QED BY <1>1, <1>6, <3>1
  <2> HIDE DEF t
  <2> QED BY <1>1, <2>1, Cancel
<1>8. 498 * l <= 499 * l2
  <2> HIDE DEF t
  <2>1. t \in Nat BY <1>1, <1>7
  <2>2. t * (498 * dp) <= t * (499 * dp2) BY <2>1, Times
  <2>3. t * (498 * dp) = 498 * l /\ t * (499 * dp2) = 499 * l2 BY <2>1
  <2> QED BY <2>2, <2>3
<1>9. l2 <= r
  <2>1. dp2 * t <= dp2 * (D2 - P) BY Times
  <2>2. dp2 * t = l2 /\ dp2 * (D2 - P) = r OBVIOUS
  <2> QED BY <2>1, <2>2
<1>10. um <= r
  <2> HIDE DEF ud, um, l, l2, r
  <2> QED BY <1>1, <1>3, <1>6, <1>8, <1>9
<1>11. M * u = um OBVIOUS
<1> QED BY <1>10, <1>11

\* And of the collateral.
LEMMA KeepsColl ==
  ASSUME NEW dp \in Nat \ {0}, NEW cp \in Nat \ {0}, NEW dp2 \in Nat \ {0}, NEW cp2 \in Nat \ {0},
         NEW b \in Nat \ {0}, NEW e \in Nat \ {0},
         NEW u \in Nat \ {0}, NEW C \in Nat, NEW P \in Nat, NEW Y \in Nat, NEW S \in Nat,
         NEW w \in Nat, NEW d \in Nat, NEW M \in Nat, NEW v \in Nat, NEW z \in Nat,
         498 * cp <= 499 * cp2, 499 * cp2 <= 500 * cp, 499 * dp2 <= 500 * dp,
         u * z <= cp * C - u * d, 2 * (b * v) <= 2 * (z * e) + b, 1000 * w <= 995 * v,
         dp * P <= w * u, cp2 * Y <= dp2 * P, 2 * (e * S) <= 2 * (Y * b) + e,
         104 * M <= 100 * d, 1000 * b <= M * e, 1000 * cp <= M * u
  PROVE  M * u <= (C - S) * cp2
<1> DEFINE es == e * (cp2 * S)
           ec == e * (cp * C)
           ec2 == e * (cp2 * C)
           ed == e * (u * d)
           em == e * (u * M)
           ez == e * (u * z)
           bu == b * u
           ce == cp * e
           ce2 == cp2 * e
           bw == b * (w * u)
           bv == b * (v * u)
           bp == b * (dp * P)
           bp2 == b * (dp2 * P)
           by == b * (cp2 * Y)
<1>1. /\ es \in Nat /\ ec \in Nat /\ ec2 \in Nat /\ ed \in Nat /\ em \in Nat /\ ez \in Nat
      /\ bu \in Nat /\ ce \in Nat /\ ce2 \in Nat /\ bw \in Nat /\ bv \in Nat /\ bp \in Nat
      /\ bp2 \in Nat /\ by \in Nat
  OBVIOUS
<1>2. 2 * es <= 2 * by + ce2
  <2>1. cp2 * (2 * (e * S)) <= cp2 * (2 * (Y * b) + e) BY Times
  <2>2. cp2 * (2 * (e * S)) = 2 * es /\ cp2 * (2 * (Y * b) + e) = 2 * by + ce2 OBVIOUS
  <2> QED BY <2>1, <2>2
<1>3. by <= bp2 /\ bp <= bw
  <2>1. b * (cp2 * Y) <= b * (dp2 * P) BY Times
  <2>2. b * (dp * P) <= b * (w * u) BY Times
  <2> QED BY <2>1, <2>2
<1>4. 499 * bp2 <= 500 * bp
  <2>1. (b * P) * (499 * dp2) <= (b * P) * (500 * dp) BY Times
  <2>2. (b * P) * (499 * dp2) = 499 * bp2 /\ (b * P) * (500 * dp) = 500 * bp OBVIOUS
  <2> QED BY <2>1, <2>2
<1>5. 1000 * bw <= 995 * bv
  <2>1. bu * (1000 * w) <= bu * (995 * v) BY <1>1, Times
  <2>2. bu * (1000 * w) = 1000 * bw /\ bu * (995 * v) = 995 * bv OBVIOUS
  <2> QED BY <2>1, <2>2
<1>6. 2 * bv <= 2 * ez + bu
  <2>1. u * (2 * (b * v)) <= u * (2 * (z * e) + b) BY Times
  <2>2. u * (2 * (b * v)) = 2 * bv /\ u * (2 * (z * e) + b) = 2 * ez + bu OBVIOUS
  <2> QED BY <2>1, <2>2
<1>7. ez <= ec - ed
  <2>1. e * (u * z) <= e * (cp * C - u * d) BY Times
  <2>2. e * (cp * C - u * d) = ec - ed OBVIOUS
  <2> QED BY <2>1, <2>2
<1>8. 104 * em <= 100 * ed
  <2>1. (e * u) * (104 * M) <= (e * u) * (100 * d) BY Times
  <2>2. (e * u) * (104 * M) = 104 * em /\ (e * u) * (100 * d) = 100 * ed OBVIOUS
  <2> QED BY <2>1, <2>2
<1>9. 1000 * bu <= em
  <2>1. u * (1000 * b) <= u * (M * e) BY Times
  <2>2. u * (1000 * b) = 1000 * bu /\ u * (M * e) = em OBVIOUS
  <2> QED BY <2>1, <2>2
<1>10. 1000 * ce <= em /\ 499 * ce2 <= 500 * ce
  <2>1. e * (1000 * cp) <= e * (M * u) BY Times
  <2>2. e * (1000 * cp) = 1000 * ce /\ e * (M * u) = em OBVIOUS
  <2>3. e * (499 * cp2) <= e * (500 * cp) BY Times
  <2>4. e * (499 * cp2) = 499 * ce2 /\ e * (500 * cp) = 500 * ce OBVIOUS
  <2> QED BY <2>1, <2>2, <2>3, <2>4
<1>11. 498 * ec <= 499 * ec2
  <2>1. (e * C) * (498 * cp) <= (e * C) * (499 * cp2) BY Times
  <2>2. (e * C) * (498 * cp) = 498 * ec /\ (e * C) * (499 * cp2) = 499 * ec2 OBVIOUS
  <2> QED BY <2>1, <2>2
<1>12. em <= ec2 - es
  <2> HIDE DEF es, ec, ec2, ed, em, ez, bu, ce, ce2, bw, bv, bp, bp2, by
  <2>1. 2000 * bw <= 1990 * ez + 995 * bu BY <1>1, <1>5, <1>6
  <2>2. 2000 * bw <= 1990 * ec - 1990 * ed + 995 * bu BY <1>1, <1>7, <2>1
  <2>3. 499 * by <= 500 * bw BY <1>1, <1>3, <1>4
  <2>4. 998 * es <= 1000 * bw + 500 * ce BY <1>1, <1>2, <1>10, <2>3
  <2>5. 1996 * es <= 1990 * ec - 1990 * ed + 995 * bu + 1000 * ce BY <1>1, <2>2, <2>4
  <2>6. ed <= ec BY <1>1, <1>7
  <2>7. 1996 * es <= 1996 * ec2 - 1988 * ed + 995 * bu + 1000 * ce
    <3>1. 1992 * ec <= 1996 * ec2 BY <1>1, <1>11
    <3> QED BY <1>1, <2>5, <2>6, <3>1
  <2> QED BY <1>1, <1>8, <1>9, <1>10, <2>7
<1>13. e * (M * u) <= e * ((C - S) * cp2)
  <2>1. e * (M * u) = em /\ e * ((C - S) * cp2) = ec2 - es OBVIOUS
  <2> QED BY <1>12, <2>1
<1> QED BY <1>13, Cancel

-----------------------------------------------------------------------------
(***************************************************************************)
(* What the Pool does with a planned size                                  *)
(***************************************************************************)

LEMMA SeizedNearest ==
  ASSUME NEW p \in Position, NEW w \in Nat
  PROVE  LET b == Bonus(p)
             y == (p.dp * w) \div p.cp
             s == Seized(p, w, b)
         IN /\ y \in Nat /\ p.cp * y <= p.dp * w /\ p.dp * w <= p.cp * y + p.cp
            /\ s \in Nat /\ 2 * (PCT * s) <= 2 * (y * b) + PCT /\ 2 * (y * b) <= 2 * (PCT * s) + PCT
<1> DEFINE b == Bonus(p)
           y == (p.dp * w) \div p.cp
<1>1. p.dp \in Nat \ {0} /\ p.cp \in Nat \ {0} /\ b \in Nat /\ PCT \in Nat \ {0}
  BY PositionType, BonusType, SizingAssumption
<1> HIDE DEF b
<1>2. p.dp * w \in Nat BY <1>1
<1>3. y \in Nat /\ p.cp * y <= p.dp * w /\ p.dp * w <= p.cp * y + p.cp
  BY <1>1, <1>2, DivWhole
<1>4. Seized(p, w, b) = (y * b + PCT \div 2) \div PCT BY DEF Seized, PercentMul
<1> HIDE DEF y
<1>5. y * b \in Nat BY <1>1, <1>3
<1>6. LET s == (y * b + PCT \div 2) \div PCT
      IN s \in Nat /\ 2 * (PCT * s) <= 2 * (y * b) + PCT /\ 2 * (y * b) <= 2 * (PCT * s) + PCT
  BY <1>1, <1>5, Nearest
<1> QED BY <1>3, <1>4, <1>6 DEF b, y

LEMMA AllNearest ==
  ASSUME NEW p \in Position
  PROVE  LET b == Bonus(p)
             x == (p.cp * p.coll) \div p.dp
             a == DebtForAll(p, b)
         IN /\ x \in Nat /\ p.dp * x <= p.cp * p.coll /\ p.cp * p.coll <= p.dp * x + p.dp
            /\ a \in Nat /\ 2 * (b * a) <= 2 * (x * PCT) + b /\ 2 * (x * PCT) <= 2 * (b * a) + b
<1> DEFINE b == Bonus(p)
           x == (p.cp * p.coll) \div p.dp
<1>1. /\ p.dp \in Nat \ {0} /\ p.cp \in Nat \ {0} /\ p.coll \in Nat
      /\ b \in Nat \ {0} /\ PCT \in Nat \ {0}
  BY PositionType, BonusType, SizingAssumption
<1> HIDE DEF b
<1>2. p.cp * p.coll \in Nat BY <1>1
<1>3. x \in Nat /\ p.dp * x <= p.cp * p.coll /\ p.cp * p.coll <= p.dp * x + p.dp
  BY <1>1, <1>2, DivWhole
<1>4. DebtForAll(p, b) = (x * PCT + b \div 2) \div b BY DEF DebtForAll, PercentDiv
<1> HIDE DEF x
<1>5. x * PCT \in Nat BY <1>1, <1>3
<1>6. LET s == (x * PCT + b \div 2) \div b
      IN s \in Nat /\ 2 * (b * s) <= 2 * (x * PCT) + b /\ 2 * (x * PCT) <= 2 * (b * s) + b
  BY <1>1, <1>5, Nearest
<1> QED BY <1>3, <1>4, <1>6 DEF b, x

\* The close factor never allows more than the debt.
LEMMA MaxWithinDebt ==
  ASSUME NEW p \in Position PROVE MaxLiquidatable(p) \in 0..p.debt
<1>1. p.debt \in Nat /\ p.dp \in Nat \ {0} /\ UNIT \in Nat \ {0} /\ MaxLiquidatable(p) \in Nat
  BY PositionType, SizingAssumption, LimitsType
<1>2. CASE ~Halved(p) BY <1>1, <1>2 DEF MaxLiquidatable
<1>3. CASE Halved(p)
  <2> DEFINE h == HalfOfAll(p)
             w == (h * UNIT) \div p.dp
             v == (p.debt * p.dp) \div UNIT
  <2>1. MaxLiquidatable(p) = w BY <1>3 DEF MaxLiquidatable, Wei
  <2>2. h < v BY <1>3 DEF Halved, Val
  <2>3. h \in Nat
    <3>1. Val(p.debt, p.dp) + p.other \in Nat BY PositionType, ValType
    <3>2. PCT \div 2 \in Nat BY SizingAssumption
    <3> QED BY <3>1, <3>2, PercentType DEF HalfOfAll
  <2>4. UNIT * v <= p.debt * p.dp /\ v \in Nat
    <3>1. p.debt * p.dp \in Nat BY <1>1
    <3> QED BY <1>1, <3>1, DivRange, DivNat
  <2> HIDE DEF h, v
  <2>5. w \in Nat /\ p.dp * w <= h * UNIT
    <3>1. h * UNIT \in Nat BY <1>1, <2>3
    <3> QED BY <1>1, <3>1, DivRange, DivNat
  <2> HIDE DEF w
  <2>6. UNIT * h <= UNIT * v BY <1>1, <2>2, <2>3, <2>4, Times
  <2>7. p.dp * w <= p.dp * p.debt
    <3>1. UNIT * h = h * UNIT /\ p.debt * p.dp = p.dp * p.debt BY <1>1, <2>3
    <3> QED BY <1>1, <2>3, <2>4, <2>5, <2>6, <3>1
  <2>8. w <= p.debt BY <1>1, <2>5, <2>7, Cancel
  <2> QED BY <1>1, <2>1, <2>5, <2>8
<1> QED BY <1>2, <1>3

\* What the Pool does, with the bonus that was planned with.
LEMMA PoolDoes ==
  ASSUME NEW p \in Position, p.emode => p.known, NEW cover \in Nat,
         NEW q, q = Least({cover, MaxLiquidatable(p)})
  PROVE  LET b == Bonus(p)
             s == Seized(p, q, b)
             done == Pool(p, cover)
         IN /\ s > p.coll => /\ done.pulled = DebtForAll(p, b) /\ done.received = AfterFee(p.coll, b)
                             /\ done.reverts =>
                                  DebtForAll(p, b) < p.debt /\ p.coll < p.coll
            /\ ~(s > p.coll) => /\ done.pulled = q /\ done.received = AfterFee(s, b)
                                /\ done.reverts =>
                                     /\ q < p.debt /\ s < p.coll
                                     /\ \/ Val(p.debt - q, p.dp) < MIN_LEFTOVER
                                        \/ Val(p.coll - s, p.cp) < MIN_LEFTOVER
<1>1. (IF p.emode THEN EBONUS ELSE BONUS) = Bonus(p) BY DEF Bonus
<1> DEFINE b == Bonus(p)
<1> HIDE DEF b
<1>2. Pool(p, cover) =
        LET clamped == Seized(p, q, b) > p.coll
            pulled == IF clamped THEN DebtForAll(p, b) ELSE q
            gross == IF clamped THEN p.coll ELSE Seized(p, q, b)
        IN [pulled |-> pulled, received |-> AfterFee(gross, b),
            reverts |-> /\ pulled < p.debt /\ gross < p.coll
                        /\ \/ Val(p.debt - pulled, p.dp) < MIN_LEFTOVER
                           \/ Val(p.coll - gross, p.cp) < MIN_LEFTOVER]
  BY <1>1 DEF Pool, b
<1>3. CASE Seized(p, q, b) > p.coll BY <1>2, <1>3 DEF b
<1>4. CASE ~(Seized(p, q, b) > p.coll) BY <1>2, <1>4 DEF b
<1> QED BY <1>3, <1>4 DEF b

\* The Pool does what was planned.
AsPlanned(p, s) ==
  LET done == Pool(p, s.cover)
  IN ~done.reverts /\ done.pulled = s.pulled /\ done.received = s.received

\* All of the debt.
LEMMA WholeAsPlanned ==
  ASSUME NEW p \in Position, p.emode => p.known, p.debt <= MaxLiquidatable(p),
         DebtForAll(p, Bonus(p)) >= p.debt,
         NEW s, s.cover = Buffered(p.debt), s.pulled = p.debt,
         s.received = AfterFee(Least({Seized(p, p.debt, Bonus(p)), p.coll}), Bonus(p))
  PROVE  AsPlanned(p, s)
<1> DEFINE b == Bonus(p)
           got == Seized(p, p.debt, b)
           all == DebtForAll(p, b)
           y == (p.dp * p.debt) \div p.cp
           x == (p.cp * p.coll) \div p.dp
<1>1. /\ p.debt \in Nat /\ p.coll \in Nat /\ p.dp \in Nat \ {0} /\ p.cp \in Nat \ {0}
      /\ b \in Nat \ {0} /\ PCT \in Nat \ {0}
  BY PositionType, BonusType, SizingAssumption
<1>2. /\ y \in Nat /\ p.cp * y <= p.dp * p.debt
      /\ got \in Nat /\ 2 * (PCT * got) <= 2 * (y * b) + PCT
  BY <1>1, SeizedNearest
<1>3. x \in Nat /\ p.dp * x <= p.cp * p.coll /\ all \in Nat /\ 2 * (b * all) <= 2 * (x * PCT) + b
  BY AllNearest
<1>4. p.debt = Least({s.cover, MaxLiquidatable(p)}) /\ s.cover \in Nat
  <2>1. s.cover \in Nat /\ p.debt <= s.cover BY <1>1, BufferedType
  <2>2. MaxLiquidatable(p) = p.debt
    <3>1. MaxLiquidatable(p) \in 0..p.debt BY MaxWithinDebt
    <3> QED BY <1>1, <3>1
  <2> QED BY <1>1, <2>1, <2>2, LeastOfTwo
<1> HIDE DEF b, got, all, y, x
<1>5. ASSUME got > p.coll PROVE all = p.debt
  <2> SUFFICES ASSUME p.debt < all PROVE FALSE BY <1>1, <1>3 DEF all, b
  <2>1. got <= p.coll BY <1>1, <1>2, <1>3, WholeFits
  <2> QED BY <1>1, <1>2, <1>5, <2>1
<1>6. s.received = AfterFee(IF got > p.coll THEN p.coll ELSE got, b)
  <2>1. Least({got, p.coll}) = IF got > p.coll THEN p.coll ELSE got BY <1>1, <1>2, LeastOfTwo
  <2> QED BY <2>1 DEF got, b
<1> DEFINE done == Pool(p, s.cover)
<1>7. /\ got > p.coll => /\ done.pulled = all /\ done.received = AfterFee(p.coll, b)
                         /\ done.reverts => all < p.debt
      /\ ~(got > p.coll) => /\ done.pulled = p.debt /\ done.received = AfterFee(got, b)
                            /\ done.reverts => p.debt < p.debt
  BY <1>4, PoolDoes DEF got, all, b
<1>8. ~(p.debt < p.debt) BY <1>1
<1> HIDE DEF done
<1> QED BY <1>5, <1>6, <1>7, <1>8 DEF AsPlanned, done

\* All of the collateral, with room for two wei of both tokens.
LEMMA AllAsPlanned ==
  ASSUME NEW p \in Position, p.emode => p.known,
         NEW s, s.cover = Buffered(DebtForAll(p, Bonus(p))), s.pulled = DebtForAll(p, Bonus(p)),
         s.received = AfterFee(p.coll, Bonus(p)),
         (Least({s.cover, MaxLiquidatable(p)}) - s.pulled) * p.dp >= 2 * (p.dp + p.cp)
  PROVE  AsPlanned(p, s)
<1> DEFINE b == Bonus(p)
           all == DebtForAll(p, b)
           x == (p.cp * p.coll) \div p.dp
           q == Least({s.cover, MaxLiquidatable(p)})
<1>1. /\ p.coll \in Nat /\ p.dp \in Nat \ {0} /\ p.cp \in Nat \ {0}
      /\ b \in Nat \ {0} /\ PCT \in Nat \ {0} /\ PCT < b
  BY PositionType, BonusType, SizingAssumption
<1>2. /\ x \in Nat /\ p.cp * p.coll <= p.dp * x + p.dp
      /\ all \in Nat /\ 2 * (x * PCT) <= 2 * (b * all) + b
  BY AllNearest
<1>3. s.cover \in Nat /\ q \in Nat
  <2>1. s.cover \in Nat BY <1>2, BufferedType
  <2> QED BY <2>1, LimitsType, LeastOfTwo
<1>4. (q - all) * p.dp >= 2 * (p.dp + p.cp) OBVIOUS
<1> HIDE DEF b, all, x, q
<1>5. p.dp * all + 2 * p.dp + 2 * p.cp <= p.dp * q BY <1>1, <1>2, <1>3, <1>4
<1> DEFINE got == Seized(p, q, b)
           y == (p.dp * q) \div p.cp
<1>6. /\ y \in Nat /\ p.dp * q <= p.cp * y + p.cp
      /\ got \in Nat /\ 2 * (y * b) <= 2 * (PCT * got) + PCT
  BY <1>3, SeizedNearest DEF b
<1> HIDE DEF got, y
<1>7. p.coll < got BY <1>1, <1>2, <1>3, <1>5, <1>6, AllClamped
<1>8. got > p.coll BY <1>1, <1>6, <1>7
<1> DEFINE done == Pool(p, s.cover)
<1>9. got > p.coll => /\ done.pulled = all /\ done.received = AfterFee(p.coll, b)
                      /\ done.reverts => p.coll < p.coll
  BY <1>3, PoolDoes DEF got, all, b, q
<1>10. ~(p.coll < p.coll) BY <1>1
<1> HIDE DEF done
<1> QED BY <1>8, <1>9, <1>10 DEF AsPlanned, done, all, b

LEMMA FloorAmple == DustFloor \in Nat /\ 104 * MIN_LEFTOVER <= 100 * DustFloor
<1>1. MIN_LEFTOVER \in Nat /\ MIN_LEFTOVER >= 100 BY SizingAssumption, LeftoverAssumption
<1> QED BY <1>1 DEF DustFloor

\* The three bounds of a partial size, and what is pulled within them.
LEMMA PartialBounds ==
  ASSUME NEW p \in Position, NEW m \in Nat, PartialPull(p, m) # 0,
         NEW v, v = PartialVal(p, m), NEW w, w = (v * 995) \div 1000
  PROVE  /\ v \in Nat /\ w \in Nat /\ 1000 * w <= 995 * v
         /\ v <= Val(m, p.dp) /\ v <= Val(p.debt, p.dp) - DustFloor
         /\ Val(p.coll, p.cp) - DustFloor \in Nat
         /\ v <= PercentDiv(Val(p.coll, p.cp) - DustFloor, Bonus(p))
         /\ PartialPull(p, m) \in Nat /\ PartialPull(p, m) <= m
         /\ p.dp * PartialPull(p, m) <= w * UNIT
<1>1. /\ p.debt \in Nat /\ p.coll \in Nat /\ p.dp \in Nat \ {0} /\ p.cp \in Nat \ {0}
      /\ Bonus(p) \in Nat \ {0} /\ UNIT \in Nat \ {0}
  BY PositionType, BonusType, SizingAssumption
<1>2. v \in Int /\ v > 0
  <2>1. v \in Int BY PartialValType
  <2>2. ~(v <= 0) BY DEF PartialPull
  <2> QED BY <2>1, <2>2
<1>3. w \in Nat /\ 1000 * w <= 995 * v BY <1>2
<1> DEFINE a == Val(m, p.dp)
           y == Val(p.debt, p.dp) - DustFloor
           c == Val(p.coll, p.cp) - DustFloor
           z == PercentDiv(Most({c, 0}), Bonus(p))
<1>4. a \in Int /\ y \in Int /\ c \in Int
  <2>1. /\ Val(m, p.dp) \in Nat /\ Val(p.debt, p.dp) \in Nat /\ Val(p.coll, p.cp) \in Nat
        /\ DustFloor \in Nat
    BY <1>1, ValType, FloorAmple
  <2> QED BY <2>1
<1>5. z \in Nat /\ z \in Int
  <2> HIDE DEF c
  <2>1. Most({c, 0}) \in Nat BY <1>4, MostOfTwo
  <2>2. z \in Nat BY <1>1, <2>1, PercentType
  <2> HIDE DEF z
  <2> QED BY <2>2
<1>6. v = Least({a, y, z}) BY DEF PartialVal
<1>7. c \in Nat /\ z = PercentDiv(c, Bonus(p))
  <2> SUFFICES ASSUME c < 0 PROVE FALSE
    <3>1. c >= 0 => Most({c, 0}) = c
      <4> HIDE DEF c
      <4> QED BY <1>4, MostOfTwo
    <3> QED BY <1>4, <3>1
  <2>1. Most({c, 0}) = 0
    <3> HIDE DEF c
    <3> QED BY <1>4, MostOfTwo
  <2>2. z = (0 * PCT + Bonus(p) \div 2) \div Bonus(p) BY <2>1 DEF PercentDiv
  <2>3. z = 0
    <3> DEFINE b == Bonus(p)
    <3> HIDE DEF b
    <3>1. b \in Nat \ {0} /\ b > 1 /\ PCT \in Nat BY BonusType, SizingAssumption DEF b
    <3>2. z = (b \div 2) \div b
      <4>1. 0 * PCT + b \div 2 = b \div 2 BY <3>1
      <4> HIDE DEF z
      <4> QED BY <2>2, <4>1 DEF b
    <3>3. (b \div 2) \div b = 0 BY <3>1
    <3> HIDE DEF z
    <3> QED BY <3>2, <3>3
  <2> HIDE DEF a, y, z
  <2>4. Least({a, y, z}) <= z BY <1>4, <1>5, LeastOfThree
  <2> QED BY <1>2, <1>6, <2>3, <2>4
<1> HIDE DEF a, y, c, z
<1>8. v <= a /\ v <= y /\ v <= z
  <2>1. Least({a, y, z}) <= a /\ Least({a, y, z}) <= y /\ Least({a, y, z}) <= z
    BY <1>4, <1>5, LeastOfThree
  <2> QED BY <1>6, <2>1
<1> DEFINE n == (w * UNIT) \div p.dp
<1>9. PartialPull(p, m) = Least({n, m})
  <2>1. ~(PartialVal(p, m) <= 0) BY <1>2
  <2>2. PartialPull(p, m) = Least({Wei((PartialVal(p, m) * 995) \div 1000, p.dp), m})
    BY <2>1 DEF PartialPull
  <2>3. n = Wei((PartialVal(p, m) * 995) \div 1000, p.dp) BY DEF Wei
  <2> HIDE DEF n
  <2> QED BY <2>2, <2>3
<1>10. n \in Nat /\ p.dp * n <= w * UNIT
  <2>1. w * UNIT \in Nat BY <1>1, <1>3
  <2> QED BY <1>1, <2>1, DivWhole
<1> HIDE DEF n
<1>11. PartialPull(p, m) \in Nat /\ PartialPull(p, m) <= m /\ PartialPull(p, m) <= n
  BY <1>9, <1>10, LeastOfTwo
<1>12. p.dp * PartialPull(p, m) <= p.dp * n BY <1>1, <1>10, <1>11, Times
<1>13. p.dp * PartialPull(p, m) <= w * UNIT
  <2> DEFINE t == w * UNIT
  <2>1. t \in Int BY <1>1, <1>3
  <2> HIDE DEF t
  <2>2. p.dp * n <= t BY <1>10 DEF t
  <2>3. p.dp * PartialPull(p, m) <= t BY <1>1, <1>10, <1>11, <1>12, <2>1, <2>2
  <2> QED BY <2>3 DEF t
<1> QED BY <1>2, <1>3, <1>7, <1>8, <1>11, <1>13 DEF a, y, c

\* What is left is worth the least leftover at least.
LEMMA LeftEnough ==
  ASSUME NEW left \in Int, NEW price \in Nat \ {0}, MIN_LEFTOVER * UNIT <= left * price
  PROVE  ~(Val(left, price) < MIN_LEFTOVER)
<1> DEFINE x == left * price
           v == x \div UNIT
<1>1. UNIT \in Nat \ {0} /\ MIN_LEFTOVER \in Nat BY SizingAssumption
<1>2. x \in Int OBVIOUS
<1>3. MIN_LEFTOVER * UNIT <= x OBVIOUS
<1> HIDE DEF x
<1>4. v \in Int /\ x < UNIT * v + UNIT BY <1>1, <1>2, DivRange
<1> HIDE DEF v
<1>5. UNIT * MIN_LEFTOVER <= UNIT * v + UNIT - 1 BY <1>1, <1>2, <1>3, <1>4
<1> SUFFICES ASSUME v + 1 <= MIN_LEFTOVER PROVE FALSE BY <1>1, <1>4 DEF Val, v, x
<1>6. UNIT * (v + 1) <= UNIT * MIN_LEFTOVER BY <1>1, <1>4, Times
<1>7. UNIT * (v + 1) = UNIT * v + UNIT BY <1>1, <1>4
<1> DEFINE s == UNIT * v
           t == UNIT * MIN_LEFTOVER
<1>8. s \in Int /\ t \in Int /\ t <= s + UNIT - 1 /\ s + UNIT <= t BY <1>1, <1>4, <1>5, <1>6, <1>7
<1> HIDE DEF s, t
<1> QED BY <1>1, <1>8

\* A position as it may be when the shot lands: a little more debt, or a little
\* other prices.
Near(p, q) ==
  /\ q \in Position
  /\ q.coll = p.coll /\ q.other = p.other /\ q.emode = p.emode /\ q.known = p.known
  /\ p.debt <= q.debt /\ q.debt <= Buffered(p.debt)
  /\ 498 * p.cp <= 499 * q.cp /\ 499 * q.cp <= 500 * p.cp
  /\ 498 * p.dp <= 499 * q.dp /\ 499 * q.dp <= 500 * p.dp
  /\ 498 * (p.dp * q.cp) <= 499 * (q.dp * p.cp)

LEMMA NearItself == ASSUME NEW p \in Position PROVE Near(p, p)
<1>1. /\ p.debt \in Nat /\ p.dp \in Nat /\ p.cp \in Nat BY PositionType
<1>2. p.debt <= Buffered(p.debt) BY <1>1, BufferedType
<1> DEFINE x == p.dp * p.cp
<1>3. x \in Nat BY <1>1
<1>4. 498 * x <= 499 * x
  <2> HIDE DEF x
  <2> QED BY <1>3
<1>5. 498 * p.cp <= 499 * p.cp /\ 499 * p.cp <= 500 * p.cp BY <1>1
<1>6. 498 * p.dp <= 499 * p.dp /\ 499 * p.dp <= 500 * p.dp BY <1>1
<1> HIDE DEF x
<1>7. 498 * (p.dp * p.cp) <= 499 * (p.dp * p.cp) BY <1>4 DEF x
<1> QED BY <1>1, <1>2, <1>5, <1>6, <1>7 DEF Near

LEMMA NearBonus == ASSUME NEW p, NEW q, Near(p, q) PROVE Bonus(q) = Bonus(p)
BY DEF Near, Bonus

\* A part leaves enough of both, and does not take all of the collateral.
LEMMA PartialLeaves ==
  ASSUME NEW p \in Positions, NEW q, Near(p, q), NEW m \in Nat, PartialPull(p, m) # 0
  PROVE  LET P == PartialPull(p, m)
             S == Seized(q, P, Bonus(p))
         IN /\ ~(Val(q.debt - P, q.dp) < MIN_LEFTOVER)
            /\ ~(Val(q.coll - S, q.cp) < MIN_LEFTOVER)
            /\ ~(S > q.coll)
<1> DEFINE b == Bonus(p)
           v == PartialVal(p, m)
           w == (v * 995) \div 1000
           P == PartialPull(p, m)
           d == DustFloor
           val == Val(p.debt, p.dp)
           z == Val(p.coll, p.cp) - DustFloor
           S == Seized(q, P, b)
           y == (q.dp * P) \div q.cp
<1>p. p \in Position BY Placed
<1>1. /\ p.debt \in Nat /\ p.coll \in Nat /\ p.dp \in Nat \ {0} /\ p.cp \in Nat \ {0}
      /\ b \in Nat \ {0} /\ PCT \in Nat \ {0} /\ UNIT \in Nat \ {0} /\ MIN_LEFTOVER \in Nat
  BY <1>p, PositionType, BonusType, SizingAssumption
<1>q. /\ q \in Position /\ q.coll = p.coll /\ p.debt <= q.debt /\ Bonus(q) = b
      /\ 498 * p.cp <= 499 * q.cp /\ 499 * q.cp <= 500 * p.cp
      /\ 498 * p.dp <= 499 * q.dp /\ 499 * q.dp <= 500 * p.dp
  BY NearBonus DEF Near
<1>r. q.debt \in Nat /\ q.dp \in Nat \ {0} /\ q.cp \in Nat \ {0} BY <1>q, PositionType
<1>2. /\ v \in Nat /\ w \in Nat /\ 1000 * w <= 995 * v /\ v <= val - d /\ z \in Nat
      /\ v <= PercentDiv(z, b) /\ P \in Nat /\ P <= m /\ p.dp * P <= w * UNIT
  BY <1>p, PartialBounds
<1>3. d \in Nat /\ 104 * MIN_LEFTOVER <= 100 * d BY FloorAmple
<1>4. val \in Nat /\ UNIT * val <= p.debt * p.dp
  <2>1. p.debt * p.dp \in Nat BY <1>1
  <2> QED BY <1>1, <2>1, DivWhole DEF Val
<1>5. UNIT * z <= p.cp * p.coll - UNIT * d
  <2> DEFINE all == Val(p.coll, p.cp)
  <2>1. all \in Nat /\ UNIT * all <= p.coll * p.cp
    <3>1. p.coll * p.cp \in Nat BY <1>1
    <3> QED BY <1>1, <3>1, DivWhole DEF Val
  <2>2. z = all - d OBVIOUS
  <2> HIDE DEF all, z, d
  <2>3. UNIT * z = UNIT * all - UNIT * d BY <1>1, <1>3, <2>1, <2>2
  <2>4. p.coll * p.cp = p.cp * p.coll BY <1>1
  <2> QED BY <1>1, <1>3, <2>1, <2>3, <2>4
<1>6. 2 * (b * v) <= 2 * (z * PCT) + b
  <2> DEFINE a == PercentDiv(z, b)
  <2>1. a \in Nat /\ 2 * (b * a) <= 2 * (z * PCT) + b
    <3> HIDE DEF z, b
    <3>1. z * PCT \in Nat BY <1>1, <1>2
    <3> QED BY <1>1, <3>1, Nearest DEF PercentDiv
  <2> HIDE DEF a, b, z, v
  <2>2. b * v <= b * a BY <1>1, <1>2, <2>1, Times DEF a
  <2> QED BY <1>1, <1>2, <2>1, <2>2
<1>7. /\ y \in Nat /\ q.cp * y <= q.dp * P
      /\ S \in Nat /\ 2 * (PCT * S) <= 2 * (y * b) + PCT
  <2> HIDE DEF P, b
  <2> QED BY <1>2, <1>q, SeizedNearest DEF S, y
<1>8. 1000 * b <= MIN_LEFTOVER * PCT /\ 1000 * p.cp <= MIN_LEFTOVER * UNIT
  <2>1. b <= BONUS /\ BONUS \in Nat BY SizingAssumption DEF Bonus
  <2>2. 1000 * BONUS <= MIN_LEFTOVER * PCT BY LeftoverAssumption
  <2>3. MIN_LEFTOVER * PCT \in Nat BY <1>1
  <2> HIDE DEF b
  <2> QED BY <1>1, <2>1, <2>2, <2>3, LeftoverAssumption
<1> HIDE DEF b, v, w, P, d, val, z, S, y
<1>9. MIN_LEFTOVER * UNIT <= (q.debt - P) * q.dp
  BY <1>1, <1>q, <1>r, <1>2, <1>3, <1>4, KeepsDebt
<1>10. MIN_LEFTOVER * UNIT <= (q.coll - S) * q.cp
  <2> DEFINE dq == q.dp
             cq == q.cp
  <2>1. /\ dq \in Nat \ {0} /\ cq \in Nat \ {0} /\ 498 * p.cp <= 499 * cq /\ 499 * cq <= 500 * p.cp
        /\ 499 * dq <= 500 * p.dp /\ cq * y <= dq * P
    BY <1>q, <1>r, <1>7
  <2> HIDE DEF dq, cq
  <2>2. MIN_LEFTOVER * UNIT <= (p.coll - S) * cq
    BY <1>1, <1>2, <1>3, <1>5, <1>6, <1>7, <1>8, <2>1, KeepsColl
  <2> QED BY <1>q, <2>2 DEF cq
<1>11. ~(Val(q.debt - P, q.dp) < MIN_LEFTOVER) /\ ~(Val(q.coll - S, q.cp) < MIN_LEFTOVER)
  BY <1>1, <1>q, <1>r, <1>2, <1>7, <1>9, <1>10, LeftEnough
<1>12. ~(S > q.coll)
  <2> SUFFICES ASSUME q.coll - S <= 0 PROVE FALSE BY <1>1, <1>q, <1>7
  <2>1. q.cp * (q.coll - S) <= q.cp * 0 BY <1>1, <1>q, <1>r, <1>7, Times
  <2>2. MIN_LEFTOVER * UNIT > 0
    <3>1. MIN_LEFTOVER > 0 BY <1>1, LeftoverAssumption
    <3> QED BY <1>1, <3>1
  <2>3. (q.coll - S) * q.cp = q.cp * (q.coll - S) /\ q.cp * 0 = 0 BY <1>1, <1>q, <1>r, <1>7
  <2> DEFINE l == MIN_LEFTOVER * UNIT
             r == q.cp * (q.coll - S)
  <2>4. l \in Int /\ r \in Int /\ l <= r /\ r <= 0 /\ l > 0
    BY <1>1, <1>q, <1>r, <1>7, <1>10, <2>1, <2>2, <2>3
  <2> HIDE DEF l, r
  <2> QED BY <2>4
<1> QED BY <1>11, <1>12 DEF b, P, S

\* A part of both.
LEMMA PartialAsPlanned ==
  ASSUME NEW p \in Positions, p.emode => p.known, NEW m \in Nat, m <= MaxLiquidatable(p),
         PartialPull(p, m) # 0
  PROVE  AsPlanned(p, Partial(p, m))
<1> DEFINE b == Bonus(p)
           P == PartialPull(p, m)
           S == Seized(p, P, b)
<1>p. p \in Position BY Placed
<1>1. p.coll \in Nat BY <1>p, PositionType
<1>2. P \in Nat /\ P <= m BY <1>p, PartialPullType
<1>7. S \in Nat
  <2> HIDE DEF P, b
  <2> QED BY <1>2, <1>p, SeizedNearest DEF S, b
<1>11. /\ ~(Val(p.debt - P, p.dp) < MIN_LEFTOVER) /\ ~(Val(p.coll - S, p.cp) < MIN_LEFTOVER)
       /\ ~(S > p.coll)
  BY <1>p, NearItself, PartialLeaves
<1> HIDE DEF b, P, S
<1>13. P = Least({P, MaxLiquidatable(p)})
  <2>1. MaxLiquidatable(p) \in Nat BY <1>p, LimitsType
  <2> QED BY <1>2, <2>1, LeastOfTwo
<1> DEFINE s == Partial(p, m)
           done == Pool(p, P)
<1>14. /\ s.cover = P /\ s.pulled = P
       /\ s.received = AfterFee(Least({S, p.coll}), b)
  BY DEF Partial, P, S, b
<1>15. Least({S, p.coll}) = S BY <1>1, <1>7, <1>11, LeastOfTwo
<1>16. /\ done.pulled = P /\ done.received = AfterFee(S, b)
       /\ done.reverts => \/ Val(p.debt - P, p.dp) < MIN_LEFTOVER
                          \/ Val(p.coll - S, p.cp) < MIN_LEFTOVER
  <2> HIDE DEF done
  <2> QED BY <1>p, <1>2, <1>11, <1>13, PoolDoes DEF done, S, b
<1> HIDE DEF s, done
<1>17. ~done.reverts /\ done.pulled = s.pulled /\ done.received = s.received
  BY <1>11, <1>14, <1>15, <1>16
<1> QED BY <1>14, <1>17 DEF AsPlanned, s, done

LEMMA SizeAsPlanned ==
  ASSUME NEW p \in Positions, p.emode => p.known, NEW m \in 0..MaxLiquidatable(p),
         SizeUpTo(p, m) # NoSize, Roomy(p, SizeUpTo(p, m))
  PROVE  AsPlanned(p, SizeUpTo(p, m))
<1> DEFINE all == DebtForAll(p, Bonus(p))
           s == SizeUpTo(p, m)
<1>p. p \in Position BY Placed
<1>1. /\ all \in Nat /\ p.debt \in Nat /\ m \in Nat /\ m <= MaxLiquidatable(p) /\ m # 0
      /\ MaxLiquidatable(p) \in Nat
  <2>1. MaxLiquidatable(p) \in Nat BY <1>p, LimitsType
  <2>2. m \in Nat /\ m <= MaxLiquidatable(p) BY <2>1
  <2>3. m # 0 BY <2>2, <1>p, SizeWays
  <2> QED BY <2>1, <2>2, <2>3, <1>p, LimitsType, PositionType
<1>2. CASE m >= p.debt /\ all >= p.debt
  <2>1. s = [cover |-> Buffered(p.debt), pulled |-> p.debt, full |-> FALSE,
             received |-> AfterFee(Least({Seized(p, p.debt, Bonus(p)), p.coll}), Bonus(p))]
    BY <1>1, <1>2, <1>p, SizeWays
  <2>2. p.debt <= MaxLiquidatable(p) BY <1>1, <1>2
  <2>3. /\ s.cover = Buffered(p.debt) /\ s.pulled = p.debt
        /\ s.received = AfterFee(Least({Seized(p, p.debt, Bonus(p)), p.coll}), Bonus(p))
    BY <2>1
  <2> HIDE DEF s
  <2>4. AsPlanned(p, s) BY <1>2, <2>2, <2>3, <1>p, WholeAsPlanned
  <2> QED BY <2>4 DEF s
<1>3. CASE all < p.debt /\ all <= m
  <2>1. s = [cover |-> Buffered(all), pulled |-> all, full |-> TRUE,
             received |-> AfterFee(p.coll, Bonus(p))]
    <3>1. m > 0 /\ m \in Nat BY <1>1
    <3>2. m > 0 /\ all < p.debt /\ all <= m =>
            s = [cover |-> Buffered(all), pulled |-> all, full |-> TRUE,
                 received |-> AfterFee(p.coll, Bonus(p))]
      BY <3>1, <1>p, SizeWays, Zenon
    <3> HIDE DEF all, s
    <3> QED BY <3>1, <3>2, <1>3
  <2>2. /\ s.cover = Buffered(all) /\ s.pulled = all /\ s.full
        /\ s.received = AfterFee(p.coll, Bonus(p))
    <3> HIDE DEF s, all
    <3>1. s.cover = Buffered(all) BY <2>1
    <3>2. s.pulled = all BY <2>1
    <3>3. s.full = TRUE BY ONLY <2>1, Zenon
    <3>4. s.received = AfterFee(p.coll, Bonus(p)) BY <2>1
    <3> QED BY <3>1, <3>2, <3>3, <3>4
  <2>3. (Least({s.cover, MaxLiquidatable(p)}) - s.pulled) * p.dp >= 2 * (p.dp + p.cp)
    BY <2>2 DEF Roomy
  <2> HIDE DEF s
  <2>4. AsPlanned(p, s) BY <2>2, <2>3, <1>p, AllAsPlanned
  <2> QED BY <2>4 DEF s
<1>4. CASE ~(m >= p.debt /\ all >= p.debt) /\ ~(all < p.debt /\ all <= m)
  <2>1. s = Partial(p, m)
    <3>1. m > 0 /\ m \in Nat BY <1>1
    <3>2. m > 0 /\ ~(m >= p.debt /\ all >= p.debt) /\ ~(all < p.debt /\ all <= m) =>
            SizeUpTo(p, m) = Partial(p, m)
      BY <3>1, <1>p, SizeWays
    <3> HIDE DEF all
    <3> QED BY <3>1, <3>2, <1>4
  <2>2. PartialPull(p, m) # 0 BY <2>1 DEF Partial
  <2>3. AsPlanned(p, Partial(p, m)) BY <1>1, <2>2, PartialAsPlanned
  <2> QED BY <2>1, <2>3
<1> QED BY <1>2, <1>3, <1>4

\* The size in hand was cut with a bound within the close factor.
Cut == size # NoSize => \E m \in 0..MaxLiquidatable(pos) : size = SizeUpTo(pos, m)

LEMMA CutInit == Init => Cut
BY DEF Init, Cut

LEMMA CutStep == Ladder /\ Cut /\ [Next]_vars => Cut'
<1> SUFFICES ASSUME Ladder, Cut, [Next]_vars PROVE Cut' OBVIOUS
<1>1. CASE Try
  <2>1. pos \in Positions /\ frac \in Nat \X (Nat \ {0}) BY DEF Ladder
  <2>2. /\ MaxLiquidatable(pos) \in Nat /\ ShareOf(pos, frac[1], frac[2]) \in Nat
        /\ ShareOf(pos, frac[1], frac[2]) <= MaxLiquidatable(pos)
    BY <2>1, ShareType, Placed, FullType
  <2>3. PICK m \in 0..MaxLiquidatable(pos) : Sized = Worth(SizeUpTo(pos, m))
    <3>1. CASE rung = 0
      <4>1. Sized = Worth(SizeUpTo(pos, MaxLiquidatable(pos))) BY <3>1 DEF Sized, FullSize
      <4> QED BY <2>2, <4>1
    <3>2. CASE rung # 0
      <4>1. Sized = Worth(SizeUpTo(pos, ShareOf(pos, frac[1], frac[2]))) BY <3>2 DEF Sized, Chunk
      <4> QED BY <2>2, <4>1
    <3> QED BY <3>1, <3>2
  <2>4. pos' = pos /\ size' = Sized /\ Sized # NoSize BY <1>1 DEF Try
  <2>5. Sized = SizeUpTo(pos, m) BY <2>3, <2>4 DEF Worth
  <2> QED BY <2>3, <2>4, <2>5 DEF Cut
<1>2. CASE Skip BY <1>2 DEF Skip, Cut
<1>3. CASE ~Skip /\ ~Try
  <2>1. UNCHANGED <<pos, rung, frac, size>> BY <1>3, OtherSteps
  <2> QED BY <2>1 DEF Cut
<1> QED BY <1>1, <1>2, <1>3

LEMMA SizedFollows == Ladder /\ Cut => SizedAsPool
<1> SUFFICES ASSUME Ladder, Cut, Roomy(pos, size), size # NoSize, pos.emode => pos.known
             PROVE  AsPlanned(pos, size)
  BY DEF SizedAsPool, AsPlanned
<1>1. PICK m \in 0..MaxLiquidatable(pos) : size = SizeUpTo(pos, m) BY DEF Cut
<1> QED BY <1>1, SizeAsPlanned DEF Ladder

\* size_liquidation foresees the Pool to the wei, whatever prices, balances,
\* bonuses, close factor and share: what is pulled, what arrives and that the
\* rule against leftovers lets it pass; a full seizure needs two wei of room.
THEOREM SizedAsPoolHolds == Spec => []SizedAsPool
BY LadderInit, LadderStep, CutInit, CutStep, SizedFollows, PTL DEF Spec

\* So what passed the gate of _evaluate_one passes the contract's, whichever
\* venue, chunk and path it was, with the same room for a full seizure.
THEOREM ProfitRealHolds == Spec => []ProfitReal
BY LadderInit, LadderStep, CutInit, CutStep, SizedFollows, PricedInit, PricedStep,
   RealFollows, PTL DEF Spec

-----------------------------------------------------------------------------
(***************************************************************************)
(* What a tick of an oracle, or some interest, changes of it               *)
(***************************************************************************)

\* What the Pool seizes at near prices for w of debt or more, against what w was
\* worth; both sides times the two prices of the collateral and e.
LEMMA SeizesNear ==
  ASSUME NEW dp \in Nat \ {0}, NEW cp \in Nat \ {0}, NEW dp2 \in Nat \ {0}, NEW cp2 \in Nat \ {0},
         NEW b \in Nat \ {0}, NEW e \in Nat \ {0}, b <= 2 * e,
         NEW w \in Nat, NEW w2 \in Nat, w <= w2,
         NEW Y2 \in Nat, NEW S2 \in Nat, 498 * (dp * cp2) <= 499 * (dp2 * cp),
         dp2 * w2 <= cp2 * Y2 + cp2, 2 * (Y2 * b) <= 2 * (e * S2) + e
  PROVE  996 * ((w * b) * (dp * cp2)) <= 998 * (cp * cp2 * e * S2) + 2495 * (cp * cp2 * e)
<1> DEFINE c == cp * cp2
           k == c * e
           ks2 == k * S2
           z == (w * b) * (dp * cp2)
           z2 == (w * b) * (dp2 * cp)
           y == c * (Y2 * b)
           bc == b * c
<1>1. /\ k \in Nat /\ ks2 \in Nat /\ z \in Nat /\ z2 \in Nat /\ y \in Nat /\ bc \in Nat
  OBVIOUS
<1>2. 498 * z <= 499 * z2
  <2>1. (w * b) * (498 * (dp * cp2)) <= (w * b) * (499 * (dp2 * cp)) BY Times
  <2>2. (w * b) * (498 * (dp * cp2)) = 498 * z /\ (w * b) * (499 * (dp2 * cp)) = 499 * z2 OBVIOUS
  <2> QED BY <2>1, <2>2
<1>3. z2 <= y + bc
  <2>1. (b * dp2 * cp) * w <= (b * dp2 * cp) * w2 BY Times
  <2>2. (b * cp) * (dp2 * w2) <= (b * cp) * (cp2 * Y2 + cp2) BY Times
  <2>3. /\ (b * dp2 * cp) * w = z2 /\ (b * dp2 * cp) * w2 = (b * cp) * (dp2 * w2)
        /\ (b * cp) * (cp2 * Y2 + cp2) = y + bc
    OBVIOUS
  <2> DEFINE x == (b * cp) * (dp2 * w2)
  <2>4. x \in Nat /\ z2 <= x /\ x <= y + bc BY <2>1, <2>2, <2>3
  <2> HIDE DEF x, z2, y, bc
  <2> QED BY <1>1, <2>4
<1>4. bc <= 2 * k
  <2>1. c * b <= c * (2 * e) BY Times
  <2>2. c * b = bc /\ c * (2 * e) = 2 * k OBVIOUS
  <2> QED BY <2>1, <2>2
<1>5. 2 * y <= 2 * ks2 + k
  <2>1. c * (2 * (Y2 * b)) <= c * (2 * (e * S2) + e) BY Times
  <2>2. c * (2 * (Y2 * b)) = 2 * y /\ c * (2 * (e * S2) + e) = 2 * ks2 + k OBVIOUS
  <2> QED BY <2>1, <2>2
<1>6. 996 * z <= 998 * ks2 + 2495 * k
  <2> HIDE DEF k, ks2, z, z2, y, bc
  <2> QED BY <1>1, <1>2, <1>3, <1>4, <1>5
<1> QED BY <1>6

\* All but two in a thousand, and three wei, of what it seized for w.
LEMMA SeizedMoved ==
  ASSUME NEW dp \in Nat \ {0}, NEW cp \in Nat \ {0}, NEW cp2 \in Nat \ {0},
         NEW b \in Nat \ {0}, NEW e \in Nat \ {0},
         NEW w \in Nat, NEW Y \in Nat, NEW S \in Nat, NEW S2 \in Nat,
         cp * Y <= dp * w, 2 * (e * S) <= 2 * (Y * b) + e,
         996 * ((w * b) * (dp * cp2)) <= 998 * (cp * cp2 * e * S2) + 2495 * (cp * cp2 * e)
  PROVE  9979 * S <= 10000 * S2 + 31000
<1> DEFINE c == cp * cp2
           k == c * e
           ks == k * S
           ks2 == k * S2
           z == (w * b) * (dp * cp2)
<1>1. k \in Nat /\ k > 0 /\ ks \in Nat /\ ks2 \in Nat /\ z \in Nat OBVIOUS
<1>2. 2 * ks <= 2 * z + k
  <2>1. c * (2 * (e * S)) <= c * (2 * (Y * b) + e) BY Times
  <2>2. (b * cp2) * (cp * Y) <= (b * cp2) * (dp * w) BY Times
  <2>3. /\ c * (2 * (e * S)) = 2 * ks /\ c * (2 * (Y * b) + e) = 2 * (c * (Y * b)) + k
        /\ (b * cp2) * (cp * Y) = c * (Y * b) /\ (b * cp2) * (dp * w) = z
    OBVIOUS
  <2> DEFINE x == c * (Y * b)
  <2>4. x \in Nat /\ 2 * ks <= 2 * x + k /\ x <= z BY <2>1, <2>2, <2>3
  <2> HIDE DEF x, ks, z, k
  <2> QED BY <1>1, <2>4
<1>3. 996 * z <= 998 * ks2 + 2495 * k OBVIOUS
<1>4. 9979 * ks <= 10000 * ks2 + 31000 * k
  <2> HIDE DEF k, ks, ks2, z
  <2> QED BY <1>1, <1>2, <1>3
<1>5. k * (9979 * S) <= k * (10000 * S2 + 31000)
  <2> HIDE DEF c
  <2>1. k * (9979 * S) = 9979 * ks /\ k * (10000 * S2 + 31000) = 10000 * ks2 + 31000 * k
    <3> HIDE DEF k
    <3> QED BY <1>1
  <2> QED BY <1>4, <2>1
<1> HIDE DEF k
<1>6. k \in Nat \ {0} BY <1>1
<1>7. 9979 * S \in Int /\ 10000 * S2 + 31000 \in Int OBVIOUS
<1> QED BY <1>5, <1>6, <1>7, Cancel

\* What all of the collateral is worth, in terms of the debt that buys it.
LEMMA AllWorth ==
  ASSUME NEW dp \in Nat \ {0}, NEW cp \in Nat \ {0}, NEW cp2 \in Nat \ {0},
         NEW b \in Nat \ {0}, NEW e \in Nat \ {0}, e < b, b <= 2 * e,
         NEW C \in Nat, NEW X \in Nat, NEW A \in Nat, A >= 10000,
         cp * C <= dp * X + dp, dp * X <= cp * C,
         2 * (X * e) <= 2 * (b * A) + b, 2 * (b * A) <= 2 * (X * e) + b
  PROVE  /\ 2 * (cp * cp2 * e * C) <= 2 * ((A * b) * (dp * cp2)) + b * (dp * cp2) + 2 * (e * (dp * cp2))
         /\ 9999 * (e * (dp * cp2)) <= cp * cp2 * e * C
<1> DEFINE t == dp * cp2
           kc == cp * cp2 * e * C
           z == (A * b) * t
           x == (X * e) * t
           bt == b * t
           et == e * t
           eat == e * (A * t)
<1>1. /\ t \in Nat /\ kc \in Nat /\ z \in Nat /\ x \in Nat /\ bt \in Nat /\ et \in Nat
      /\ eat \in Nat
  OBVIOUS
<1>2. kc <= x + et /\ x <= kc
  <2>1. (cp2 * e) * (cp * C) <= (cp2 * e) * (dp * X + dp) BY Times
  <2>2. (cp2 * e) * (dp * X) <= (cp2 * e) * (cp * C) BY Times
  <2>3. /\ (cp2 * e) * (cp * C) = kc /\ (cp2 * e) * (dp * X + dp) = x + et
        /\ (cp2 * e) * (dp * X) = x
    OBVIOUS
  <2> QED BY <2>1, <2>2, <2>3
<1>3. 2 * x <= 2 * z + bt /\ 2 * z <= 2 * x + bt
  <2>1. t * (2 * (X * e)) <= t * (2 * (b * A) + b) BY <1>1, Times
  <2>2. t * (2 * (b * A)) <= t * (2 * (X * e) + b) BY <1>1, Times
  <2>3. /\ t * (2 * (X * e)) = 2 * x /\ t * (2 * (b * A) + b) = 2 * z + bt
        /\ t * (2 * (b * A)) = 2 * z /\ t * (2 * (X * e) + b) = 2 * x + bt
    <3> HIDE DEF t
    <3> QED BY <1>1
  <2> QED BY <2>1, <2>2, <2>3
<1>4. bt <= 2 * et
  <2>1. t * b <= t * (2 * e) BY <1>1, Times
  <2>2. t * b = bt /\ t * (2 * e) = 2 * et
    <3> HIDE DEF t
    <3> QED BY <1>1
  <2> QED BY <2>1, <2>2
<1>5. 10000 * et <= eat /\ eat <= z
  <2> HIDE DEF t
  <2>1. et * 10000 <= et * A BY <1>1, Times
  <2>2. (A * t) * e <= (A * t) * b BY <1>1, Times
  <2>3. et * 10000 = 10000 * et /\ et * A = eat /\ (A * t) * e = eat /\ (A * t) * b = z BY <1>1
  <2> QED BY <2>1, <2>2, <2>3
<1>6. 2 * kc <= 2 * z + bt + 2 * et /\ 9999 * et <= kc
  <2> HIDE DEF t, kc, z, x, bt, et, eat
  <2> QED BY <1>1, <1>2, <1>3, <1>4, <1>5
<1> QED BY <1>6

\* More than the debt that buys all: all of it but two in a thousand, and three
\* wei.
LEMMA AllMoved ==
  ASSUME NEW t \in Nat, NEW k \in Nat \ {0}, NEW b \in Nat, NEW e \in Nat, e < b,
         NEW C \in Nat, NEW A \in Nat, NEW S2 \in Nat,
         2 * (k * C) <= 2 * ((A * b) * t) + b * t + 2 * (e * t), 9999 * (e * t) <= k * C,
         996 * (((A + 1) * b) * t) <= 998 * (k * S2) + 2495 * k
  PROVE  9979 * C <= 10000 * S2 + 31000
<1> DEFINE kc == k * C
           z == (A * b) * t
           bt == b * t
           et == e * t
           ks2 == k * S2
<1>1. kc \in Nat /\ z \in Nat /\ bt \in Nat /\ et \in Nat /\ ks2 \in Nat OBVIOUS
<1>2. et <= bt
  <2>1. t * e <= t * b BY Times
  <2> QED BY <2>1
<1>3. ((A + 1) * b) * t = z + bt OBVIOUS
<1>4. 2 * kc <= 2 * z + bt + 2 * et /\ 9999 * et <= kc OBVIOUS
<1>5. 996 * (z + bt) <= 998 * ks2 + 2495 * k BY <1>3
<1>6. 9979 * kc <= 10000 * ks2 + 31000 * k
  <2> HIDE DEF kc, z, bt, et, ks2
  <2> QED BY <1>1, <1>2, <1>4, <1>5
<1>7. k * (9979 * C) <= k * (10000 * S2 + 31000)
  <2>1. k * (9979 * C) = 9979 * kc /\ k * (10000 * S2 + 31000) = 10000 * ks2 + 31000 * k OBVIOUS
  <2> QED BY <1>6, <2>1
<1> QED BY <1>7, Cancel

\* Half a hundredth more than that debt: more than all of it.
LEMMA AllTaken ==
  ASSUME NEW t \in Nat, NEW k \in Nat \ {0}, NEW b \in Nat, NEW e \in Nat, b <= 2 * e,
         NEW C \in Nat, C >= 10000, NEW A \in Nat, NEW cover \in Nat,
         100495 * A <= 100000 * cover + 200000, NEW S2 \in Nat,
         2 * (k * C) <= 2 * ((A * b) * t) + b * t + 2 * (e * t), 9999 * (e * t) <= k * C,
         996 * ((cover * b) * t) <= 998 * (k * S2) + 2495 * k
  PROVE  C < S2
<1> SUFFICES ASSUME S2 <= C PROVE FALSE OBVIOUS
<1> DEFINE kc == k * C
           bt == b * t
           z == A * bt
           zc == cover * bt
           et == e * t
           ks2 == k * S2
<1>1. /\ kc \in Nat /\ z \in Nat /\ zc \in Nat /\ bt \in Nat /\ et \in Nat /\ ks2 \in Nat
  OBVIOUS
<1>2. bt <= 2 * et
  <2>1. t * b <= t * (2 * e) BY Times
  <2>2. t * (2 * e) = 2 * et OBVIOUS
  <2> QED BY <2>1, <2>2
<1>3. ks2 <= kc BY Times
<1>4. 10000 * k <= kc
  <2>1. k * 10000 <= k * C BY Times
  <2> QED BY <2>1
<1>5. 100495 * z <= 100000 * zc + 200000 * bt
  <2> HIDE DEF bt
  <2>1. bt * (100495 * A) <= bt * (100000 * cover + 200000) BY <1>1, Times
  <2>2. /\ bt * (100495 * A) = 100495 * z
        /\ bt * (100000 * cover + 200000) = 100000 * zc + 200000 * bt
    BY <1>1
  <2> QED BY <2>1, <2>2
<1>6. (A * b) * t = z /\ (cover * b) * t = zc OBVIOUS
<1>7. 2 * kc <= 2 * z + bt + 2 * et BY <1>6
<1>8. 9999 * et <= kc OBVIOUS
<1>9. 996 * zc <= 998 * ks2 + 2495 * k BY <1>6
<1> HIDE DEF kc, z, zc, bt, et, ks2
<1>10. 99600000 * zc <= 99800000 * kc + 249500000 * k BY <1>1, <1>3, <1>9
<1>11. 99600000 * zc >= 100093020 * z - 398400000 * et BY <1>1, <1>2, <1>5
<1>12. z >= kc - 2 * et BY <1>1, <1>2, <1>7
<1>13. 293020 * kc <= 598586040 * et + 249500000 * k BY <1>1, <1>10, <1>11, <1>12
<1>14. kc > 0 BY <1>1, <1>4
<1> QED BY <1>1, <1>4, <1>8, <1>13, <1>14

\* The fee and the haircut: what is sold is there if all but two in a thousand
\* and three wei of what was counted on is.
LEMMA FeeNear ==
  ASSUME NEW g \in Nat, NEW b \in Nat \ {0}, PCT < b
  PROVE  LET r == AfterFee(g, b)
             l == PCT * b - FEE * (b - PCT)
         IN /\ r \in Nat
            /\ PCT * b * r <= l * g + PCT * b
            /\ l * g <= PCT * b * r + PCT * b
<1> DEFINE e == PCT
           d == PercentDiv(g, b)
           f == PercentMul(g - d, FEE)
           r == AfterFee(g, b)
           l == e * b - FEE * (b - e)
<1>1. e \in Nat \ {0} /\ FEE \in Nat /\ FEE <= e BY SizingAssumption
<1>2. d \in Nat /\ d <= g BY WithoutBonus
<1>3. 2 * (b * d) <= 2 * (g * e) + b /\ 2 * (g * e) <= 2 * (b * d) + b
  <2>1. g * e \in Nat BY <1>1
  <2> QED BY <1>1, <2>1, Nearest DEF PercentDiv
<1> HIDE DEF d
<1>4. f \in Nat /\ 2 * (e * f) <= 2 * ((g - d) * FEE) + e /\ 2 * ((g - d) * FEE) <= 2 * (e * f) + e
  <2> DEFINE h == (g - d) * FEE
  <2>1. h \in Nat BY <1>1, <1>2
  <2>2. f = (h + e \div 2) \div e BY DEF PercentMul
  <2> HIDE DEF h, f
  <2>3. f \in Nat /\ 2 * (e * f) <= 2 * h + e /\ 2 * h <= 2 * (e * f) + e
    BY <1>1, <2>1, <2>2, Nearest
  <2> QED BY <2>3 DEF h
<1>5. r = g - f BY DEF AfterFee, d
<1>6. r \in Nat BY FeeType
<1> HIDE DEF f, r
<1> DEFINE E == e * b
           er == E * r
           eg == E * g
           bef == b * (e * f)
           fbg == FEE * (b * g)
           fbd == FEE * (b * d)
           fge == FEE * (g * e)
           fb == FEE * b
           lg == l * g
<1> HIDE DEF e
<1>7. /\ E \in Nat /\ er \in Int /\ eg \in Nat /\ bef \in Nat /\ fbg \in Nat /\ fbd \in Nat
      /\ fge \in Nat /\ fb \in Nat /\ lg \in Int
  BY <1>1, <1>2, <1>4, <1>6
<1>8. er = eg - bef BY <1>1, <1>4, <1>5
<1>9. lg = eg - fbg + fge BY <1>1
<1>10. 2 * bef <= 2 * (fbg - fbd) + E /\ 2 * (fbg - fbd) <= 2 * bef + E
  <2>1. b * (2 * (e * f)) <= b * (2 * ((g - d) * FEE) + e) BY <1>1, <1>2, <1>4, Times
  <2>2. b * (2 * ((g - d) * FEE)) <= b * (2 * (e * f) + e) BY <1>1, <1>2, <1>4, Times
  <2>3. /\ b * (2 * (e * f)) = 2 * bef /\ b * (2 * ((g - d) * FEE) + e) = 2 * (fbg - fbd) + E
        /\ b * (2 * ((g - d) * FEE)) = 2 * (fbg - fbd) /\ b * (2 * (e * f) + e) = 2 * bef + E
    BY <1>1, <1>2, <1>4
  <2> QED BY <2>1, <2>2, <2>3
<1>11. 2 * fbd <= 2 * fge + fb /\ 2 * fge <= 2 * fbd + fb
  <2>1. FEE * (2 * (b * d)) <= FEE * (2 * (g * e) + b) BY <1>1, <1>2, <1>3, Times
  <2>2. FEE * (2 * (g * e)) <= FEE * (2 * (b * d) + b) BY <1>1, <1>2, <1>3, Times
  <2>3. /\ FEE * (2 * (b * d)) = 2 * fbd /\ FEE * (2 * (g * e) + b) = 2 * fge + fb
        /\ FEE * (2 * (g * e)) = 2 * fge /\ FEE * (2 * (b * d) + b) = 2 * fbd + fb
    BY <1>1, <1>2
  <2> QED BY <2>1, <2>2, <2>3
<1>12. fb <= E
  <2>1. b * FEE <= b * e BY <1>1, Times
  <2> QED BY <1>1, <2>1
<1>13. er <= lg + E /\ lg <= er + E
  <2> HIDE DEF E, er, eg, bef, fbg, fbd, fge, fb, lg
  <2> QED BY <1>7, <1>8, <1>9, <1>10, <1>11, <1>12
<1> QED BY <1>6, <1>13 DEF e, r

\* After fee and haircut, what is sold is there, if all but two in a thousand,
\* and three wei, of the collateral that was counted on is seized.
LEMMA SoldThere ==
  ASSUME NEW g \in Nat, NEW g2 \in Nat, 9979 * g <= 10000 * g2 + 31000,
         NEW b \in Nat \ {0}, PCT < b, AfterFee(g, b) >= 10000
  PROVE  (AfterFee(g, b) * 997) \div 1000 <= AfterFee(g2, b)
<1> DEFINE r == AfterFee(g, b)
           r2 == AfterFee(g2, b)
           l == PCT * b - FEE * (b - PCT)
           E == PCT * b
           lg == l * g
           lg2 == l * g2
           er == E * r
           er2 == E * r2
<1>1. PCT \in Nat \ {0} /\ FEE \in Nat /\ FEE <= PCT BY SizingAssumption
<1>2. r \in Nat /\ er <= lg + E BY FeeNear
<1>3. r2 \in Nat /\ lg2 <= er2 + E BY FeeNear
<1>4. E \in Nat \ {0} /\ l \in Int /\ l <= E /\ 0 <= l
  <2>1. E \in Nat \ {0} /\ FEE * (b - PCT) \in Nat BY <1>1
  <2>2. b * FEE <= b * PCT BY <1>1, Times
  <2>3. FEE * (b - PCT) = b * FEE - FEE * PCT /\ FEE * PCT \in Nat /\ E = b * PCT BY <1>1
  <2> DEFINE x == b * FEE
             y == FEE * PCT
             h == FEE * (b - PCT)
  <2>4. /\ x \in Nat /\ y \in Nat /\ h \in Nat /\ h = x - y /\ x <= E /\ l = E - h
    BY <1>1, <2>1, <2>2, <2>3
  <2> HIDE DEF x, y, h, l, E
  <2> QED BY <2>1, <2>4
<1> HIDE DEF r, r2, l, E
<1>5. lg \in Int /\ lg2 \in Int /\ er \in Int /\ er2 \in Int BY <1>2, <1>3, <1>4
<1>6. 9979 * lg <= 10000 * lg2 + 31000 * E
  <2>1. l * (9979 * g) <= l * (10000 * g2 + 31000) BY <1>4, Times
  <2>2. l * (9979 * g) = 9979 * lg /\ l * (10000 * g2 + 31000) = 10000 * lg2 + 31000 * l BY <1>4
  <2> HIDE DEF lg, lg2
  <2> QED BY <1>4, <1>5, <2>1, <2>2
<1>7. 10000 * E <= er
  <2>1. E * 10000 <= E * r BY <1>2, <1>4, Times DEF r
  <2> QED BY <1>4, <2>1
<1>8. 997 * er <= 1000 * er2
  <2> HIDE DEF lg, lg2, er, er2
  <2>1. 9979 * er <= 10000 * er2 + 50979 * E BY <1>2, <1>3, <1>4, <1>5, <1>6
  <2>2. 9970 * er <= 10000 * er2 BY <1>4, <1>5, <1>7, <2>1
  <2> QED BY <1>5, <2>2
<1>9. 997 * r <= 1000 * r2
  <2>1. E * (997 * r) <= E * (1000 * r2)
    <3>1. E * (997 * r) = 997 * er /\ E * (1000 * r2) = 1000 * er2 BY <1>2, <1>3, <1>4
    <3> QED BY <1>8, <3>1
  <2>2. 997 * r \in Int /\ 1000 * r2 \in Int BY <1>2, <1>3
  <2> QED BY <1>4, <2>1, <2>2, Cancel
<1>10. (r * 997) \div 1000 <= r2
  <2> DEFINE q == (r * 997) \div 1000
  <2>1. q \in Int /\ 1000 * q <= r * 997
    <3>1. r * 997 \in Int BY <1>2
    <3> QED BY <3>1, DivRange
  <2> HIDE DEF q
  <2> QED BY <1>2, <1>3, <1>9, <2>1
<1> QED BY <1>10 DEF r, r2

\* A shot that lands is not reverted by the Pool, and finds what it sells.
Lands(q, s) ==
  ~Pool(q, s.cover).reverts /\ (s.received * 997) \div 1000 <= Pool(q, s.cover).received

LEMMA LandsBy ==
  ASSUME NEW p \in Position, NEW q, Near(p, q), p.emode => p.known,
         NEW s, s.cover \in Nat, NEW g \in Nat, s.received = AfterFee(g, Bonus(p)),
         s.received >= 10000, g <= p.coll, NEW w, w = Least({s.cover, MaxLiquidatable(q)}),
         Seized(q, w, Bonus(p)) \in Nat,
         ~(Seized(q, w, Bonus(p)) > q.coll) =>
           /\ 9979 * g <= 10000 * Seized(q, w, Bonus(p)) + 31000
           /\ \/ w >= q.debt
              \/ /\ ~(Val(q.debt - w, q.dp) < MIN_LEFTOVER)
                 /\ ~(Val(q.coll - Seized(q, w, Bonus(p)), q.cp) < MIN_LEFTOVER)
  PROVE  Lands(q, s)
<1> DEFINE b == Bonus(p)
           S == Seized(q, w, b)
           done == Pool(q, s.cover)
<1>1. /\ q \in Position /\ q.coll = p.coll /\ Bonus(q) = b /\ (q.emode => q.known)
      /\ q.coll \in Nat /\ q.debt \in Nat
  <2>1. q \in Position /\ q.coll = p.coll /\ (q.emode => q.known) BY DEF Near
  <2> QED BY <2>1, NearBonus, PositionType
<1>2. b \in Nat \ {0} /\ PCT < b BY BonusType
<1>3. /\ S > q.coll => /\ done.received = AfterFee(q.coll, b)
                       /\ done.reverts => q.coll < q.coll
      /\ ~(S > q.coll) => /\ done.received = AfterFee(S, b)
                          /\ done.reverts =>
                               /\ w < q.debt
                               /\ \/ Val(q.debt - w, q.dp) < MIN_LEFTOVER
                                  \/ Val(q.coll - S, q.cp) < MIN_LEFTOVER
  <2> HIDE DEF done
  <2>1. \A x : x = Bonus(q) => x = b BY <1>1
  <2> QED BY <1>1, PoolDoes DEF done
<1> HIDE DEF b, done, S
<1>4. MaxLiquidatable(q) \in Nat BY <1>1, LimitsType
<1>5. w \in Nat BY <1>4, LeastOfTwo
<1>6. CASE S > q.coll
  <2>1. 9979 * g <= 10000 * q.coll + 31000 BY <1>1
  <2>2. (AfterFee(g, b) * 997) \div 1000 <= AfterFee(q.coll, b)
    BY <1>1, <1>2, <2>1, SoldThere DEF b
  <2>3. ~done.reverts /\ done.received = AfterFee(q.coll, b) BY <1>1, <1>3, <1>6
  <2> QED BY <2>2, <2>3 DEF Lands, b, done
<1>7. CASE ~(S > q.coll)
  <2>1. S \in Nat /\ 9979 * g <= 10000 * S + 31000 BY <1>7 DEF S, b
  <2>2. (AfterFee(g, b) * 997) \div 1000 <= AfterFee(S, b)
    BY <1>2, <2>1, SoldThere DEF b
  <2>3. /\ done.received = AfterFee(S, b)
        /\ done.reverts => /\ w < q.debt
                           /\ \/ Val(q.debt - w, q.dp) < MIN_LEFTOVER
                              \/ Val(q.coll - S, q.cp) < MIN_LEFTOVER
    BY <1>3, <1>7
  <2>4. w >= q.debt => ~(w < q.debt) BY <1>1, <1>5
  <2>5. ~done.reverts BY <1>7, <2>3, <2>4 DEF S, b
  <2> QED BY <2>2, <2>3, <2>5 DEF Lands, b, done
<1> QED BY <1>6, <1>7

\* Half of all debts, at a near price of one of them.
LEMMA HalfNear ==
  ASSUME NEW e \in Nat \ {0}, NEW h \in Nat, 2 * h <= e, e <= 3 * h,
         NEW V \in Nat, NEW V2 \in Nat, NEW o \in Nat, V >= 20000, 498 * V <= 499 * V2 + 499,
         NEW H \in Nat, NEW H2 \in Nat, e * H <= (V + o + 1) * h, (V + o + 1) * h <= e * H + e,
         (V2 + o + 1) * h <= e * H2 + e
  PROVE  4975 * H <= 4990 * H2
<1> DEFINE x == V + o + 1
           x2 == V2 + o + 1
           xh == x * h
           xh2 == x2 * h
           eh == e * H
           eh2 == e * H2
<1>1. x \in Nat /\ x2 \in Nat /\ xh \in Nat /\ xh2 \in Nat /\ eh \in Nat /\ eh2 \in Nat OBVIOUS
<1>2. 498 * xh <= 499 * xh2 + 498 * h
  <2>1. 498 * x <= 499 * x2 + 498 OBVIOUS
  <2>2. h * (498 * x) <= h * (499 * x2 + 498) BY <2>1, Times
  <2>3. h * (498 * x) = 498 * xh /\ h * (499 * x2 + 498) = 499 * xh2 + 498 * h
    <3> HIDE DEF x, x2
    <3> QED BY <1>1
  <2> QED BY <2>2, <2>3
<1>3. 6667 * e <= eh + e
  <2>1. h * 20001 <= h * x BY Times
  <2>2. h * 20001 = 20001 * h /\ h * x = xh OBVIOUS
  <2>3. xh <= eh + e OBVIOUS
  <2> HIDE DEF xh, eh, x
  <2> QED BY <1>1, <2>1, <2>2, <2>3
<1>4. eh <= xh /\ xh2 <= eh2 + e OBVIOUS
<1>5. 4975 * eh <= 4990 * eh2
  <2> HIDE DEF x, x2, xh, xh2, eh, eh2
  <2> QED BY <1>1, <1>2, <1>3, <1>4
<1>6. e * (4975 * H) <= e * (4990 * H2)
  <2>1. e * (4975 * H) = 4975 * eh /\ e * (4990 * H2) = 4990 * eh2 OBVIOUS
  <2> QED BY <1>5, <2>1
<1>7. 4975 * H \in Int /\ 4990 * H2 \in Int OBVIOUS
<1> QED BY <1>6, <1>7, Cancel

\* Above the threshold less than the debt may be covered.
LEMMA HalvedLess ==
  ASSUME NEW p \in Position, Halved(p) PROVE MaxLiquidatable(p) < p.debt
<1> DEFINE h == HalfOfAll(p)
           w == (h * UNIT) \div p.dp
           v == (p.debt * p.dp) \div UNIT
<1>1. p.debt \in Nat /\ p.dp \in Nat \ {0} /\ UNIT \in Nat \ {0}
  BY PositionType, SizingAssumption
<1>2. MaxLiquidatable(p) = w BY DEF MaxLiquidatable, Wei
<1>3. h < v BY DEF Halved, Val
<1>4. h \in Nat
  <2>1. Val(p.debt, p.dp) + p.other \in Nat BY PositionType, ValType
  <2>2. PCT \div 2 \in Nat BY SizingAssumption
  <2> QED BY <2>1, <2>2, PercentType DEF HalfOfAll
<1>5. UNIT * v <= p.debt * p.dp /\ v \in Nat
  <2>1. p.debt * p.dp \in Nat BY <1>1
  <2> QED BY <1>1, <2>1, DivWhole
<1> HIDE DEF h, v
<1>6. w \in Nat /\ p.dp * w <= h * UNIT
  <2>1. h * UNIT \in Nat BY <1>1, <1>4
  <2> QED BY <1>1, <2>1, DivWhole
<1> HIDE DEF w
<1> SUFFICES ASSUME p.debt <= w PROVE FALSE BY <1>1, <1>2, <1>6
<1>7. UNIT * (h + 1) <= UNIT * v BY <1>1, <1>3, <1>4, <1>5, Times
<1>8. p.dp * p.debt <= p.dp * w BY <1>1, <1>6, Times
<1> DEFINE a == h * UNIT
           uv == UNIT * v
           d == p.debt * p.dp
           dw == p.dp * w
<1>9. /\ a \in Int /\ uv \in Int /\ d \in Int /\ dw \in Int
      /\ a + UNIT <= uv /\ uv <= d /\ d <= dw /\ dw <= a
  BY <1>1, <1>4, <1>5, <1>6, <1>7, <1>8
<1> HIDE DEF a, uv, d, dw
<1> QED BY <1>1, <1>9

\* HalfOfAll, the bounds of its division.
LEMMA HalfBounds ==
  ASSUME NEW p \in Position
  PROVE  LET h == PCT \div 2
             x == Val(p.debt, p.dp) + p.other
             H == HalfOfAll(p)
         IN /\ h \in Nat /\ x \in Nat /\ H \in Nat
            /\ PCT * H <= (x + 1) * h /\ (x + 1) * h <= PCT * H + PCT
<1> DEFINE h == PCT \div 2
           x == Val(p.debt, p.dp) + p.other
           y == x * h + h
<1>1. PCT \in Nat \ {0} /\ h \in Nat BY SizingAssumption
<1>2. x \in Nat BY PositionType, ValType
<1>3. HalfOfAll(p) = y \div PCT BY DEF HalfOfAll, PercentMul
<1> HIDE DEF h, x
<1>4. y \in Nat /\ y = (x + 1) * h BY <1>1, <1>2
<1> HIDE DEF y
<1>5. y \div PCT \in Nat /\ PCT * (y \div PCT) <= y /\ y <= PCT * (y \div PCT) + PCT
  BY <1>1, <1>4, DivWhole
<1> QED BY <1>1, <1>2, <1>3, <1>4, <1>5 DEF h, x

LEMMA AtMostDiv ==
  ASSUME NEW a \in Int, NEW c \in Nat \ {0}, NEW n \in Int, c * n <= a PROVE n <= a \div c
<1> DEFINE t == a \div c
           ct == c * t
           cn == c * n
<1>1. t \in Int /\ ct \in Int /\ cn \in Int /\ a < ct + c /\ cn <= a BY DivRange
<1> HIDE DEF t
<1> SUFFICES ASSUME t + 1 <= n PROVE FALSE BY <1>1 DEF t
<1>2. c * (t + 1) <= c * n BY <1>1, Times
<1>3. c * (t + 1) = ct + c BY <1>1
<1> HIDE DEF ct, cn
<1> QED BY <1>1, <1>2, <1>3 DEF cn

\* The debt is worth nearly as much at a near price.
LEMMA ValNear ==
  ASSUME NEW p \in Position, NEW q, Near(p, q)
  PROVE  498 * Val(p.debt, p.dp) <= 499 * Val(q.debt, q.dp) + 499
<1> DEFINE D == p.debt
           D2 == q.debt
           dp == p.dp
           dp2 == q.dp
           u == UNIT
           x == D * dp
           y == D * dp2
           x2 == D2 * dp2
           V == Val(D, dp)
           V2 == Val(D2, dp2)
<1>1. /\ D \in Nat /\ D2 \in Nat /\ dp \in Nat \ {0} /\ dp2 \in Nat \ {0} /\ u \in Nat \ {0}
      /\ D <= D2 /\ 498 * dp <= 499 * dp2
  BY PositionType, SizingAssumption DEF Near
<1> HIDE DEF D, D2, dp, dp2, u
<1>2. x \in Nat /\ y \in Nat /\ x2 \in Nat BY <1>1
<1>3. V \in Nat /\ u * V <= x BY <1>1, <1>2, DivWhole DEF Val, u
<1>4. V2 \in Nat /\ x2 <= u * V2 + u BY <1>1, <1>2, DivWhole DEF Val, u
<1>5. 498 * x <= 499 * y
  <2>1. D * (498 * dp) <= D * (499 * dp2) BY <1>1, Times
  <2>2. D * (498 * dp) = 498 * x /\ D * (499 * dp2) = 499 * y BY <1>1
  <2> QED BY <2>1, <2>2
<1>6. y <= x2
  <2>1. dp2 * D <= dp2 * D2 BY <1>1, Times
  <2> QED BY <1>1, <2>1
<1> HIDE DEF x, y, x2, V, V2
<1>7. u * (498 * V) <= u * (499 * V2 + 499)
  <2> DEFINE uv == u * V
             uv2 == u * V2
  <2>1. uv \in Nat /\ uv2 \in Nat /\ uv <= x /\ x2 <= uv2 + u BY <1>1, <1>3, <1>4
  <2>2. u * (498 * V) = 498 * uv /\ u * (499 * V2 + 499) = 499 * uv2 + 499 * u
    BY <1>1, <1>3, <1>4
  <2> HIDE DEF uv, uv2
  <2> QED BY <1>1, <1>2, <1>5, <1>6, <2>1, <2>2
<1>8. 498 * V \in Int /\ 499 * V2 + 499 \in Int BY <1>3, <1>4
<1>9. 498 * V <= 499 * V2 + 499 BY <1>1, <1>7, <1>8, Cancel
<1> QED BY <1>9 DEF V, V2, D, D2, dp, dp2

\* At a near price half of all debts is nearly as much.
LEMMA HalvesNear ==
  ASSUME NEW p \in Position, NEW q, Near(p, q), Halved(p)
  PROVE  HalfOfAll(p) \in Nat /\ HalfOfAll(q) \in Nat /\ 4975 * HalfOfAll(p) <= 4990 * HalfOfAll(q)
<1> DEFINE H == HalfOfAll(p)
           H2 == HalfOfAll(q)
           h == PCT \div 2
           V == Val(p.debt, p.dp)
           V2 == Val(q.debt, q.dp)
<1>1. q \in Position /\ q.other = p.other BY DEF Near
<1>2. PCT \in Nat \ {0} /\ p.other \in Nat BY PositionType, SizingAssumption
<1>3. /\ h \in Nat /\ V + p.other \in Nat /\ H \in Nat
      /\ PCT * H <= (V + p.other + 1) * h /\ (V + p.other + 1) * h <= PCT * H + PCT
  BY HalfBounds
<1>4. V2 + p.other \in Nat /\ H2 \in Nat /\ (V2 + p.other + 1) * h <= PCT * H2 + PCT
  BY <1>1, HalfBounds
<1>5. V \in Nat /\ V2 \in Nat BY <1>1, PositionType, ValType
<1>6. V >= 20000
  <2>1. V >= 2 * MIN_LEFTOVER BY DEF Halved
  <2>2. MIN_LEFTOVER >= 10000 /\ MIN_LEFTOVER \in Nat BY DriftAssumption, SizingAssumption
  <2> HIDE DEF V
  <2> QED BY <1>5, <2>1, <2>2
<1>7. 498 * V <= 499 * V2 + 499 BY ValNear
<1>8. 2 * h <= PCT /\ (PCT # 1 => PCT <= 3 * h) /\ (PCT = 1 => h = 0) BY <1>2
<1> HIDE DEF H, H2, V, V2, h
<1>9. 4975 * H <= 4990 * H2
  <2>1. CASE PCT = 1
    <3>1. (V + p.other + 1) * h = 0 BY <1>3, <1>8, <2>1
    <3>2. H <= 0 BY <1>3, <2>1, <3>1
    <3> QED BY <1>3, <1>4, <3>2
  <2>2. CASE PCT # 1 BY <1>2, <1>3, <1>4, <1>5, <1>6, <1>7, <1>8, <2>2, HalfNear
  <2> QED BY <2>1, <2>2
<1> QED BY <1>3, <1>4, <1>9 DEF H, H2

\* A part is still within the close factor.
LEMMA PartialCovered ==
  ASSUME NEW p \in Position, NEW q, Near(p, q), Halved(q) => Halved(p),
         NEW m \in Nat, m <= MaxLiquidatable(p), PartialPull(p, m) # 0
  PROVE  PartialPull(p, m) \in Nat /\ PartialPull(p, m) <= MaxLiquidatable(q)
<1> DEFINE P == PartialPull(p, m)
           v == PartialVal(p, m)
           w == (v * 995) \div 1000
           H == HalfOfAll(p)
           H2 == HalfOfAll(q)
           vm == Val(m, p.dp)
<1>1. /\ q \in Position /\ q.other = p.other /\ 499 * q.dp <= 500 * p.dp /\ p.debt <= q.debt
  BY DEF Near
<1>2. /\ p.debt \in Nat /\ q.debt \in Nat /\ p.dp \in Nat \ {0} /\ q.dp \in Nat \ {0}
      /\ UNIT \in Nat \ {0} /\ PCT \in Nat \ {0} /\ p.other \in Nat
  BY <1>1, PositionType, SizingAssumption
<1>3. /\ v \in Nat /\ w \in Nat /\ 1000 * w <= 995 * v /\ v <= vm
      /\ P \in Nat /\ P <= m /\ p.dp * P <= w * UNIT
  BY PartialBounds
<1>4. CASE ~Halved(p)
  <2>1. MaxLiquidatable(p) = p.debt /\ MaxLiquidatable(q) = q.debt BY <1>4 DEF MaxLiquidatable
  <2> HIDE DEF P, v, w, vm
  <2> QED BY <1>1, <1>2, <1>3, <2>1 DEF P
<1>n. CASE Halved(p) /\ ~Halved(q)
  <2>1. MaxLiquidatable(p) < p.debt /\ MaxLiquidatable(p) \in Nat BY <1>n, HalvedLess, LimitsType
  <2>2. MaxLiquidatable(q) = q.debt BY <1>n DEF MaxLiquidatable
  <2> HIDE DEF P, v, w, vm
  <2> QED BY <1>1, <1>2, <1>3, <2>1, <2>2 DEF P
<1>5. CASE Halved(p) /\ Halved(q)
  <2>1. /\ MaxLiquidatable(p) = (H * UNIT) \div p.dp
        /\ MaxLiquidatable(q) = (H2 * UNIT) \div q.dp
    BY <1>5 DEF MaxLiquidatable, Wei
  <2>2. H \in Nat BY <1>5, HalvesNear
  <2>3. H2 \in Nat /\ 4975 * H <= 4990 * H2 BY <1>5, HalvesNear
  <2>7. m <= (H * UNIT) \div p.dp BY <2>1
  <2>8. p.dp * m <= H * UNIT
    <3> DEFINE n == (H * UNIT) \div p.dp
    <3>1. H * UNIT \in Nat BY <1>2, <2>2
    <3>2. n \in Nat /\ p.dp * n <= H * UNIT
      <4> HIDE DEF H
      <4> QED BY <1>2, <3>1, DivWhole
    <3> HIDE DEF n
    <3>3. p.dp * m <= p.dp * n BY <1>2, <2>7, <3>2, Times DEF n
    <3> DEFINE a == p.dp * m
               c == p.dp * n
               d == H * UNIT
    <3>4. a \in Int /\ c \in Int /\ d \in Int /\ a <= c /\ c <= d BY <1>2, <3>1, <3>2, <3>3
    <3> HIDE DEF a, c, d
    <3>5. a <= d BY <3>4
    <3> QED BY <3>5 DEF a, d
  <2>9. vm <= H
    <3> HIDE DEF H
    <3>1. m * p.dp \in Nat /\ m * p.dp = p.dp * m BY <1>2
    <3>2. vm \in Nat /\ UNIT * vm <= m * p.dp BY <1>2, <3>1, DivWhole DEF Val
    <3> DEFINE a == UNIT * vm
               c == UNIT * H
    <3> HIDE DEF vm
    <3>3. a \in Int /\ c \in Int /\ c = H * UNIT BY <1>2, <2>2, <3>2
    <3>4. a <= c
      <4> DEFINE z == p.dp * m
      <4>1. z \in Int /\ a <= z /\ z <= H * UNIT BY <2>8, <3>1, <3>2
      <4> HIDE DEF z, a
      <4> QED BY <3>3, <4>1
    <3> QED BY <1>2, <2>2, <3>2, <3>4, Cancel
  <2> HIDE DEF P, v, w, H, H2, vm
  <2>12. 500 * w <= 499 * H2
    <3>1. vm \in Nat BY <1>2, ValType DEF vm
    <3> QED BY <1>3, <2>2, <2>3, <2>9, <3>1
  <2>13. q.dp * P <= H2 * UNIT
    <3> DEFINE a == q.dp * P
               c == p.dp * P
               wu == w * UNIT
               hu == H2 * UNIT
    <3>1. a \in Int /\ c \in Int /\ wu \in Int /\ hu \in Int /\ c <= wu BY <1>2, <1>3, <2>3
    <3>2. 499 * a <= 500 * c
      <4>1. P * (499 * q.dp) <= P * (500 * p.dp) BY <1>1, <1>2, <1>3, Times
      <4>2. P * (499 * q.dp) = 499 * a /\ P * (500 * p.dp) = 500 * c BY <1>2, <1>3
      <4> QED BY <4>1, <4>2
    <3>3. 500 * wu <= 499 * hu
      <4>1. UNIT * (500 * w) <= UNIT * (499 * H2) BY <1>2, <1>3, <2>3, <2>12, Times
      <4>2. UNIT * (500 * w) = 500 * wu /\ UNIT * (499 * H2) = 499 * hu BY <1>2, <1>3, <2>3
      <4> QED BY <4>1, <4>2
    <3>4. a <= hu
      <4> HIDE DEF a, c, wu, hu
      <4> QED BY <3>1, <3>2, <3>3
    <3> QED BY <3>4
  <2>14. P <= (H2 * UNIT) \div q.dp
    <3>1. H2 * UNIT \in Int BY <1>2, <2>3
    <3> QED BY <1>2, <1>3, <2>13, <3>1, AtMostDiv
  <2> QED BY <1>3, <2>1, <2>14 DEF P, H2
<1> QED BY <1>4, <1>n, <1>5

\* What could be covered below the close factor nearly can be still.
LEMMA HalfCovered ==
  ASSUME NEW p \in Position, NEW q, Near(p, q), Halved(p), Halved(q),
         NEW m \in Nat, m <= MaxLiquidatable(p)
  PROVE  995 * m <= 1000 * MaxLiquidatable(q) + 1000
<1> DEFINE H == HalfOfAll(p)
           H2 == HalfOfAll(q)
           u == UNIT
           d == p.dp
           d2 == q.dp
           M == MaxLiquidatable(p)
           M2 == MaxLiquidatable(q)
           hu == H * u
           hu2 == H2 * u
<1>1. q \in Position /\ 499 * d2 <= 500 * d BY DEF Near
<1>2. d \in Nat \ {0} /\ d2 \in Nat \ {0} /\ u \in Nat \ {0} BY <1>1, PositionType, SizingAssumption
<1>3. H \in Nat /\ H2 \in Nat /\ 4975 * H <= 4990 * H2 BY HalvesNear
<1>4. M = hu \div d /\ M2 = hu2 \div d2 BY DEF MaxLiquidatable, Wei
<1>5. m <= M OBVIOUS
<1> HIDE DEF H, H2, u, d, d2, M, M2
<1>6. hu \in Nat /\ hu2 \in Nat BY <1>2, <1>3
<1>7. 4975 * hu <= 4990 * hu2
  <2>1. u * (4975 * H) <= u * (4990 * H2) BY <1>2, <1>3, Times
  <2>2. u * (4975 * H) = 4975 * hu /\ u * (4990 * H2) = 4990 * hu2 BY <1>2, <1>3
  <2> QED BY <2>1, <2>2
<1> HIDE DEF hu, hu2
<1>8. M \in Nat /\ d * M <= hu BY <1>2, <1>4, <1>6, DivWhole
<1>9. M2 \in Nat /\ hu2 <= d2 * M2 + d2 BY <1>2, <1>4, <1>6, DivWhole
<1> DEFINE dm == d * m
           n == M2 + 1
           dn == d * n
           dn2 == d2 * n
<1>10. /\ dm \in Nat /\ n \in Nat /\ dn \in Nat /\ dn2 \in Nat
  BY <1>2, <1>9
<1>11. dm <= hu
  <2>1. d * m <= d * M BY <1>2, <1>5, <1>8, Times
  <2> DEFINE x == d * M
  <2>2. x \in Nat /\ dm <= x /\ x <= hu BY <1>2, <1>8, <2>1
  <2> HIDE DEF x, dm
  <2> QED BY <1>6, <1>10, <2>2
<1>12. hu2 <= dn2
  <2>1. d2 * n = d2 * M2 + d2 BY <1>2, <1>9
  <2> QED BY <1>9, <2>1
<1>13. 499 * dn2 <= 500 * dn
  <2>1. n * (499 * d2) <= n * (500 * d) BY <1>1, <1>2, <1>10, Times
  <2>2. n * (499 * d2) = 499 * dn2 /\ n * (500 * d) = 500 * dn
    <3> HIDE DEF n
    <3> QED BY <1>2, <1>10
  <2> QED BY <2>1, <2>2
<1>14. 995 * dm <= 1000 * dn
  <2> HIDE DEF dm, dn, dn2, n
  <2> QED BY <1>6, <1>7, <1>10, <1>11, <1>12, <1>13
<1>15. 995 * m <= 1000 * n
  <2>1. d * (995 * m) = 995 * dm /\ d * (1000 * n) = 1000 * dn
    <3> HIDE DEF n
    <3> QED BY <1>2, <1>10
  <2>2. d * (995 * m) <= d * (1000 * n) BY <1>14, <2>1
  <2>3. 995 * m \in Int /\ 1000 * n \in Int BY <1>10
  <2> HIDE DEF n
  <2> QED BY <1>2, <2>2, <2>3, Cancel
<1> QED BY <1>9, <1>15 DEF M2

\* What may happen until the shot lands is near.
LEMMA DriftedNear ==
  ASSUME NEW p \in Positions, NEW q \in Drifted(p) PROVE Near(p, q)
<1>p. p \in Position BY Placed
<1> DEFINE dp == p.dp
           cp == p.cp
           x == dp * cp
           dt == dp \div 499
           ct == cp \div 499
<1>1. dp \in Nat \ {0} /\ cp \in Nat \ {0} /\ p.debt \in Nat \ {0} BY <1>p, PositionType
<1>t. /\ dt \in Nat /\ 499 * dt <= dp /\ dt < dp /\ ct \in Nat /\ 499 * ct <= cp /\ ct < cp
  <2> HIDE DEF dp, cp
  <2> QED BY <1>1
<1>2. /\ x \in Nat /\ dp * ct \in Nat /\ dt * cp \in Nat
      /\ 499 * (dp * ct) <= x /\ 499 * (dt * cp) <= x
  <2> HIDE DEF dp, cp, dt, ct
  <2>1. dp * (499 * ct) <= dp * cp /\ cp * (499 * dt) <= cp * dp BY <1>1, <1>t, Times
  <2>2. dp * (499 * ct) = 499 * (dp * ct) /\ cp * (499 * dt) = 499 * (dt * cp) /\ cp * dp = x
    BY <1>1, <1>t
  <2> QED BY <1>1, <1>t, <2>1, <2>2
<1>3. CASE q = p BY <1>p, <1>3, NearItself
<1>d. CASE q = [p EXCEPT !.deep = ~@]
  <2>1. /\ q.coll = p.coll /\ q.other = p.other /\ q.emode = p.emode /\ q.known = p.known
        /\ q.dp = p.dp /\ q.cp = p.cp /\ q.debt = p.debt
    BY <1>p, <1>d DEF Position
  <2>2. q \in Position BY <1>p, <1>d, Zenon DEF Position
  <2>3. Near(p, p) BY <1>p, NearItself
  <2> QED BY <2>1, <2>2, <2>3 DEF Near
<1>4. CASE q = [p EXCEPT !.debt = @ + @ \div 200]
  <2>1. /\ p.debt \div 200 \in Nat /\ p.debt + p.debt \div 200 <= Buffered(p.debt)
    BY <1>1 DEF Buffered
  <2>2. /\ q.coll = p.coll /\ q.other = p.other /\ q.emode = p.emode /\ q.known = p.known
        /\ q.dp = p.dp /\ q.cp = p.cp /\ q.debt = p.debt + p.debt \div 200
    BY <1>p, <1>4 DEF Position
  <2>3. q \in Position
    <3>1. p.debt + p.debt \div 200 \in Nat \ {0} BY <1>1, <2>1
    <3> QED BY <1>p, <1>4, <3>1 DEF Position
  <2>4. p.debt <= q.debt /\ q.debt <= Buffered(p.debt) BY <1>1, <2>1, <2>2
  <2>5. Near(p, p) BY <1>p, NearItself
  <2> QED BY <2>2, <2>3, <2>4, <2>5 DEF Near
<1>5. ASSUME NEW d \in {-1, 1}, q = [p EXCEPT !.cp = @ + d * (@ \div 499)] PROVE Near(p, q)
  <2>1. /\ q.coll = p.coll /\ q.other = p.other /\ q.emode = p.emode /\ q.known = p.known
        /\ q.dp = p.dp /\ q.cp = cp + d * ct /\ q.debt = p.debt
    BY <1>p, <1>5 DEF Position
  <2>2. q \in Position
    <3>1. cp + d * ct \in Nat \ {0}
      <4> HIDE DEF cp, ct
      <4> QED BY <1>1, <1>t
    <3> QED BY <1>p, <1>5, <3>1 DEF Position
  <2>3. p.debt <= Buffered(p.debt) BY <1>1, BufferedType
  <2>4. /\ 498 * cp <= 499 * (cp + d * ct) /\ 499 * (cp + d * ct) <= 500 * cp
        /\ 498 * dp <= 499 * dp /\ 499 * dp <= 500 * dp
    <3> HIDE DEF cp, ct, dp
    <3> QED BY <1>1, <1>t
  <2>5. 498 * (dp * (cp + d * ct)) <= 499 * x
    <3>1. dp * (cp + d * ct) = x + d * (dp * ct)
      <4> HIDE DEF cp, ct, dp
      <4> QED BY <1>1, <1>t
    <3> DEFINE y == dp * ct
    <3>2. y \in Nat /\ 499 * y <= x /\ dp * (cp + d * ct) = x + d * y BY <1>2, <3>1
    <3> HIDE DEF x, dp, cp, y, ct
    <3> QED BY <1>2, <3>2
  <2> QED BY <1>1, <2>1, <2>2, <2>3, <2>4, <2>5 DEF Near
<1>6. ASSUME NEW d \in {-1, 1}, q = [p EXCEPT !.dp = @ + d * (@ \div 499)] PROVE Near(p, q)
  <2>1. /\ q.coll = p.coll /\ q.other = p.other /\ q.emode = p.emode /\ q.known = p.known
        /\ q.cp = p.cp /\ q.dp = dp + d * dt /\ q.debt = p.debt
    BY <1>p, <1>6 DEF Position
  <2>2. q \in Position
    <3>1. dp + d * dt \in Nat \ {0}
      <4> HIDE DEF dp, dt
      <4> QED BY <1>1, <1>t
    <3> QED BY <1>p, <1>6, <3>1 DEF Position
  <2>3. p.debt <= Buffered(p.debt) BY <1>1, BufferedType
  <2>4. /\ 498 * dp <= 499 * (dp + d * dt) /\ 499 * (dp + d * dt) <= 500 * dp
        /\ 498 * cp <= 499 * cp /\ 499 * cp <= 500 * cp
    <3> HIDE DEF dp, dt, cp
    <3> QED BY <1>1, <1>t
  <2>5. 498 * x <= 499 * ((dp + d * dt) * cp)
    <3>1. (dp + d * dt) * cp = x + d * (dt * cp)
      <4> HIDE DEF cp, dt, dp
      <4> QED BY <1>1, <1>t
    <3> DEFINE y == dt * cp
    <3>2. y \in Nat /\ 499 * y <= x /\ (dp + d * dt) * cp = x + d * y BY <1>2, <3>1
    <3> HIDE DEF x, dp, cp, y, dt
    <3> QED BY <1>2, <3>2
  <2> QED BY <1>1, <2>1, <2>2, <2>3, <2>4, <2>5 DEF Near
<1> QED BY <1>3, <1>d, <1>4, <1>5, <1>6 DEF Drifted

LEMMA BonusBound == ASSUME NEW p PROVE Bonus(p) <= 2 * PCT
<1>1. Bonus(p) <= BONUS /\ Bonus(p) \in Nat BY SizingAssumption, BonusType DEF Bonus
<1>2. BONUS <= 2 * PCT /\ BONUS \in Nat /\ PCT \in Nat BY SizingAssumption, DriftAssumption
<1> HIDE DEF Bonus
<1> QED BY <1>1, <1>2

\* SeizesNear, of positions.
LEMMA SeizesOf ==
  ASSUME NEW p \in Position, NEW q, Near(p, q), NEW w \in Nat, NEW w2 \in Nat, w <= w2,
         NEW b, b = Bonus(p)
  PROVE  996 * ((w * b) * (p.dp * q.cp))
           <= 998 * (p.cp * q.cp * PCT * Seized(q, w2, b)) + 2495 * (p.cp * q.cp * PCT)
<1> DEFINE dp == p.dp
           cp == p.cp
           dp2 == q.dp
           cp2 == q.cp
           e == PCT
           y == (q.dp * w2) \div q.cp
           S2 == Seized(q, w2, b)
<1>1. q \in Position /\ Bonus(q) = b BY NearBonus DEF Near
<1>2. /\ dp \in Nat \ {0} /\ cp \in Nat \ {0} /\ dp2 \in Nat \ {0} /\ cp2 \in Nat \ {0}
      /\ b \in Nat \ {0} /\ e \in Nat \ {0} /\ b <= 2 * e /\ 498 * (dp * cp2) <= 499 * (dp2 * cp)
  BY <1>1, PositionType, BonusType, BonusBound, SizingAssumption DEF Near
<1>3. /\ y \in Nat /\ dp2 * w2 <= cp2 * y + cp2
      /\ S2 \in Nat /\ 2 * (y * b) <= 2 * (e * S2) + e
  BY <1>1, SeizedNearest
<1> HIDE DEF dp, cp, dp2, cp2, e, y, S2
<1>4. 996 * ((w * b) * (dp * cp2)) <= 998 * (cp * cp2 * e * S2) + 2495 * (cp * cp2 * e)
  BY <1>2, <1>3, SeizesNear
<1> QED BY <1>4 DEF dp, cp, dp2, cp2, e, S2

\* SeizedMoved, of positions.
LEMMA MovedOf ==
  ASSUME NEW p \in Position, NEW q, Near(p, q), NEW w \in Nat, NEW w2 \in Nat, w <= w2,
         NEW b, b = Bonus(p)
  PROVE  9979 * Seized(p, w, b) <= 10000 * Seized(q, w2, b) + 31000
<1> DEFINE dp == p.dp
           cp == p.cp
           cp2 == q.cp
           e == PCT
           y == (p.dp * w) \div p.cp
           S == Seized(p, w, b)
           S2 == Seized(q, w2, b)
<1>1. q \in Position /\ Bonus(q) = b BY NearBonus DEF Near
<1>2. /\ dp \in Nat \ {0} /\ cp \in Nat \ {0} /\ cp2 \in Nat \ {0}
      /\ b \in Nat \ {0} /\ e \in Nat \ {0}
  BY <1>1, PositionType, BonusType, SizingAssumption
<1>3. y \in Nat /\ cp * y <= dp * w /\ S \in Nat /\ 2 * (e * S) <= 2 * (y * b) + e
  BY SeizedNearest
<1>4. S2 \in Nat BY <1>1, SeizedNearest
<1>5. 996 * ((w * b) * (dp * cp2)) <= 998 * (cp * cp2 * e * S2) + 2495 * (cp * cp2 * e)
  BY SeizesOf
<1> HIDE DEF dp, cp, cp2, e, y, S, S2
<1>6. 9979 * S <= 10000 * S2 + 31000 BY <1>2, <1>3, <1>4, <1>5, SeizedMoved
<1> QED BY <1>6 DEF S, S2

LEMMA WholeLands ==
  ASSUME NEW p \in Position, NEW q, Near(p, q), p.emode => p.known, Halved(q) => Halved(p),
         p.debt <= MaxLiquidatable(p),
         NEW s, s.cover = Buffered(p.debt), s.received >= 10000,
         s.received = AfterFee(Least({Seized(p, p.debt, Bonus(p)), p.coll}), Bonus(p))
  PROVE  Lands(q, s)
<1> DEFINE b == Bonus(p)
           S == Seized(p, p.debt, b)
           g == Least({S, p.coll})
           S2 == Seized(q, q.debt, b)
<1>1. /\ q \in Position /\ p.debt <= q.debt /\ q.debt <= Buffered(p.debt) BY DEF Near
<1>2. /\ p.debt \in Nat /\ q.debt \in Nat /\ p.coll \in Nat /\ Bonus(q) = b
      /\ Buffered(p.debt) \in Nat
  BY <1>1, PositionType, NearBonus, BufferedType
<1>3. ~Halved(p)
  <2>1. MaxLiquidatable(p) \in Nat BY LimitsType
  <2> QED BY <1>2, <2>1, HalvedLess
<1>4. MaxLiquidatable(q) = q.debt BY <1>3 DEF MaxLiquidatable
<1>5. q.debt = Least({s.cover, MaxLiquidatable(q)}) BY <1>1, <1>2, <1>4, LeastOfTwo
<1>6. S \in Nat /\ S2 \in Nat BY <1>1, <1>2, SeizedNearest
<1>7. 9979 * S <= 10000 * S2 + 31000 BY <1>1, <1>2, MovedOf
<1>r. s.received = AfterFee(g, b) OBVIOUS
<1>o. S2 = Seized(q, q.debt, Bonus(p)) OBVIOUS
<1> HIDE DEF S, S2
<1>8. g \in Nat /\ g <= p.coll /\ g <= S BY <1>2, <1>6, LeastOfTwo
<1> HIDE DEF g
<1>9. 9979 * g <= 10000 * S2 + 31000 BY <1>6, <1>7, <1>8
<1>10. q.debt >= q.debt BY <1>2
<1> QED BY <1>2, <1>5, <1>6, <1>8, <1>9, <1>10, <1>r, <1>o, LandsBy

LEMMA AllLands ==
  ASSUME NEW p \in Position, NEW q, Near(p, q), p.emode => p.known, Halved(q) => Halved(p),
         DebtForAll(p, Bonus(p)) < p.debt, DebtForAll(p, Bonus(p)) >= 10000,
         NEW s, s.cover = Buffered(DebtForAll(p, Bonus(p))), s.received >= 10000,
         Halved(p) => s.cover <= MaxLiquidatable(p),
         s.received = AfterFee(p.coll, Bonus(p))
  PROVE  Lands(q, s)
<1> DEFINE b == Bonus(p)
           A == DebtForAll(p, b)
           C == p.coll
           e == PCT
           dp == p.dp
           cp == p.cp
           cp2 == q.cp
           X == (p.cp * p.coll) \div p.dp
           w == Least({s.cover, MaxLiquidatable(q)})
           S2 == Seized(q, w, b)
           t == dp * cp2
           k == cp * cp2 * e
<1>1. /\ q \in Position /\ p.debt <= q.debt BY DEF Near
<1>2. /\ p.debt \in Nat /\ q.debt \in Nat /\ C \in Nat /\ Bonus(q) = b
      /\ dp \in Nat \ {0} /\ cp \in Nat \ {0} /\ cp2 \in Nat \ {0}
      /\ b \in Nat \ {0} /\ e \in Nat \ {0} /\ e < b /\ b <= 2 * e
  BY <1>1, PositionType, NearBonus, BonusType, BonusBound, SizingAssumption
<1>3. /\ X \in Nat /\ dp * X <= cp * C /\ cp * C <= dp * X + dp
      /\ A \in Nat /\ 2 * (b * A) <= 2 * (X * e) + b /\ 2 * (X * e) <= 2 * (b * A) + b
  BY AllNearest
<1>4. MaxLiquidatable(q) \in Nat /\ (~Halved(q) => MaxLiquidatable(q) = q.debt)
  BY <1>1, LimitsType DEF MaxLiquidatable
<1>5. s.cover \in Nat /\ 101 * A <= 100 * s.cover + 100
  <2> HIDE DEF A
  <2> QED BY <1>3 DEF Buffered, A
<1>6. w \in Nat /\ (w = s.cover \/ (w = q.debt /\ ~Halved(q)) \/ (w = MaxLiquidatable(q) /\ Halved(q)))
  BY <1>2, <1>4, <1>5, LeastOfTwo
<1>h. Halved(q) => 995 * s.cover <= 1000 * MaxLiquidatable(q) + 1000 BY <1>5, HalfCovered
<1>7. A + 1 <= q.debt /\ A >= 10000
  <2> HIDE DEF A
  <2> QED BY <1>1, <1>2, <1>3 DEF A
<1>8. C >= 10000
  <2>1. AfterFee(C, b) \in 0..C BY <1>2, FeeType
  <2> QED BY <1>2, <2>1
<1>r. s.received = AfterFee(C, b) /\ s.received >= 10000 OBVIOUS
<1>o. S2 = Seized(q, w, Bonus(p)) /\ w = Least({s.cover, MaxLiquidatable(q)}) OBVIOUS
<1>9. S2 \in Nat
  <2> HIDE DEF w
  <2> QED BY <1>1, <1>2, <1>6, SeizedNearest
<1>10. ASSUME NEW v \in Nat, v <= w
       PROVE  996 * ((v * b) * t) <= 998 * (k * S2) + 2495 * k
  <2> HIDE DEF w
  <2> QED BY <1>6, <1>10, SeizesOf
<1> HIDE DEF b, A, C, e, dp, cp, cp2, X, w, S2
<1>11. /\ 2 * (k * C) <= 2 * ((A * b) * t) + b * t + 2 * (e * t) /\ 9999 * (e * t) <= k * C
  BY <1>2, <1>3, <1>7, AllWorth
<1>12. t \in Nat /\ k \in Nat \ {0} BY <1>2
<1> HIDE DEF t, k
<1>13. CASE w = q.debt /\ ~Halved(q)
  <2>1. 996 * (((A + 1) * b) * t) <= 998 * (k * S2) + 2495 * k BY <1>2, <1>3, <1>7, <1>13, <1>10
  <2>2. 9979 * C <= 10000 * S2 + 31000 BY <1>2, <1>3, <1>9, <1>11, <1>12, <2>1, AllMoved
  <2>3. w >= q.debt /\ C <= p.coll BY <1>2, <1>13 DEF C
  <2> QED BY <1>2, <1>5, <1>9, <1>r, <1>o, <2>2, <2>3, LandsBy DEF b
<1>14. CASE w = s.cover \/ (w = MaxLiquidatable(q) /\ Halved(q))
  <2>1. 996 * ((w * b) * t) <= 998 * (k * S2) + 2495 * k BY <1>6, <1>10
  <2>a. 100495 * A <= 100000 * w + 200000 BY <1>3, <1>4, <1>5, <1>6, <1>h, <1>14
  <2>2. C < S2 BY <1>2, <1>3, <1>6, <1>8, <1>9, <1>11, <1>12, <2>1, <2>a, AllTaken
  <2>3. S2 > q.coll /\ C <= p.coll BY <1>2, <1>9, <2>2 DEF Near, C
  <2> QED BY <1>2, <1>5, <1>9, <1>r, <1>o, <2>3, LandsBy DEF b
<1> QED BY <1>6, <1>13, <1>14

LEMMA PartialLands ==
  ASSUME NEW p \in Positions, NEW q, Near(p, q), p.emode => p.known, Halved(q) => Halved(p),
         NEW m \in Nat, m <= MaxLiquidatable(p), PartialPull(p, m) # 0,
         Partial(p, m).received >= 10000
  PROVE  Lands(q, Partial(p, m))
<1> DEFINE b == Bonus(p)
           P == PartialPull(p, m)
           s == Partial(p, m)
           S == Seized(p, P, b)
           S2 == Seized(q, P, b)
           g == Least({S, p.coll})
<1>p. p \in Position BY Placed
<1>1. q \in Position /\ p.coll \in Nat /\ Bonus(q) = b BY <1>p, PositionType, NearBonus DEF Near
<1>2. P \in Nat /\ P <= MaxLiquidatable(q) BY <1>p, PartialCovered
<1>3. s.cover = P /\ s.received = AfterFee(g, b) BY DEF Partial
<1>4. /\ ~(Val(q.debt - P, q.dp) < MIN_LEFTOVER) /\ ~(Val(q.coll - S2, q.cp) < MIN_LEFTOVER)
  BY PartialLeaves
<1>5. S \in Nat /\ S2 \in Nat
  <2> HIDE DEF P
  <2> QED BY <1>p, <1>1, <1>2, SeizedNearest
<1>o. S2 = Seized(q, P, Bonus(p)) OBVIOUS
<1>7. 9979 * S <= 10000 * S2 + 31000
  <2> HIDE DEF P
  <2>1. P <= P BY <1>2
  <2> QED BY <1>p, <1>2, <2>1, MovedOf
<1>r. s.received >= 10000 OBVIOUS
<1> HIDE DEF S, S2, P, s
<1>8. g \in Nat /\ g <= p.coll /\ g <= S BY <1>1, <1>5, LeastOfTwo
<1>9. P = Least({s.cover, MaxLiquidatable(q)})
  <2>1. MaxLiquidatable(q) \in Nat BY <1>1, LimitsType
  <2> QED BY <1>2, <1>3, <2>1, LeastOfTwo
<1> HIDE DEF g
<1>10. 9979 * g <= 10000 * S2 + 31000 BY <1>5, <1>7, <1>8
<1>11. /\ s.cover \in Nat /\ s.received = AfterFee(g, Bonus(p)) /\ Seized(q, P, Bonus(p)) \in Nat
       /\ 9979 * g <= 10000 * Seized(q, P, Bonus(p)) + 31000
       /\ ~(Val(q.coll - Seized(q, P, Bonus(p)), q.cp) < MIN_LEFTOVER)
  BY <1>2, <1>3, <1>4, <1>5, <1>10, <1>o
<1>12. Lands(q, s)
  <2> HIDE DEF b
  <2> QED BY <1>p, <1>4, <1>8, <1>9, <1>11, <1>r, LandsBy
<1> QED BY <1>12 DEF s

\* An amount of which a thousandth is more than what rounding takes.
Substantial(s) == s.pulled >= 10000 /\ s.received >= 10000

LEMMA SizeLands ==
  ASSUME NEW p \in Positions, NEW q, Near(p, q), p.emode => p.known, Halved(q) => Halved(p),
         NEW m \in 0..MaxLiquidatable(p), NEW s, s = SizeUpTo(p, m), s # NoSize, Substantial(s),
         Buffers(p, s)
  PROVE  Lands(q, s)
<1> DEFINE all == DebtForAll(p, Bonus(p))
<1>p. p \in Position BY Placed
<1>1. /\ all \in Nat /\ p.debt \in Nat /\ m \in Nat /\ m <= MaxLiquidatable(p) /\ m > 0
      /\ MaxLiquidatable(p) \in Nat
  <2>1. MaxLiquidatable(p) \in Nat BY <1>p, LimitsType
  <2>2. m \in Nat /\ m <= MaxLiquidatable(p) BY <2>1
  <2>3. m # 0 BY <2>2, <1>p, SizeWays
  <2> QED BY <2>1, <2>2, <2>3, <1>p, LimitsType, PositionType
<1>r. s.pulled >= 10000 /\ s.received >= 10000 BY DEF Substantial
<1>2. CASE m >= p.debt /\ all >= p.debt
  <2>1. s = [cover |-> Buffered(p.debt), pulled |-> p.debt, full |-> FALSE,
             received |-> AfterFee(Least({Seized(p, p.debt, Bonus(p)), p.coll}), Bonus(p))]
    BY <1>1, <1>2, <1>p, SizeWays
  <2>2. /\ s.cover = Buffered(p.debt)
        /\ s.received = AfterFee(Least({Seized(p, p.debt, Bonus(p)), p.coll}), Bonus(p))
    BY <2>1
  <2>3. p.debt <= MaxLiquidatable(p) BY <1>1, <1>2
  <2> HIDE DEF all
  <2> QED BY <1>p, <1>r, <2>2, <2>3, WholeLands
<1>3. CASE all < p.debt /\ all <= m
  <2>1. s = [cover |-> Buffered(all), pulled |-> all, full |-> TRUE,
             received |-> AfterFee(p.coll, Bonus(p))]
    <3>1. m > 0 /\ all < p.debt /\ all <= m =>
            SizeUpTo(p, m) = [cover |-> Buffered(all), pulled |-> all, full |-> TRUE,
                              received |-> AfterFee(p.coll, Bonus(p))]
      BY <1>1, <1>p, SizeWays, Zenon
    <3> HIDE DEF all
    <3> QED BY <1>1, <1>3, <3>1
  <2>2. /\ s.cover = Buffered(all) /\ s.pulled = all /\ s.received = AfterFee(p.coll, Bonus(p))
    <3> HIDE DEF all
    <3> QED BY <2>1
  <2>3. s.full = TRUE
    <3> HIDE DEF all
    <3> QED BY ONLY <2>1, Zenon
  <2>4. Halved(p) => s.cover <= MaxLiquidatable(p) BY <2>3 DEF Buffers
  <2>5. all >= 10000 BY <1>r, <2>2
  <2> QED BY <1>p, <1>3, <1>r, <2>2, <2>4, <2>5, AllLands
<1>4. CASE ~(m >= p.debt /\ all >= p.debt) /\ ~(all < p.debt /\ all <= m)
  <2>1. s = Partial(p, m)
    <3>1. m > 0 /\ ~(m >= p.debt /\ all >= p.debt) /\ ~(all < p.debt /\ all <= m) =>
            SizeUpTo(p, m) = Partial(p, m)
      BY <1>1, <1>p, SizeWays
    <3> HIDE DEF all
    <3> QED BY <1>1, <3>1, <1>4
  <2>2. PartialPull(p, m) # 0 BY <2>1 DEF Partial
  <2>3. Lands(q, Partial(p, m)) BY <1>1, <1>r, <2>1, <2>2, PartialLands
  <2> QED BY <2>1, <2>3
<1> QED BY <1>2, <1>3, <1>4

\* What a venue is told to sell has the haircut, of either leg.
Haircut == (pos.kind # "same" => best.sold <= Sold) /\ best.mid <= Mid

LEMMA HaircutOfNothing ==
  ASSUME size.received \in Nat, best = NoQuote PROVE best.sold <= Sold /\ best.mid <= Mid
<1>1. Sold \in Nat BY SoldType
<1>2. Mid \in Nat
  <2>1. PCT \in Nat \ {0} /\ PCT - LEG2_HAIRCUT \in Nat BY SizingAssumption, DriftAssumption
  <2>2. best.under * (PCT - LEG2_HAIRCUT) = 0 BY <2>1 DEF NoQuote
  <2> QED BY <2>1, <2>2 DEF Mid
<1> QED BY <1>1, <1>2 DEF NoQuote

LEMMA HaircutInit == Priced /\ Init => Haircut
<1> SUFFICES ASSUME Priced, Init PROVE best.sold <= Sold /\ best.mid <= Mid BY DEF Haircut
<1>1. size.received \in Nat BY PositionType, Placed DEF Priced, Ladder, SizeT
<1> QED BY <1>1, HaircutOfNothing DEF Init

LEMMA HaircutStep == Priced /\ Priced' /\ Haircut /\ [Next]_vars => Haircut'
<1> SUFFICES ASSUME Priced, Priced', Haircut, [Next]_vars PROVE Haircut' OBVIOUS
<1>1. pos' = pos
  <2>1. CASE Skip BY <2>1 DEF Skip
  <2>2. CASE Try BY <2>2 DEF Try
  <2>3. CASE ~Skip /\ ~Try BY <2>3, OtherSteps
  <2> QED BY <2>1, <2>2, <2>3
<1>2. size'.received \in Nat BY PositionType, Placed DEF Priced, Ladder, SizeT
<1>3. CASE best' = NoQuote
  <2>1. size'.received \in Nat /\ best' = NoQuote BY <1>2, <1>3
  <2>2. (best.sold <= Sold /\ best.mid <= Mid)'
    <3>1. Sold' \in Nat BY <1>2, SoldType DEF Sold
    <3>2. Mid' \in Nat
      <4>1. PCT \in Nat \ {0} /\ PCT - LEG2_HAIRCUT \in Nat BY SizingAssumption, DriftAssumption
      <4>2. best'.under * (PCT - LEG2_HAIRCUT) = 0 BY <1>3, <4>1 DEF NoQuote
      <4> QED BY <4>1, <4>2 DEF Mid
    <3> QED BY <1>3, <3>1, <3>2 DEF NoQuote
  <2> QED BY <2>2 DEF Haircut
<1>4. CASE UNCHANGED <<size, best>> BY <1>1, <1>4 DEF Haircut, Sold, Mid
<1>5. CASE size' = size /\ best'.sold = Sold /\ best'.mid = 0
  <2>1. Sold' = Sold /\ Sold \in Nat BY <1>2, <1>5, SoldType DEF Sold
  <2>2. BestT' BY DEF Priced
  <2>3. Mid' \in 0..best'.under BY <2>2, MidRange DEF Mid, BestT
  <2> QED BY <1>5, <2>1, <2>2, <2>3 DEF Haircut, BestT
<1>6. CASE /\ size' = size /\ best'.sold = best.sold /\ best'.under = best.under /\ best'.mid = Mid
  <2>1. Sold' = Sold /\ Mid' = Mid BY <1>6 DEF Sold, Mid
  <2>2. Mid \in 0..best.under BY MidType DEF Priced
  <2>3. best'.mid <= Mid' BY <1>6, <2>1, <2>2 DEF Priced, BestT
  <2> QED BY <1>1, <1>6, <2>1, <2>3 DEF Haircut
<1>7. CASE pos'.kind = "same" /\ best'.under = 0 /\ best'.mid = 0
  <2>1. BestT' BY DEF Priced
  <2>2. Mid' \in 0..best'.under BY <2>1, MidRange DEF Mid, BestT
  <2> QED BY <1>7, <2>1, <2>2 DEF Haircut, BestT
<1>8. \/ best' = NoQuote \/ UNCHANGED <<size, best>>
      \/ size' = size /\ best'.sold = Sold /\ best'.mid = 0
      \/ /\ size' = size /\ best'.sold = best.sold /\ best'.under = best.under /\ best'.mid = Mid
      \/ pos'.kind = "same" /\ best'.under = 0 /\ best'.mid = 0
  <2>1. CASE Try BY <1>1, <2>1 DEF Try, Priced, NoQuote
  <2>2. CASE Gate \/ Stop \/ Skip \/ LiqdFails \/ LiqdHangs \/ KyberFails \/ Leg1Fails \/ Leg2Fails
    BY <2>2 DEF Gate, Stop, Skip, LiqdFails, LiqdHangs, KyberFails, Leg1Fails, Leg2Fails, Refused
  <2>3. ASSUME NEW out \in Outs, NEW i \in Impacts, Liqd(out, i) \/ Kyber(out, i)
        PROVE  UNCHANGED <<size, best>> \/ (size' = size /\ best'.sold = Sold /\ best'.mid = 0)
    BY <2>3 DEF Liqd, Kyber, Quoted, NoQuote
  <2>4. ASSUME NEW out \in Outs, NEW i \in Impacts, NEW over \in BOOLEAN, Leg1(out, i, over)
        PROVE  size' = size /\ best'.sold = Sold /\ best'.mid = 0
    BY <2>4 DEF Leg1, Quoted, NoQuote
  <2>5. ASSUME NEW out \in Outs, NEW i \in Impacts, Leg2(out, i)
        PROVE  size' = size /\ best'.sold = best.sold /\ best'.under = best.under /\ best'.mid = Mid
    BY <2>5 DEF Leg2, Priced, BestT
  <2>6. CASE Done \/ UNCHANGED vars BY <2>6 DEF Done, vars
  <2> QED BY <2>1, <2>2, <2>3, <2>4, <2>5, <2>6 DEF Next, Walled, Open
<1> QED BY <1>3, <1>4, <1>5, <1>6, <1>7, <1>8

\* The haircut of the second leg is no less than what the first may slip by.
LEMMA MidThere ==
  ASSUME BestT, Haircut PROVE best.mid <= (best.under * (PCT - SLIPPAGE)) \div PCT
<1> DEFINE u == best.under
           a == u * (PCT - LEG2_HAIRCUT)
           c == u * (PCT - SLIPPAGE)
<1>1. /\ u \in Nat /\ best.mid \in Nat /\ PCT \in Nat \ {0} /\ PCT - LEG2_HAIRCUT \in Nat
      /\ PCT - SLIPPAGE \in Nat /\ PCT - LEG2_HAIRCUT <= PCT - SLIPPAGE
  BY SizingAssumption, DriftAssumption DEF BestT
<1>2. a \in Nat /\ c \in Nat /\ a <= c BY <1>1, Times
<1>3. best.mid <= a \div PCT BY DEF Haircut, Mid
<1> HIDE DEF a, c
<1>4. a \div PCT <= c \div PCT /\ a \div PCT \in Nat /\ c \div PCT \in Nat
  BY <1>1, <1>2, DivMono, DivNat
<1>5. best.mid <= c \div PCT BY <1>1, <1>3, <1>4
<1> QED BY <1>5 DEF c, u

LEMMA ArrivesFollows ==
  Priced /\ Cut /\ Haircut => (Substantial(size) => SoldArrives)
<1> SUFFICES ASSUME Priced, Cut, Haircut, Substantial(size), pc = "fire", pos.kind # "same",
                    pos.emode => pos.known, NEW q \in Drifted(pos),
                    Halved(q) => Halved(pos), Buffers(pos, size)
             PROVE  ~Pool(q, size.cover).reverts /\ best.sold <= Pool(q, size.cover).received
  BY MidThere DEF SoldArrives, Priced
<1>1. pos \in Positions BY DEF Priced, Ladder
<1>2. size # NoSize
  <2>1. size.received >= 10000 BY DEF Substantial
  <2> QED BY <2>1 DEF NoSize
<1>3. PICK m \in 0..MaxLiquidatable(pos) : size = SizeUpTo(pos, m) BY <1>2 DEF Cut
<1>4. Near(pos, q) BY <1>1, DriftedNear
<1>5. Lands(q, size) BY <1>1, <1>2, <1>3, <1>4, SizeLands
<1>6. best.sold <= Sold BY DEF Haircut
<1> DEFINE r == Pool(q, size.cover).received
<1>7. Sold <= r /\ ~Pool(q, size.cover).reverts BY <1>5 DEF Lands, Sold
<1>8. r \in Int /\ Sold \in Int /\ best.sold \in Int
  <2>1. size.received \in Nat BY <1>1, PositionType, Placed DEF Priced, SizeT
  <2>2. Sold \in Nat /\ best.sold \in Nat BY <2>1, SoldType DEF Priced, BestT
  <2>3. q \in Position /\ (q.emode => q.known) BY <1>4 DEF Near
  <2>4. size.cover \in Nat BY DEF Priced, SizeT
  <2>5. r \in Nat
    <3> DEFINE w == Least({size.cover, MaxLiquidatable(q)})
               S == Seized(q, w, Bonus(q))
    <3>1. w \in Nat BY <2>3, <2>4, LimitsType, LeastOfTwo
    <3>2. S \in Nat
      <4> HIDE DEF w
      <4> QED BY <2>3, <3>1, SeizedNearest
    <3>3. q.coll \in Nat BY <2>3, PositionType
    <3>4. AfterFee(S, Bonus(q)) \in Nat /\ AfterFee(q.coll, Bonus(q)) \in Nat
      <4> HIDE DEF S
      <4> QED BY <3>2, <3>3, BonusType, FeeType
    <3>5. r = AfterFee(S, Bonus(q)) \/ r = AfterFee(q.coll, Bonus(q))
      <4> HIDE DEF r
      <4> QED BY <2>3, <2>4, PoolDoes DEF r, S, w
    <3> HIDE DEF r, S
    <3> QED BY <3>4, <3>5
  <2> QED BY <2>2, <2>5
<1> HIDE DEF r
<1>9. best.sold <= r BY <1>6, <1>7, <1>8
<1> QED BY <1>7, <1>9 DEF r

\* A shot of ten thousand wei or more of both tokens survives a drift of an
\* oracle of a fifth of a percent, half a percent of interest, or an HF that
\* passes 0.95, until it lands; provided the drift does not bring it under the
\* close factor, and a full seizure already there has place for its buffer.
THEOREM SoldArrivesHolds == Spec => [](Substantial(size) => SoldArrives)
<1>1. Init => Priced /\ Cut /\ Haircut BY PricedInit, CutInit, HaircutInit
<1>2. Priced /\ Cut /\ Haircut /\ [Next]_vars => (Priced /\ Cut /\ Haircut)'
  <2>1. Priced => Ladder BY DEF Priced
  <2> QED BY <2>1, PricedStep, CutStep, HaircutStep
<1>3. Priced /\ Cut /\ Haircut => (Substantial(size) => SoldArrives) BY ArrivesFollows
<1> QED BY <1>1, <1>2, <1>3, PTL DEF Spec
=============================================================================
