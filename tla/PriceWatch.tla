----------------------------- MODULE PriceWatch -----------------------------
(***************************************************************************)
(* bot/spec.py: the thread that follows the signed prices of the gateway   *)
(* and the prices stored on the chain, and plan(), which says of a         *)
(* position whether the push its relayer owes would put it under water.    *)
(*                                                                         *)
(* Prices are small integers and a position's health is linear in them:    *)
(* its cushion, plus the prices of its collateral, minus those of its      *)
(* debt; below 0 it is liquidatable.  The ratios of the code (an estimate  *)
(* is hf times a quotient of products) become differences.  The estimate   *)
(* starts from a health read earlier and moves only the pair of assets the *)
(* shot is about; what it does not see is what the margin MARGIN is for.   *)
(* Ages stop where nothing tells them apart.                               *)
(***************************************************************************)
EXTENDS Integers, FiniteSets, Functions

CONSTANTS
  Feeds,
  Prices,          \* the prices a feed may take
  Adapter,         \* the adapter that stores a feed
  Positions,       \* [cushion, coll, debt, more, owes]: sets of feeds, those
                   \* of the pair and those of the other assets
  MAX_AGE,         \* a package, or the gateway cache, older than this is cold
  CHAIN_WARM,      \* the chain cache older than this is cold
  MIN_DEVIATION,   \* the relayer pushes at this difference
  MARGIN           \* 1 less SPEC_HF_FIRE: a window opens below minus this

ASSUME PriceWatchAssumption ==
  /\ IsFiniteSet(Feeds) /\ Prices \in [Feeds -> SUBSET Nat]
  /\ MAX_AGE \in Nat /\ CHAIN_WARM \in Nat /\ MIN_DEVIATION \in Nat \ {0} /\ MARGIN \in Nat
  /\ DOMAIN Adapter = Feeds
  /\ \A p \in Positions :
       /\ p.cushion \in Int /\ p.coll \subseteq Feeds /\ p.debt \subseteq Feeds
       /\ p.more \subseteq Feeds /\ p.owes \subseteq Feeds

VARIABLES
  stored,     \* the chain: value and age of the stored price, per feed
  gw,         \* _gw: value and age of the package, per feed
  ch,         \* _chain: the same of the price read off the chain
  gwMono,     \* _meta: age of the last answer of the gateway
  chainMono,  \* and of the multicall
  seen,       \* the stored prices when the loop last read the accounts
  moved       \* history: feeds pushed since they were last read, or never read

vars == <<stored, gw, ch, gwMono, chainMono, seen, moved>>

Old == MAX_AGE + 1      \* no package of this age counts
Cold == CHAIN_WARM + 1
Missing == [known |-> FALSE, v |-> 0, age |-> Old]
Quote(v, a) == [known |-> TRUE, v |-> v, age |-> a]

\* Prices that the feeds of a set may have.
Priced(feeds) == {v \in [feeds -> UNION {Prices[f] : f \in feeds}] : \A f \in feeds : v[f] \in Prices[f]}

\* The stored prices.
Now == [f \in Feeds |-> stored[f].v]

Init ==
  /\ \E v \in Priced(Feeds) : stored = [f \in Feeds |-> Quote(v[f], Old)]
  /\ gw = [f \in Feeds |-> Missing] /\ ch = [f \in Feeds |-> Missing]
  /\ gwMono = Old /\ chainMono = Cold /\ moved = Feeds
  /\ seen = Now

-----------------------------------------------------------------------------
(***************************************************************************)
(* The watcher thread: _tick_gateway, _tick_chain                          *)
(***************************************************************************)

\* Young packages of the feeds in got pass _validated; the others stay.
TickGateway(got) ==
  /\ \E v \in Priced(got), a \in [got -> 0..MAX_AGE] :
       gw' = [f \in Feeds |-> IF f \in got THEN Quote(v[f], a[f]) ELSE gw[f]]
  /\ gwMono' = 0
  /\ UNCHANGED <<stored, ch, chainMono, seen, moved>>

\* Variant: the chain's prices are taken with the time of the read.
TickChainReadTime(got) ==
  /\ ch' = [f \in Feeds |-> IF f \in got THEN [stored[f] EXCEPT !.age = 0] ELSE ch[f]]
  /\ chainMono' = 0 /\ moved' = moved \ got
  /\ UNCHANGED <<stored, gw, gwMono, seen>>

\* The multicall answers for got; the cache counts as refreshed in any case.
TickChain(got) ==
  /\ ch' = [f \in Feeds |-> IF f \in got THEN stored[f] ELSE ch[f]]
  /\ chainMono' = 0 /\ moved' = moved \ got
  /\ UNCHANGED <<stored, gw, gwMono, seen>>

\* The loop reads the accounts, and with them every position's health.
ReadAccounts == seen' = Now /\ UNCHANGED <<stored, gw, ch, gwMono, chainMono, moved>>

-----------------------------------------------------------------------------
(***************************************************************************)
(* Surroundings: the relayer and time                                      *)
(***************************************************************************)

\* The adapter refuses a package that is not newer than what it stores.
Accepts(f, age) == age < stored[f].age

Push(f, v, a) ==
  /\ Accepts(f, a)
  /\ stored' = [stored EXCEPT ![f] = Quote(v, a)]
  /\ moved' = moved \cup {f}
  /\ UNCHANGED <<gw, ch, gwMono, chainMono, seen>>

\* Variant: one too far.
Aged_Past(age, last) == IF age <= last THEN age + 1 ELSE age

Aged(age, last) == IF age < last THEN age + 1 ELSE age
AllAged(cache) ==
  [f \in Feeds |-> IF cache[f].known THEN [cache[f] EXCEPT !.age = Aged(@, Old)] ELSE cache[f]]

Tick ==
  /\ stored' = AllAged(stored) /\ gw' = AllAged(gw) /\ ch' = AllAged(ch)
  /\ gwMono' = Aged(gwMono, Old) /\ chainMono' = Aged(chainMono, Cold)
  /\ UNCHANGED <<seen, moved>>

Next ==
  \/ \E got \in SUBSET Feeds : TickGateway(got) \/ TickChain(got)
  \/ \E f \in Feeds, a \in 0..MAX_AGE : \E v \in Prices[f] : Push(f, v, a)
  \/ Tick \/ ReadAccounts

Spec == Init /\ [][Next]_vars

-----------------------------------------------------------------------------
(***************************************************************************)
(* plan()                                                                  *)
(***************************************************************************)

Warm == gwMono <= MAX_AGE /\ chainMono <= CHAIN_WARM

Distance(x, y) == IF x >= y THEN x - y ELSE y - x

\* Variant: a package as old as the stored price will do.
MovesNotNewer(f) ==
  /\ gw[f].known /\ ch[f].known
  /\ gw[f].age <= MAX_AGE /\ gw[f].age <= ch[f].age
  /\ Distance(gw[f].v, ch[f].v) >= MIN_DEVIATION

\* A feed whose price the push will move: a fresh package, newer than a known
\* stored value, and far enough from it for the relayer to push.
Moves(f) ==
  /\ gw[f].known /\ ch[f].known
  /\ gw[f].age <= MAX_AGE /\ gw[f].age < ch[f].age
  /\ Distance(gw[f].v, ch[f].v) >= MIN_DEVIATION

\* What the pair, and what the other assets add to the health.
Pair(p, price) == SumFunctionOnSet(price, p.coll) - SumFunctionOnSet(price, p.debt)
Rest(p, price) == SumFunctionOnSet(price, p.more) - SumFunctionOnSet(price, p.owes)
Health(p, price) == p.cushion + Pair(p, price) + Rest(p, price)

PairFeeds(p) == p.coll \cup p.debt

\* Feeds of the pair that one push, of adapter a, moves.
Pushed(p, a) == {f \in PairFeeds(p) : Adapter[f] = a /\ Moves(f)}

\* hf_est: the health as it was read, shifted by what the push changes of the
\* pair; the rest of the position is taken to stand still.
Estimate(p, a) ==
  Health(p, seen) + Pair(p, [f \in Feeds |-> IF f \in Pushed(p, a) THEN gw[f].v - ch[f].v ELSE 0])

\* The adapters one of whose pushes sinks the position below the margin; plan()
\* takes the one with the lowest estimate.
Plan(p) ==
  {a \in {Adapter[f] : f \in PairFeeds(p)} :
     Warm /\ Pushed(p, a) # {} /\ Estimate(p, a) < -MARGIN}

-----------------------------------------------------------------------------
(***************************************************************************)
(* Properties                                                              *)
(***************************************************************************)

Cache(entries) == entries \in [Feeds -> [known : BOOLEAN, v : Nat, age : 0..Old]]

\* The values every variable keeps.
TypeOK ==
  /\ Cache(stored) /\ Cache(gw) /\ Cache(ch)
  /\ gwMono \in 0..Old /\ chainMono \in 0..Cold /\ moved \subseteq Feeds
  /\ seen \in [Feeds -> Nat]

\* What a push of adapter a brings: it carries the fresh packages that differ
\* enough, and the adapter takes the newer ones.
Taken(a) ==
  {f \in Feeds :
     /\ Adapter[f] = a /\ gw[f].known /\ gw[f].age <= MAX_AGE
     /\ Accepts(f, gw[f].age) /\ Distance(gw[f].v, stored[f].v) >= MIN_DEVIATION}
AfterPush(p, a) ==
  Health(p, [f \in Feeds |-> IF f \in Taken(a) THEN gw[f].v ELSE stored[f].v])

\* What the estimate does not see: the pushes since the accounts were read, and
\* what this push does to the rest of the position.
Unseen(p, a) ==
  Health(p, Now) - Health(p, seen)
    + Rest(p, [f \in Feeds |-> IF f \in Taken(a) THEN gw[f].v - stored[f].v ELSE 0])

\* As long as the watcher has read the pair's prices since they were last pushed
\* and what the estimate does not see is within the margin: a position read as
\* healthy is probed only for a push that really sinks it ("a target that did
\* not cross" is never admitted, test_spec.py:697), and a push that sinks it by
\* more than twice the margin is never missed, whatever old packages, packages
\* of another adapter and prices that single reads of a multicall failed to
\* renew are in the caches.  One that sinks it by less may be missed: that is
\* what SPEC_HF_FIRE gives up for being sure.
GateWithinMargin ==
  \A p \in Positions : \A a \in {Adapter[f] : f \in PairFeeds(p)} :
    PairFeeds(p) \cap moved = {} /\ Health(p, seen) >= 0 =>
      /\ a \in Plan(p) /\ Unseen(p, a) <= MARGIN => AfterPush(p, a) < 0
      /\ Warm /\ AfterPush(p, a) < -(2 * MARGIN) /\ Unseen(p, a) >= -MARGIN => a \in Plan(p)
=============================================================================
