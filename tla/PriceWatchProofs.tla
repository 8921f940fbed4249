--------------------------- MODULE PriceWatchProofs ---------------------------
(***************************************************************************)
(* Proofs about the price caches, for any feeds, adapters and positions.   *)
(* The caches are read at any moments between any pushes; where no push    *)
(* came since the read, they know what the next push will do.              *)
(***************************************************************************)
EXTENDS PriceWatch, FiniteSetTheorems, TLAPS

Entries == [known : BOOLEAN, v : Nat, age : 0..Old]

LEMMA TypeParts ==
  TypeOK <=>
    /\ stored \in [Feeds -> Entries] /\ gw \in [Feeds -> Entries] /\ ch \in [Feeds -> Entries]
    /\ gwMono \in 0..Old /\ chainMono \in 0..Cold /\ moved \subseteq Feeds
    /\ seen \in [Feeds -> Nat]
BY DEF TypeOK, Cache, Entries

-----------------------------------------------------------------------------
(***************************************************************************)
(* Types                                                                   *)
(***************************************************************************)

LEMMA Limits == Old \in Nat /\ Cold \in Nat /\ MAX_AGE \in 0..Old
BY PriceWatchAssumption DEF Old, Cold

LEMMA QuoteType ==
  ASSUME NEW v \in Nat, NEW a \in 0..Old PROVE Quote(v, a) \in Entries
BY DEF Quote, Entries

LEMMA PricedType ==
  ASSUME NEW feeds \in SUBSET Feeds, NEW v \in Priced(feeds), NEW f \in feeds PROVE v[f] \in Nat
<1>1. Prices[f] \subseteq Nat /\ v[f] \in Prices[f] BY PriceWatchAssumption DEF Priced
<1> QED BY <1>1

LEMMA NowType == ASSUME stored \in [Feeds -> Entries] PROVE Now \in [Feeds -> Nat]
BY DEF Now, Entries

LEMMA MissingType == Missing \in Entries
BY Limits DEF Missing, Entries

LEMMA AgedType ==
  ASSUME NEW last \in Nat, NEW age \in 0..last PROVE Aged(age, last) \in 0..last
BY DEF Aged

LEMMA AllAgedType ==
  ASSUME NEW cache \in [Feeds -> Entries] PROVE AllAged(cache) \in [Feeds -> Entries]
<1>1. ASSUME NEW f \in Feeds
      PROVE  (IF cache[f].known THEN [cache[f] EXCEPT !.age = Aged(@, Old)] ELSE cache[f]) \in Entries
  <2>1. cache[f] \in Entries OBVIOUS
  <2>2. cache[f].age \in 0..Old BY <2>1 DEF Entries
  <2>3. Aged(cache[f].age, Old) \in 0..Old BY <2>2, Limits, AgedType
  <2> QED BY <2>1, <2>3 DEF Entries
<1> QED BY <1>1 DEF AllAged

LEMMA InitType == Init => TypeOK
<1> SUFFICES ASSUME Init PROVE TypeOK OBVIOUS
<1>1. stored \in [Feeds -> Entries]
  <2>1. Old \in 0..Old BY Limits
  <2>2. PICK v \in Priced(Feeds) : stored = [f \in Feeds |-> Quote(v[f], Old)] BY DEF Init
  <2>3. ASSUME NEW f \in Feeds PROVE Quote(v[f], Old) \in Entries
    <3>1. v[f] \in Nat BY PricedType
    <3> QED BY <2>1, <3>1, QuoteType
  <2> QED BY <2>2, <2>3
<1>2. gw \in [Feeds -> Entries] /\ ch \in [Feeds -> Entries] BY MissingType DEF Init
<1>3. gwMono \in 0..Old /\ chainMono \in 0..Cold BY Limits DEF Init
<1>4. seen \in [Feeds -> Nat] BY <1>1, NowType DEF Init
<1> QED BY <1>1, <1>2, <1>3, <1>4, TypeParts DEF Init

LEMMA NextType == TypeOK /\ [Next]_vars => TypeOK'
<1> SUFFICES ASSUME TypeOK, [Next]_vars PROVE TypeOK' OBVIOUS
<1>1. /\ stored \in [Feeds -> Entries] /\ gw \in [Feeds -> Entries] /\ ch \in [Feeds -> Entries]
      /\ gwMono \in 0..Old /\ chainMono \in 0..Cold /\ moved \subseteq Feeds
      /\ seen \in [Feeds -> Nat]
  BY TypeParts
<1>2. 0 \in 0..Old /\ 0 \in 0..Cold /\ 0..MAX_AGE \subseteq 0..Old BY Limits
<1>3. ASSUME NEW got \in SUBSET Feeds, TickGateway(got) PROVE TypeOK'
  <2>1. PICK v \in Priced(got), a \in [got -> 0..MAX_AGE] :
          gw' = [f \in Feeds |-> IF f \in got THEN Quote(v[f], a[f]) ELSE gw[f]]
    BY <1>3 DEF TickGateway
  <2>2. ASSUME NEW f \in got PROVE Quote(v[f], a[f]) \in Entries
    <3>1. v[f] \in Nat /\ a[f] \in 0..Old BY <1>2, PricedType
    <3> QED BY <3>1, QuoteType
  <2>3. gw' \in [Feeds -> Entries] BY <1>1, <2>1, <2>2
  <2> QED BY <1>1, <1>2, <1>3, <2>3 DEF TickGateway, TypeOK, Cache, Entries
<1>4. ASSUME NEW got \in SUBSET Feeds, TickChain(got) PROVE TypeOK'
  <2>1. ch' \in [Feeds -> Entries] BY <1>1, <1>4 DEF TickChain
  <2>2. moved' \subseteq Feeds BY <1>1, <1>4 DEF TickChain
  <2> QED BY <1>1, <1>2, <1>4, <2>1, <2>2 DEF TickChain, TypeOK, Cache, Entries
<1>5. ASSUME NEW f \in Feeds, NEW a \in 0..MAX_AGE, NEW v \in Prices[f], Push(f, v, a)
      PROVE  TypeOK'
  <2>1. v \in Nat BY PriceWatchAssumption
  <2>4. Quote(v, a) \in Entries BY <1>2, <2>1, QuoteType
  <2>2. stored' \in [Feeds -> Entries] BY <1>1, <1>5, <2>4 DEF Push
  <2>3. moved' \subseteq Feeds BY <1>1, <1>5 DEF Push
  <2> QED BY <1>1, <1>5, <2>2, <2>3 DEF Push, TypeOK, Cache, Entries
<1>6. CASE Tick
  <2>1. /\ stored' \in [Feeds -> Entries] /\ gw' \in [Feeds -> Entries] /\ ch' \in [Feeds -> Entries]
    BY <1>1, <1>6, AllAgedType DEF Tick
  <2>2. gwMono' \in 0..Old /\ chainMono' \in 0..Cold BY <1>1, <1>6, Limits, AgedType DEF Tick
  <2> QED BY <1>1, <1>6, <2>1, <2>2 DEF Tick, TypeOK, Cache, Entries
<1>7. CASE ReadAccounts
  <2>1. seen' \in [Feeds -> Nat] BY <1>1, <1>7, NowType DEF ReadAccounts
  <2> QED BY <1>1, <1>7, <2>1 DEF ReadAccounts, TypeOK, Cache, Entries
<1>8. CASE UNCHANGED vars BY <1>8 DEF vars, TypeOK, Cache
<1> QED BY <1>3, <1>4, <1>5, <1>6, <1>7, <1>8 DEF Next

\* Every cache keeps its type.
THEOREM PriceWatchTypeCorrect == Spec => []TypeOK
BY InitType, NextType, PTL DEF Spec

-----------------------------------------------------------------------------
(***************************************************************************)
(* The push that is owed                                                   *)
(***************************************************************************)

\* Every feed has a stored price, and what was not pushed since it was read is
\* known as it is stored.
Current ==
  /\ \A f \in Feeds : stored[f].known
  /\ \A f \in Feeds \ moved : ch[f] = stored[f]

LEMMA InitCurrent == Init => Current
<1> SUFFICES ASSUME Init, NEW f \in Feeds PROVE stored[f].known
  BY DEF Init, Current
<1>1. PICK v \in Priced(Feeds) : stored = [g \in Feeds |-> Quote(v[g], Old)] BY DEF Init
<1> QED BY <1>1 DEF Quote

LEMMA NextCurrent == TypeOK /\ Current /\ [Next]_vars => Current'
<1> SUFFICES ASSUME TypeOK, Current, [Next]_vars, NEW f \in Feeds
    PROVE  stored'[f].known /\ (f \notin moved' => ch'[f] = stored'[f])
  BY DEF Current
<1>0. stored \in [Feeds -> Entries] BY TypeParts
<1>1. ASSUME NEW got \in SUBSET Feeds, TickChain(got)
      PROVE  stored'[f].known /\ (f \notin moved' => ch'[f] = stored'[f])
  BY <1>1 DEF TickChain, Current
<1>2. ASSUME NEW g \in Feeds, NEW a \in 0..MAX_AGE, NEW v \in Prices[g], Push(g, v, a)
      PROVE  stored'[f].known /\ (f \notin moved' => ch'[f] = stored'[f])
  <2>1. stored'[f] = IF f = g THEN Quote(v, a) ELSE stored[f] BY <1>0, <1>2 DEF Push
  <2>2. stored'[f].known BY <2>1 DEF Quote, Current
  <2>3. f \notin moved' => f # g /\ f \notin moved BY <1>2 DEF Push
  <2>4. ch' = ch BY <1>2 DEF Push
  <2> QED BY <2>1, <2>2, <2>3, <2>4 DEF Current
<1>3. CASE Tick
  <2>1. /\ stored'[f] = [stored[f] EXCEPT !.age = Aged(@, Old)]
        /\ ch'[f] = IF ch[f].known THEN [ch[f] EXCEPT !.age = Aged(@, Old)] ELSE ch[f]
        /\ moved' = moved
    BY <1>3 DEF Tick, AllAged, Current
  <2>2. stored[f] \in Entries /\ stored[f].known BY <1>0 DEF Current
  <2>3. stored'[f].known BY <2>1, <2>2 DEF Entries
  <2>4. f \notin moved' => ch'[f] = stored'[f] BY <2>1, <2>2 DEF Current
  <2> QED BY <2>3, <2>4
<1>4. CASE UNCHANGED <<stored, ch, moved>> BY <1>4 DEF Current
<1> QED BY <1>1, <1>2, <1>3, <1>4 DEF Next, TickGateway, ReadAccounts, vars

\* The feeds of its pair that plan() expects a push of an adapter to move are the
\* ones that the adapter takes from it.
PushForeseen ==
  \A p \in Positions, a \in {Adapter[f] : f \in Feeds} :
    PairFeeds(p) \cap moved = {} => Pushed(p, a) = Taken(a) \cap PairFeeds(p)

\* Of a position none of whose prices was pushed since the watcher read it, plan()
\* foresees a push feed by feed, for any feeds, adapters and positions.
THEOREM PushForeseenHolds == Spec => []PushForeseen
<1>1. ASSUME Current, TypeOK, NEW p \in Positions, NEW a, PairFeeds(p) \cap moved = {},
             NEW f \in PairFeeds(p)
      PROVE  f \in Pushed(p, a) <=> f \in Taken(a)
  <2>1. f \in Feeds \ moved BY <1>1, PriceWatchAssumption DEF PairFeeds
  <2>2. ch[f] = stored[f] /\ stored[f].known BY <1>1, <2>1 DEF Current
  <2> QED BY <2>1, <2>2 DEF Pushed, Taken, Moves, Accepts
<1>2. TypeOK /\ Current => PushForeseen
  <2> SUFFICES ASSUME TypeOK, Current, NEW p \in Positions, NEW a, PairFeeds(p) \cap moved = {}
               PROVE  Pushed(p, a) = Taken(a) \cap PairFeeds(p)
    BY DEF PushForeseen
  <2>1. \A f \in PairFeeds(p) : f \in Pushed(p, a) <=> f \in Taken(a) BY <1>1
  <2>2. Pushed(p, a) \subseteq PairFeeds(p) BY DEF Pushed
  <2> QED BY <2>1, <2>2
<1> QED BY <1>2, InitCurrent, NextCurrent, PriceWatchTypeCorrect, PTL DEF Spec

-----------------------------------------------------------------------------
(***************************************************************************)
(* Sums over finite sets, unfolded along a smallest subset on which a claim *)
(* fails, as for the counters of ExecutorProofs.                           *)
(***************************************************************************)

\* Among the subsets of a finite set that make up T, one contains no other.
LEMMA MinimalSubset ==
  ASSUME NEW S, IsFiniteSet(S), NEW T, T \subseteq SUBSET S, T # {}
  PROVE  \E t \in T : \A u \in T : u \subseteq t => u = t
<1>1. IsWellFoundedOn(StrictSubsetOrdering(S), SUBSET S)
  BY FS_StrictSubsetOrderingWellFounded, FS_FiniteSubsetsOfFinite
<1>2. \E t \in T : \A u \in T : ~ (<<u, t>> \in StrictSubsetOrdering(S))
  BY <1>1, WFMin
<1> QED BY <1>2 DEF StrictSubsetOrdering

Pick(s) == CHOOSE x \in s : TRUE

\* h is the function that SumFunctionOnSet(f, S) builds: it adds f up, one
\* picked element after the other.
AddsUp(h, f, S) ==
  h = [s \in SUBSET S |-> IF s = {} THEN 0 ELSE f[Pick(s)] + h[s \ {Pick(s)}]]

LEMMA PickType == ASSUME NEW s, s # {} PROVE Pick(s) \in s
BY DEF Pick

\* Two such functions agree where both are defined.
LEMMA SumUnique ==
  ASSUME NEW f, NEW S, NEW R, IsFiniteSet(S), NEW h, NEW g, AddsUp(h, f, S), AddsUp(g, f, R)
  PROVE  \A s \in SUBSET (S \cap R) : h[s] = g[s]
<1> DEFINE T == {s \in SUBSET (S \cap R) : h[s] # g[s]}
<1> SUFFICES ASSUME T # {} PROVE FALSE OBVIOUS
<1>1. PICK t \in T : \A u \in T : u \subseteq t => u = t
  <2>1. T \subseteq SUBSET S OBVIOUS
  <2> HIDE DEF T
  <2> QED BY <2>1, MinimalSubset
<1>2. h[{}] = 0 /\ g[{}] = 0 BY DEF AddsUp
<1>3. t # {} BY <1>2
<1>4. h[t] = f[Pick(t)] + h[t \ {Pick(t)}] /\ g[t] = f[Pick(t)] + g[t \ {Pick(t)}]
  BY <1>3 DEF AddsUp
<1>5. t \ {Pick(t)} \notin T BY <1>1, <1>3, PickType
<1> QED BY <1>4, <1>5

LEMMA SumExists ==
  ASSUME NEW f, NEW S, IsFiniteSet(S)
  PROVE  \E h : AddsUp(h, f, S)
<1> DEFINE T == {t \in SUBSET S : ~ \E h : AddsUp(h, f, t)}
<1> SUFFICES ASSUME T # {} PROVE FALSE OBVIOUS
<1>1. PICK t \in T : \A u \in T : u \subseteq t => u = t
  <2>1. T \subseteq SUBSET S OBVIOUS
  <2> HIDE DEF T
  <2> QED BY <2>1, MinimalSubset
<1> DEFINE of(u) == CHOOSE h : AddsUp(h, f, u)
           rest(s) == s \ {Pick(s)}
           all == [s \in SUBSET t |-> IF s = {} THEN 0 ELSE f[Pick(s)] + of(rest(s))[rest(s)]]
<1>2. ASSUME NEW u \in SUBSET t, u # t PROVE AddsUp(of(u), f, u)
  <2>1. \E h : AddsUp(h, f, u) BY <1>1, <1>2
  <2> QED BY <2>1
<1>3. ASSUME NEW u \in SUBSET t, u # t PROVE all[u] = of(u)[u]
  <2>1. AddsUp(of(u), f, u) BY <1>2, <1>3
  <2>2. CASE u = {}
    <3>1. of(u)[u] = 0 BY <2>1, <2>2 DEF AddsUp
    <3> QED BY <2>2, <3>1
  <2>3. CASE u # {}
    <3>1. rest(u) \in SUBSET u /\ rest(u) # t BY <1>3
    <3>2. AddsUp(of(rest(u)), f, rest(u)) BY <1>2, <3>1
    <3>3. IsFiniteSet(u) BY FS_Subset
    <3>4. of(u)[u] = f[Pick(u)] + of(u)[rest(u)] BY <2>1, <2>3 DEF AddsUp
    <3>5. rest(u) \in SUBSET (u \cap rest(u)) BY <3>1
    <3> HIDE DEF of, rest
    <3>6. of(u)[rest(u)] = of(rest(u))[rest(u)] BY <2>1, <3>2, <3>3, <3>5, SumUnique
    <3> QED BY <1>3, <2>3, <3>4, <3>6
  <2> QED BY <2>2, <2>3
<1>4. ASSUME NEW s \in SUBSET t, s # {} PROVE all[s] = f[Pick(s)] + all[rest(s)]
  <2>1. rest(s) \in SUBSET t /\ rest(s) # t BY <1>4, PickType
  <2>2. all[rest(s)] = of(rest(s))[rest(s)] BY <1>3, <2>1
  <2> QED BY <1>4, <2>2
<1>5. all = [s \in SUBSET t |-> IF s = {} THEN 0 ELSE f[Pick(s)] + all[rest(s)]]
  <2>1. all[{}] = 0 OBVIOUS
  <2>2. DOMAIN all = SUBSET t OBVIOUS
  <2>3. all = [s \in SUBSET t |-> all[s]] OBVIOUS
  <2> HIDE DEF all, rest
  <2> QED BY <1>4, <2>1, <2>3
<1>6. AddsUp(all, f, t) BY <1>5 DEF AddsUp
<1> QED BY <1>6

\* The recursion behind SumFunctionOnSet.
LEMMA SumStep ==
  ASSUME NEW f, NEW S, IsFiniteSet(S)
  PROVE  SumFunctionOnSet(f, S) =
           IF S = {} THEN 0 ELSE f[Pick(S)] + SumFunctionOnSet(f, S \ {Pick(S)})
<1> DEFINE of(u) == CHOOSE h : AddsUp(h, f, u)
           R == S \ {Pick(S)}
<1>1. ASSUME NEW u PROVE SumFunctionOnSet(f, u) = of(u)[u]
  BY DEF SumFunctionOnSet, FoldFunctionOnSet, MapThenFoldSet, AddsUp, Pick
<1>2. AddsUp(of(S), f, S) BY SumExists
<1>3. IsFiniteSet(R) /\ R \in SUBSET (S \cap R) BY FS_Subset
<1>4. AddsUp(of(R), f, R) BY <1>3, SumExists
<1> HIDE DEF of, R
<1>5. of(S)[R] = of(R)[R] BY <1>2, <1>3, <1>4, SumUnique
<1>6. of(S)[S] = IF S = {} THEN 0 ELSE f[Pick(S)] + of(S)[R] BY <1>2 DEF AddsUp, R
<1> QED BY <1>1, <1>5, <1>6 DEF R

LEMMA SumEmpty == ASSUME NEW f PROVE SumFunctionOnSet(f, {}) = 0
BY FS_EmptySet, SumStep

LEMMA SumInt ==
  ASSUME NEW f, NEW S, IsFiniteSet(S), \A x \in S : f[x] \in Int
  PROVE  SumFunctionOnSet(f, S) \in Int
<1> DEFINE T == {t \in SUBSET S : SumFunctionOnSet(f, t) \notin Int}
<1> SUFFICES ASSUME T # {} PROVE FALSE OBVIOUS
<1>1. PICK t \in T : \A u \in T : u \subseteq t => u = t
  <2>1. T \subseteq SUBSET S OBVIOUS
  <2> HIDE DEF T
  <2> QED BY <2>1, MinimalSubset
<1>2. IsFiniteSet(t) BY FS_Subset
<1>3. CASE t = {} BY <1>3, SumEmpty
<1>4. CASE t # {}
  <2>1. Pick(t) \in t /\ t \ {Pick(t)} \notin T BY <1>1, <1>4, PickType
  <2>2. SumFunctionOnSet(f, t) = f[Pick(t)] + SumFunctionOnSet(f, t \ {Pick(t)})
    BY <1>2, <1>4, SumStep
  <2>3. f[Pick(t)] \in Int /\ SumFunctionOnSet(f, t \ {Pick(t)}) \in Int BY <2>1
  <2> QED BY <2>2, <2>3
<1> QED BY <1>3, <1>4

\* Sums add up summand by summand.
LEMMA SumAdd ==
  ASSUME NEW f, NEW g, NEW h, NEW S, IsFiniteSet(S),
         \A x \in S : f[x] \in Int /\ g[x] \in Int /\ h[x] = f[x] + g[x]
  PROVE  SumFunctionOnSet(h, S) = SumFunctionOnSet(f, S) + SumFunctionOnSet(g, S)
<1> DEFINE T == {t \in SUBSET S :
                   SumFunctionOnSet(h, t) # SumFunctionOnSet(f, t) + SumFunctionOnSet(g, t)}
<1> SUFFICES ASSUME T # {} PROVE FALSE OBVIOUS
<1>1. PICK t \in T : \A u \in T : u \subseteq t => u = t
  <2>1. T \subseteq SUBSET S OBVIOUS
  <2> HIDE DEF T
  <2> QED BY <2>1, MinimalSubset
<1>2. IsFiniteSet(t) BY FS_Subset
<1>3. CASE t = {} BY <1>3, SumEmpty
<1>4. CASE t # {}
  <2> DEFINE p == Pick(t)
             r == t \ {p}
  <2>1. p \in t /\ r \notin T /\ r \in SUBSET S BY <1>1, <1>4, PickType
  <2>2. /\ SumFunctionOnSet(f, t) = f[p] + SumFunctionOnSet(f, r)
        /\ SumFunctionOnSet(g, t) = g[p] + SumFunctionOnSet(g, r)
        /\ SumFunctionOnSet(h, t) = h[p] + SumFunctionOnSet(h, r)
    BY <1>2, <1>4, SumStep
  <2>3. IsFiniteSet(r) /\ \A x \in r : f[x] \in Int /\ g[x] \in Int BY <2>1, FS_Subset
  <2> DEFINE F == SumFunctionOnSet(f, r)
             G == SumFunctionOnSet(g, r)
             H == SumFunctionOnSet(h, r)
  <2>4. F \in Int /\ G \in Int
    <3> HIDE DEF r
    <3> QED BY <2>3, SumInt
  <2>5. H = F + G BY <2>1
  <2>6. f[p] \in Int /\ g[p] \in Int /\ h[p] = f[p] + g[p] BY <2>1
  <2>7. SumFunctionOnSet(h, t) # SumFunctionOnSet(f, t) + SumFunctionOnSet(g, t) BY <1>1
  <2>8. h[p] + H # (f[p] + F) + (g[p] + G) BY <2>2, <2>7
  <2> HIDE DEF p, r, F, G, H, T
  <2> QED BY <2>4, <2>5, <2>6, <2>8
<1> QED BY <1>3, <1>4

-----------------------------------------------------------------------------
(***************************************************************************)
(* The estimate                                                            *)
(***************************************************************************)

LEMMA PriceType ==
  ASSUME TypeOK, NEW x \in Feeds
  PROVE  stored[x].v \in Nat /\ gw[x].v \in Nat /\ ch[x].v \in Nat /\ seen[x] \in Nat
BY TypeParts DEF Entries

LEMMA PositionType ==
  ASSUME NEW p \in Positions
  PROVE  /\ p.cushion \in Int
         /\ \A s \in {p.coll, p.debt, p.more, p.owes} : s \subseteq Feeds /\ IsFiniteSet(s)
BY PriceWatchAssumption, FS_Subset

\* Health and its parts are integers; prices that differ by a shift on the
\* feeds of a part move it by what the part makes of the shift.
LEMMA PartTypes ==
  ASSUME NEW p \in Positions, NEW f, \A x \in Feeds : f[x] \in Int
  PROVE  Pair(p, f) \in Int /\ Rest(p, f) \in Int /\ Health(p, f) \in Int
<1>1. /\ SumFunctionOnSet(f, p.coll) \in Int /\ SumFunctionOnSet(f, p.debt) \in Int
      /\ SumFunctionOnSet(f, p.more) \in Int /\ SumFunctionOnSet(f, p.owes) \in Int
  BY PositionType, SumInt
<1>2. Pair(p, f) \in Int /\ Rest(p, f) \in Int BY <1>1 DEF Pair, Rest
<1> QED BY <1>2, PositionType DEF Health

LEMMA PairAdds ==
  ASSUME NEW p \in Positions, NEW f, NEW g, NEW h,
         \A x \in PairFeeds(p) : f[x] \in Int /\ g[x] \in Int /\ h[x] = f[x] + g[x]
  PROVE  Pair(p, h) = Pair(p, f) + Pair(p, g)
<1>1. ASSUME NEW S, S \subseteq PairFeeds(p), IsFiniteSet(S)
      PROVE  /\ SumFunctionOnSet(h, S) = SumFunctionOnSet(f, S) + SumFunctionOnSet(g, S)
             /\ SumFunctionOnSet(f, S) \in Int /\ SumFunctionOnSet(g, S) \in Int
  BY <1>1, SumAdd, SumInt
<1>2. p.coll \subseteq PairFeeds(p) /\ p.debt \subseteq PairFeeds(p) BY DEF PairFeeds
<1>3. IsFiniteSet(p.coll) /\ IsFiniteSet(p.debt) BY PositionType
<1> DEFINE fc == SumFunctionOnSet(f, p.coll)
           gc == SumFunctionOnSet(g, p.coll)
           fd == SumFunctionOnSet(f, p.debt)
           gd == SumFunctionOnSet(g, p.debt)
<1>4. SumFunctionOnSet(h, p.coll) = fc + gc /\ fc \in Int /\ gc \in Int BY <1>1, <1>2, <1>3
<1>5. SumFunctionOnSet(h, p.debt) = fd + gd /\ fd \in Int /\ gd \in Int BY <1>1, <1>2, <1>3
<1>6. /\ Pair(p, f) = fc - fd /\ Pair(p, g) = gc - gd
      /\ Pair(p, h) = SumFunctionOnSet(h, p.coll) - SumFunctionOnSet(h, p.debt)
  BY DEF Pair
<1> HIDE DEF fc, gc, fd, gd
<1> QED BY <1>4, <1>5, <1>6

LEMMA RestAdds ==
  ASSUME NEW p \in Positions, NEW f, NEW g, NEW h,
         \A x \in Feeds : f[x] \in Int /\ g[x] \in Int /\ h[x] = f[x] + g[x]
  PROVE  Rest(p, h) = Rest(p, f) + Rest(p, g)
<1> DEFINE fc == SumFunctionOnSet(f, p.more)
           gc == SumFunctionOnSet(g, p.more)
           fd == SumFunctionOnSet(f, p.owes)
           gd == SumFunctionOnSet(g, p.owes)
<1>1. ASSUME NEW S, S \subseteq Feeds, IsFiniteSet(S)
      PROVE  /\ SumFunctionOnSet(h, S) = SumFunctionOnSet(f, S) + SumFunctionOnSet(g, S)
             /\ SumFunctionOnSet(f, S) \in Int /\ SumFunctionOnSet(g, S) \in Int
  BY <1>1, SumAdd, SumInt
<1>2. SumFunctionOnSet(h, p.more) = fc + gc /\ fc \in Int /\ gc \in Int BY <1>1, PositionType
<1>3. SumFunctionOnSet(h, p.owes) = fd + gd /\ fd \in Int /\ gd \in Int BY <1>1, PositionType
<1>4. /\ Rest(p, f) = fc - fd /\ Rest(p, g) = gc - gd
      /\ Rest(p, h) = SumFunctionOnSet(h, p.more) - SumFunctionOnSet(h, p.owes)
  BY DEF Rest
<1> HIDE DEF fc, gc, fd, gd
<1> QED BY <1>2, <1>3, <1>4

\* What the push leaves is the estimate and what it does not see; and all are
\* integers.
LEMMA EstimateMisses ==
  ASSUME TypeOK, Current, NEW p \in Positions, NEW a, PairFeeds(p) \cap moved = {},
         Pushed(p, a) = Taken(a) \cap PairFeeds(p)
  PROVE  /\ AfterPush(p, a) = Estimate(p, a) + Unseen(p, a)
         /\ Estimate(p, a) \in Int /\ Unseen(p, a) \in Int
         /\ Health(p, seen) \in Int
<1> DEFINE moves == [x \in Feeds |-> IF x \in Pushed(p, a) THEN gw[x].v - ch[x].v ELSE 0]
           takes == [x \in Feeds |-> IF x \in Taken(a) THEN gw[x].v - stored[x].v ELSE 0]
           after == [x \in Feeds |-> IF x \in Taken(a) THEN gw[x].v ELSE stored[x].v]
<1>1. ASSUME NEW x \in Feeds
      PROVE  /\ Now[x] \in Int /\ seen[x] \in Int /\ moves[x] \in Int /\ takes[x] \in Int
             /\ after[x] = Now[x] + takes[x]
  BY PriceType DEF Now
<1>2. PairFeeds(p) \subseteq Feeds BY PriceWatchAssumption DEF PairFeeds
<1>3. ASSUME NEW x \in PairFeeds(p) PROVE after[x] = Now[x] + moves[x]
  <2>1. x \in Feeds /\ ch[x] = stored[x] BY <1>2 DEF Current
  <2>2. x \in Pushed(p, a) <=> x \in Taken(a) OBVIOUS
  <2>3. moves[x] = takes[x] BY <2>1, <2>2
  <2> QED BY <1>1, <2>1, <2>3
<1>4. /\ Estimate(p, a) = Health(p, seen) + Pair(p, moves)
      /\ Unseen(p, a) = Health(p, Now) - Health(p, seen) + Rest(p, takes)
      /\ AfterPush(p, a) = Health(p, after)
  BY DEF Estimate, Unseen, AfterPush
<1> HIDE DEF moves, takes, after
<1>5. Pair(p, after) = Pair(p, Now) + Pair(p, moves) BY <1>1, <1>2, <1>3, PairAdds
<1>6. Rest(p, after) = Rest(p, Now) + Rest(p, takes) BY <1>1, RestAdds
<1>7. /\ Health(p, seen) \in Int /\ Health(p, Now) \in Int /\ Pair(p, moves) \in Int
      /\ Pair(p, Now) \in Int /\ Rest(p, Now) \in Int /\ Rest(p, takes) \in Int
  BY <1>1, PartTypes
<1>8. /\ Health(p, after) = p.cushion + Pair(p, after) + Rest(p, after)
      /\ Health(p, Now) = p.cushion + Pair(p, Now) + Rest(p, Now)
  BY DEF Health
<1>9. p.cushion \in Int BY PositionType
<1> QED BY <1>4, <1>5, <1>6, <1>7, <1>8, <1>9

\* When no feed of the pair moves, the estimate is the health as it was read.
LEMMA NothingPushed ==
  ASSUME TypeOK, NEW p \in Positions, NEW a, Pushed(p, a) = {}
  PROVE  Estimate(p, a) = Health(p, seen)
<1> DEFINE zero == [x \in Feeds |-> IF x \in Pushed(p, a) THEN gw[x].v - ch[x].v ELSE 0]
<1>1. \A x \in PairFeeds(p) : zero[x] = 0 BY PriceWatchAssumption DEF PairFeeds
<1>2. \A x \in Feeds : zero[x] \in Int OBVIOUS
<1>3. Estimate(p, a) = Health(p, seen) + Pair(p, zero) BY DEF Estimate
<1> HIDE DEF zero
<1>4. Pair(p, zero) = Pair(p, zero) + Pair(p, zero) BY <1>1, PairAdds
<1>5. Health(p, seen) \in Int /\ Pair(p, zero) \in Int BY <1>2, PriceType, PartTypes
<1> QED BY <1>3, <1>4, <1>5

\* For any feeds, adapters, prices and positions: as long as what the estimate
\* does not see is within the margin, a window opens only for a push that really
\* sinks the position, and opens for every push that sinks it by more than twice
\* the margin.
THEOREM GateWithinMarginHolds == Spec => []GateWithinMargin
<1>1. TypeOK /\ Current /\ PushForeseen => GateWithinMargin
  <2> SUFFICES ASSUME TypeOK, Current, PushForeseen, NEW p \in Positions,
                      PairFeeds(p) \cap moved = {}, Health(p, seen) >= 0,
                      NEW a \in {Adapter[f] : f \in PairFeeds(p)}
               PROVE  /\ a \in Plan(p) /\ Unseen(p, a) <= MARGIN => AfterPush(p, a) < 0
                      /\ Warm /\ AfterPush(p, a) < -(2 * MARGIN) /\ Unseen(p, a) >= -MARGIN
                           => a \in Plan(p)
    BY DEF GateWithinMargin
  <2>1. a \in {Adapter[f] : f \in Feeds} BY PriceWatchAssumption DEF PairFeeds
  <2>2. Pushed(p, a) = Taken(a) \cap PairFeeds(p) BY <2>1 DEF PushForeseen
  <2>3. /\ AfterPush(p, a) = Estimate(p, a) + Unseen(p, a)
        /\ Estimate(p, a) \in Int /\ Unseen(p, a) \in Int /\ Health(p, seen) \in Int
    BY <2>2, EstimateMisses
  <2>4. MARGIN \in Nat BY PriceWatchAssumption
  <2>5. a \in Plan(p) <=> Warm /\ Pushed(p, a) # {} /\ Estimate(p, a) < -MARGIN BY DEF Plan
  <2>6. a \in Plan(p) /\ Unseen(p, a) <= MARGIN => AfterPush(p, a) < 0
    <3>1. Estimate(p, a) < -MARGIN /\ Unseen(p, a) <= MARGIN => AfterPush(p, a) < 0
      BY <2>3, <2>4
    <3> QED BY <2>5, <3>1
  <2>7. ASSUME AfterPush(p, a) < -(2 * MARGIN), Unseen(p, a) >= -MARGIN
        PROVE  Pushed(p, a) # {} /\ Estimate(p, a) < -MARGIN
    <3>1. Estimate(p, a) < -MARGIN BY <2>3, <2>4, <2>7
    <3>2. Pushed(p, a) = {} => Estimate(p, a) >= 0 BY NothingPushed
    <3> QED BY <2>3, <2>4, <3>1, <3>2
  <2> QED BY <2>5, <2>6, <2>7
<1> QED BY <1>1, InitCurrent, NextCurrent, PriceWatchTypeCorrect, PushForeseenHolds, PTL DEF Spec
=============================================================================
