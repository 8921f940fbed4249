----------------------------- MODULE ReadsProofs ----------------------------
(***************************************************************************)
(* Proofs about the rotating read client and the chunked read of a range,  *)
(* for any number of endpoints and blocks and any timers that meet         *)
(* RotationAssumption.                                                     *)
(***************************************************************************)
EXTENDS Reads, FiniteSetTheorems, WellFoundedInduction, TLAPS

-----------------------------------------------------------------------------
(***************************************************************************)
(* The endpoint picked                                                     *)
(***************************************************************************)

\* A non-empty set of numbers up to k has a least one: of the sets of what lies
\* below a member, one is included in no other.
LEMMA LeastOf ==
  ASSUME NEW k \in Nat, NEW S \in SUBSET (0..k), S # {}
  PROVE  Min(S) \in S /\ \A y \in S : Min(S) <= y
<1> DEFINE below(x) == {y \in S : y < x}
           T == {below(x) : x \in S}
<1>1. IsFiniteSet(S)
  <2>1. IsFiniteSet(0..k) BY FS_Interval
  <2> QED BY <2>1, FS_Subset
<1>2. IsWellFoundedOn(StrictSubsetOrdering(S), SUBSET S)
  BY <1>1, FS_StrictSubsetOrderingWellFounded, FS_FiniteSubsetsOfFinite
<1>3. T \subseteq SUBSET S /\ T # {} OBVIOUS
<1>4. \E t \in T : \A u \in T : ~ (<<u, t>> \in StrictSubsetOrdering(S))
  <2> HIDE DEF T
  <2> QED BY <1>2, <1>3, WFMin
<1>5. PICK x \in S : \A y \in S : ~ (<<below(y), below(x)>> \in StrictSubsetOrdering(S)) BY <1>4
<1>6. ASSUME NEW y \in S, y < x PROVE FALSE
  <2>1. below(y) \subseteq below(x)
    <3>1. ASSUME NEW z \in S, z < y PROVE z < x
      <4>1. x \in Nat /\ y \in Nat /\ z \in Nat OBVIOUS
      <4> QED BY <1>6, <3>1, <4>1
    <3> QED BY <3>1
  <2>2. y \in below(x) /\ y \notin below(y) BY <1>6
  <2>3. <<below(y), below(x)>> \in StrictSubsetOrdering(S)
    BY <2>1, <2>2 DEF StrictSubsetOrdering
  <2> QED BY <1>5, <2>3
<1>7. \A y \in S : x <= y BY <1>6
<1> QED BY <1>7 DEF Min

LEMMA AtIsUrl == ASSUME idx \in Urls, NEW k \in Nat PROVE At(k) \in Urls
BY ReadsAssumption DEF At, Urls

\* An endpoint off the bench, or one that no other comes off before.
LEMMA PickedFirst ==
  ASSUME TypeOK
  PROVE  /\ Picked \in Urls /\ Cursor \in Urls
         /\ \A v \in Urls : bench[Picked] <= bench[v]
<1>1. bench \in [Urls -> 0..BENCH] /\ idx \in Urls /\ Urls \subseteq Nat
  BY ReadsAssumption DEF TypeOK, Urls
<1>2. CASE Unbenched # {}
  <2> DEFINE m == Min(Unbenched)
  <2>1. N - 1 \in Nat /\ Unbenched \subseteq 0..(N - 1) BY ReadsAssumption DEF Unbenched, Urls
  <2>2. m \in Unbenched
    <3>1. Unbenched \in SUBSET (0..(N - 1)) BY <2>1
    <3> QED BY <1>2, <2>1, <3>1, LeastOf
  <2>3. Picked = At(m) /\ Cursor = At(m + 1) BY <1>2 DEF Picked, Cursor
  <2> HIDE DEF m
  <2>4. bench[At(m)] = 0 BY <2>2 DEF Unbenched
  <2>5. m \in Nat /\ m + 1 \in Nat BY <2>1, <2>2
  <2>6. At(m) \in Urls /\ At(m + 1) \in Urls BY <1>1, <2>5, AtIsUrl
  <2> QED BY <1>1, <2>3, <2>4, <2>6, ReadsAssumption
<1>3. CASE Unbenched = {}
  <2> DEFINE times == {bench[u] : u \in Urls}
             first == {u \in Urls : \A v \in Urls : bench[u] <= bench[v]}
  <2>1. times \in SUBSET (0..BENCH) /\ times # {} BY <1>1, ReadsAssumption DEF Urls
  <2>2. Min(times) \in times /\ \A t \in times : Min(times) <= t
    <3> HIDE DEF times
    <3> QED BY <2>1, ReadsAssumption, LeastOf
  <2>3. first # {} BY <2>2
  <2>4. Earliest \in first
    <3>1. N - 1 \in Nat /\ first \subseteq 0..(N - 1) BY ReadsAssumption DEF Urls
    <3>2. Earliest = Min(first) BY DEF Earliest
    <3> HIDE DEF first
    <3> QED BY <2>3, <3>1, <3>2, LeastOf
  <2> QED BY <1>1, <1>3, <2>4 DEF Picked, Cursor
<1> QED BY <1>2, <1>3

-----------------------------------------------------------------------------
(***************************************************************************)
(* Types                                                                   *)
(***************************************************************************)

\* In a range there is a window left to read; attempts are made in a range only,
\* and no more than the retries.
Inside ==
  /\ TypeOK
  /\ phase = "read" => lo <= Last
  /\ trying # None => phase = "read" /\ attempt < RETRIES
  /\ trying = None => spent = 0

LEMMA EndedType ==
  ASSUME TypeOK, NEW b \in BOOLEAN, Ended(b)
  PROVE  /\ idx' \in Urls /\ bench' \in [Urls -> 0..BENCH]
         /\ trying \in Urls /\ trying' = None /\ spent' = 0
<1>1. bench \in [Urls -> 0..BENCH] /\ BENCH \in 0..BENCH BY ReadsAssumption DEF TypeOK
<1>2. [bench EXCEPT ![trying] = BENCH] \in [Urls -> 0..BENCH] BY <1>1
<1> QED BY <1>1, <1>2 DEF Ended, TypeOK

LEMMA FreshType ==
  ASSUME Fresh
  PROVE  /\ attempt' \in 0..RETRIES /\ failed' \in SUBSET Urls /\ theirs' \in SUBSET Urls
         /\ unmarked' \in BOOLEAN
<1>1. attempt' \in 0..RETRIES BY ReadsAssumption DEF Fresh
<1>2. failed' \in SUBSET Urls /\ theirs' \in SUBSET Urls /\ unmarked' \in BOOLEAN BY DEF Fresh
<1> QED BY <1>1, <1>2

LEMMA HiInside ==
  ASSUME Inside, phase = "read" PROVE Hi \in lo..Last
BY ReadsAssumption DEF Inside, TypeOK, Hi

LEMMA WindowFailsType ==
  ASSUME Inside, phase = "read", WindowFails, bench' \in [Urls -> 0..BENCH], idx' \in Urls,
         trying' = None, spent' = 0
  PROVE  Inside'
<1>1. chunk' \in FLOOR..CHUNK
  <2>1. chunk \in FLOOR..CHUNK BY DEF Inside, TypeOK
  <2>2. Halved \in FLOOR..CHUNK BY <2>1, ReadsAssumption DEF Halved
  <2> QED BY <2>1, <2>2 DEF WindowFails
<1>2. phase' \in {"read", "raised"} BY DEF WindowFails
<1>3. fails' \in 0..MAX_FAIL BY ReadsAssumption DEF WindowFails, Inside, TypeOK
<1>4. /\ attempt' \in 0..RETRIES /\ failed' \in SUBSET Urls /\ theirs' \in SUBSET Urls
      /\ unmarked' \in BOOLEAN
  BY FreshType DEF WindowFails
<1>5. UNCHANGED <<lo, got>> BY DEF WindowFails
<1>6. spent' \in 0..HARD BY ReadsAssumption
<1> QED BY <1>1, <1>2, <1>3, <1>4, <1>5, <1>6 DEF Inside, TypeOK

LEMMA InitInside == Init => Inside
<1> SUFFICES ASSUME Init PROVE Inside OBVIOUS
<1>1. idx \in Urls /\ bench \in [Urls -> 0..BENCH] BY ReadsAssumption DEF Init, Urls
<1>2. failed \in SUBSET Urls /\ unmarked \in BOOLEAN BY DEF Init
<1>3. attempt \in 0..RETRIES /\ lo \in 1..(Last + 1) /\ chunk \in FLOOR..CHUNK /\ fails \in 0..MAX_FAIL
  BY ReadsAssumption DEF Init
<1>4. got \in [Blocks -> Nat] BY DEF Init
<1>5. phase = "done" /\ trying = None /\ spent = 0 /\ theirs = {} BY DEF Init
<1>6. 0 \in 0..HARD BY ReadsAssumption
<1> QED BY <1>1, <1>2, <1>3, <1>4, <1>5, <1>6 DEF Inside, TypeOK

LEMMA NextInside == Inside /\ [Next]_vars => Inside'
<1> SUFFICES ASSUME Inside, [Next]_vars PROVE Inside' OBVIOUS
<1>1. TypeOK BY DEF Inside
<1>2. CASE Begin
  <2>1. got' \in [Blocks -> Nat] BY <1>2 DEF Begin
  <2> QED BY <1>2, <2>1, ReadsAssumption DEF Begin, Inside, TypeOK, client, call
<1>3. CASE Try
  <2>1. Picked \in Urls /\ Cursor \in Urls BY <1>1, PickedFirst
  <2>2. idx' \in Urls /\ trying' \in Urls \cup {None} BY <1>3, <2>1 DEF Try
  <2>3. spent' \in 0..HARD BY <1>3, ReadsAssumption DEF Try
  <2> QED BY <1>3, <2>2, <2>3 DEF Try, Inside, TypeOK, range
<1>4. ASSUME NEW b \in BOOLEAN, Fails(b) PROVE Inside'
  <2>1. /\ idx' \in Urls /\ bench' \in [Urls -> 0..BENCH] /\ trying \in Urls
        /\ trying' = None /\ spent' = 0 /\ 0 \in 0..HARD
    BY <1>1, <1>4, EndedType, ReadsAssumption DEF Fails
  <2>2. attempt < RETRIES BY <1>4 DEF Fails, Ended, Inside
  <2>3. attempt' \in 0..RETRIES BY <1>1, <1>4, <2>2, ReadsAssumption DEF Fails, TypeOK
  <2>4. failed' \in SUBSET Urls /\ unmarked' \in BOOLEAN BY <1>1, <1>4, <2>1 DEF Fails, TypeOK
  <2> QED BY <1>4, <2>1, <2>3, <2>4 DEF Fails, range, Inside, TypeOK
<1>5. ASSUME NEW b \in BOOLEAN, Answers(b) PROVE Inside'
  <2>1. /\ idx' \in Urls /\ bench' \in [Urls -> 0..BENCH]
        /\ trying' = None /\ spent' = 0 /\ 0 \in 0..HARD
    BY <1>1, <1>5, EndedType, ReadsAssumption DEF Answers
  <2>2. Hi \in lo..Last /\ lo \in 1..(Last + 1)
    BY <1>5, HiInside DEF Answers, Ended, Inside, TypeOK
  <2>3. lo' = Hi + 1 /\ lo' \in 1..(Last + 1) BY <1>5, <2>2, ReadsAssumption DEF Answers, NextLo
  <2>4. phase' \in {"read", "done"} /\ (phase' = "read" => lo' <= Last)
    BY <1>5, <2>3, ReadsAssumption DEF Answers
  <2>5. got' \in [Blocks -> Nat] BY <1>1, <1>5 DEF Answers, TypeOK
  <2>6. /\ attempt' \in 0..RETRIES /\ failed' \in SUBSET Urls /\ theirs' \in SUBSET Urls
        /\ unmarked' \in BOOLEAN
    BY <1>5, FreshType DEF Answers
  <2>7. chunk' \in FLOOR..CHUNK /\ fails' \in 0..MAX_FAIL
    BY <1>1, <1>5, ReadsAssumption DEF Answers, TypeOK
  <2> QED BY <2>1, <2>3, <2>4, <2>5, <2>6, <2>7 DEF Inside, TypeOK
<1>6. CASE Verdict
  <2>1. phase = "read" BY <1>6 DEF Verdict, Ended, Inside
  <2> QED BY <1>1, <1>6, <2>1, EndedType, WindowFailsType DEF Verdict
<1>7. CASE Exhausted
  <2>1. ~(attempt < RETRIES) BY <1>7, ReadsAssumption DEF Exhausted
  <2>2. trying = None /\ spent = 0 BY <2>1 DEF Inside
  <2> QED BY <1>1, <1>7, <2>2, WindowFailsType DEF Exhausted, client, TypeOK
<1>8. CASE Tick
  <2>1. bench' \in [Urls -> 0..BENCH] BY <1>1, <1>8, ReadsAssumption DEF Tick, TypeOK
  <2>2. spent' \in 0..HARD BY <1>1, <1>8, ReadsAssumption DEF Tick, TypeOK, Inside
  <2> QED BY <1>8, <2>1, <2>2 DEF Tick, Inside, TypeOK, range
<1>9. ASSUME NEW u \in Urls, TheyPick(u) PROVE Inside'
  BY <1>9 DEF TheyPick, Inside, TypeOK, call, range
<1>10. ASSUME NEW u \in Urls, TheyBench(u) PROVE Inside'
  <2>1. bench' \in [Urls -> 0..BENCH] BY <1>1, <1>10, ReadsAssumption DEF TheyBench, TypeOK
  <2>2. theirs' \in SUBSET Urls BY <1>1, <1>10 DEF TheyBench, TypeOK
  <2> QED BY <1>10, <2>1, <2>2 DEF TheyBench, Inside, TypeOK, range
<1>11. CASE UNCHANGED vars BY <1>11 DEF vars, client, call, range, Inside, TypeOK
<1> QED
  BY <1>2, <1>3, <1>4, <1>5, <1>6, <1>7, <1>8, <1>9, <1>10, <1>11 DEF Next, Step, Thread

\* Every variable keeps its type; in particular no window is cut below the
\* floor, and the next endpoint is always one of the list.
THEOREM ReadsTypeCorrect == Spec => []TypeOK
<1>1. Inside => TypeOK BY DEF Inside
<1> QED BY <1>1, InitInside, NextInside, PTL DEF Spec

-----------------------------------------------------------------------------
(***************************************************************************)
(* The range                                                               *)
(***************************************************************************)

LEMMA InitOnce == Init => ReadOnce
BY ReadsAssumption DEF Init, ReadOnce, Blocks

LEMMA NextOnce == Inside /\ ReadOnce /\ [Next]_vars => ReadOnce'
<1> SUFFICES ASSUME Inside, ReadOnce, [Next]_vars PROVE ReadOnce' OBVIOUS
<1>1. CASE Begin
  <2>1. got' = [b \in Blocks |-> IF b < lo' THEN 1 ELSE 0]
    BY <1>1, ReadsAssumption DEF Begin, Blocks
  <2> QED BY <1>1, <2>1 DEF Begin, ReadOnce
<1>2. ASSUME NEW b \in BOOLEAN, Answers(b) PROVE ReadOnce'
  <2>1. Hi \in lo..Last /\ lo \in 1..(Last + 1)
    BY <1>2, HiInside DEF Answers, Ended, Inside, TypeOK
  <2>2. lo' = Hi + 1 BY <1>2 DEF Answers, NextLo
  <2>3. got' = [c \in Blocks |-> IF c \in lo..Hi THEN got[c] + 1 ELSE got[c]] BY <1>2 DEF Answers
  <2>4. ASSUME NEW c \in Blocks
        PROVE  (IF c \in lo..Hi THEN got[c] + 1 ELSE got[c]) = IF c < lo' THEN 1 ELSE 0
    <3>1. got[c] = IF c < lo THEN 1 ELSE 0 BY DEF ReadOnce
    <3> QED BY <2>1, <2>2, <3>1, ReadsAssumption DEF Blocks
  <2>5. got' = [c \in Blocks |-> IF c < lo' THEN 1 ELSE 0] BY <2>3, <2>4
  <2>6. phase' = "done" => lo' = Last + 1 BY <1>2, <2>1, <2>2, ReadsAssumption DEF Answers
  <2> QED BY <2>5, <2>6 DEF ReadOnce
<1>3. CASE UNCHANGED range BY <1>3 DEF range, ReadOnce
<1>4. CASE WindowFails BY <1>4 DEF WindowFails, ReadOnce
<1> QED
  BY <1>1, <1>2, <1>3, <1>4
  DEF Next, Step, Thread, Try, Tick, TheyPick, TheyBench, Fails, Verdict, Exhausted, vars

\* A range that ends well has missed no block and taken none twice.
THEOREM ReadOnceHolds == Spec => []ReadOnce
<1>1. Init => Inside /\ ReadOnce BY InitInside, InitOnce
<1>2. Inside /\ ReadOnce /\ [Next]_vars => (Inside /\ ReadOnce)' BY NextInside, NextOnce
<1> QED BY <1>1, <1>2, PTL DEF Spec

-----------------------------------------------------------------------------
(***************************************************************************)
(* The rotation                                                            *)
(***************************************************************************)

\* While a call has failed at some endpoints only and others are untouched by
\* either caller, it has failed each at an attempt of its own, and is not at one
\* of them again; those are benched for longer than the untouched ones and still
\* are after the attempt under way, however long it takes; the ones the thread
\* benched are benched no shorter than the untouched ones.
Touched == failed \cup theirs
Spared ==
  Touched # Urls /\ ~unmarked =>
    /\ attempt = Cardinality(failed) /\ trying \notin failed
    /\ \A u \in failed : bench[u] + (attempt - 1) * HARD + spent >= BENCH
    /\ \A u \in failed, v \in Urls \ Touched : bench[v] < bench[u]
    /\ \A u \in theirs, v \in Urls \ Touched : bench[v] <= bench[u]
    /\ spent > 0 => \A v \in Urls \ Touched : bench[v] < BENCH
RotInv == Inside /\ Spared /\ (phase # "read" => failed = {} /\ theirs = {} /\ attempt = 0)

\* A proper subset of the endpoints has fewer members.
LEMMA FewerThanAll ==
  ASSUME NEW S \in SUBSET Urls, S # Urls
  PROVE  IsFiniteSet(S) /\ Cardinality(S) \in Nat /\ Cardinality(S) <= N - 1
<1>1. IsFiniteSet(Urls) /\ Cardinality(Urls) = N
  <2>1. 0 \in Int /\ N - 1 \in Int /\ ~(0 > N - 1) BY ReadsAssumption
  <2>2. IsFiniteSet(0..(N - 1)) /\ Cardinality(0..(N - 1)) = (N - 1) - 0 + 1 BY <2>1, FS_Interval
  <2> QED BY <2>2, ReadsAssumption DEF Urls
<1>2. IsFiniteSet(S) /\ Cardinality(S) <= N /\ Cardinality(S) # N BY <1>1, FS_Subset
<1>3. Cardinality(S) \in Nat BY <1>2, FS_CardinalityType
<1> QED BY <1>2, <1>3, ReadsAssumption

LEMMA FreshSpared ==
  ASSUME Fresh, spent' = 0, trying' = None
  PROVE  Spared' /\ failed' = {} /\ theirs' = {} /\ attempt' = 0
BY FS_EmptySet DEF Fresh, Spared, Touched

\* An attempt begins at an endpoint that has not failed the call yet.
LEMMA TrySpared == ASSUME RotInv, Try PROVE Spared'
<1>1. TypeOK /\ bench \in [Urls -> 0..BENCH] /\ spent = 0 BY DEF RotInv, Inside, TypeOK, Try
<1>2. Picked \in Urls /\ \A v \in Urls : bench[Picked] <= bench[v] BY <1>1, PickedFirst
<1>3. /\ UNCHANGED <<bench, attempt, failed, theirs, unmarked>>
      /\ trying' = Picked /\ spent' = 0
  BY DEF Try
<1>4. ASSUME Touched # Urls, ~unmarked, Picked \in failed PROVE FALSE
  <2>1. Touched \in SUBSET Urls BY <1>1 DEF TypeOK, Touched
  <2>2. PICK v \in Urls \ Touched : TRUE BY <1>4, <2>1
  <2>3. bench[v] < bench[Picked] BY <1>4 DEF RotInv, Spared
  <2>4. bench[Picked] <= bench[v] /\ bench[v] \in 0..BENCH /\ bench[Picked] \in 0..BENCH
    BY <1>1, <1>2
  <2> QED BY <2>3, <2>4, ReadsAssumption
<1>5. Touched' = Touched BY <1>3 DEF Touched
<1> QED BY <1>1, <1>3, <1>4, <1>5 DEF RotInv, Spared

\* A failure benches an endpoint of its own for longer than any untouched one.
LEMMA FailsSpared ==
  ASSUME RotInv, NEW b \in BOOLEAN, Fails(b)
  PROVE  Spared'
<1> SUFFICES ASSUME Touched' # Urls, ~unmarked'
    PROVE  /\ attempt' = Cardinality(failed') /\ trying' \notin failed'
           /\ \A u \in failed' : bench'[u] + (attempt' - 1) * HARD + spent' >= BENCH
           /\ \A u \in failed', v \in Urls \ Touched' : bench'[v] < bench'[u]
           /\ \A u \in theirs', v \in Urls \ Touched' : bench'[v] <= bench'[u]
           /\ spent' > 0 => \A v \in Urls \ Touched' : bench'[v] < BENCH
  BY DEF Spared
<1>1. /\ TypeOK /\ bench \in [Urls -> 0..BENCH] /\ failed \in SUBSET Urls /\ attempt \in Nat
      /\ theirs \in SUBSET Urls /\ spent \in 1..HARD /\ trying \in Urls
  <2>1. TypeOK /\ trying \in Urls BY EndedType DEF RotInv, Inside, Fails
  <2>2. spent \in 1..HARD BY <2>1, ReadsAssumption DEF TypeOK, Fails, Ended
  <2> QED BY <2>1, <2>2, ReadsAssumption DEF TypeOK
<1>2. None \notin Urls BY ReadsAssumption DEF None, Urls
<1>3. /\ failed' = failed \cup {trying} /\ attempt' = attempt + 1 /\ theirs' = theirs
      /\ b /\ bench' = [bench EXCEPT ![trying] = BENCH]
      /\ trying' = None /\ spent' = 0 /\ ~unmarked
  BY DEF Fails, Ended
<1>4. Touched' = Touched \cup {trying} /\ Touched \in SUBSET Urls BY <1>1, <1>3 DEF Touched
<1>5. Touched # Urls BY <1>1, <1>4
<1>6. /\ attempt = Cardinality(failed) /\ trying \notin failed
      /\ \A u \in failed : bench[u] + (attempt - 1) * HARD + spent >= BENCH
      /\ \A u \in failed, v \in Urls \ Touched : bench[v] < bench[u]
      /\ \A u \in theirs, v \in Urls \ Touched : bench[v] <= bench[u]
      /\ spent > 0 => \A v \in Urls \ Touched : bench[v] < BENCH
  BY <1>3, <1>5 DEF RotInv, Spared
<1>7. attempt' = Cardinality(failed')
  <2>1. failed # Urls BY <1>1, <1>6
  <2>2. IsFiniteSet(failed) BY <1>1, <2>1, FewerThanAll
  <2>3. Cardinality(failed \cup {trying}) = Cardinality(failed) + 1 BY <1>6, <2>2, FS_AddElement
  <2> QED BY <1>3, <1>6, <2>3
<1>8. trying' \notin failed' BY <1>1, <1>2, <1>3
<1> DEFINE before == (attempt - 1) * HARD
           with == attempt * HARD
<1>9. before \in Int /\ with \in Int /\ with = before + HARD /\ with >= 0
  BY <1>1, ReadsAssumption
<1>10. (attempt' - 1) * HARD = with
  <2>1. attempt' - 1 = attempt BY <1>1, <1>3
  <2> QED BY <2>1
<1>11. \A u \in failed : bench[u] + before + spent >= BENCH BY <1>6
<1> HIDE DEF before, with
<1>12. \A u \in failed' : bench'[u] + with + spent' >= BENCH
  <2>1. ASSUME NEW u \in failed PROVE bench'[u] + with + spent' >= BENCH
    <3>1. bench'[u] = bench[u] /\ bench[u] \in 0..BENCH BY <1>1, <1>3, <1>6
    <3> QED BY <1>1, <1>3, <1>9, <1>11, <3>1, ReadsAssumption
  <2>2. bench'[trying] + with + spent' >= BENCH BY <1>1, <1>3, <1>9, ReadsAssumption
  <2> QED BY <1>3, <2>1, <2>2
<1>13. ASSUME NEW v \in Urls \ Touched' PROVE bench'[v] = bench[v] /\ v \in Urls \ Touched
  BY <1>1, <1>3, <1>4, <1>13
<1>14. \A u \in failed', v \in Urls \ Touched' : bench'[v] < bench'[u]
  <2>1. bench'[trying] = BENCH /\ \A u \in failed : bench'[u] = bench[u] BY <1>1, <1>3, <1>6
  <2>2. \A v \in Urls \ Touched : bench[v] < BENCH BY <1>1, <1>6
  <2> QED BY <1>3, <1>6, <1>13, <2>1, <2>2
<1>15. ASSUME NEW u \in theirs', NEW v \in Urls \ Touched' PROVE bench'[v] <= bench'[u]
  <2>1. bench'[v] = bench[v] /\ bench[v] <= bench[u] /\ bench[v] \in 0..BENCH
    BY <1>1, <1>3, <1>6, <1>13
  <2>2. bench'[u] = IF u = trying THEN BENCH ELSE bench[u] BY <1>1, <1>3
  <2> QED BY <2>1, <2>2, ReadsAssumption
<1> QED BY <1>3, <1>7, <1>8, <1>10, <1>12, <1>14, <1>15

\* Time brings no endpoint that failed the call back before the untouched ones.
LEMMA TickSpared == ASSUME RotInv, Tick PROVE Spared'
<1> SUFFICES ASSUME Touched # Urls, ~unmarked
    PROVE  /\ attempt' = Cardinality(failed') /\ trying' \notin failed'
           /\ \A u \in failed : bench'[u] + (attempt - 1) * HARD + spent' >= BENCH
           /\ \A u \in failed, v \in Urls \ Touched : bench'[v] < bench'[u]
           /\ \A u \in theirs, v \in Urls \ Touched : bench'[v] <= bench'[u]
           /\ spent' > 0 => \A v \in Urls \ Touched : bench'[v] < BENCH
  BY DEF Spared, Tick, Touched
<1>1. /\ bench \in [Urls -> 0..BENCH] /\ failed \in SUBSET Urls /\ attempt \in Nat
      /\ theirs \in SUBSET Urls /\ spent \in Nat
  BY ReadsAssumption DEF RotInv, Inside, TypeOK
<1>2. /\ attempt = Cardinality(failed) /\ trying \notin failed
      /\ \A u \in failed : bench[u] + (attempt - 1) * HARD + spent >= BENCH
      /\ \A u \in failed, v \in Urls \ Touched : bench[v] < bench[u]
      /\ \A u \in theirs, v \in Urls \ Touched : bench[v] <= bench[u]
      /\ spent > 0 => \A v \in Urls \ Touched : bench[v] < BENCH
  BY DEF RotInv, Spared
<1>3. /\ UNCHANGED <<trying, attempt, failed, theirs>>
      /\ bench' = [u \in Urls |-> IF bench[u] > 0 THEN bench[u] - 1 ELSE 0]
      /\ spent' = IF trying = None THEN spent ELSE spent + 1
  BY DEF Tick
<1>4. BENCH \in Nat /\ BENCH > 0
  <2>1. (N - 1) * HARD >= 0 BY ReadsAssumption
  <2>2. (N - 1) * HARD \in Int BY ReadsAssumption
  <2> QED BY <2>1, <2>2, ReadsAssumption, RotationAssumption
<1> DEFINE before == (attempt - 1) * HARD
<1>5. before \in Int BY <1>1, ReadsAssumption
<1>6. ASSUME NEW u \in failed
      PROVE  bench[u] > 1 /\ bench'[u] = bench[u] - 1 /\ bench'[u] + before + spent' >= BENCH
  <2>1. trying # None /\ spent < HARD BY <1>6 DEF RotInv, Tick
  <2>2. failed # Urls BY <1>1 DEF Touched
  <2>3. attempt <= N - 1 BY <1>1, <1>2, <2>2, FewerThanAll
  <2>4. before <= (N - 2) * HARD BY <1>1, <2>3, ReadsAssumption
  <2>5. (N - 2) * HARD + HARD = (N - 1) * HARD /\ (N - 2) * HARD \in Int /\ (N - 1) * HARD \in Int
    BY ReadsAssumption
  <2>6. bench[u] + before + spent >= BENCH /\ bench[u] \in 0..BENCH BY <1>1, <1>2
  <2> HIDE DEF before
  <2>7. before + HARD < BENCH BY <1>4, <1>5, <2>4, <2>5, ReadsAssumption, RotationAssumption
  <2>8. bench[u] > 1 BY <1>1, <1>4, <1>5, <2>1, <2>6, <2>7, ReadsAssumption
  <2>9. bench'[u] = bench[u] - 1 /\ spent' = spent + 1 BY <1>1, <1>3, <2>1, <2>8
  <2> QED BY <1>1, <1>4, <1>5, <2>6, <2>8, <2>9
<1>7. ASSUME NEW v \in Urls
      PROVE  bench[v] \in 0..BENCH /\ bench'[v] = IF bench[v] > 0 THEN bench[v] - 1 ELSE 0
  BY <1>1, <1>3
<1>8. ASSUME NEW u \in failed, NEW v \in Urls \ Touched PROVE bench'[v] < bench'[u]
  <2>1. bench[v] < bench[u] BY <1>2
  <2>2. bench[u] > 1 /\ bench'[u] = bench[u] - 1 BY <1>6
  <2>3. bench[u] \in 0..BENCH BY <1>1
  <2>4. bench[v] \in 0..BENCH /\ bench'[v] = IF bench[v] > 0 THEN bench[v] - 1 ELSE 0 BY <1>7
  <2> HIDE DEF before, Touched
  <2> QED BY <1>4, <2>1, <2>2, <2>3, <2>4
<1>9. \A u \in theirs, v \in Urls \ Touched : bench'[v] <= bench'[u]
  BY <1>1, <1>2, <1>4, <1>7
<1>10. \A v \in Urls : bench'[v] < BENCH BY <1>4, <1>7
<1> QED BY <1>2, <1>3, <1>6, <1>8, <1>9, <1>10

\* What the thread benches is benched no shorter than what nobody touched.
LEMMA TheyBenchSpared ==
  ASSUME RotInv, NEW w \in Urls, TheyBench(w) PROVE Spared'
<1>1. /\ bench \in [Urls -> 0..BENCH] /\ failed \in SUBSET Urls /\ theirs \in SUBSET Urls
      /\ attempt \in Nat /\ spent \in Nat
  BY ReadsAssumption DEF RotInv, Inside, TypeOK
<1>2. /\ UNCHANGED <<trying, spent, attempt, failed, unmarked>>
      /\ bench' = [bench EXCEPT ![w] = BENCH]
  BY DEF TheyBench
<1>3. CASE phase # "read"
  <2>1. failed' = {} /\ theirs' = {} /\ attempt' = 0 BY <1>2, <1>3 DEF RotInv, TheyBench
  <2>2. spent' = 0 BY <1>2, <1>3 DEF RotInv, Inside
  <2> QED BY <2>1, <2>2, FS_EmptySet DEF Spared, Touched
<1>4. CASE phase = "read"
  <2> SUFFICES ASSUME Touched' # Urls, ~unmarked
      PROVE  /\ attempt = Cardinality(failed) /\ trying \notin failed
             /\ \A u \in failed : bench'[u] + (attempt - 1) * HARD + spent >= BENCH
             /\ \A u \in failed, v \in Urls \ Touched' : bench'[v] < bench'[u]
             /\ \A u \in theirs', v \in Urls \ Touched' : bench'[v] <= bench'[u]
             /\ spent > 0 => \A v \in Urls \ Touched' : bench'[v] < BENCH
    BY <1>2 DEF Spared
  <2>1. theirs' = theirs \cup {w} /\ Touched' = Touched \cup {w} /\ Touched \in SUBSET Urls
    BY <1>1, <1>2, <1>4 DEF TheyBench, Touched
  <2>2. Touched # Urls BY <2>1
  <2>3. /\ attempt = Cardinality(failed) /\ trying \notin failed
        /\ \A u \in failed : bench[u] + (attempt - 1) * HARD + spent >= BENCH
        /\ \A u \in failed, v \in Urls \ Touched : bench[v] < bench[u]
        /\ \A u \in theirs, v \in Urls \ Touched : bench[v] <= bench[u]
        /\ spent > 0 => \A v \in Urls \ Touched : bench[v] < BENCH
    BY <2>2 DEF RotInv, Spared
  <2>4. ASSUME NEW u \in Urls
        PROVE  bench[u] \in 0..BENCH /\ bench'[u] \in 0..BENCH /\ bench'[u] >= bench[u]
    BY <1>1, <1>2, ReadsAssumption
  <2>5. ASSUME NEW v \in Urls \ Touched' PROVE v \in Urls \ Touched /\ bench'[v] = bench[v]
    BY <1>1, <1>2, <2>1, <2>5
  <2> DEFINE before == (attempt - 1) * HARD
  <2>6. before \in Int BY <1>1, ReadsAssumption
  <2>7. \A u \in failed : bench'[u] + before + spent >= BENCH
    <3>1. \A u \in failed : bench[u] + before + spent >= BENCH BY <2>3
    <3> HIDE DEF before
    <3> QED BY <1>1, <2>4, <2>6, <3>1, ReadsAssumption
  <2>8. \A u \in failed, v \in Urls \ Touched' : bench'[v] < bench'[u]
    BY <1>1, <2>3, <2>4, <2>5, ReadsAssumption
  <2>9. \A u \in theirs', v \in Urls \ Touched' : bench'[v] <= bench'[u]
    <3>1. bench'[w] = BENCH BY <1>1, <1>2
    <3>2. \A v \in Urls \ Touched' : bench'[v] <= bench'[w] BY <2>4, <3>1, ReadsAssumption
    <3>3. \A u \in theirs, v \in Urls \ Touched' : bench'[v] <= bench'[u]
      BY <1>1, <2>3, <2>4, <2>5, ReadsAssumption
    <3> QED BY <2>1, <3>2, <3>3
  <2>10. spent > 0 => \A v \in Urls \ Touched' : bench'[v] < BENCH BY <2>3, <2>5
  <2> QED BY <2>3, <2>7, <2>8, <2>9, <2>10
<1> QED BY <1>3, <1>4

LEMMA InitRot == Init => RotInv
<1> SUFFICES ASSUME Init PROVE RotInv OBVIOUS
<1>1. failed = {} /\ theirs = {} /\ attempt = 0 /\ spent = 0 BY DEF Init
<1>2. Spared BY <1>1, FS_EmptySet DEF Spared, Touched
<1> QED BY <1>1, <1>2, InitInside DEF RotInv

LEMMA NextRot == RotInv /\ [Next]_vars => RotInv'
<1> SUFFICES ASSUME RotInv, [Next]_vars PROVE RotInv' OBVIOUS
<1>1. Inside' BY NextInside DEF RotInv
<1>2. CASE Begin BY <1>1, <1>2 DEF Begin, RotInv, Spared, Touched, client, call
<1>3. CASE Try BY <1>1, <1>3, TrySpared DEF Try, RotInv, range
<1>4. ASSUME NEW b \in BOOLEAN, Fails(b) PROVE RotInv'
  <2>1. phase' = "read" BY <1>4 DEF Fails, Ended, range, RotInv, Inside
  <2> QED BY <1>1, <1>4, <2>1, FailsSpared DEF RotInv
<1>5. ASSUME Fresh, Verdict \/ Exhausted \/ \E b \in BOOLEAN : Answers(b) PROVE RotInv'
  <2>1. spent' = 0 /\ trying' = None
    <3>1. CASE Exhausted
      <4>1. trying = None /\ spent = 0
        <5>1. attempt = RETRIES /\ RETRIES \in Nat BY <3>1, ReadsAssumption DEF Exhausted
        <5>2. ~(attempt < RETRIES) BY <5>1
        <5> QED BY <5>2 DEF RotInv, Inside
      <4> QED BY <3>1, <4>1 DEF Exhausted
    <3>2. CASE Verdict \/ \E b \in BOOLEAN : Answers(b) BY <3>2 DEF Verdict, Answers, Ended
    <3> QED BY <1>5, <3>1, <3>2
  <2> QED BY <1>1, <1>5, <2>1, FreshSpared DEF RotInv
<1>6. CASE Tick BY <1>1, <1>6, TickSpared DEF Tick, RotInv, range
<1>7. ASSUME NEW u \in Urls, TheyPick(u) PROVE RotInv'
  BY <1>1, <1>7 DEF TheyPick, call, range, RotInv, Spared, Touched
<1>8. ASSUME NEW u \in Urls, TheyBench(u) PROVE RotInv'
  BY <1>1, <1>8, TheyBenchSpared DEF TheyBench, RotInv, range
<1>9. CASE UNCHANGED vars BY <1>1, <1>9 DEF vars, client, call, range, RotInv, Spared, Touched
<1> QED
  BY <1>2, <1>3, <1>4, <1>5, <1>6, <1>7, <1>8, <1>9
  DEF Next, Step, Thread, Answers, Verdict, Exhausted, WindowFails

\* A call whose failures all benched their endpoint gives up only after every
\* endpoint has failed it or was benched by the other thread meanwhile.
THEOREM AllTriedHolds == Spec => []AllTried
<1>1. RotInv => AllTried
  <2> SUFFICES ASSUME RotInv, attempt = RETRIES, ~unmarked, Touched # Urls PROVE FALSE
    BY DEF AllTried, Touched
  <2>1. failed \in SUBSET Urls /\ theirs \in SUBSET Urls /\ attempt = Cardinality(failed)
    BY DEF RotInv, Spared, Inside, TypeOK
  <2>2. failed # Urls BY <2>1 DEF Touched
  <2>3. Cardinality(failed) \in Nat /\ Cardinality(failed) <= N - 1 BY <2>1, <2>2, FewerThanAll
  <2> QED BY <2>1, <2>3, ReadsAssumption, RotationAssumption
<1> QED BY <1>1, InitRot, NextRot, PTL DEF Spec
=============================================================================
