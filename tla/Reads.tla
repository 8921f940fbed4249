--------------------------------- MODULE Reads --------------------------------
(***************************************************************************)
(* analysis/rpc.py: the read client that rotates over the endpoints and    *)
(* benches the failing ones, and get_logs_chunked, which reads a range of  *)
(* blocks through it window by window.  An endpoint may answer each call   *)
(* as it likes; an attempt takes between 1 and HARD units of time.         *)
(*                                                                         *)
(* The loop shares the client with the pre-arm thread (bot/executor.py     *)
(* 1437-1438, refine at 1372), without a lock: the thread's calls move the *)
(* cursor and bench endpoints at any moment of a call of the loop.         *)
(***************************************************************************)
EXTENDS Naturals, FiniteSetsExt

CONSTANTS
  N,               \* endpoints: READ_RPCS
  RETRIES,         \* attempts per call: RPC_RETRIES
  BENCH,           \* bench_sec
  HARD,            \* hard_timeout
  Last,            \* the range of blocks is 1..Last
  CHUNK, FLOOR,    \* the first window, and the least halving leads to
  MAX_FAIL         \* max_consec_failures

ASSUME ReadsAssumption ==
  /\ N \in Nat \ {0} /\ RETRIES \in Nat \ {0} /\ BENCH \in Nat /\ HARD \in Nat \ {0}
  /\ Last \in Nat \ {0} /\ CHUNK \in Nat \ {0} /\ FLOOR \in 1..CHUNK /\ MAX_FAIL \in Nat \ {0}

\* config.py: three endpoints, three retries, 10 s a try, 30 s on the bench.
ASSUME RotationAssumption == N <= RETRIES /\ (N - 1) * HARD < BENCH

VARIABLES
  idx,       \* _idx, modulo N
  bench,     \* how long an endpoint is still benched
  trying,    \* the endpoint of the attempt under way, or none
  spent,     \* how long it has taken
  attempt,   \* failed attempts of this call
  failed,    \* endpoints that failed it
  theirs,    \* history: endpoints the thread benched during this call
  unmarked,  \* one of them was left off the bench
  phase,     \* read, or how the last range ended: done, raised
  lo, chunk, fails,   \* of get_logs_chunked
  got        \* how often the logs of a block were taken

client == <<idx, bench>>
call == <<trying, spent, attempt, failed, theirs, unmarked>>
range == <<phase, lo, chunk, fails, got>>
vars == <<client, call, range>>

Urls == 0..(N - 1)
None == N
Blocks == 1..Last

Init ==
  /\ idx = 0 /\ bench = [u \in Urls |-> 0]
  /\ trying = None /\ spent = 0
  /\ attempt = 0 /\ failed = {} /\ theirs = {} /\ unmarked = FALSE
  /\ phase = "done" /\ lo = Last + 1 /\ chunk = CHUNK /\ fails = 0
  /\ got = [b \in Blocks |-> 1]

-----------------------------------------------------------------------------
(***************************************************************************)
(* Rpc.call                                                                *)
(***************************************************************************)

At(k) == (idx + k) % N
Unbenched == {k \in Urls : bench[At(k)] = 0}
Earliest == Min({u \in Urls : \A v \in Urls : bench[u] <= bench[v]})

\* Variant: with every endpoint benched, the one under the cursor is tried.
Picked_Cursor == IF Unbenched = {} THEN At(0) ELSE At(Min(Unbenched))

\* _pick_url: the next one off the bench, or the first to come off it.
Picked == IF Unbenched = {} THEN Earliest ELSE At(Min(Unbenched))
Cursor == IF Unbenched = {} THEN idx ELSE At(Min(Unbenched) + 1)

Try ==
  /\ phase = "read" /\ trying = None /\ attempt < RETRIES
  /\ trying' = Picked /\ spent' = 0 /\ idx' = Cursor
  /\ UNCHANGED <<bench, attempt, failed, theirs, unmarked, range>>

\* The attempt is over, and its endpoint may be benched from now on.
Ended(benched) ==
  /\ trying # None /\ spent > 0
  /\ trying' = None /\ spent' = 0
  /\ bench' = IF benched THEN [bench EXCEPT ![trying] = BENCH] ELSE bench
  /\ UNCHANGED idx

Fresh == attempt' = 0 /\ failed' = {} /\ theirs' = {} /\ unmarked' = FALSE

\* A rate limit, a hang, a broken connection or garbage benches the endpoint;
\* an HTTP error other than 429 does not.
Fails(benched) ==
  /\ Ended(benched)
  /\ attempt' = attempt + 1 /\ failed' = failed \cup {trying}
  /\ unmarked' = (unmarked \/ ~benched)
  /\ UNCHANGED <<theirs, range>>

\* Time passes, for an attempt up to the hard deadline.
Tick ==
  /\ phase = "read" => trying # None /\ spent < HARD
  /\ spent' = IF trying = None THEN spent ELSE spent + 1
  /\ bench' = [u \in Urls |-> IF bench[u] > 0 THEN bench[u] - 1 ELSE 0]
  /\ UNCHANGED <<idx, trying, attempt, failed, theirs, unmarked, range>>

(***************************************************************************)
(* The pre-arm thread, in a call of its own                                *)
(***************************************************************************)

\* It picks an endpoint; of two increments at once one may be lost.
TheyPick(i) == idx' = i /\ UNCHANGED <<bench, call, range>>

\* One of its attempts ends and benches the endpoint.
TheyBench(u) ==
  /\ bench' = [bench EXCEPT ![u] = BENCH]
  /\ theirs' = IF phase = "read" THEN theirs \cup {u} ELSE theirs
  /\ UNCHANGED <<idx, trying, spent, attempt, failed, unmarked, range>>

-----------------------------------------------------------------------------
(***************************************************************************)
(* get_logs_chunked                                                        *)
(***************************************************************************)

Begin ==
  /\ phase # "read" /\ phase' = "read"
  /\ lo' = 1 /\ chunk' = CHUNK /\ fails' = 0 /\ got' = [b \in Blocks |-> 0]
  /\ UNCHANGED <<client, call>>

Hi == IF lo + chunk - 1 < Last THEN lo + chunk - 1 ELSE Last

\* Variant: the next window begins with the last block of this one.
NextLo_Overlap(hi) == IF hi < Last THEN hi ELSE hi + 1
NextLo(hi) == hi + 1

\* The window's logs: an answer, fast or slow enough to be benched for it.
Answers(slow) ==
  /\ Ended(slow) /\ Fresh
  /\ got' = [b \in Blocks |-> IF b \in lo..Hi THEN got[b] + 1 ELSE got[b]]
  /\ lo' = NextLo(Hi) /\ fails' = 0
  /\ phase' = IF lo' > Last THEN "done" ELSE "read"
  /\ UNCHANGED chunk

\* Variant: as before 18 July, with no bound on the failures in a row.
GivesUp_Unbounded == Hi = lo
GivesUp == fails + 1 >= MAX_FAIL \/ Hi = lo

\* Variant: halving without the floor.
Halved_NoFloor == chunk \div 2
Halved == IF chunk \div 2 < FLOOR THEN FLOOR ELSE chunk \div 2

\* The window failed: it is tried again, smaller, or the range is given up.
WindowFails ==
  /\ Fresh
  /\ fails' = IF fails < MAX_FAIL THEN fails + 1 ELSE fails
  /\ IF GivesUp THEN phase' = "raised" /\ UNCHANGED chunk
                ELSE chunk' = Halved /\ UNCHANGED phase
  /\ UNCHANGED <<lo, got>>

\* The retries of a call are used up.
Exhausted ==
  /\ phase = "read" /\ attempt = RETRIES
  /\ WindowFails /\ UNCHANGED <<client, trying, spent>>

\* An error of the request itself is not retried and benches nobody.
Verdict == Ended(FALSE) /\ WindowFails

Step == Try \/ (\E b \in BOOLEAN : Fails(b) \/ Answers(b)) \/ Verdict \/ Exhausted
Thread == \E u \in Urls : TheyPick(u) \/ TheyBench(u)

Next == Begin \/ Tick \/ Step \/ Thread

\* The reader goes on: every attempt ends, by the hard deadline at the latest.
Spec == Init /\ [][Next]_vars /\ WF_vars(Tick) /\ WF_vars(Step)

-----------------------------------------------------------------------------
(***************************************************************************)
(* Properties                                                              *)
(***************************************************************************)

\* The values every variable keeps.
TypeOK ==
  /\ idx \in Urls /\ bench \in [Urls -> 0..BENCH]
  /\ trying \in Urls \cup {None} /\ spent \in 0..HARD
  /\ attempt \in 0..RETRIES /\ failed \in SUBSET Urls /\ theirs \in SUBSET Urls /\ unmarked \in BOOLEAN
  /\ phase \in {"read", "done", "raised"}
  /\ lo \in 1..(Last + 1) /\ chunk \in FLOOR..CHUNK /\ fails \in 0..MAX_FAIL
  /\ got \in [Blocks -> Nat]

\* The blocks before the window were read once and the others not at all, so
\* a range that ends well has missed and doubled nothing, whatever windows
\* failed, were halved and tried again (discovery moves its checkpoint on it).
ReadOnce ==
  /\ got = [b \in Blocks |-> IF b < lo THEN 1 ELSE 0]
  /\ phase = "done" => lo = Last + 1

\* A call gives up only when every endpoint has failed it or was benched by the
\* other thread while it lasted, also when earlier calls left the good ones
\* benched ("a single-endpoint hiccup rotates rather than dropping a pass").
\* The thread's failures can make it spend two attempts on one endpoint and none
\* on another, but only on one they found bad.  It takes every failure to bench
\* its endpoint, which an HTTP 5xx does not, and a bench longer than the
\* attempts before.
AllTried == attempt = RETRIES /\ ~unmarked => failed \cup theirs = Urls

\* A range is read or given up ("spun the caller infinitely" before the fix).
ReadEnds == phase = "read" ~> phase # "read"
=============================================================================
