------------------------------ MODULE Executor ------------------------------
(***************************************************************************)
(* bot/executor.py: the live loop, its journal in memory and on disk, the  *)
(* transactions it puts on the chain, the operator and the process         *)
(* supervisor.                                                             *)
(*                                                                         *)
(* One loop iteration is: roll the day, settle the receipts of earlier     *)
(* shots, evaluate the kill-switch, fire at liquidatable positions, send   *)
(* speculative probes, save the image (or save and exit).  The clock moves *)
(* between iterations (the code reads it once per iteration); the process   *)
(* dies at any moment.  The operator's reset is a process of its own: it   *)
(* reads the file and later writes it, and takes no lock, so anything can  *)
(* happen in between.  When a transaction is mined shows only when its     *)
(* receipt is read, so the read picks the fate.                            *)
(***************************************************************************)
EXTENDS Journal, FiniteSetsExt

CONSTANTS
  RAW_TX,        \* TRUE: sign and broadcast; FALSE: blocking `cast send`
  SPEC_QUEUE,    \* TRUE: one probe per pass; FALSE: one per open window
  GasEst,        \* estimates gas_cost_usd may return
  GasActual,     \* real costs a receipt may carry
  MaxClock,      \* bound: the clock
  LastFire,      \* bound: no shot after this time
  MaxDay,        \* bound: UTC days
  MaxRefused,    \* bound: broadcasts refused
  MaxCrashes,    \* bound: kills of the process
  MaxResets      \* bound: operator resets

ASSUME ExecutorAssumption ==
  /\ RAW_TX \in BOOLEAN /\ SPEC_QUEUE \in BOOLEAN
  /\ GasEst \subseteq Nat /\ GasActual \subseteq Nat
  /\ MaxClock \in Nat /\ LastFire \in Nat /\ MaxDay \in Nat
  /\ MaxRefused \in Nat /\ MaxCrashes \in Nat /\ MaxResets \in Nat

\* The process.
VARIABLES
  pc,        \* where the loop is; "down" when no process runs
  st,        \* the image in memory (equal to disk when no process runs)
  todo,      \* keys this pass of _check_pending has yet to look at
  guard,     \* the iteration's guard_ok answer
  done,      \* targets this pass has already shot at
  specSeq    \* _spec_seq["n"], the process-wide probe number

\* Its surroundings.
VARIABLES
  disk,      \* the image in C.STATE_FILE
  shot,      \* per transaction: the key it was fired under and when
  fate,      \* per transaction: unsent, pool (no receipt read yet), win, revert
  clock,     \* time, in timer units
  utc,       \* the current UTC day
  refused, crashes, resets,
  lost,      \* history: transactions whose record was saved by nobody
  resetting, \* the operator's reset has read the file and not yet written it
  held       \* the image that reset read

proc  == <<pc, st, todo, guard, done, specSeq>>
chain == <<shot, fate>>
operator == <<resetting, held>>
env   == <<clock, utc, refused, crashes, resets, lost, resetting, held>>
vars  == <<pc, st, todo, guard, done, specSeq, disk, shot, fate,
           clock, utc, refused, crashes, resets, lost, resetting, held>>

PCs == {"down", "tripped", "top", "settle", "fire", "probe", "save"}
Fates == {"unsent", "pool", "win", "revert"}

Fresh(x) == fate[x] = "unsent" /\ \A y \in 1..(x - 1) : fate[y] # "unsent"

Tracks(s, x) == \E k \in Keys : InFlight(s.sent[k]) /\ s.sent[k].tx = x

Init ==
  /\ pc = "down" /\ st = FreshImage /\ disk = FreshImage
  /\ todo = {} /\ guard = TRUE /\ done = {} /\ specSeq = 0
  /\ shot = [x \in Txs |-> [key |-> CHOOSE k \in Keys : TRUE, at |-> 0]]
  /\ fate = [x \in Txs |-> "unsent"]
  /\ clock = 0 /\ utc = 0 /\ refused = 0 /\ crashes = 0 /\ resets = 0 /\ lost = {}
  /\ resetting = FALSE /\ held = FreshImage

-----------------------------------------------------------------------------
(***************************************************************************)
(* Start of the process                                                    *)
(***************************************************************************)

\* loop(): take the lock, load the image; the guard holds, so go on.
Start ==
  /\ pc = "down" /\ GuardOK(disk)
  /\ pc' = "top" /\ st' = disk /\ specSeq' = 0
  /\ todo' = {} /\ guard' = TRUE /\ done' = {}
  /\ UNCHANGED <<disk, chain, env>>

\* loop(): the guard is already tripped.  The alert is sent before the image
\* is saved, so the file can change between the two steps.
StartTripped ==
  /\ pc = "down" /\ ~GuardOK(disk)
  /\ pc' = "tripped" /\ st' = disk
  /\ UNCHANGED <<todo, guard, done, specSeq, disk, chain, env>>

TrippedExit ==
  /\ pc = "tripped"
  /\ pc' = "down" /\ disk' = st
  /\ UNCHANGED <<st, todo, guard, done, specSeq, chain, env>>

-----------------------------------------------------------------------------
(***************************************************************************)
(* Settling earlier shots: _check_pending                                  *)
(***************************************************************************)

\* _roll_day, then the journal's in-flight records are collected.
BeginIteration ==
  /\ pc = "top"
  /\ st' = RollDay(st, utc)
  /\ todo' = {k \in Keys : InFlight(st.sent[k])}
  /\ pc' = "settle"
  /\ UNCHANGED <<guard, done, specSeq, disk, chain, env>>

\* The record as the read of its receipt finds it.
Walled(k) == StaleWall(st.sent[k], clock)
Polled(k) == [Walled(k) EXCEPT !.poll = clock]

Looked(k) == todo' = todo \ {k} /\ UNCHANGED <<pc, guard, done, specSeq, disk, chain, env>>

\* A stale record between two polls is left alone.
SkipThrottled(k) ==
  /\ pc = "settle" /\ k \in todo /\ Throttled(Walled(k), clock)
  /\ st' = [st EXCEPT !.sent[k] = Walled(k)]
  /\ Looked(k)

\* Not mined, the read threw, or the status did not parse: read again later.
NoVerdict(k) ==
  /\ pc = "settle" /\ k \in todo /\ ~Throttled(Walled(k), clock)
  /\ st' = [st EXCEPT !.sent[k] = Polled(k)]
  /\ Looked(k)

\* The receipt decides: the transaction was mined some time before this read.
\* An unreadable cost falls back on the estimate.
Decide(k) ==
  LET x == st.sent[k].tx IN
  /\ pc = "settle" /\ k \in todo /\ ~Throttled(Walled(k), clock)
  /\ \E f \in IF fate[x] = "pool" THEN {"win", "revert"} ELSE {fate[x]},
        actual \in GasActual \cup {st.sent[k].gas} :
       /\ fate' = [fate EXCEPT ![x] = f]
       /\ st' = Settle(st, k, Polled(k), f = "win", actual)
  /\ todo' = todo \ {k}
  /\ UNCHANGED <<pc, guard, done, specSeq, disk, shot, env>>

\* Variant: the guard answer of the previous iteration is kept.
EndSettle_StaleGuard ==
  /\ pc = "settle" /\ todo = {}
  /\ st' = Purge(st, clock)
  /\ pc' = "fire" /\ done' = {}
  /\ UNCHANGED <<todo, guard, specSeq, disk, chain, env>>

\* The purge ends _check_pending; guard_ok follows once the sweep has read.
EndSettle ==
  /\ pc = "settle" /\ todo = {}
  /\ st' = Purge(st, clock)
  /\ guard' = GuardOK(st')
  /\ pc' = "fire" /\ done' = {}
  /\ UNCHANGED <<todo, specSeq, disk, chain, env>>

-----------------------------------------------------------------------------
(***************************************************************************)
(* Firing                                                                  *)
(***************************************************************************)

\* Transaction x goes out under key k.
Broadcast(x, k, f) ==
  /\ Fresh(x) /\ clock <= LastFire
  /\ fate' = [fate EXCEPT ![x] = f]
  /\ shot' = [shot EXCEPT ![x] = [key |-> k, at |-> clock]]

\* The node refuses the transaction, or it is never signed.
Refuse ==
  /\ clock <= LastFire /\ refused < MaxRefused
  /\ refused' = refused + 1
  /\ UNCHANGED <<clock, utc, crashes, resets, lost, operator>>

\* A liquidatable target of this pass that the dedup lets through.  Targets
\* cured, unprofitable or without a route are simply not fired at.
MayFire(b) == pc = "fire" /\ guard /\ b \notin done /\ ~RecentlyFired(st, <<b, 0>>, clock)

\* _fire_raw, accepted or unknown: both are booked as pending.
FireRaw(b) ==
  /\ RAW_TX /\ MayFire(b)
  /\ \E x \in Txs, est \in GasEst :
       /\ Broadcast(x, <<b, 0>>, "pool")
       /\ st' = BookPending(st, <<b, 0>>, x, est, clock)
  /\ done' = done \cup {b}
  /\ UNCHANGED <<pc, todo, guard, specSeq, disk, env>>

\* _fire_raw, refused by the node or never signed.
FireRefused(b) ==
  /\ RAW_TX /\ MayFire(b) /\ Refuse
  /\ st' = BookSendError(st, <<b, 0>>, clock)
  /\ done' = done \cup {b}
  /\ UNCHANGED <<pc, todo, guard, specSeq, disk, chain>>

\* _fire_cast: the subprocess reports a win, a revert, or times out with the
\* transaction still on the wire, which is booked as a revert.
FireCast(b) ==
  /\ ~RAW_TX /\ MayFire(b)
  /\ \E x \in Txs, est \in GasEst, f \in {"win", "revert", "pool"} :
       /\ Broadcast(x, <<b, 0>>, f)
       /\ st' = BookCast(st, <<b, 0>>, x, est, f = "win", clock)
  /\ done' = done \cup {b}
  /\ UNCHANGED <<pc, todo, guard, specSeq, disk, env>>

EndFire ==
  /\ pc = "fire"
  /\ pc' = "probe" /\ done' = {}
  /\ UNCHANGED <<st, todo, guard, specSeq, disk, chain, env>>

\* A position the window rules let be probed.
MayProbe(b) ==
  /\ pc = "probe" /\ guard /\ RAW_TX
  /\ b \notin done /\ (SPEC_QUEUE => done = {})
  /\ ~RecentlyFired(st, <<b, 0>>, clock)
  /\ specSeq < MaxProbes

\* fire(spec_probe=True): a fresh key borrower#pN.
FireProbe(b) ==
  /\ MayProbe(b)
  /\ specSeq' = specSeq + 1
  /\ \E x \in Txs, est \in GasEst :
       /\ Broadcast(x, <<b, specSeq'>>, "pool")
       /\ st' = BookPending(st, <<b, specSeq'>>, x, est, clock)
  /\ done' = done \cup {b}
  /\ UNCHANGED <<pc, todo, guard, disk, env>>

ProbeRefused(b) ==
  /\ MayProbe(b) /\ Refuse
  /\ specSeq' = specSeq + 1
  /\ st' = BookSendError(st, <<b, specSeq'>>, clock)
  /\ done' = done \cup {b}
  /\ UNCHANGED <<pc, todo, guard, disk, chain>>

EndProbe ==
  /\ pc = "probe"
  /\ pc' = "save"
  /\ UNCHANGED <<st, todo, guard, done, specSeq, disk, chain, env>>

\* A read of the sweep, the sizing or a quote raises: the iteration ends with
\* an error status, which carries no guard answer.
IterationFails ==
  /\ pc = "fire"
  /\ pc' = "save" /\ guard' = TRUE
  /\ UNCHANGED <<st, todo, done, specSeq, disk, chain, env>>

-----------------------------------------------------------------------------
(***************************************************************************)
(* End of the iteration                                                    *)
(***************************************************************************)

Save ==
  /\ pc = "save" /\ guard
  /\ pc' = "top" /\ disk' = st
  /\ UNCHANGED <<st, todo, guard, done, specSeq, chain, env>>

\* The kill-switch is tripped: save and exit.
KillExit ==
  /\ pc = "save" /\ ~guard
  /\ pc' = "down" /\ disk' = st
  /\ UNCHANGED <<st, todo, guard, done, specSeq, chain, env>>

-----------------------------------------------------------------------------
(***************************************************************************)
(* Surroundings                                                            *)
(***************************************************************************)

\* The process is killed: what the file does not hold is gone.
Crash ==
  /\ pc # "down" /\ crashes < MaxCrashes
  /\ pc' = "down" /\ st' = disk /\ crashes' = crashes + 1
  /\ lost' = lost \cup {x \in Txs : Tracks(st, x) /\ ~Tracks(disk, x)}
  /\ UNCHANGED <<todo, guard, done, specSeq, disk, chain, clock, utc, refused, resets, operator>>

\* main("reset") reads the file ...
ResetLoad ==
  /\ ~resetting /\ resets < MaxResets
  /\ resetting' = TRUE /\ held' = disk /\ resets' = resets + 1
  /\ UNCHANGED <<proc, disk, chain, clock, utc, refused, crashes, lost>>

\* ... and writes back what it makes of the image it read.  What a loop saved
\* in between is gone from the file; a loop still running saves it again.
ResetSave ==
  /\ resetting
  /\ disk' = Reset(held) /\ resetting' = FALSE /\ held' = FreshImage
  /\ st' = IF pc = "down" THEN disk' ELSE st
  /\ lost' = lost \cup {x \in Txs : pc = "down" /\ Tracks(disk, x) /\ ~Tracks(held, x)}
  /\ UNCHANGED <<pc, todo, guard, done, specSeq, chain, clock, utc, refused, crashes, resets>>

Idle == pc \in {"down", "top"}

Tick ==
  /\ Idle /\ clock < MaxClock
  /\ clock' = clock + 1
  /\ UNCHANGED <<proc, disk, chain, utc, refused, crashes, resets, lost, operator>>

NextDay ==
  /\ Idle /\ utc < MaxDay
  /\ utc' = utc + 1
  /\ UNCHANGED <<proc, disk, chain, clock, refused, crashes, resets, lost, operator>>

Process ==
  \/ Start \/ StartTripped \/ TrippedExit
  \/ BeginIteration
  \/ \E k \in Keys : SkipThrottled(k) \/ NoVerdict(k) \/ Decide(k)
  \/ EndSettle
  \/ \E b \in Borrowers : FireRaw(b) \/ FireRefused(b) \/ FireCast(b)
  \/ EndFire
  \/ \E b \in Borrowers : FireProbe(b) \/ ProbeRefused(b)
  \/ EndProbe \/ IterationFails
  \/ Save \/ KillExit

Next ==
  \/ Process
  \/ Crash \/ ResetLoad \/ ResetSave
  \/ Tick \/ NextDay

Spec == Init /\ [][Next]_vars

\* The loop keeps stepping and time keeps passing.  Nothing is assumed of the
\* chain, of the endpoints or of the operator.
Fairness == WF_vars(Process) /\ SF_vars(Tick)
FairSpec == Spec /\ Fairness
=============================================================================
