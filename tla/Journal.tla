------------------------------- MODULE Journal -------------------------------
(***************************************************************************)
(* The executor's accounting image: the dict `st` of bot/executor.py, and  *)
(* the functions that read and rewrite it.  No state machine here: the     *)
(* module Executor applies these operators to the copy in memory and the   *)
(* copy on disk.                                                           *)
(*                                                                         *)
(* An image is a record                                                    *)
(*   day, gas    the UTC day the gas counter belongs to, and the counter   *)
(*   consec      consecutive reverts, the kill-switch counter              *)
(*   sent        the dedup journal, one record per key                     *)
(* and two history fields the code does not keep, rolled back with the     *)
(* rest when a process dies and its image is read back from disk:          *)
(*   hist        the verdicts booked, in order                             *)
(*   ledger      what each transaction currently costs the daily cap       *)
(*                                                                         *)
(* The telegram throttles, the pass/fire/revert totals and the heartbeat   *)
(* stamp only feed messages and are left out.                              *)
(***************************************************************************)
EXTENDS Integers, Sequences, FiniteSets

CONSTANTS
  Borrowers,            \* positions the bot may liquidate
  MaxTx,                \* bound: transactions broadcast in a behaviour
  MaxProbes,            \* bound: value of the probe number _spec_seq
  MAX_CONSEC_REVERTS,   \* kill-switch: consecutive reverts
  MAX_DAILY_GAS,        \* kill-switch: gas budget of one UTC day
  CAP_COUNT_WINS,       \* TRUE restores "wins burn the budget too"
  DEDUP_SEC,            \* a fired target rests this long ...
  REVERT_COOLDOWN_SEC,  \* ... and this long after a revert
  PENDING_STALE_SEC,    \* unmined this long: the record turns stale
  STALE_POLL_SEC,       \* cadence of the receipt reads of a stale record
  SENT_RETENTION_SEC    \* age at which a record is purged

ASSUME BoundsAssumption == Borrowers # {} /\ MaxTx \in Nat \ {0} /\ MaxProbes \in Nat
ASSUME GuardAssumption ==
  /\ MAX_CONSEC_REVERTS \in Nat \ {0}
  /\ MAX_DAILY_GAS \in Nat \ {0}
  /\ CAP_COUNT_WINS \in BOOLEAN
ASSUME TimerAssumption ==
  /\ DEDUP_SEC \in Nat /\ REVERT_COOLDOWN_SEC \in Nat
  /\ STALE_POLL_SEC \in Nat /\ PENDING_STALE_SEC \in Nat
  /\ SENT_RETENTION_SEC \in Nat /\ PENDING_STALE_SEC <= SENT_RETENTION_SEC

Txs == 1..MaxTx
NoTx == 0
NoDay == -1             \* the empty day of a state file that does not exist yet

\* st["sent"] is keyed by the borrower for a reactive shot and by
\* "borrower#pN" for a probe: <<b, 0>> and <<b, N>>.
Keys == Borrowers \X (0..MaxProbes)
IsProbe(k) == k[2] # 0

Statuses == {"none", "pending", "stale", "ok", "revert", "send_error"}
NeverPolled == -STALE_POLL_SEC    \* rec.get("last_poll", 0): long ago

\* The absent record.
NoRec == [status |-> "none", ts |-> 0, tx |-> NoTx,
          gas |-> 0, day |-> NoDay, poll |-> NeverPolled]

\* A record without the fields only a record in flight carries.
DoneRec(status, ts, tx) == [NoRec EXCEPT !.status = status, !.ts = ts, !.tx = tx]

Rec == [status : Statuses, ts : Nat, tx : 0..MaxTx,
        gas : Nat, day : Nat \cup {NoDay}, poll : Int]
Entry == [tx : 0..MaxTx, v : {"win", "revert", "probe_revert", "reset"}]
Image == [day : Nat \cup {NoDay}, gas : Nat, consec : Nat, sent : [Keys -> Rec],
          hist : Seq(Entry), ledger : [Txs -> [day : Nat \cup {NoDay}, amt : Nat]]]

InFlight(rec) == rec.status \in {"pending", "stale"}

\* load_state when there is no file.
FreshImage ==
  [day |-> NoDay, gas |-> 0, consec |-> 0, sent |-> [k \in Keys |-> NoRec],
   hist |-> <<>>, ledger |-> [x \in Txs |-> [day |-> NoDay, amt |-> 0]]]

-----------------------------------------------------------------------------
(***************************************************************************)
(* Day roll and guard                                                      *)
(***************************************************************************)

\* Variant: the counter survives midnight.
RollDay_KeepsGas(s, today) == [s EXCEPT !.day = today]

RollDay(s, today) ==
  IF s.day = today THEN s ELSE [s EXCEPT !.day = today, !.gas = 0]

GuardOK(s) == s.consec < MAX_CONSEC_REVERTS /\ s.gas < MAX_DAILY_GAS

(***************************************************************************)
(* Dedup.  A pending target is blocked whatever its age; every other       *)
(* record blocks its key for a while counted from rec["ts"], the time of   *)
(* the shot.                                                               *)
(***************************************************************************)
Cooldown(rec) == IF rec.status = "revert" THEN REVERT_COOLDOWN_SEC ELSE DEDUP_SEC

\* Variant: the age rule for every status, the rule the blocking path had.
RecentlyFired_ByAge(s, k, now) ==
  /\ s.sent[k].status # "none"
  /\ now - s.sent[k].ts < Cooldown(s.sent[k])

RecentlyFired(s, k, now) ==
  LET rec == s.sent[k] IN
  \/ rec.status = "pending"
  \/ rec.status # "none" /\ now - rec.ts < Cooldown(rec)

-----------------------------------------------------------------------------
(***************************************************************************)
(* Booking a shot                                                          *)
(***************************************************************************)

\* The record and the provisional charge of a broadcast that was accepted or
\* whose outcome is unknown: _fire_raw books both alike.
BookPending(s, k, x, est, now) ==
  [s EXCEPT
     !.gas = @ + est,
     !.sent[k] = [status |-> "pending", ts |-> now, tx |-> x,
                  gas |-> est, day |-> s.day, poll |-> NeverPolled],
     !.ledger[x] = [day |-> s.day, amt |-> est]]

\* A refused broadcast: nothing is on the wire, only the key is parked.
BookSendError(s, k, now) == [s EXCEPT !.sent[k] = DoneRec("send_error", now, NoTx)]

\* Variant: a win leaves the run of reverts as it was.
BookCast_WinKeepsRun(s, k, x, est, win, now) ==
  [s EXCEPT
     !.gas = @ + est,
     !.consec = IF win THEN @ ELSE @ + 1,
     !.sent[k] = DoneRec(IF win THEN "ok" ELSE "revert", now, x),
     !.hist = Append(@, [tx |-> x, v |-> IF win THEN "win" ELSE "revert"]),
     !.ledger[x] = [day |-> s.day, amt |-> est]]

\* The blocking `cast send` path: charged at the estimate for good, and the
\* verdict of the subprocess is booked on the spot.
BookCast(s, k, x, est, win, now) ==
  [s EXCEPT
     !.gas = @ + est,
     !.consec = IF win THEN 0 ELSE @ + 1,
     !.sent[k] = DoneRec(IF win THEN "ok" ELSE "revert", now, x),
     !.hist = Append(@, [tx |-> x, v |-> IF win THEN "win" ELSE "revert"]),
     !.ledger[x] = [day |-> s.day, amt |-> est]]

-----------------------------------------------------------------------------
(***************************************************************************)
(* Settling a shot                                                         *)
(***************************************************************************)

\* Variant: no wall, as when only a clean "not mined" answer reached it.
StaleWall_Unreached(rec, now) == rec

\* The stale wall, applied before the receipt is read.
StaleWall(rec, now) ==
  IF rec.status = "pending" /\ now - rec.ts > PENDING_STALE_SEC
  THEN [rec EXCEPT !.status = "stale"] ELSE rec

\* A stale record is polled at its own slow cadence.
Throttled(rec, now) == rec.status = "stale" /\ now - rec.poll < STALE_POLL_SEC

\* Variant: a refund may drive the counter below zero.
Clamp_Off(n) == n

Clamp(n) == IF n < 0 THEN 0 ELSE n

\* Variant: the refund reaches into a day that did not bear the charge.
SettleGas_AnyDay(s, rec, win, actual) ==
  Clamp(s.gas - rec.gas) + (IF win /\ ~CAP_COUNT_WINS THEN 0 ELSE actual)

\* _settle_gas: the counter after the provisional charge is swapped for the
\* real cost.  A charge of a closed day is left alone.
SettleGas(s, rec, win, actual) ==
  IF rec.day # s.day THEN s.gas
  ELSE Clamp(s.gas - rec.gas) + (IF win /\ ~CAP_COUNT_WINS THEN 0 ELSE actual)

Verdict(k, win) == IF win THEN "win" ELSE IF IsProbe(k) THEN "probe_revert" ELSE "revert"

\* Variant: a win leaves the run of reverts as it was.
ConsecAfter_WinKeepsRun(s, k, win) ==
  IF win \/ IsProbe(k) THEN s.consec ELSE s.consec + 1

\* Variant: a probe's revert feeds the kill-switch like any other.
ConsecAfter_ProbesCount(s, k, win) == IF win THEN 0 ELSE s.consec + 1

ConsecAfter(s, k, win) ==
  IF win THEN 0 ELSE IF IsProbe(k) THEN s.consec ELSE s.consec + 1

\* Variant: the verdict is booked but the record stays in flight.
Settle_KeepsRecord(s, k, rec, win, actual) ==
  [s EXCEPT
     !.gas = SettleGas(s, rec, win, actual),
     !.consec = ConsecAfter(s, k, win),
     !.sent[k] = rec,
     !.hist = Append(@, [tx |-> rec.tx, v |-> Verdict(k, win)]),
     !.ledger[rec.tx].amt = IF win /\ ~CAP_COUNT_WINS THEN 0 ELSE actual]

\* The receipt of key k's transaction is decided: gas, kill-switch counter
\* and record, once.
Settle(s, k, rec, win, actual) ==
  [s EXCEPT
     !.gas = SettleGas(s, rec, win, actual),
     !.consec = ConsecAfter(s, k, win),
     !.sent[k] = DoneRec(IF win THEN "ok" ELSE "revert", rec.ts, rec.tx),
     !.hist = Append(@, [tx |-> rec.tx, v |-> Verdict(k, win)]),
     !.ledger[rec.tx].amt = IF win /\ ~CAP_COUNT_WINS THEN 0 ELSE actual]

\* The retention purge that ends _check_pending.
Purge(s, now) ==
  [s EXCEPT !.sent =
     [k \in Keys |-> IF /\ s.sent[k].status # "none"
                        /\ now - s.sent[k].ts > SENT_RETENTION_SEC
                     THEN NoRec ELSE s.sent[k]]]

-----------------------------------------------------------------------------
(***************************************************************************)
(* `python3 -m bot.executor reset`: counters to zero, settled records      *)
(* dropped, records in flight kept.                                        *)
(***************************************************************************)

\* Variant: the reset wipes the whole journal.
Reset_WipesJournal(s) ==
  [s EXCEPT !.consec = 0, !.gas = 0,
     !.sent = [k \in Keys |-> NoRec],
     !.hist = Append(@, [tx |-> NoTx, v |-> "reset"]),
     !.ledger = [x \in Txs |-> [s.ledger[x] EXCEPT !.amt = 0]]]

Reset(s) ==
  [s EXCEPT !.consec = 0, !.gas = 0,
     !.sent = [k \in Keys |-> IF InFlight(s.sent[k]) THEN s.sent[k] ELSE NoRec],
     !.hist = Append(@, [tx |-> NoTx, v |-> "reset"]),
     !.ledger = [x \in Txs |-> [s.ledger[x] EXCEPT !.amt = 0]]]

=============================================================================
