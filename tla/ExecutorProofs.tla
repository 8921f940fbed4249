---------------------------- MODULE ExecutorProofs ----------------------------
(***************************************************************************)
(* Theorems about the executor, for every number of borrowers, shots,      *)
(* crashes and resets and every setting of the timers.                     *)
(***************************************************************************)
EXTENDS ExecutorProperties, FiniteSetTheorems, TLAPS

(***************************************************************************)
(* The operators of Journal keep an image an image.                        *)
(***************************************************************************)

LEMMA NoRecType == NoRec \in Rec
BY BoundsAssumption, TimerAssumption DEF NoRec, Rec, Statuses, NoTx, NoDay, NeverPolled

LEMMA DoneRecType ==
  ASSUME NEW status \in Statuses, NEW ts \in Nat, NEW tx \in 0..MaxTx
  PROVE  DoneRec(status, ts, tx) \in Rec
BY NoRecType DEF DoneRec, Rec, NoRec

LEMMA RollDayType ==
  ASSUME NEW s \in Image, NEW d \in Nat
  PROVE  RollDay(s, d) \in Image
BY DEF RollDay, Image

LEMMA BookPendingType ==
  ASSUME NEW s \in Image, NEW k \in Keys, NEW x \in Txs, NEW est \in Nat, NEW now \in Nat
  PROVE  BookPending(s, k, x, est, now) \in Image
<1> DEFINE rec == [status |-> "pending", ts |-> now, tx |-> x,
                   gas |-> est, day |-> s.day, poll |-> NeverPolled]
           led == [day |-> s.day, amt |-> est]
<1>1. rec \in Rec
  BY BoundsAssumption, TimerAssumption DEF Rec, Statuses, Image, Txs, NeverPolled
<1>2. led \in [day : Nat \cup {NoDay}, amt : Nat]
  BY DEF Image
<1>3. [s.sent EXCEPT ![k] = rec] \in [Keys -> Rec]
  BY <1>1 DEF Image
<1>4. [s.ledger EXCEPT ![x] = led] \in [Txs -> [day : Nat \cup {NoDay}, amt : Nat]]
  BY <1>2 DEF Image
<1>5. s.gas + est \in Nat
  BY DEF Image
<1>6. BookPending(s, k, x, est, now) =
        [s EXCEPT !.gas = s.gas + est, !.sent = [s.sent EXCEPT ![k] = rec],
                  !.ledger = [s.ledger EXCEPT ![x] = led]]
  BY DEF BookPending, Image
<1> HIDE DEF rec, led
<1> QED
  BY <1>3, <1>4, <1>5, <1>6 DEF Image

LEMMA BookSendErrorType ==
  ASSUME NEW s \in Image, NEW k \in Keys, NEW now \in Nat
  PROVE  BookSendError(s, k, now) \in Image
<1>1. DoneRec("send_error", now, NoTx) \in Rec
  BY DoneRecType, BoundsAssumption DEF Statuses, NoTx
<1> QED
  BY <1>1 DEF BookSendError, Image

LEMMA BookCastType ==
  ASSUME NEW s \in Image, NEW k \in Keys, NEW x \in Txs, NEW est \in Nat,
         NEW win \in BOOLEAN, NEW now \in Nat
  PROVE  BookCast(s, k, x, est, win, now) \in Image
<1> DEFINE rec == DoneRec(IF win THEN "ok" ELSE "revert", now, x)
           led == [day |-> s.day, amt |-> est]
           ent == [tx |-> x, v |-> IF win THEN "win" ELSE "revert"]
           c == IF win THEN 0 ELSE s.consec + 1
<1>1. rec \in Rec
  BY DoneRecType, BoundsAssumption DEF Statuses, Txs
<1>2. ent \in Entry
  BY BoundsAssumption DEF Entry, Txs
<1>3. [s.sent EXCEPT ![k] = rec] \in [Keys -> Rec]
  BY <1>1 DEF Image
<1>4. [s.ledger EXCEPT ![x] = led] \in [Txs -> [day : Nat \cup {NoDay}, amt : Nat]]
  BY DEF Image
<1>5. Append(s.hist, ent) \in Seq(Entry)
  BY <1>2 DEF Image
<1>6. s.gas + est \in Nat /\ c \in Nat
  BY DEF Image
<1>7. BookCast(s, k, x, est, win, now) =
        [s EXCEPT !.gas = s.gas + est, !.consec = c, !.sent = [s.sent EXCEPT ![k] = rec],
                  !.hist = Append(s.hist, ent), !.ledger = [s.ledger EXCEPT ![x] = led]]
  BY DEF BookCast, Image
<1> HIDE DEF rec, led, ent, c
<1> QED
  BY <1>3, <1>4, <1>5, <1>6, <1>7 DEF Image

LEMMA RecType ==
  ASSUME NEW s \in Image, NEW k \in Keys, NEW rec \in Rec
  PROVE  [s EXCEPT !.sent[k] = rec] \in Image
<1>1. [s.sent EXCEPT ![k] = rec] \in [Keys -> Rec]
  BY DEF Image
<1>2. [s EXCEPT !.sent[k] = rec] = [s EXCEPT !.sent = [s.sent EXCEPT ![k] = rec]]
  BY DEF Image
<1> QED
  BY <1>1, <1>2 DEF Image

LEMMA StaleWallType ==
  ASSUME NEW rec \in Rec, NEW now \in Nat
  PROVE  StaleWall(rec, now) \in Rec
BY DEF StaleWall, Rec, Statuses

LEMMA PolledType ==
  ASSUME NEW rec \in Rec, NEW now \in Nat
  PROVE  [StaleWall(rec, now) EXCEPT !.poll = now] \in Rec
BY StaleWallType DEF Rec

LEMMA SettleGasType ==
  ASSUME NEW s \in Image, NEW rec \in Rec, NEW win \in BOOLEAN, NEW actual \in Nat
  PROVE  SettleGas(s, rec, win, actual) \in Nat
<1>1. s.gas \in Nat /\ rec.gas \in Nat
  BY DEF Image, Rec
<1>2. Clamp(s.gas - rec.gas) \in Nat
  BY <1>1 DEF Clamp
<1>3. (IF win /\ ~CAP_COUNT_WINS THEN 0 ELSE actual) \in Nat
  OBVIOUS
<1> QED
  BY <1>1, <1>2, <1>3 DEF SettleGas

LEMMA SettleType ==
  ASSUME NEW s \in Image, NEW k \in Keys, NEW rec \in Rec, rec.poll \in Nat,
         NEW win \in BOOLEAN, NEW actual \in Nat
  PROVE  Settle(s, k, rec, win, actual) \in Image
<1> DEFINE done1 == DoneRec(IF win THEN "ok" ELSE "revert", rec.ts, rec.tx)
           ent == [tx |-> rec.tx, v |-> Verdict(k, win)]
           amt == IF win /\ ~CAP_COUNT_WINS THEN 0 ELSE actual
           gas1 == SettleGas(s, rec, win, actual)
           con1 == ConsecAfter(s, k, win)
<1>1. done1 \in Rec
  BY DoneRecType DEF Statuses, Rec
<1>2. ent \in Entry
  BY DEF Entry, Rec, Verdict
<1>3. [s.sent EXCEPT ![k] = done1] \in [Keys -> Rec]
  BY <1>1 DEF Image
<1>4. [s.ledger EXCEPT ![rec.tx].amt = amt] \in [Txs -> [day : Nat \cup {NoDay}, amt : Nat]]
  <2>1. amt \in Nat
    OBVIOUS
  <2>2. s.ledger \in [Txs -> [day : Nat \cup {NoDay}, amt : Nat]]
    BY DEF Image
  <2> HIDE DEF amt
  <2> QED
    BY <2>1, <2>2
<1>5. Append(s.hist, ent) \in Seq(Entry)
  BY <1>2 DEF Image
<1>6. gas1 \in Nat
  BY SettleGasType
<1>7. con1 \in Nat
  BY DEF ConsecAfter, Image
<1>8. Settle(s, k, rec, win, actual) =
        [s EXCEPT !.gas = gas1, !.consec = con1, !.sent = [s.sent EXCEPT ![k] = done1],
                  !.hist = Append(s.hist, ent),
                  !.ledger = [s.ledger EXCEPT ![rec.tx].amt = amt]]
  BY DEF Settle, Image
<1> HIDE DEF done1, ent, amt, gas1, con1
<1> QED
  BY <1>3, <1>4, <1>5, <1>6, <1>7, <1>8 DEF Image

LEMMA PurgeType ==
  ASSUME NEW s \in Image, NEW now \in Nat
  PROVE  Purge(s, now) \in Image
<1> DEFINE kept == [k \in Keys |-> IF /\ s.sent[k].status # "none"
                                     /\ now - s.sent[k].ts > SENT_RETENTION_SEC
                                  THEN NoRec ELSE s.sent[k]]
<1>1. kept \in [Keys -> Rec]
  BY NoRecType DEF Image
<1>2. Purge(s, now) = [s EXCEPT !.sent = kept]
  BY DEF Purge
<1> HIDE DEF kept
<1> QED
  BY <1>1, <1>2 DEF Image

LEMMA ResetType ==
  ASSUME NEW s \in Image
  PROVE  Reset(s) \in Image
<1> DEFINE kept == [k \in Keys |-> IF InFlight(s.sent[k]) THEN s.sent[k] ELSE NoRec]
           ent == [tx |-> NoTx, v |-> "reset"]
           led == [x \in Txs |-> [s.ledger[x] EXCEPT !.amt = 0]]
<1>1. kept \in [Keys -> Rec]
  BY NoRecType DEF Image
<1>2. ent \in Entry
  BY BoundsAssumption DEF Entry, NoTx
<1>3. Append(s.hist, ent) \in Seq(Entry)
  BY <1>2 DEF Image
<1>4. led \in [Txs -> [day : Nat \cup {NoDay}, amt : Nat]]
  BY DEF Image
<1>5. Reset(s) = [s EXCEPT !.consec = 0, !.gas = 0, !.sent = kept,
                           !.hist = Append(s.hist, ent), !.ledger = led]
  BY DEF Reset
<1>6. [s EXCEPT !.consec = 0, !.gas = 0] \in Image
  BY DEF Image
<1> DEFINE z == [s EXCEPT !.consec = 0, !.gas = 0]
<1>7. Reset(s) = [z EXCEPT !.sent = kept, !.hist = Append(s.hist, ent), !.ledger = led]
  BY <1>5
<1> HIDE DEF kept, ent, led, z
<1> QED
  BY <1>1, <1>3, <1>4, <1>6, <1>7 DEF Image, z

-----------------------------------------------------------------------------
(***************************************************************************)
(* Type correctness.                                                       *)
(***************************************************************************)

LEMMA KeyType ==
  ASSUME NEW b \in Borrowers, NEW n \in 0..MaxProbes
  PROVE  <<b, n>> \in Keys
BY DEF Keys

LEMMA BroadcastType ==
  ASSUME TypeOK, NEW x \in Txs, NEW k \in Keys, NEW f \in Fates, Broadcast(x, k, f)
  PROVE  shot' \in [Txs -> [key : Keys, at : Nat]] /\ fate' \in [Txs -> Fates]
BY DEF TypeOK, Broadcast

LEMMA FreshType == FreshImage \in Image
<1>1. [k \in Keys |-> NoRec] \in [Keys -> Rec]
  BY NoRecType
<1>2. [x \in Txs |-> [day |-> NoDay, amt |-> 0]] \in [Txs -> [day : Nat \cup {NoDay}, amt : Nat]]
  OBVIOUS
<1> QED
  BY <1>1, <1>2 DEF FreshImage, Image

LEMMA InitType == Init => TypeOK
<1> SUFFICES ASSUME Init PROVE TypeOK
  OBVIOUS
<1>1. FreshImage \in Image
  BY FreshType
<1>2. (CHOOSE k \in Keys : TRUE) \in Keys
  <2>1. PICK b \in Borrowers : TRUE
    BY BoundsAssumption
  <2>2. <<b, 0>> \in Keys
    BY KeyType, BoundsAssumption
  <2> QED
    BY <2>2
<1>3. resetting \in BOOLEAN /\ held \in Image /\ (resetting => resets # 0)
  BY <1>1, Zenon DEF Init
<1>4. /\ pc \in PCs /\ st \in Image /\ disk \in Image
      /\ todo \subseteq Keys /\ guard \in BOOLEAN /\ done \subseteq Borrowers
      /\ specSeq \in 0..MaxProbes /\ lost \subseteq Txs
      /\ pc = "down" => st = disk
  BY <1>1, BoundsAssumption DEF Init, PCs
<1>5. /\ shot \in [Txs -> [key : Keys, at : Nat]] /\ fate \in [Txs -> Fates]
      /\ clock \in Nat /\ utc \in Nat /\ refused \in Nat /\ crashes \in Nat /\ resets \in Nat
  BY <1>2 DEF Init, Fates
<1> QED
  BY <1>3, <1>4, <1>5, Zenon DEF TypeOK

LEMMA NextType == TypeOK /\ [Next]_vars => TypeOK'
<1> SUFFICES ASSUME TypeOK, [Next]_vars PROVE TypeOK'
  OBVIOUS
<1> USE DEF PCs
<1>1. CASE Start
  BY <1>1, BoundsAssumption DEF Start, TypeOK, chain, env
<1>2. CASE StartTripped
  BY <1>2 DEF StartTripped, TypeOK, chain, env
<1>3. CASE TrippedExit
  BY <1>3 DEF TrippedExit, TypeOK, chain, env
<1>4. CASE BeginIteration
  <2>1. st' \in Image
    BY <1>4, RollDayType DEF BeginIteration, TypeOK
  <2> QED
    BY <1>4, <2>1 DEF BeginIteration, TypeOK, chain, env
<1>5. ASSUME NEW k \in Keys, SkipThrottled(k) PROVE TypeOK'
  <2>1. st.sent[k] \in Rec
    BY DEF TypeOK, Image
  <2>2. st' \in Image
    BY <1>5, <2>1, StaleWallType, RecType DEF SkipThrottled, Walled, TypeOK
  <2> QED
    BY <1>5, <2>2 DEF SkipThrottled, Looked, TypeOK, chain, env
<1>6. ASSUME NEW k \in Keys, NoVerdict(k) PROVE TypeOK'
  <2>1. st.sent[k] \in Rec
    BY DEF TypeOK, Image
  <2>2. st' \in Image
    BY <1>6, <2>1, PolledType, RecType DEF NoVerdict, Polled, Walled, TypeOK
  <2> QED
    BY <1>6, <2>2 DEF NoVerdict, Looked, TypeOK, chain, env
<1>7. ASSUME NEW k \in Keys, Decide(k) PROVE TypeOK'
  <2> DEFINE x == st.sent[k].tx
  <2>1. PICK f \in IF fate[x] = "pool" THEN {"win", "revert"} ELSE {fate[x]},
             actual \in GasActual \cup {st.sent[k].gas} :
          /\ fate' = [fate EXCEPT ![x] = f]
          /\ st' = Settle(st, k, Polled(k), f = "win", actual)
    BY <1>7 DEF Decide
  <2>2. st.sent[k] \in Rec
    BY DEF TypeOK, Image
  <2>3. actual \in Nat
    BY <2>2, ExecutorAssumption DEF Rec
  <2>4. Polled(k) \in Rec /\ Polled(k).poll \in Nat
    BY <2>2, PolledType DEF Polled, Walled, TypeOK, StaleWall, Rec
  <2>5. st' \in Image
    BY <2>1, <2>3, <2>4, SettleType DEF TypeOK
  <2>6. fate' \in [Txs -> Fates]
    BY <2>1 DEF TypeOK, Fates
  <2> QED
    BY <1>7, <2>5, <2>6 DEF Decide, TypeOK, env
<1>8. CASE EndSettle
  <2>1. st' \in Image
    BY <1>8, PurgeType DEF EndSettle, TypeOK
  <2>2. guard' \in BOOLEAN
    BY <1>8 DEF EndSettle, GuardOK
  <2> QED
    BY <1>8, <2>1, <2>2 DEF EndSettle, TypeOK, chain, env
<1>9. ASSUME NEW b \in Borrowers, FireRaw(b) PROVE TypeOK'
  <2>1. PICK x \in Txs, est \in GasEst :
          /\ Broadcast(x, <<b, 0>>, "pool")
          /\ st' = BookPending(st, <<b, 0>>, x, est, clock)
    BY <1>9 DEF FireRaw
  <2>2. <<b, 0>> \in Keys /\ est \in Nat
    BY KeyType, BoundsAssumption, ExecutorAssumption
  <2>3. st' \in Image
    BY <2>1, <2>2, BookPendingType DEF TypeOK
  <2>4. shot' \in [Txs -> [key : Keys, at : Nat]] /\ fate' \in [Txs -> Fates]
    BY <2>1, <2>2, BroadcastType DEF Fates
  <2> QED
    BY <1>9, <2>3, <2>4 DEF FireRaw, MayFire, TypeOK, env
<1>10. ASSUME NEW b \in Borrowers, FireRefused(b) PROVE TypeOK'
  <2>1. st' \in Image
    BY <1>10, KeyType, BoundsAssumption, BookSendErrorType DEF FireRefused, TypeOK
  <2> QED
    BY <1>10, <2>1 DEF FireRefused, Refuse, MayFire, TypeOK, chain, operator
<1>11. ASSUME NEW b \in Borrowers, FireCast(b) PROVE TypeOK'
  <2>1. PICK x \in Txs, est \in GasEst, f \in {"win", "revert", "pool"} :
          /\ Broadcast(x, <<b, 0>>, f)
          /\ st' = BookCast(st, <<b, 0>>, x, est, f = "win", clock)
    BY <1>11 DEF FireCast
  <2>2. <<b, 0>> \in Keys /\ est \in Nat
    BY KeyType, BoundsAssumption, ExecutorAssumption
  <2>3. st' \in Image
    BY <2>1, <2>2, BookCastType DEF TypeOK
  <2>4. shot' \in [Txs -> [key : Keys, at : Nat]] /\ fate' \in [Txs -> Fates]
    BY <2>1, <2>2, BroadcastType DEF Fates
  <2> QED
    BY <1>11, <2>3, <2>4 DEF FireCast, MayFire, TypeOK, env
<1>12. CASE EndFire
  BY <1>12 DEF EndFire, TypeOK, chain, env
<1>13. ASSUME NEW b \in Borrowers, FireProbe(b) PROVE TypeOK'
  <2>1. PICK x \in Txs, est \in GasEst :
          /\ Broadcast(x, <<b, specSeq'>>, "pool")
          /\ st' = BookPending(st, <<b, specSeq'>>, x, est, clock)
    BY <1>13 DEF FireProbe
  <2>2. specSeq' \in 0..MaxProbes
    BY <1>13, BoundsAssumption DEF FireProbe, MayProbe, TypeOK
  <2>3. <<b, specSeq'>> \in Keys /\ est \in Nat
    BY <2>2, KeyType, ExecutorAssumption
  <2>4. st' \in Image
    BY <2>1, <2>3, BookPendingType DEF TypeOK
  <2>5. shot' \in [Txs -> [key : Keys, at : Nat]] /\ fate' \in [Txs -> Fates]
    BY <2>1, <2>3, BroadcastType DEF Fates
  <2> QED
    BY <1>13, <2>2, <2>4, <2>5 DEF FireProbe, MayProbe, TypeOK, env
<1>14. ASSUME NEW b \in Borrowers, ProbeRefused(b) PROVE TypeOK'
  <2>1. specSeq' \in 0..MaxProbes
    BY <1>14, BoundsAssumption DEF ProbeRefused, MayProbe, TypeOK
  <2>2. st' \in Image
    BY <1>14, <2>1, KeyType, BookSendErrorType DEF ProbeRefused, TypeOK
  <2> QED
    BY <1>14, <2>1, <2>2 DEF ProbeRefused, MayProbe, Refuse, TypeOK, chain, operator
<1>15. CASE EndProbe
  BY <1>15 DEF EndProbe, TypeOK, chain, env
<1>16. CASE IterationFails
  BY <1>16 DEF IterationFails, TypeOK, chain, env
<1>17. CASE Save
  BY <1>17 DEF Save, TypeOK, chain, env
<1>18. CASE KillExit
  BY <1>18 DEF KillExit, TypeOK, chain, env
<1>19. CASE Crash
  BY <1>19 DEF Crash, TypeOK, chain, operator
<1>20. CASE ResetLoad
  BY <1>20 DEF ResetLoad, TypeOK, chain, proc
<1>24. CASE ResetSave
  <2>1. disk' \in Image /\ FreshImage \in Image
    BY <1>24, ResetType, FreshType DEF ResetSave, TypeOK
  <2> QED
    BY <1>24, <2>1 DEF ResetSave, TypeOK, chain
<1>21. CASE Tick
  BY <1>21 DEF Tick, TypeOK, chain, proc, operator
<1>22. CASE NextDay
  BY <1>22 DEF NextDay, TypeOK, chain, proc, operator
<1>23. CASE UNCHANGED vars
  BY <1>23 DEF vars, TypeOK
<1> QED
  BY <1>1, <1>2, <1>3, <1>4, <1>5, <1>6, <1>7, <1>8, <1>9, <1>10, <1>11, <1>12, <1>13,
     <1>14, <1>15, <1>16, <1>17, <1>18, <1>19, <1>20, <1>21, <1>22, <1>23, <1>24
  DEF Next, Process

\* Every behaviour keeps the types, whatever the constants.
THEOREM TypeCorrect == Spec => []TypeOK
BY InitType, NextType, PTL DEF Spec

-----------------------------------------------------------------------------
(***************************************************************************)
(* The inductive invariant behind OneLiveShot and SettledOnce.             *)
(***************************************************************************)

\* A record in flight tells the truth about its transaction: which key it was
\* fired under, when, and that a stale one is past the wall.
RecordsTrue(s, fa, sh, now) ==
  \A k \in Keys : InFlight(s.sent[k]) =>
    /\ s.sent[k].tx \in Txs
    /\ fa[s.sent[k].tx] # "unsent"
    /\ sh[s.sent[k].tx].key = k
    /\ sh[s.sent[k].tx].at = s.sent[k].ts
    /\ s.sent[k].status = "stale" => now - s.sent[k].ts > PENDING_STALE_SEC

\* What has a verdict is no longer in flight, and has one verdict.
VerdictsFinal(s, fa) ==
  \A i \in DOMAIN s.hist : s.hist[i].tx # NoTx =>
    /\ fa[s.hist[i].tx] # "unsent"
    /\ \A k \in Keys : InFlight(s.sent[k]) => s.sent[k].tx # s.hist[i].tx
    /\ \A j \in DOMAIN s.hist : s.hist[j].tx = s.hist[i].tx => i = j

ImageTrue(s, fa, sh, now) ==
  s \in Image /\ RecordsTrue(s, fa, sh, now) /\ VerdictsFinal(s, fa)

\* The journal's record of transaction x is the one that blocks its key.
Guarded(s, x) ==
  /\ s.sent[shot[x].key].status = "pending"
  /\ s.sent[shot[x].key].tx = x
  /\ s.sent[shot[x].key].ts = shot[x].at

LiveGuarded == RAW_TX => \A x \in Txs : LiveShot(x) => Guarded(st, x)

TodoInFlight == pc = "settle" => \A k \in todo : InFlight(st.sent[k])

IInv ==
  /\ TypeOK
  /\ ImageTrue(st, fate, shot, clock)
  /\ ImageTrue(disk, fate, shot, clock)
  /\ ImageTrue(held, fate, shot, clock)
  /\ LiveGuarded
  /\ TodoInFlight

\* The chain only moves forward: what was sent stays sent, under its key.
Onward(fa, sh, fa2, sh2) ==
  \A x \in Txs : fa[x] # "unsent" => fa2[x] # "unsent" /\ sh2[x] = sh[x]

\* An image stays true while the chain moves on, time passes, and its journal
\* only drops or settles records.
LEMMA TrueOnward ==
  ASSUME NEW s, NEW s2 \in Image, NEW fa, NEW sh, NEW fa2, NEW sh2,
         NEW now \in Nat, NEW now2 \in Nat, now2 >= now,
         ImageTrue(s, fa, sh, now), Onward(fa, sh, fa2, sh2),
         \A k \in Keys : InFlight(s2.sent[k]) => s2.sent[k] = s.sent[k],
         s2.hist = s.hist
  PROVE  ImageTrue(s2, fa2, sh2, now2)
<1>1. RecordsTrue(s2, fa2, sh2, now2)
  <2> SUFFICES ASSUME NEW k \in Keys, InFlight(s2.sent[k])
               PROVE  /\ s2.sent[k].tx \in Txs
                      /\ fa2[s2.sent[k].tx] # "unsent"
                      /\ sh2[s2.sent[k].tx].key = k
                      /\ sh2[s2.sent[k].tx].at = s2.sent[k].ts
                      /\ s2.sent[k].status = "stale" => now2 - s2.sent[k].ts > PENDING_STALE_SEC
    BY DEF RecordsTrue
  <2>1. s2.sent[k] = s.sent[k] /\ InFlight(s.sent[k]) /\ s.sent[k].ts \in Nat
    BY DEF ImageTrue, Image, Rec
  <2> QED
    BY <2>1, TimerAssumption DEF ImageTrue, RecordsTrue, Onward
<1>2. VerdictsFinal(s2, fa2)
  <2>1. \A i \in DOMAIN s.hist : s.hist[i].tx # NoTx => s.hist[i].tx \in Txs
    <3>1. \A i \in DOMAIN s.hist : s.hist[i] \in Entry
      BY DEF ImageTrue, Image
    <3> QED
      BY <3>1, BoundsAssumption DEF Entry, NoTx, Txs
  <2> QED
    BY <2>1 DEF ImageTrue, VerdictsFinal, Onward
<1> QED
  BY <1>1, <1>2 DEF ImageTrue

LEMMA RollDayTrue ==
  ASSUME NEW s, NEW d \in Nat, NEW now \in Nat, ImageTrue(s, fate, shot, now)
  PROVE  ImageTrue(RollDay(s, d), fate, shot, now)
<1> DEFINE s2 == RollDay(s, d)
<1>1. s2.sent = s.sent /\ s2.hist = s.hist
  BY DEF RollDay, ImageTrue, Image
<1>2. s2 \in Image
  BY RollDayType DEF ImageTrue
<1> HIDE DEF s2
<1>3. Onward(fate, shot, fate, shot) /\ now >= now
  BY DEF Onward
<1>4. ImageTrue(s2, fate, shot, now)
  BY <1>1, <1>2, <1>3, TrueOnward
<1> QED
  BY <1>4 DEF s2

LEMMA SendErrorTrue ==
  ASSUME NEW s, NEW k \in Keys, NEW now \in Nat, ImageTrue(s, fate, shot, now)
  PROVE  ImageTrue(BookSendError(s, k, now), fate, shot, now)
<1> DEFINE s2 == BookSendError(s, k, now)
<1>1. s2.sent = [s.sent EXCEPT ![k] = DoneRec("send_error", now, NoTx)] /\ s2.hist = s.hist
  BY DEF BookSendError, ImageTrue, Image
<1>2. ~InFlight(DoneRec("send_error", now, NoTx))
  BY DEF InFlight, DoneRec, NoRec
<1>3. \A j \in Keys : InFlight(s2.sent[j]) => s2.sent[j] = s.sent[j]
  BY <1>1, <1>2 DEF ImageTrue, Image
<1>4. s2 \in Image
  BY BookSendErrorType DEF ImageTrue
<1> HIDE DEF s2
<1>5. Onward(fate, shot, fate, shot) /\ now >= now
  BY DEF Onward
<1>6. ImageTrue(s2, fate, shot, now)
  BY <1>1, <1>3, <1>4, <1>5, TrueOnward
<1> QED
  BY <1>6 DEF s2

LEMMA PurgeTrue ==
  ASSUME NEW s, NEW now \in Nat, ImageTrue(s, fate, shot, now)
  PROVE  ImageTrue(Purge(s, now), fate, shot, now)
<1> DEFINE s2 == Purge(s, now)
<1>1. s2.hist = s.hist
  BY DEF Purge, ImageTrue, Image
<1>2. \A j \in Keys : s2.sent[j] = s.sent[j] \/ s2.sent[j] = NoRec
  BY DEF Purge, ImageTrue, Image
<1>3. ~InFlight(NoRec)
  BY DEF InFlight, NoRec
<1>4. s2 \in Image
  BY PurgeType DEF ImageTrue
<1> HIDE DEF s2
<1> QED
  BY <1>1, <1>2, <1>3, <1>4, TrueOnward DEF ImageTrue, Onward, s2

LEMMA ResetTrue ==
  ASSUME NEW s, NEW now \in Nat, ImageTrue(s, fate, shot, now)
  PROVE  ImageTrue(Reset(s), fate, shot, now)
<1> DEFINE s2 == Reset(s)
           ent == [tx |-> NoTx, v |-> "reset"]
<1>1. s2.hist = Append(s.hist, ent)
  BY DEF Reset, ImageTrue, Image
<1>2. \A j \in Keys : s2.sent[j] = s.sent[j] \/ s2.sent[j] = NoRec
  BY DEF Reset, ImageTrue, Image
<1>3. ~InFlight(NoRec)
  BY DEF InFlight, NoRec
<1>4. s2 \in Image
  BY ResetType DEF ImageTrue
<1>5. \A i \in DOMAIN s2.hist : s2.hist[i].tx # NoTx =>
        i \in DOMAIN s.hist /\ s2.hist[i] = s.hist[i]
  <2>1. ent.tx = NoTx /\ s.hist \in Seq(Entry)
    BY DEF ImageTrue, Image
  <2> HIDE DEF ent, s2
  <2> QED
    BY <1>1, <2>1
<1> HIDE DEF s2
<1>6. RecordsTrue(s2, fate, shot, now)
  BY <1>2, <1>3 DEF ImageTrue, RecordsTrue
<1>7. VerdictsFinal(s2, fate)
  BY <1>2, <1>3, <1>5 DEF ImageTrue, VerdictsFinal
<1> QED
  BY <1>4, <1>6, <1>7 DEF ImageTrue, s2

\* Booking a shot: x is new to the chain and to the image.
LEMMA BookPendingTrue ==
  ASSUME NEW s, NEW k \in Keys, NEW x \in Txs, NEW est \in Nat, NEW now \in Nat,
         NEW fa, NEW sh, NEW fa2 \in [Txs -> Fates], NEW sh2,
         ImageTrue(s, fa, sh, now), fa[x] = "unsent", fa2[x] # "unsent",
         sh2[x].key = k, sh2[x].at = now,
         \A y \in Txs : y # x => fa2[y] = fa[y] /\ sh2[y] = sh[y]
  PROVE  ImageTrue(BookPending(s, k, x, est, now), fa2, sh2, now)
<1> DEFINE s2 == BookPending(s, k, x, est, now)
           rec == [status |-> "pending", ts |-> now, tx |-> x,
                   gas |-> est, day |-> s.day, poll |-> NeverPolled]
<1>1. s2.sent = [s.sent EXCEPT ![k] = rec] /\ s2.hist = s.hist
  BY DEF BookPending, ImageTrue, Image
<1>2. s2 \in Image
  BY BookPendingType DEF ImageTrue
<1>3. rec.status = "pending" /\ rec.tx = x /\ rec.ts = now
  OBVIOUS
<1>4. /\ s2.sent[k] = rec
      /\ \A j \in Keys : j # k => s2.sent[j] = s.sent[j]
  BY <1>1 DEF ImageTrue, Image
<1> HIDE DEF s2, rec
<1>5. RecordsTrue(s2, fa2, sh2, now)
  <2> SUFFICES ASSUME NEW j \in Keys, InFlight(s2.sent[j])
               PROVE  /\ s2.sent[j].tx \in Txs
                      /\ fa2[s2.sent[j].tx] # "unsent"
                      /\ sh2[s2.sent[j].tx].key = j
                      /\ sh2[s2.sent[j].tx].at = s2.sent[j].ts
                      /\ s2.sent[j].status = "stale" => now - s2.sent[j].ts > PENDING_STALE_SEC
    BY DEF RecordsTrue
  <2>1. CASE j = k
    BY <2>1, <1>3, <1>4
  <2>2. CASE j # k
    <3>1. s2.sent[j] = s.sent[j]
      BY <2>2, <1>4
    <3>2. s.sent[j].tx # x
      BY <3>1 DEF ImageTrue, RecordsTrue
    <3> QED
      BY <3>1, <3>2 DEF ImageTrue, RecordsTrue
  <2> QED
    BY <2>1, <2>2
<1>6. VerdictsFinal(s2, fa2)
  <2> SUFFICES ASSUME NEW i \in DOMAIN s.hist, s.hist[i].tx # NoTx
               PROVE  /\ fa2[s.hist[i].tx] # "unsent"
                      /\ \A j \in Keys : InFlight(s2.sent[j]) => s2.sent[j].tx # s.hist[i].tx
                      /\ \A j \in DOMAIN s.hist : s.hist[j].tx = s.hist[i].tx => i = j
    BY <1>1 DEF VerdictsFinal
  <2>1. s.hist[i] \in Entry
    BY DEF ImageTrue, Image
  <2>2. s.hist[i].tx \in Txs /\ s.hist[i].tx # x
    BY <2>1, BoundsAssumption DEF Entry, NoTx, Txs, ImageTrue, VerdictsFinal
  <2> QED
    BY <1>3, <1>4, <2>2 DEF ImageTrue, VerdictsFinal
<1>7. ImageTrue(s2, fa2, sh2, now)
  BY <1>2, <1>5, <1>6 DEF ImageTrue
<1> QED
  BY <1>7 DEF s2

\* The cast path: the record is settled on the spot.
LEMMA BookCastTrue ==
  ASSUME NEW s, NEW k \in Keys, NEW x \in Txs, NEW est \in Nat, NEW now \in Nat,
         NEW win \in BOOLEAN, NEW fa, NEW sh, NEW fa2 \in [Txs -> Fates], NEW sh2,
         ImageTrue(s, fa, sh, now), fa[x] = "unsent", fa2[x] # "unsent",
         \A y \in Txs : y # x => fa2[y] = fa[y] /\ sh2[y] = sh[y]
  PROVE  ImageTrue(BookCast(s, k, x, est, win, now), fa2, sh2, now)
<1> DEFINE s2 == BookCast(s, k, x, est, win, now)
           rec == DoneRec(IF win THEN "ok" ELSE "revert", now, x)
           ent == [tx |-> x, v |-> IF win THEN "win" ELSE "revert"]
<1>1. s2.sent = [s.sent EXCEPT ![k] = rec] /\ s2.hist = Append(s.hist, ent)
  BY DEF BookCast, ImageTrue, Image
<1>2. s2 \in Image
  BY BookCastType DEF ImageTrue
<1>3. ~InFlight(rec) /\ ent.tx = x
  BY DEF InFlight, DoneRec, NoRec
<1>4. \A j \in Keys : InFlight(s2.sent[j]) => s2.sent[j] = s.sent[j]
  BY <1>1, <1>3 DEF ImageTrue, Image
<1>5. /\ s.hist \in Seq(Entry)
      /\ \A i \in DOMAIN s2.hist :
           \/ (i \in DOMAIN s.hist /\ s2.hist[i] = s.hist[i])
           \/ (i = Len(s.hist) + 1 /\ s2.hist[i] = ent)
  <2>1. s.hist \in Seq(Entry)
    BY DEF ImageTrue, Image
  <2> HIDE DEF ent, s2, rec
  <2> QED
    BY <2>1, <1>1
<1> HIDE DEF s2, rec, ent
<1>6. \A j \in Keys : InFlight(s.sent[j]) => s.sent[j].tx # x /\ s.sent[j].tx \in Txs
  BY DEF ImageTrue, RecordsTrue
<1>7. RecordsTrue(s2, fa2, sh2, now)
  BY <1>4, <1>6 DEF ImageTrue, RecordsTrue
<1>8. \A i \in DOMAIN s.hist : s.hist[i].tx # NoTx => s.hist[i].tx # x /\ s.hist[i].tx \in Txs
  <2>1. \A i \in DOMAIN s.hist : s.hist[i] \in Entry
    BY <1>5
  <2> QED
    BY <2>1, BoundsAssumption DEF Entry, NoTx, Txs, ImageTrue, VerdictsFinal
<1>9. x # NoTx
  BY BoundsAssumption DEF Txs, NoTx
<1>10. VerdictsFinal(s2, fa2)
  BY <1>3, <1>4, <1>5, <1>6, <1>8, <1>9 DEF ImageTrue, VerdictsFinal
<1>11. ImageTrue(s2, fa2, sh2, now)
  BY <1>2, <1>7, <1>10 DEF ImageTrue
<1> QED
  BY <1>11 DEF s2

\* Rewriting one record without touching what identifies its shot.
LEMMA RewriteTrue ==
  ASSUME NEW s, NEW k \in Keys, NEW r2 \in Rec, NEW now \in Nat,
         ImageTrue(s, fate, shot, now),
         InFlight(r2) => InFlight(s.sent[k]),
         r2.tx = s.sent[k].tx, r2.ts = s.sent[k].ts,
         r2.status = "stale" => now - r2.ts > PENDING_STALE_SEC
  PROVE  ImageTrue([s EXCEPT !.sent[k] = r2], fate, shot, now)
<1> DEFINE s2 == [s EXCEPT !.sent[k] = r2]
<1>1. s2.sent = [s.sent EXCEPT ![k] = r2] /\ s2.hist = s.hist
  BY DEF ImageTrue, Image
<1>2. s2 \in Image
  BY RecType DEF ImageTrue
<1>3. s2.sent[k] = r2 /\ \A j \in Keys : j # k => s2.sent[j] = s.sent[j]
  BY <1>1 DEF ImageTrue, Image
<1> HIDE DEF s2
<1>4. RecordsTrue(s2, fate, shot, now)
  BY <1>3 DEF ImageTrue, RecordsTrue
<1>5. VerdictsFinal(s2, fate)
  BY <1>1, <1>3 DEF ImageTrue, VerdictsFinal
<1>6. ImageTrue(s2, fate, shot, now)
  BY <1>2, <1>4, <1>5 DEF ImageTrue
<1> QED
  BY <1>6 DEF s2

LEMMA StaleWallKeeps ==
  ASSUME NEW rec \in Rec, NEW now \in Nat,
         rec.status = "stale" => now - rec.ts > PENDING_STALE_SEC
  PROVE  LET r2 == StaleWall(rec, now) IN
         /\ r2 \in Rec /\ r2.tx = rec.tx /\ r2.ts = rec.ts
         /\ InFlight(r2) <=> InFlight(rec)
         /\ r2.status = "stale" => now - r2.ts > PENDING_STALE_SEC
         /\ now - rec.ts <= PENDING_STALE_SEC => r2 = rec
BY StaleWallType, TimerAssumption DEF StaleWall, InFlight, Rec

LEMMA PolledKeeps ==
  ASSUME NEW r \in Rec, NEW now \in Nat
  PROVE  LET r2 == [r EXCEPT !.poll = now] IN
         /\ r2 \in Rec /\ r2.tx = r.tx /\ r2.ts = r.ts /\ r2.status = r.status
         /\ r2.poll = now
BY DEF Rec

\* Booking a verdict.
LEMMA SettleTrue ==
  ASSUME NEW s, NEW k \in Keys, NEW rec \in Rec, rec.poll \in Nat, NEW now \in Nat,
         NEW win \in BOOLEAN, NEW actual \in Nat,
         NEW fa, NEW sh, NEW fa2,
         ImageTrue(s, fa, sh, now), Onward(fa, sh, fa2, sh),
         InFlight(s.sent[k]), rec.tx = s.sent[k].tx
  PROVE  ImageTrue(Settle(s, k, rec, win, actual), fa2, sh, now)
<1> DEFINE s2 == Settle(s, k, rec, win, actual)
           r2 == DoneRec(IF win THEN "ok" ELSE "revert", rec.ts, rec.tx)
           ent == [tx |-> rec.tx, v |-> Verdict(k, win)]
<1>1. s2.sent = [s.sent EXCEPT ![k] = r2] /\ s2.hist = Append(s.hist, ent)
  BY DEF Settle, ImageTrue, Image
<1>2. s2 \in Image
  BY SettleType DEF ImageTrue
<1>3. ~InFlight(r2) /\ ent.tx = rec.tx
  BY DEF InFlight, DoneRec, NoRec
<1>4. \A j \in Keys : InFlight(s2.sent[j]) => s2.sent[j] = s.sent[j] /\ j # k
  BY <1>1, <1>3 DEF ImageTrue, Image
<1>5. /\ s.hist \in Seq(Entry)
      /\ \A i \in DOMAIN s2.hist :
           \/ (i \in DOMAIN s.hist /\ s2.hist[i] = s.hist[i])
           \/ (i = Len(s.hist) + 1 /\ s2.hist[i] = ent)
  <2>1. s.hist \in Seq(Entry)
    BY DEF ImageTrue, Image
  <2> HIDE DEF ent, s2, r2
  <2> QED
    BY <2>1, <1>1
<1> HIDE DEF s2, r2, ent
<1>6. rec.tx \in Txs /\ fa[rec.tx] # "unsent" /\ sh[rec.tx].key = k
  BY DEF ImageTrue, RecordsTrue
<1>7. \A j \in Keys : InFlight(s2.sent[j]) => s2.sent[j].tx # rec.tx /\ s2.sent[j].tx \in Txs
  BY <1>4, <1>6 DEF ImageTrue, RecordsTrue
<1>8. \A i \in DOMAIN s.hist : s.hist[i].tx # NoTx => s.hist[i].tx # rec.tx /\ s.hist[i].tx \in Txs
  <2>1. \A i \in DOMAIN s.hist : s.hist[i] \in Entry
    BY <1>5
  <2> QED
    BY <2>1, BoundsAssumption DEF Entry, NoTx, Txs, ImageTrue, VerdictsFinal
<1>9. RecordsTrue(s2, fa2, sh, now)
  BY <1>4, <1>7 DEF ImageTrue, RecordsTrue, Onward
<1>10. VerdictsFinal(s2, fa2)
  BY <1>3, <1>4, <1>5, <1>6, <1>7, <1>8 DEF ImageTrue, VerdictsFinal, Onward
<1>11. ImageTrue(s2, fa2, sh, now)
  BY <1>2, <1>9, <1>10 DEF ImageTrue
<1> QED
  BY <1>11 DEF s2

LEMMA FreshTrue == ASSUME NEW fa, NEW sh, NEW now PROVE ImageTrue(FreshImage, fa, sh, now)
<1>1. ~InFlight(NoRec)
  BY DEF InFlight, NoRec
<1>2. /\ \A k \in Keys : FreshImage.sent[k] = NoRec
      /\ FreshImage.hist = <<>>
  BY DEF FreshImage
<1> QED
  BY <1>1, <1>2, FreshType DEF ImageTrue, RecordsTrue, VerdictsFinal

LEMMA InitInv == Init => IInv
<1> SUFFICES ASSUME Init PROVE IInv
  OBVIOUS
<1>1. TypeOK
  BY InitType
<1>4. ImageTrue(FreshImage, fate, shot, clock)
  BY FreshTrue
<1>5. LiveGuarded
  BY DEF Init, LiveGuarded, LiveShot
<1>6. TodoInFlight
  BY DEF Init, TodoInFlight
<1> QED
  BY <1>1, <1>4, <1>5, <1>6 DEF IInv, Init

\* The conjuncts of IInv in the next state, when memory and file only trade
\* places and the chain, the clock and the lost set stand still.
LEMMA Unmoved ==
  ASSUME IInv, TypeOK', st' = st, disk' \in {st, disk}, held' = held, fate' = fate, shot' = shot,
         clock' = clock, lost' = lost, pc' # "settle"
  PROVE  IInv'
<1>1. LiveGuarded'
  BY DEF IInv, LiveGuarded, LiveShot, Guarded
<1> QED
  BY <1>1 DEF IInv, TodoInFlight

\* A shot that is new to the chain: what else is live was live before.
LEMMA BroadcastFacts ==
  ASSUME TypeOK, NEW x \in Txs, NEW k \in Keys, NEW f \in Fates \ {"unsent"}, Broadcast(x, k, f)
  PROVE  /\ fate[x] = "unsent" /\ fate' \in [Txs -> Fates] /\ fate'[x] = f
         /\ shot'[x].key = k /\ shot'[x].at = clock
         /\ \A y \in Txs : y # x => fate'[y] = fate[y] /\ shot'[y] = shot[y]
         /\ Onward(fate, shot, fate', shot')
BY DEF Broadcast, Fresh, TypeOK, Onward

\* A shot booked as pending, under a key no pending record holds or that is
\* a probe's.
LEMMA NewShot ==
  ASSUME IInv, TypeOK', NEW k \in Keys, NEW x \in Txs, NEW est \in Nat,
         st.sent[k].status # "pending" \/ IsProbe(k),
         Broadcast(x, k, "pool"), st' = BookPending(st, k, x, est, clock),
         UNCHANGED <<disk, held, clock, lost>>, pc' # "settle"
  PROVE  IInv'
<1>1. TypeOK /\ clock \in Nat /\ st \in Image /\ disk \in Image /\ held \in Image
  BY DEF IInv, TypeOK
<1>2. /\ fate[x] = "unsent" /\ fate' \in [Txs -> Fates] /\ fate'[x] = "pool"
      /\ shot'[x].key = k /\ shot'[x].at = clock
      /\ \A y \in Txs : y # x => fate'[y] = fate[y] /\ shot'[y] = shot[y]
      /\ Onward(fate, shot, fate', shot')
  <2>1. "pool" \in Fates \ {"unsent"}
    BY DEF Fates
  <2> QED
    BY <1>1, <2>1, BroadcastFacts
<1>3. ImageTrue(st', fate', shot', clock)
  BY <1>1, <1>2, BookPendingTrue DEF IInv
<1>4. ImageTrue(disk, fate', shot', clock) /\ ImageTrue(held, fate', shot', clock)
  BY <1>1, <1>2, TrueOnward DEF IInv
<1>5. /\ st'.sent[k].status = "pending" /\ st'.sent[k].tx = x /\ st'.sent[k].ts = clock
      /\ \A j \in Keys : j # k => st'.sent[j] = st.sent[j]
  BY <1>1 DEF BookPending, Image
<1>6. LiveGuarded'
  <2> SUFFICES ASSUME RAW_TX, NEW y \in Txs, LiveShot(y)' PROVE Guarded(st, y)'
    BY DEF LiveGuarded
  <2>1. CASE y = x
    BY <2>1, <1>2, <1>5 DEF Guarded
  <2>2. CASE y # x
    <3>1. LiveShot(y) /\ shot'[y] = shot[y] /\ shot[y].key \in Keys
      BY <2>2, <1>1, <1>2 DEF LiveShot, TypeOK
    <3>2. Guarded(st, y) /\ ~IsProbe(shot[y].key)
      BY <3>1 DEF IInv, LiveGuarded, LiveShot
    <3>3. shot[y].key # k
      BY <3>2 DEF Guarded
    <3> QED
      BY <1>5, <3>1, <3>2, <3>3 DEF Guarded
  <2> QED
    BY <2>1, <2>2
<1> QED
  BY <1>3, <1>4, <1>6 DEF IInv, TodoInFlight

\* A refused shot parks its key, which no live shot holds.
LEMMA Parked ==
  ASSUME IInv, TypeOK', NEW k \in Keys,
         st.sent[k].status # "pending" \/ IsProbe(k),
         st' = BookSendError(st, k, clock),
         UNCHANGED <<disk, held, fate, shot, clock, lost>>, pc' # "settle"
  PROVE  IInv'
<1>1. TypeOK /\ clock \in Nat /\ st \in Image
  BY DEF IInv, TypeOK
<1>2. ImageTrue(st', fate, shot, clock)
  BY <1>1, SendErrorTrue DEF IInv
<1>3. \A j \in Keys : j # k => st'.sent[j] = st.sent[j]
  BY <1>1 DEF BookSendError, Image
<1>4. LiveGuarded'
  <2> SUFFICES ASSUME RAW_TX, NEW y \in Txs, LiveShot(y)' PROVE Guarded(st, y)'
    BY DEF LiveGuarded
  <2>1. LiveShot(y) /\ shot[y].key \in Keys
    BY <1>1 DEF LiveShot, TypeOK
  <2>2. Guarded(st, y) /\ ~IsProbe(shot[y].key)
    BY <2>1 DEF IInv, LiveGuarded, LiveShot
  <2>3. shot[y].key # k
    BY <2>2 DEF Guarded
  <2> QED
    BY <1>3, <2>1, <2>2, <2>3 DEF Guarded
<1> QED
  BY <1>2, <1>4 DEF IInv, TodoInFlight

\* An image that still tracks a shot younger than the wall tracks it as pending.
LEMMA TrackedPending ==
  ASSUME NEW s, NEW x \in Txs, clock \in Nat, ImageTrue(s, fate, shot, clock), Tracks(s, x),
         clock - shot[x].at <= PENDING_STALE_SEC
  PROVE  Guarded(s, x)
<1>1. PICK k \in Keys : InFlight(s.sent[k]) /\ s.sent[k].tx = x
  BY DEF Tracks
<1>2. /\ shot[x].key = k /\ shot[x].at = s.sent[k].ts
      /\ s.sent[k].status = "stale" => clock - s.sent[k].ts > PENDING_STALE_SEC
  BY <1>1 DEF ImageTrue, RecordsTrue
<1>3. s.sent[k].ts \in Nat
  BY DEF ImageTrue, Image, Rec
<1>4. s.sent[k].status = "pending"
  BY <1>1, <1>2, <1>3, TimerAssumption DEF InFlight
<1> QED
  BY <1>1, <1>2, <1>4 DEF Guarded

LEMMA NextInv == IInv /\ [Next]_vars => IInv'
<1> SUFFICES ASSUME IInv, [Next]_vars PROVE IInv'
  OBVIOUS
<1>0. TypeOK'
  BY NextType DEF IInv
<1>t. /\ clock \in Nat /\ utc \in Nat /\ st \in Image /\ disk \in Image /\ held \in Image
      /\ fate \in [Txs -> Fates] /\ TypeOK
  BY DEF IInv, TypeOK
<1>1. CASE Start
  <2>1. st' = st /\ disk' \in {st, disk} /\ fate' = fate /\ shot' = shot /\ clock' = clock
        /\ lost' = lost /\ held' = held /\ pc' # "settle"
    BY <1>1 DEF Start, IInv, TypeOK, chain, env
  <2> QED
    BY <1>0, <2>1, Unmoved
<1>2. CASE StartTripped
  <2>1. st' = st /\ disk' \in {st, disk} /\ fate' = fate /\ shot' = shot /\ clock' = clock
        /\ lost' = lost /\ held' = held /\ pc' # "settle"
    BY <1>2 DEF StartTripped, IInv, TypeOK, chain, env
  <2> QED
    BY <1>0, <2>1, Unmoved
<1>3. CASE TrippedExit
  <2>1. st' = st /\ disk' \in {st, disk} /\ fate' = fate /\ shot' = shot /\ clock' = clock
        /\ lost' = lost /\ held' = held /\ pc' # "settle"
    BY <1>3 DEF TrippedExit, IInv, TypeOK, chain, env
  <2> QED
    BY <1>0, <2>1, Unmoved
<1>4. CASE BeginIteration
  <2>1. ImageTrue(st', fate, shot, clock)
    BY <1>4, <1>t, RollDayTrue DEF BeginIteration, IInv
  <2>2. st'.sent = st.sent
    BY <1>4, <1>t DEF BeginIteration, RollDay, Image
  <2>3. UNCHANGED <<disk, held, fate, shot, clock, lost>>
    BY <1>4 DEF BeginIteration, chain, env
  <2>4. LiveGuarded'
    BY <2>2, <2>3 DEF IInv, LiveGuarded, LiveShot, Guarded
  <2>5. TodoInFlight'
    BY <1>4, <2>2 DEF BeginIteration, TodoInFlight
  <2> QED
    BY <1>0, <2>1, <2>3, <2>4, <2>5 DEF IInv
<1>5. ASSUME NEW k \in Keys, SkipThrottled(k) \/ NoVerdict(k) PROVE IInv'
  <2> DEFINE r2 == IF NoVerdict(k) THEN Polled(k) ELSE Walled(k)
  <2>1. st.sent[k] \in Rec
    BY <1>t DEF Image
  <2>2. st.sent[k].status = "stale" => clock - st.sent[k].ts > PENDING_STALE_SEC
    BY DEF IInv, ImageTrue, RecordsTrue, InFlight
  <2>3. /\ r2 \in Rec /\ r2.tx = st.sent[k].tx /\ r2.ts = st.sent[k].ts
        /\ InFlight(r2) <=> InFlight(st.sent[k])
        /\ r2.status = "stale" => clock - r2.ts > PENDING_STALE_SEC
        /\ clock - st.sent[k].ts <= PENDING_STALE_SEC => r2.status = st.sent[k].status
    BY <1>t, <2>1, <2>2, StaleWallKeeps, PolledKeeps DEF Polled, Walled, InFlight
  <2>4. st' = [st EXCEPT !.sent[k] = r2]
    BY <1>5 DEF SkipThrottled, NoVerdict, Throttled
  <2> HIDE DEF r2
  <2>5. UNCHANGED <<pc, disk, held, fate, shot, clock, lost>> /\ todo' = todo \ {k} /\ pc = "settle"
    BY <1>5 DEF SkipThrottled, NoVerdict, Looked, chain, env
  <2>6. ImageTrue(st', fate, shot, clock)
    BY <1>t, <2>3, <2>4, RewriteTrue DEF IInv
  <2>7. /\ st'.sent[k] = r2
        /\ \A j \in Keys : j # k => st'.sent[j] = st.sent[j]
    BY <1>t, <2>4 DEF Image
  <2>8. LiveGuarded'
    <3> SUFFICES ASSUME RAW_TX, NEW x \in Txs, LiveShot(x)' PROVE Guarded(st, x)'
      BY <2>5 DEF LiveGuarded
    <3>1. LiveShot(x) /\ shot[x].key \in Keys
      BY <2>5, <1>t DEF LiveShot, TypeOK
    <3>2. Guarded(st, x) /\ clock - shot[x].at <= PENDING_STALE_SEC
      BY <3>1 DEF IInv, LiveGuarded, LiveShot
    <3> QED
      BY <2>3, <2>5, <2>7, <3>1, <3>2 DEF Guarded
  <2>9. TodoInFlight'
    BY <2>3, <2>5, <2>7 DEF IInv, TypeOK, TodoInFlight
  <2> QED
    BY <1>0, <2>5, <2>6, <2>8, <2>9 DEF IInv
<1>6. ASSUME NEW k \in Keys, Decide(k) PROVE IInv'
  <2> DEFINE x == st.sent[k].tx
  <2>1. PICK f \in IF fate[x] = "pool" THEN {"win", "revert"} ELSE {fate[x]},
             actual \in GasActual \cup {st.sent[k].gas} :
          /\ fate' = [fate EXCEPT ![x] = f]
          /\ st' = Settle(st, k, Polled(k), f = "win", actual)
    BY <1>6 DEF Decide
  <2>2. st.sent[k] \in Rec
    BY <1>t DEF Image
  <2>3. actual \in Nat
    BY <2>2, ExecutorAssumption DEF Rec
  <2>4. InFlight(st.sent[k]) /\ x \in Txs /\ fate[x] # "unsent" /\ shot[x].key = k
    BY <1>6 DEF Decide, IInv, TodoInFlight, ImageTrue, RecordsTrue
  <2>5. Onward(fate, shot, fate', shot) /\ fate'[x] # "pool"
        /\ \A y \in Txs : y # x => fate'[y] = fate[y]
    BY <1>t, <2>1, <2>4 DEF Onward
  <2>6. Polled(k) \in Rec /\ Polled(k).poll \in Nat /\ Polled(k).tx = x
    BY <1>t, <2>2, StaleWallType, PolledKeeps DEF Polled, Walled, StaleWall, Rec
  <2>7. UNCHANGED <<pc, disk, held, shot, clock, lost>> /\ todo' = todo \ {k}
    BY <1>6 DEF Decide, env
  <2>8. ImageTrue(st', fate', shot, clock)
    BY <1>t, <2>1, <2>3, <2>4, <2>5, <2>6, SettleTrue DEF IInv
  <2>9. ImageTrue(disk, fate', shot, clock) /\ ImageTrue(held, fate', shot, clock)
    BY <1>t, <2>5, TrueOnward DEF IInv
  <2>10. \A j \in Keys : j # k => st'.sent[j] = st.sent[j]
    BY <1>t, <2>1 DEF Settle, Image
  <2>11. LiveGuarded'
    <3> SUFFICES ASSUME RAW_TX, NEW y \in Txs, LiveShot(y)' PROVE Guarded(st, y)'
      BY <2>7 DEF LiveGuarded
    <3>1. LiveShot(y) /\ y # x /\ shot[y].key \in Keys
      BY <2>5, <2>7, <1>t DEF LiveShot, TypeOK
    <3>2. Guarded(st, y)
      BY <3>1 DEF IInv, LiveGuarded
    <3>3. shot[y].key # k
      BY <3>1, <3>2 DEF Guarded
    <3> QED
      BY <2>7, <2>10, <3>1, <3>2, <3>3 DEF Guarded
  <2>12. TodoInFlight'
    BY <2>7, <2>10 DEF IInv, TypeOK, TodoInFlight
  <2> QED
    BY <1>0, <2>7, <2>8, <2>9, <2>11, <2>12 DEF IInv
<1>7. CASE EndSettle
  <2>1. ImageTrue(st', fate, shot, clock)
    BY <1>7, <1>t, PurgeTrue DEF EndSettle, IInv
  <2>2. UNCHANGED <<disk, held, fate, shot, clock, lost>> /\ pc' = "fire"
    BY <1>7 DEF EndSettle, chain, env
  <2>3. LiveGuarded'
    <3> SUFFICES ASSUME RAW_TX, NEW x \in Txs, LiveShot(x)' PROVE Guarded(st, x)'
      BY <2>2 DEF LiveGuarded
    <3>1. LiveShot(x) /\ shot[x].key \in Keys /\ shot[x].at \in Nat
      BY <2>2, <1>t DEF LiveShot, TypeOK
    <3>2. Guarded(st, x) /\ clock - shot[x].at <= PENDING_STALE_SEC
      BY <3>1 DEF IInv, LiveGuarded, LiveShot
    <3>3. ~(clock - st.sent[shot[x].key].ts > SENT_RETENTION_SEC)
      BY <1>t, <3>1, <3>2, TimerAssumption DEF Guarded
    <3>4. st'.sent[shot[x].key] = st.sent[shot[x].key]
      BY <1>7, <1>t, <3>1, <3>3 DEF EndSettle, Purge, Image
    <3> QED
      BY <2>2, <3>2, <3>4 DEF Guarded
  <2> QED
    BY <1>0, <2>1, <2>2, <2>3 DEF IInv, TodoInFlight
<1>8. ASSUME NEW b \in Borrowers, FireRaw(b) PROVE IInv'
  <2> DEFINE k == <<b, 0>>
  <2>1. PICK x \in Txs, est \in GasEst :
          Broadcast(x, k, "pool") /\ st' = BookPending(st, k, x, est, clock)
    BY <1>8 DEF FireRaw
  <2>2. k \in Keys /\ est \in Nat
    BY KeyType, BoundsAssumption, ExecutorAssumption
  <2>3. st.sent[k].status # "pending"
    BY <1>8 DEF FireRaw, MayFire, RecentlyFired
  <2> QED
    <3> HIDE DEF k
    <3>1. UNCHANGED <<disk, held, clock, lost>> /\ pc' # "settle"
      BY <1>8 DEF FireRaw, MayFire, env
    <3> QED
      BY <1>0, <2>1, <2>2, <2>3, <3>1, NewShot
<1>9. ASSUME NEW b \in Borrowers, FireProbe(b) PROVE IInv'
  <2> DEFINE k == <<b, specSeq'>>
  <2>1. PICK x \in Txs, est \in GasEst :
          Broadcast(x, k, "pool") /\ st' = BookPending(st, k, x, est, clock)
    BY <1>9 DEF FireProbe
  <2>2. specSeq' \in 0..MaxProbes /\ specSeq' # 0
    BY <1>9, <1>t, BoundsAssumption DEF FireProbe, MayProbe, TypeOK
  <2>3. k \in Keys /\ est \in Nat /\ IsProbe(k)
    BY <2>2, KeyType, ExecutorAssumption DEF IsProbe
  <2> QED
    <3> HIDE DEF k
    <3>1. UNCHANGED <<disk, held, clock, lost>> /\ pc' # "settle"
      BY <1>9 DEF FireProbe, MayProbe, env
    <3> QED
      BY <1>0, <2>1, <2>3, <3>1, NewShot
<1>10. ASSUME NEW b \in Borrowers, FireRefused(b) PROVE IInv'
  <2>1. st' = BookSendError(st, <<b, 0>>, clock) /\ UNCHANGED <<disk, held, fate, shot, clock, lost>>
        /\ pc' # "settle" /\ st.sent[<<b, 0>>].status # "pending" /\ <<b, 0>> \in Keys
    BY <1>10, KeyType, BoundsAssumption
       DEF FireRefused, MayFire, Refuse, RecentlyFired, chain, operator
  <2> QED
    BY <1>0, <2>1, Parked
<1>11. ASSUME NEW b \in Borrowers, ProbeRefused(b) PROVE IInv'
  <2>1. specSeq' \in 0..MaxProbes /\ specSeq' # 0
    BY <1>11, <1>t, BoundsAssumption DEF ProbeRefused, MayProbe, TypeOK
  <2>2. <<b, specSeq'>> \in Keys /\ IsProbe(<<b, specSeq'>>)
    BY <2>1, KeyType DEF IsProbe
  <2>3. st' = BookSendError(st, <<b, specSeq'>>, clock)
        /\ UNCHANGED <<disk, held, fate, shot, clock, lost>> /\ pc' # "settle"
    BY <1>11 DEF ProbeRefused, MayProbe, Refuse, chain, operator
  <2> QED
    BY <1>0, <2>2, <2>3, Parked
<1>12. ASSUME NEW b \in Borrowers, FireCast(b) PROVE IInv'
  <2> DEFINE k == <<b, 0>>
  <2>1. PICK x \in Txs, est \in GasEst, f \in {"win", "revert", "pool"} :
          Broadcast(x, k, f) /\ st' = BookCast(st, k, x, est, f = "win", clock)
    BY <1>12 DEF FireCast
  <2>2. k \in Keys /\ est \in Nat /\ f \in Fates \ {"unsent"}
    BY KeyType, BoundsAssumption, ExecutorAssumption DEF Fates
  <2>3. UNCHANGED <<disk, held, clock, lost>> /\ pc' # "settle" /\ ~RAW_TX
    BY <1>12 DEF FireCast, MayFire, env
  <2> HIDE DEF k
  <2>4. /\ fate[x] = "unsent" /\ fate' \in [Txs -> Fates] /\ fate'[x] # "unsent"
        /\ \A y \in Txs : y # x => fate'[y] = fate[y] /\ shot'[y] = shot[y]
        /\ Onward(fate, shot, fate', shot')
    BY <1>t, <2>1, <2>2, BroadcastFacts
  <2>5. ImageTrue(st', fate', shot', clock)
    BY <1>t, <2>1, <2>2, <2>4, BookCastTrue DEF IInv
  <2>6. ImageTrue(disk, fate', shot', clock) /\ ImageTrue(held, fate', shot', clock)
    BY <1>t, <2>4, TrueOnward DEF IInv
  <2> QED
    BY <1>0, <2>3, <2>5, <2>6 DEF IInv, LiveGuarded, TodoInFlight
<1>13. CASE EndFire
  <2>1. st' = st /\ disk' \in {st, disk} /\ fate' = fate /\ shot' = shot /\ clock' = clock
        /\ lost' = lost /\ held' = held /\ pc' # "settle"
    BY <1>13 DEF EndFire, IInv, TypeOK, chain, env
  <2> QED
    BY <1>0, <2>1, Unmoved
<1>14. CASE EndProbe
  <2>1. st' = st /\ disk' \in {st, disk} /\ fate' = fate /\ shot' = shot /\ clock' = clock
        /\ lost' = lost /\ held' = held /\ pc' # "settle"
    BY <1>14 DEF EndProbe, IInv, TypeOK, chain, env
  <2> QED
    BY <1>0, <2>1, Unmoved
<1>15. CASE IterationFails
  <2>1. st' = st /\ disk' \in {st, disk} /\ fate' = fate /\ shot' = shot /\ clock' = clock
        /\ lost' = lost /\ held' = held /\ pc' # "settle"
    BY <1>15 DEF IterationFails, IInv, TypeOK, chain, env
  <2> QED
    BY <1>0, <2>1, Unmoved
<1>16. CASE Save
  <2>1. st' = st /\ disk' \in {st, disk} /\ fate' = fate /\ shot' = shot /\ clock' = clock
        /\ lost' = lost /\ held' = held /\ pc' # "settle"
    BY <1>16 DEF Save, IInv, TypeOK, chain, env
  <2> QED
    BY <1>0, <2>1, Unmoved
<1>17. CASE KillExit
  <2>1. st' = st /\ disk' \in {st, disk} /\ fate' = fate /\ shot' = shot /\ clock' = clock
        /\ lost' = lost /\ held' = held /\ pc' # "settle"
    BY <1>17 DEF KillExit, IInv, TypeOK, chain, env
  <2> QED
    BY <1>0, <2>1, Unmoved
<1>18. CASE Crash
  <2>1. st' = disk /\ UNCHANGED <<disk, held, fate, shot, clock>> /\ pc' = "down"
        /\ lost' = lost \cup {x \in Txs : Tracks(st, x) /\ ~Tracks(disk, x)}
    BY <1>18 DEF Crash, chain, operator
  <2>2. LiveGuarded'
    <3> SUFFICES ASSUME RAW_TX, NEW x \in Txs, LiveShot(x)' PROVE Guarded(st, x)'
      BY <2>1 DEF LiveGuarded
    <3>1. LiveShot(x) /\ shot[x].key \in Keys
      BY <2>1, <1>t DEF LiveShot, TypeOK
    <3>2. Guarded(st, x) /\ clock - shot[x].at <= PENDING_STALE_SEC
      BY <3>1 DEF IInv, LiveGuarded, LiveShot
    <3>3. Tracks(st, x)
      BY <3>1, <3>2 DEF Guarded, Tracks, InFlight
    <3>4. Tracks(disk, x)
      BY <2>1, <3>3 DEF LiveShot
    <3> QED
      BY <1>t, <2>1, <3>2, <3>4, TrackedPending DEF IInv, Guarded
  <2> QED
    BY <1>0, <2>1, <2>2 DEF IInv, TodoInFlight
<1>19. CASE ResetLoad
  <2>1. held' = disk /\ UNCHANGED <<pc, st, todo, disk, fate, shot, clock, lost>>
    BY <1>19 DEF ResetLoad, chain, proc
  <2> QED
    BY <1>0, <2>1 DEF IInv, LiveGuarded, LiveShot, Guarded, TodoInFlight
<1>23. CASE ResetSave
  <2>1. /\ disk' = Reset(held) /\ held' = FreshImage /\ UNCHANGED <<pc, todo, fate, shot, clock>>
        /\ st' = IF pc = "down" THEN disk' ELSE st
        /\ lost' = lost \cup {x \in Txs : pc = "down" /\ Tracks(disk, x) /\ ~Tracks(held, x)}
    BY <1>23 DEF ResetSave, chain
  <2>2. ImageTrue(disk', fate, shot, clock) /\ ImageTrue(held', fate, shot, clock)
    BY <1>t, <2>1, ResetTrue, FreshTrue DEF IInv
  <2>3. LiveGuarded'
    <3> SUFFICES ASSUME RAW_TX, NEW x \in Txs, LiveShot(x)' PROVE Guarded(st, x)'
      BY <2>1 DEF LiveGuarded
    <3>1. LiveShot(x) /\ shot[x].key \in Keys
      BY <2>1, <1>t DEF LiveShot, TypeOK
    <3>2. Guarded(st, x) /\ clock - shot[x].at <= PENDING_STALE_SEC
      BY <3>1 DEF IInv, LiveGuarded, LiveShot
    <3>3. CASE pc # "down"
      BY <2>1, <3>2, <3>3 DEF Guarded
    <3>4. CASE pc = "down"
      <4>1. st = disk
        BY <3>4, <1>t DEF TypeOK
      <4>2. Tracks(disk, x)
        BY <3>1, <3>2, <4>1 DEF Guarded, Tracks, InFlight
      <4>3. Tracks(held, x)
        BY <2>1, <3>4, <4>2 DEF LiveShot
      <4>4. Guarded(held, x)
        BY <1>t, <3>2, <4>3, TrackedPending DEF IInv
      <4>5. disk'.sent[shot[x].key] = held.sent[shot[x].key]
        BY <1>t, <2>1, <3>1, <4>4 DEF Guarded, Reset, InFlight, Image
      <4> QED
        BY <2>1, <3>4, <4>4, <4>5 DEF Guarded
    <3> QED
      BY <3>3, <3>4
  <2>4. TodoInFlight'
    BY <2>1 DEF IInv, TodoInFlight
  <2> QED
    BY <1>0, <2>1, <2>2, <2>3, <2>4 DEF IInv
<1>20. CASE Tick
  <2>1. UNCHANGED <<pc, todo, st, disk, held, fate, shot, lost>> /\ clock' = clock + 1
    BY <1>20 DEF Tick, proc, chain, operator
  <2>2. ImageTrue(st, fate, shot, clock')
    <3>1. Onward(fate, shot, fate, shot) /\ clock' >= clock /\ clock' \in Nat
      BY <1>t, <2>1 DEF Onward
    <3> QED
      BY <1>t, <3>1, TrueOnward DEF IInv
  <2>3. ImageTrue(disk, fate, shot, clock') /\ ImageTrue(held, fate, shot, clock')
    <3>1. Onward(fate, shot, fate, shot) /\ clock' >= clock /\ clock' \in Nat
      BY <1>t, <2>1 DEF Onward
    <3> QED
      BY <1>t, <3>1, TrueOnward DEF IInv
  <2>4. LiveGuarded'
    <3>1. \A x \in Txs : shot[x].at \in Nat
      BY <1>t DEF TypeOK
    <3>2. \A x \in Txs : LiveShot(x)' => LiveShot(x)
      BY <1>t, <2>1, <3>1, TimerAssumption DEF LiveShot
    <3> QED
      BY <2>1, <3>2 DEF IInv, LiveGuarded, Guarded
  <2> QED
    BY <1>0, <2>1, <2>2, <2>3, <2>4 DEF IInv, TodoInFlight
<1>21. CASE NextDay
  <2>1. UNCHANGED <<st, disk, held, fate, shot, clock, lost>> /\ pc' # "settle"
    BY <1>21 DEF NextDay, Idle, proc, chain, operator
  <2> QED
    BY <1>0, <2>1, Unmoved
<1>22. CASE UNCHANGED vars
  BY <1>0, <1>22 DEF vars, IInv, LiveGuarded, LiveShot, Guarded, TodoInFlight
<1> QED
  BY <1>1, <1>2, <1>3, <1>4, <1>5, <1>6, <1>7, <1>8, <1>9, <1>10, <1>11, <1>12, <1>13,
     <1>14, <1>15, <1>16, <1>17, <1>18, <1>19, <1>20, <1>21, <1>22, <1>23 DEF Next, Process

\* The strengthened invariant holds in every behaviour.
THEOREM Invariance == Spec => []IInv
BY InitInv, NextInv, PTL DEF Spec

LEMMA OneLiveShotFromInv == IInv => OneLiveShot
BY DEF IInv, LiveGuarded, Guarded, OneLiveShot

LEMMA SettledOnceFromInv == IInv => SettledOnce
BY DEF IInv, ImageTrue, VerdictsFinal, SettledOnce

\* For any number of borrowers, shots, restarts and resets: no position has
\* two reactive shots on the wire within the stale wall, unless the record of
\* the first was lost: to a kill before a save the file kept, or to a reset that
\* read the file before that save and wrote it after the loop's exit.
THEOREM OneLiveShotHolds == Spec => []OneLiveShot
BY Invariance, OneLiveShotFromInv, PTL

\* For any constants: no transaction's verdict is ever booked twice.
THEOREM SettledOnceHolds == Spec => []SettledOnce
BY Invariance, SettledOnceFromInv, PTL

-----------------------------------------------------------------------------
(***************************************************************************)
(* Sums over finite sets.  What a fold computes is unfolded by choosing a  *)
(* smallest subset on which a claim fails, as the well-founded order of    *)
(* inclusion provides it.                                                  *)
(***************************************************************************)

\* Among the subsets of a finite set that make up T, one contains no other.
LEMMA MinimalSubset ==
  ASSUME NEW S, IsFiniteSet(S), NEW T, T \subseteq SUBSET S, T # {}
  PROVE  \E t \in T : \A u \in T : u \subseteq t => u = t
<1>1. IsWellFoundedOn(StrictSubsetOrdering(S), SUBSET S)
  BY FS_StrictSubsetOrderingWellFounded, FS_FiniteSubsetsOfFinite
<1>2. \E t \in T : \A u \in T : ~ (<<u, t>> \in StrictSubsetOrdering(S))
  BY <1>1, WFMin
<1> QED BY <1>2 DEF StrictSubsetOrdering

Pick(s) == CHOOSE x \in s : TRUE

\* h is the function that SumFunctionOnSet(f, S) builds: it adds f up, one
\* picked element after the other.
AddsUp(h, f, S) ==
  h = [s \in SUBSET S |-> IF s = {} THEN 0 ELSE f[Pick(s)] + h[s \ {Pick(s)}]]

LEMMA PickType == ASSUME NEW s, s # {} PROVE Pick(s) \in s
BY DEF Pick

\* Two such functions agree where both are defined.
LEMMA SumUnique ==
  ASSUME NEW f, NEW S, NEW R, IsFiniteSet(S), NEW h, NEW g, AddsUp(h, f, S), AddsUp(g, f, R)
  PROVE  \A s \in SUBSET (S \cap R) : h[s] = g[s]
<1> DEFINE T == {s \in SUBSET (S \cap R) : h[s] # g[s]}
<1> SUFFICES ASSUME T # {} PROVE FALSE OBVIOUS
<1>1. PICK t \in T : \A u \in T : u \subseteq t => u = t
  <2>1. T \subseteq SUBSET S OBVIOUS
  <2> HIDE DEF T
  <2> QED BY <2>1, MinimalSubset
<1>2. h[{}] = 0 /\ g[{}] = 0 BY DEF AddsUp
<1>3. t # {} BY <1>2
<1>4. h[t] = f[Pick(t)] + h[t \ {Pick(t)}] /\ g[t] = f[Pick(t)] + g[t \ {Pick(t)}]
  BY <1>3 DEF AddsUp
<1>5. t \ {Pick(t)} \notin T BY <1>1, <1>3, PickType
<1> QED BY <1>4, <1>5

LEMMA SumExists ==
  ASSUME NEW f, NEW S, IsFiniteSet(S)
  PROVE  \E h : AddsUp(h, f, S)
<1> DEFINE T == {t \in SUBSET S : ~ \E h : AddsUp(h, f, t)}
<1> SUFFICES ASSUME T # {} PROVE FALSE OBVIOUS
<1>1. PICK t \in T : \A u \in T : u \subseteq t => u = t
  <2>1. T \subseteq SUBSET S OBVIOUS
  <2> HIDE DEF T
  <2> QED BY <2>1, MinimalSubset
<1> DEFINE of(u) == CHOOSE h : AddsUp(h, f, u)
           rest(s) == s \ {Pick(s)}
           all == [s \in SUBSET t |-> IF s = {} THEN 0 ELSE f[Pick(s)] + of(rest(s))[rest(s)]]
<1>2. ASSUME NEW u \in SUBSET t, u # t PROVE AddsUp(of(u), f, u)
  <2>1. \E h : AddsUp(h, f, u) BY <1>1, <1>2
  <2> QED BY <2>1
<1>3. ASSUME NEW u \in SUBSET t, u # t PROVE all[u] = of(u)[u]
  <2>1. AddsUp(of(u), f, u) BY <1>2, <1>3
  <2>2. CASE u = {}
    <3>1. of(u)[u] = 0 BY <2>1, <2>2 DEF AddsUp
    <3> QED BY <2>2, <3>1
  <2>3. CASE u # {}
    <3>1. rest(u) \in SUBSET u /\ rest(u) # t BY <1>3
    <3>2. AddsUp(of(rest(u)), f, rest(u)) BY <1>2, <3>1
    <3>3. IsFiniteSet(u) BY FS_Subset
    <3>4. of(u)[u] = f[Pick(u)] + of(u)[rest(u)] BY <2>1, <2>3 DEF AddsUp
    <3>5. rest(u) \in SUBSET (u \cap rest(u)) BY <3>1
    <3> HIDE DEF of, rest
    <3>6. of(u)[rest(u)] = of(rest(u))[rest(u)] BY <2>1, <3>2, <3>3, <3>5, SumUnique
    <3> QED BY <1>3, <2>3, <3>4, <3>6
  <2> QED BY <2>2, <2>3
<1>4. ASSUME NEW s \in SUBSET t, s # {} PROVE all[s] = f[Pick(s)] + all[rest(s)]
  <2>1. rest(s) \in SUBSET t /\ rest(s) # t BY <1>4, PickType
  <2>2. all[rest(s)] = of(rest(s))[rest(s)] BY <1>3, <2>1
  <2> QED BY <1>4, <2>2
<1>5. all = [s \in SUBSET t |-> IF s = {} THEN 0 ELSE f[Pick(s)] + all[rest(s)]]
  <2>1. all[{}] = 0 OBVIOUS
  <2>2. DOMAIN all = SUBSET t OBVIOUS
  <2>3. all = [s \in SUBSET t |-> all[s]] OBVIOUS
  <2> HIDE DEF all, rest
  <2> QED BY <1>4, <2>1, <2>3
<1>6. AddsUp(all, f, t) BY <1>5 DEF AddsUp
<1> QED BY <1>6

\* The recursion behind SumFunctionOnSet.
LEMMA SumStep ==
  ASSUME NEW f, NEW S, IsFiniteSet(S)
  PROVE  SumFunctionOnSet(f, S) =
           IF S = {} THEN 0 ELSE f[Pick(S)] + SumFunctionOnSet(f, S \ {Pick(S)})
<1> DEFINE of(u) == CHOOSE h : AddsUp(h, f, u)
           R == S \ {Pick(S)}
<1>1. ASSUME NEW u PROVE SumFunctionOnSet(f, u) = of(u)[u]
  BY DEF SumFunctionOnSet, FoldFunctionOnSet, MapThenFoldSet, AddsUp, Pick
<1>2. AddsUp(of(S), f, S) BY SumExists
<1>3. IsFiniteSet(R) /\ R \in SUBSET (S \cap R) BY FS_Subset
<1>4. AddsUp(of(R), f, R) BY <1>3, SumExists
<1> HIDE DEF of, R
<1>5. of(S)[R] = of(R)[R] BY <1>2, <1>3, <1>4, SumUnique
<1>6. of(S)[S] = IF S = {} THEN 0 ELSE f[Pick(S)] + of(S)[R] BY <1>2 DEF AddsUp, R
<1> QED BY <1>1, <1>5, <1>6 DEF R

LEMMA SumEmpty == ASSUME NEW f PROVE SumFunctionOnSet(f, {}) = 0
BY FS_EmptySet, SumStep

\* A sum stays in whatever holds its summands and is closed under addition.
LEMMA SumIn ==
  ASSUME NEW N, 0 \in N, \A a, b \in N : a + b \in N,
         NEW f, NEW S, IsFiniteSet(S), \A x \in S : f[x] \in N
  PROVE  SumFunctionOnSet(f, S) \in N
<1> DEFINE T == {t \in SUBSET S : SumFunctionOnSet(f, t) \notin N}
<1> SUFFICES ASSUME T # {} PROVE FALSE OBVIOUS
<1>1. PICK t \in T : \A u \in T : u \subseteq t => u = t
  <2>1. T \subseteq SUBSET S OBVIOUS
  <2> HIDE DEF T
  <2> QED BY <2>1, MinimalSubset
<1>2. IsFiniteSet(t) BY FS_Subset
<1>3. CASE t = {} BY <1>3, SumEmpty
<1>4. CASE t # {}
  <2>1. Pick(t) \in t /\ t \ {Pick(t)} \notin T BY <1>1, <1>4, PickType
  <2>2. SumFunctionOnSet(f, t) = f[Pick(t)] + SumFunctionOnSet(f, t \ {Pick(t)})
    BY <1>2, <1>4, SumStep
  <2>3. f[Pick(t)] \in N /\ SumFunctionOnSet(f, t \ {Pick(t)}) \in N BY <2>1
  <2> QED BY <2>2, <2>3
<1> QED BY <1>3, <1>4

LEMMA SumInt ==
  ASSUME NEW f, NEW S, IsFiniteSet(S), \A x \in S : f[x] \in Int
  PROVE  SumFunctionOnSet(f, S) \in Int
<1>1. 0 \in Int /\ \A a, b \in Int : a + b \in Int OBVIOUS
<1> QED BY <1>1, SumIn

LEMMA SumNat ==
  ASSUME NEW f, NEW S, IsFiniteSet(S), \A x \in S : f[x] \in Nat
  PROVE  SumFunctionOnSet(f, S) \in Nat
<1>1. 0 \in Nat /\ \A a, b \in Nat : a + b \in Nat OBVIOUS
<1> QED BY <1>1, SumIn

LEMMA SumZero ==
  ASSUME NEW f, NEW S, IsFiniteSet(S), \A x \in S : f[x] = 0
  PROVE  SumFunctionOnSet(f, S) = 0
<1>1. 0 \in {0} /\ \A a, b \in {0} : a + b \in {0} OBVIOUS
<1>2. \A x \in S : f[x] \in {0} OBVIOUS
<1>3. SumFunctionOnSet(f, S) \in {0} BY <1>1, <1>2, SumIn
<1> QED BY <1>3

\* Changing one summand changes the sum by as much.
LEMMA SumChange ==
  ASSUME NEW f, NEW g, NEW S, IsFiniteSet(S), NEW y,
         \A x \in S : f[x] \in Int /\ g[x] \in Int, \A x \in S : x # y => f[x] = g[x]
  PROVE  SumFunctionOnSet(g, S) =
           SumFunctionOnSet(f, S) + (IF y \in S THEN g[y] - f[y] ELSE 0)
<1> DEFINE by(t) == IF y \in t THEN g[y] - f[y] ELSE 0
           T == {t \in SUBSET S : SumFunctionOnSet(g, t) # SumFunctionOnSet(f, t) + by(t)}
<1> SUFFICES ASSUME T # {} PROVE FALSE OBVIOUS
<1>1. PICK t \in T : \A u \in T : u \subseteq t => u = t
  <2>1. T \subseteq SUBSET S OBVIOUS
  <2> HIDE DEF T
  <2> QED BY <2>1, MinimalSubset
<1>2. IsFiniteSet(t) BY FS_Subset
<1>3. CASE t = {} BY <1>3, SumEmpty
<1>4. CASE t # {}
  <2> DEFINE p == Pick(t)
             r == t \ {p}
  <2>1. p \in t /\ r \notin T /\ r \in SUBSET S BY <1>1, <1>4, PickType
  <2>2. /\ SumFunctionOnSet(f, t) = f[p] + SumFunctionOnSet(f, r)
        /\ SumFunctionOnSet(g, t) = g[p] + SumFunctionOnSet(g, r)
    BY <1>2, <1>4, SumStep
  <2>3. IsFiniteSet(r) BY <2>1, FS_Subset
  <2>4. SumFunctionOnSet(f, r) \in Int
    <3>1. \A x \in r : f[x] \in Int BY <2>1
    <3> HIDE DEF r
    <3> QED BY <2>3, <3>1, SumInt
  <2>5. SumFunctionOnSet(g, r) = SumFunctionOnSet(f, r) + by(r) BY <2>1
  <2>6. f[p] \in Int /\ g[p] \in Int /\ by(r) \in Int /\ by(t) = by(r) + (g[p] - f[p])
    <3>1. f[p] \in Int /\ g[p] \in Int BY <2>1
    <3>2. CASE p = y BY <2>1, <3>1, <3>2
    <3>3. CASE p # y BY <2>1, <3>1, <3>3
    <3> QED BY <3>1, <3>2, <3>3
  <2>7. SumFunctionOnSet(g, t) # SumFunctionOnSet(f, t) + by(t) BY <1>1
  <2> HIDE DEF p, r, by, T
  <2> QED BY <2>2, <2>4, <2>5, <2>6, <2>7
<1> QED BY <1>3, <1>4

-----------------------------------------------------------------------------
(***************************************************************************)
(* The kill-switch counter: reverts in a row of an image's history.        *)
(***************************************************************************)

\* The reverts that count, by their places in the history.
Run(h) ==
  {i \in DOMAIN h : h[i].v = "revert" /\ \A j \in i..Len(h) : h[j].v \notin {"win", "reset"}}

LEMMA RunFinite ==
  ASSUME NEW h \in Seq(Entry)
  PROVE  /\ RevertsInARow(h) = Cardinality(Run(h)) /\ RevertsInARow(h) \in Nat
         /\ IsFiniteSet(Run(h)) /\ Run(h) \subseteq 1..Len(h)
<1>1. Run(h) \subseteq 1..Len(h) BY DEF Run
<1>2. IsFiniteSet(Run(h)) BY <1>1, FS_Interval, FS_Subset
<1> QED BY <1>1, <1>2, FS_CardinalityType DEF RevertsInARow, Run

\* A verdict more: a revert makes the run one longer, a win or a reset ends
\* it, a probe's revert leaves it alone.
LEMMA RunAppend ==
  ASSUME NEW h \in Seq(Entry), NEW e \in Entry
  PROVE  RevertsInARow(Append(h, e)) =
           CASE e.v = "revert" -> RevertsInARow(h) + 1
             [] e.v \in {"win", "reset"} -> 0
             [] e.v = "probe_revert" -> RevertsInARow(h)
<1> DEFINE h2 == Append(h, e)
           n == Len(h) + 1
<1>1. /\ h2 \in Seq(Entry) /\ Len(h2) = n /\ n \in Nat /\ h2[n] = e /\ Len(h) \in Nat
      /\ DOMAIN h2 = 1..n /\ DOMAIN h = 1..Len(h)
      /\ \A i \in 1..Len(h) : h2[i] = h[i]
  OBVIOUS
<1>2. e.v \in {"win", "revert", "probe_revert", "reset"} BY DEF Entry
<1>3. /\ IsFiniteSet(Run(h)) /\ n \notin Run(h) BY <1>1, RunFinite
<1> HIDE DEF h2, n
<1>4. CASE e.v = "revert"
  <2>1. Run(h2) = Run(h) \cup {n} BY <1>1, <1>4 DEF Run, n
  <2>2. Cardinality(Run(h2)) = Cardinality(Run(h)) + 1 BY <1>3, <2>1, FS_AddElement
  <2> QED BY <1>1, <1>4, <2>2, RunFinite DEF h2
<1>5. CASE e.v \in {"win", "reset"}
  <2>1. Run(h2) = {} BY <1>1, <1>5 DEF Run, n
  <2> QED BY <1>1, <1>5, <2>1, RunFinite, FS_EmptySet DEF h2
<1>6. CASE e.v = "probe_revert"
  <2>1. Run(h2) = Run(h) BY <1>1, <1>6 DEF Run, n
  <2> QED BY <1>1, <1>6, <2>1, RunFinite DEF h2
<1> QED BY <1>2, <1>4, <1>5, <1>6

ConsecTrue(s) == s.consec = RevertsInARow(s.hist)

LEMMA CastConsec ==
  ASSUME NEW s \in Image, ConsecTrue(s), NEW k, NEW x \in Txs, NEW est, NEW win \in BOOLEAN, NEW now
  PROVE  ConsecTrue(BookCast(s, k, x, est, win, now))
<1> DEFINE s2 == BookCast(s, k, x, est, win, now)
           e == [tx |-> x, v |-> IF win THEN "win" ELSE "revert"]
<1>1. s2.hist = Append(s.hist, e) /\ s2.consec = IF win THEN 0 ELSE s.consec + 1
  BY DEF BookCast, Image
<1>2. e \in Entry /\ e.v = IF win THEN "win" ELSE "revert" BY BoundsAssumption DEF Entry, Txs
<1>3. s.hist \in Seq(Entry) BY DEF Image
<1> HIDE DEF s2, e
<1>4. RevertsInARow(s2.hist) = IF win THEN 0 ELSE RevertsInARow(s.hist) + 1
  BY <1>1, <1>2, <1>3, RunAppend
<1> QED BY <1>1, <1>4 DEF ConsecTrue, s2

LEMMA SettleConsec ==
  ASSUME NEW s \in Image, ConsecTrue(s), NEW k, NEW rec \in Rec, NEW win \in BOOLEAN, NEW actual
  PROVE  ConsecTrue(Settle(s, k, rec, win, actual))
<1> DEFINE s2 == Settle(s, k, rec, win, actual)
           e == [tx |-> rec.tx, v |-> Verdict(k, win)]
<1>1. s2.hist = Append(s.hist, e) /\ s2.consec = ConsecAfter(s, k, win)
  BY DEF Settle, Image
<1>2. e \in Entry /\ e.v = Verdict(k, win) BY DEF Entry, Rec, Verdict
<1>3. s.hist \in Seq(Entry) BY DEF Image
<1> HIDE DEF s2, e
<1>4. RevertsInARow(s2.hist) =
        IF win THEN 0 ELSE IF IsProbe(k) THEN RevertsInARow(s.hist) ELSE RevertsInARow(s.hist) + 1
  BY <1>1, <1>2, <1>3, RunAppend DEF Verdict
<1> QED BY <1>1, <1>4 DEF ConsecTrue, ConsecAfter, s2

LEMMA ResetConsec ==
  ASSUME NEW s \in Image
  PROVE  ConsecTrue(Reset(s))
<1> DEFINE s2 == Reset(s)
           e == [tx |-> NoTx, v |-> "reset"]
<1>1. s2.hist = Append(s.hist, e) /\ s2.consec = 0 BY DEF Reset, Image
<1>2. e \in Entry /\ e.v = "reset" BY BoundsAssumption DEF Entry, NoTx
<1>3. s.hist \in Seq(Entry) BY DEF Image
<1> HIDE DEF s2, e
<1> QED BY <1>1, <1>2, <1>3, RunAppend DEF ConsecTrue, s2

-----------------------------------------------------------------------------
(***************************************************************************)
(* The daily counter: the charges of an image's day.                       *)
(***************************************************************************)

\* What the operators do to the sum of today's charges.
LEMMA DueType ==
  ASSUME NEW s \in Image
  PROVE  /\ Due(s) \in [Txs -> Nat] /\ IsFiniteSet(Txs)
         /\ CapDue(s) = SumFunctionOnSet(Due(s), Txs) /\ CapDue(s) \in Nat
<1>1. Due(s) \in [Txs -> Nat] BY DEF Due, Image
<1>2. IsFiniteSet(Txs) BY BoundsAssumption, FS_Interval DEF Txs
<1>3. CapDue(s) = SumFunctionOnSet(Due(s), Txs) BY <1>1 DEF CapDue, SumFunction
<1> HIDE DEF Due
<1> QED BY <1>1, <1>2, <1>3, SumNat

LEMMA DueChange ==
  ASSUME NEW s \in Image, NEW s2 \in Image, NEW y \in Txs,
         \A x \in Txs : x # y => Due(s2)[x] = Due(s)[x]
  PROVE  CapDue(s2) = CapDue(s) + (Due(s2)[y] - Due(s)[y])
<1>1. /\ Due(s) \in [Txs -> Nat] /\ Due(s2) \in [Txs -> Nat] /\ IsFiniteSet(Txs)
      /\ CapDue(s) = SumFunctionOnSet(Due(s), Txs) /\ CapDue(s2) = SumFunctionOnSet(Due(s2), Txs)
  BY DueType
<1>2. /\ \A x \in Txs : Due(s)[x] \in Int /\ Due(s2)[x] \in Int
      /\ \A x \in Txs : x # y => Due(s)[x] = Due(s2)[x]
  BY <1>1
<1> DEFINE a == SumFunctionOnSet(Due(s), Txs)
           b == SumFunctionOnSet(Due(s2), Txs)
<1>3. b = a + (IF y \in Txs THEN Due(s2)[y] - Due(s)[y] ELSE 0) BY <1>1, <1>2, SumChange
<1> QED BY <1>1, <1>3

\* A charge is at most what all of them come to.
LEMMA DueBound ==
  ASSUME NEW s \in Image, NEW y \in Txs
  PROVE  Due(s)[y] <= CapDue(s)
<1> DEFINE f == Due(s)
           g == [x \in Txs |-> IF x = y THEN 0 ELSE f[x]]
<1>1. f \in [Txs -> Nat] /\ IsFiniteSet(Txs) /\ CapDue(s) = SumFunctionOnSet(f, Txs) /\ CapDue(s) \in Nat
  BY DueType
<1> HIDE DEF f
<1>2. g[y] = 0 /\ \A x \in Txs : g[x] \in Nat /\ (x # y => f[x] = g[x]) BY <1>1
<1>3. \A x \in Txs : f[x] \in Int /\ g[x] \in Int BY <1>1, <1>2
<1> HIDE DEF g
<1>4. SumFunctionOnSet(g, Txs) \in Nat BY <1>1, <1>2, SumNat
<1>5. SumFunctionOnSet(g, Txs) = SumFunctionOnSet(f, Txs) + (IF y \in Txs THEN g[y] - f[y] ELSE 0)
  BY <1>1, <1>2, <1>3, SumChange
<1>6. f[y] \in Nat BY <1>1
<1> QED BY <1>1, <1>2, <1>4, <1>5, <1>6 DEF f

\* The record that carries a charge and the ledger agree, except that a reset
\* forgives charges whose records it keeps; only the raw path keeps records in
\* flight.
ChargeTrue(s, k, exact) ==
  /\ RAW_TX
  /\ s.sent[k].day = s.ledger[s.sent[k].tx].day
  /\ s.ledger[s.sent[k].tx].amt <= s.sent[k].gas
  /\ exact => s.ledger[s.sent[k].tx].amt = s.sent[k].gas

\* No charge of a coming day or of a transaction that was not sent; the
\* counter is what the charges of its day come to, or less after a reset.
CapTrue(s, fa, exact) ==
  /\ \A x \in Txs : s.ledger[x].day <= s.day /\ (fa[x] = "unsent" => s.ledger[x].amt = 0)
  /\ \A k \in Keys : InFlight(s.sent[k]) => ChargeTrue(s, k, exact)
  /\ s.gas <= CapDue(s)
  /\ exact => s.gas = CapDue(s)

\* The chain moves on, and the journal drops records or rewrites what does
\* not matter to the cap.
LEMMA CapKept ==
  ASSUME NEW s \in Image, NEW s2 \in Image, NEW fa, NEW fa2,
         NEW exact \in BOOLEAN, NEW exact2 \in BOOLEAN, exact2 => exact,
         CapTrue(s, fa, exact), \A x \in Txs : fa2[x] = "unsent" => fa[x] = "unsent",
         s2.day = s.day, s2.gas = s.gas, s2.ledger = s.ledger,
         \A k \in Keys : InFlight(s2.sent[k]) =>
           /\ InFlight(s.sent[k]) /\ s2.sent[k].tx = s.sent[k].tx
           /\ s2.sent[k].gas = s.sent[k].gas /\ s2.sent[k].day = s.sent[k].day
  PROVE  CapTrue(s2, fa2, exact2)
<1>1. CapDue(s2) = CapDue(s) BY DEF CapDue, Due
<1> QED BY <1>1 DEF CapTrue, ChargeTrue

\* Midnight: no charge is of the new day yet.
LEMMA RollDayCap ==
  ASSUME NEW s \in Image, NEW fa, NEW exact \in BOOLEAN, NEW d \in Nat, s.day <= d,
         CapTrue(s, fa, exact)
  PROVE  CapTrue(RollDay(s, d), fa, exact)
<1> DEFINE s2 == RollDay(s, d)
<1>1. CASE s.day = d BY <1>1 DEF RollDay
<1>2. CASE s.day # d
  <2>1. s2.sent = s.sent /\ s2.ledger = s.ledger /\ s2.gas = 0 /\ s2.day = d
    BY <1>2 DEF RollDay, Image
  <2>2. s2 \in Image BY RollDayType
  <2> HIDE DEF s2
  <2>3. s.day \in Int /\ \A x \in Txs : s.ledger[x].day \in Int BY DEF Image, NoDay
  <2>4. \A x \in Txs : s2.ledger[x].day # d /\ s2.ledger[x].day <= d
    BY <1>2, <2>1, <2>3 DEF CapTrue
  <2>5. \A x \in Txs : Due(s2)[x] = 0 BY <2>1, <2>4 DEF Due
  <2>6. CapDue(s2) = 0 BY <2>2, <2>5, DueType, SumZero
  <2>7. CapTrue(s2, fa, exact)
    BY <2>1, <2>4, <2>6 DEF CapTrue, ChargeTrue
  <2> QED BY <2>7 DEF s2
<1> QED BY <1>1, <1>2

\* A shot is charged its estimate.
LEMMA ChargeDue ==
  ASSUME NEW s \in Image, NEW s2 \in Image, NEW x \in Txs, NEW est \in Nat,
         s.ledger[x].amt = 0, s2.day = s.day,
         s2.ledger[x].day = s.day, s2.ledger[x].amt = est,
         \A y \in Txs : y # x => s2.ledger[y] = s.ledger[y]
  PROVE  CapDue(s2) = CapDue(s) + est /\ CapDue(s) \in Nat
<1>1. Due(s2)[x] = est /\ Due(s)[x] = 0 BY DEF Due
<1>2. \A y \in Txs : y # x => Due(s2)[y] = Due(s)[y] BY DEF Due
<1>3. CapDue(s2) = CapDue(s) + (est - 0) BY <1>1, <1>2, DueChange
<1> QED BY <1>3, DueType

LEMMA BookPendingCap ==
  ASSUME NEW s \in Image, NEW fa, NEW fa2, NEW exact \in BOOLEAN, RAW_TX,
         CapTrue(s, fa, exact), NEW x \in Txs, NEW k \in Keys, NEW est \in Nat, NEW now \in Nat,
         fa[x] = "unsent", fa2[x] # "unsent", \A y \in Txs : y # x => fa2[y] = fa[y],
         \A j \in Keys : InFlight(s.sent[j]) => s.sent[j].tx \in Txs /\ s.sent[j].tx # x
  PROVE  CapTrue(BookPending(s, k, x, est, now), fa2, exact)
<1> DEFINE s2 == BookPending(s, k, x, est, now)
           rec == [status |-> "pending", ts |-> now, tx |-> x,
                   gas |-> est, day |-> s.day, poll |-> NeverPolled]
           led == [day |-> s.day, amt |-> est]
<1>1. /\ s2.sent = [s.sent EXCEPT ![k] = rec] /\ s2.day = s.day /\ s2.gas = s.gas + est
      /\ s2.ledger = [s.ledger EXCEPT ![x] = led]
  BY DEF BookPending, Image
<1>2. s2 \in Image BY BookPendingType
<1>3. rec.tx = x /\ rec.gas = est /\ rec.day = s.day /\ led.day = s.day /\ led.amt = est OBVIOUS
<1>4. /\ s2.sent[k] = rec /\ \A j \in Keys : j # k => s2.sent[j] = s.sent[j]
      /\ s2.ledger[x] = led /\ \A y \in Txs : y # x => s2.ledger[y] = s.ledger[y]
  BY <1>1 DEF Image
<1> HIDE DEF s2, rec, led
<1>5. ASSUME NEW j \in Keys, InFlight(s2.sent[j]) PROVE ChargeTrue(s2, j, exact)
  <2>1. CASE j = k BY <1>3, <1>4, <2>1 DEF ChargeTrue
  <2>2. CASE j # k
    <3>1. s2.sent[j] = s.sent[j] /\ InFlight(s.sent[j]) BY <1>4, <1>5, <2>2
    <3>2. s2.ledger[s.sent[j].tx] = s.ledger[s.sent[j].tx] BY <1>4, <3>1
    <3> QED BY <3>1, <3>2 DEF CapTrue, ChargeTrue
  <2> QED BY <2>1, <2>2
<1>6. s2.ledger[x].day = s.day /\ s2.ledger[x].amt = est BY <1>3, <1>4
<1>7. s2.day = s.day /\ s2.gas = s.gas + est /\ \A y \in Txs : y # x => s2.ledger[y] = s.ledger[y]
  BY <1>1, <1>4
<1>8. CapDue(s2) = CapDue(s) + est /\ CapDue(s) \in Nat
  <2>1. s.ledger[x].amt = 0 BY DEF CapTrue
  <2> QED BY <1>2, <1>6, <1>7, <2>1, ChargeDue
<1>9. s.gas \in Nat /\ s.day \in Int BY DEF Image, NoDay
<1>10. CapTrue(s2, fa2, exact)
  <2>1. s2.gas <= CapDue(s2) /\ (exact => s2.gas = CapDue(s2)) BY <1>7, <1>8, <1>9 DEF CapTrue
  <2>2. \A y \in Txs : s2.ledger[y].day <= s2.day /\ (fa2[y] = "unsent" => s2.ledger[y].amt = 0)
    BY <1>6, <1>7, <1>9 DEF CapTrue
  <2> QED BY <1>5, <2>1, <2>2 DEF CapTrue
<1> QED BY <1>10 DEF s2

LEMMA BookCastCap ==
  ASSUME NEW s \in Image, NEW fa, NEW fa2, NEW exact \in BOOLEAN, ~RAW_TX,
         CapTrue(s, fa, exact), NEW x \in Txs, NEW k \in Keys, NEW est \in Nat, NEW win \in BOOLEAN,
         NEW now \in Nat,
         fa[x] = "unsent", fa2[x] # "unsent", \A y \in Txs : y # x => fa2[y] = fa[y]
  PROVE  CapTrue(BookCast(s, k, x, est, win, now), fa2, exact)
<1> DEFINE s2 == BookCast(s, k, x, est, win, now)
           rec == DoneRec(IF win THEN "ok" ELSE "revert", now, x)
           led == [day |-> s.day, amt |-> est]
<1>1. /\ s2.sent = [s.sent EXCEPT ![k] = rec] /\ s2.day = s.day /\ s2.gas = s.gas + est
      /\ s2.ledger = [s.ledger EXCEPT ![x] = led]
  BY DEF BookCast, Image
<1>2. s2 \in Image BY BookCastType
<1>3. ~InFlight(rec) /\ led.day = s.day /\ led.amt = est BY DEF InFlight, DoneRec, NoRec
<1>4. /\ s2.sent[k] = rec /\ \A j \in Keys : j # k => s2.sent[j] = s.sent[j]
      /\ s2.ledger[x] = led /\ \A y \in Txs : y # x => s2.ledger[y] = s.ledger[y]
  BY <1>1 DEF Image
<1> HIDE DEF s2, rec, led
<1>5. \A j \in Keys : ~InFlight(s2.sent[j]) BY <1>3, <1>4 DEF CapTrue, ChargeTrue
<1>6. s2.ledger[x].day = s.day /\ s2.ledger[x].amt = est BY <1>3, <1>4
<1>7. s2.day = s.day /\ s2.gas = s.gas + est /\ \A y \in Txs : y # x => s2.ledger[y] = s.ledger[y]
  BY <1>1, <1>4
<1>8. CapDue(s2) = CapDue(s) + est /\ CapDue(s) \in Nat
  <2>1. s.ledger[x].amt = 0 BY DEF CapTrue
  <2> QED BY <1>2, <1>6, <1>7, <2>1, ChargeDue
<1>9. s.gas \in Nat /\ s.day \in Int BY DEF Image, NoDay
<1>10. CapTrue(s2, fa2, exact)
  <2>1. s2.gas <= CapDue(s2) /\ (exact => s2.gas = CapDue(s2)) BY <1>7, <1>8, <1>9 DEF CapTrue
  <2>2. \A y \in Txs : s2.ledger[y].day <= s2.day /\ (fa2[y] = "unsent" => s2.ledger[y].amt = 0)
    BY <1>6, <1>7, <1>9 DEF CapTrue
  <2> QED BY <1>5, <2>1, <2>2 DEF CapTrue
<1> QED BY <1>10 DEF s2

\* A receipt swaps the estimate for the cost, the refund never biting into
\* what other shots were charged, unless a reset has forgiven the estimate.
LEMMA SettleCap ==
  ASSUME NEW s \in Image, NEW fa, NEW fa2, NEW exact \in BOOLEAN, CapTrue(s, fa, exact),
         NEW k \in Keys, InFlight(s.sent[k]), NEW rec \in Rec, rec.poll \in Nat,
         rec.tx = s.sent[k].tx, rec.gas = s.sent[k].gas, rec.day = s.sent[k].day, rec.tx \in Txs,
         NEW win \in BOOLEAN, NEW actual \in Nat,
         fa2[rec.tx] # "unsent", \A y \in Txs : fa2[y] = "unsent" => fa[y] = "unsent",
         \A j \in Keys : j # k /\ InFlight(s.sent[j]) => s.sent[j].tx \in Txs /\ s.sent[j].tx # rec.tx
  PROVE  CapTrue(Settle(s, k, rec, win, actual), fa2, exact)
<1> DEFINE s2 == Settle(s, k, rec, win, actual)
           r2 == DoneRec(IF win THEN "ok" ELSE "revert", rec.ts, rec.tx)
           x == rec.tx
           cost == IF win /\ ~CAP_COUNT_WINS THEN 0 ELSE actual
           amt == s.ledger[x].amt
<1>1. /\ s2.sent = [s.sent EXCEPT ![k] = r2] /\ s2.day = s.day
      /\ s2.gas = SettleGas(s, rec, win, actual)
      /\ s2.ledger = [s.ledger EXCEPT ![x].amt = cost]
  BY DEF Settle, Image
<1>2. s2 \in Image BY SettleType
<1>3. ~InFlight(r2) BY DEF InFlight, DoneRec, NoRec
<1>4. cost \in Nat /\ amt \in Nat /\ rec.gas \in Nat /\ s.gas \in Nat
  BY DEF Image, Rec
<1>5. /\ s2.gas = IF rec.day # s.day THEN s.gas ELSE Clamp(s.gas - rec.gas) + cost
  BY <1>1 DEF SettleGas
<1> HIDE DEF cost
<1>6. /\ s2.sent[k] = r2 /\ \A j \in Keys : j # k => s2.sent[j] = s.sent[j]
      /\ s2.ledger[x].day = s.ledger[x].day /\ s2.ledger[x].amt = cost
      /\ \A y \in Txs : y # x => s2.ledger[y] = s.ledger[y]
  BY <1>1 DEF Image
<1> HIDE DEF s2, r2, x
<1>7. \A j \in Keys : InFlight(s2.sent[j]) => ChargeTrue(s2, j, exact)
  BY <1>3, <1>6 DEF CapTrue, ChargeTrue, x
<1>8. \A y \in Txs : s2.ledger[y].day <= s2.day /\ (fa2[y] = "unsent" => s2.ledger[y].amt = 0)
  BY <1>1, <1>6 DEF CapTrue, x
<1>9. x \in Txs /\ rec.day = s.ledger[x].day /\ amt <= rec.gas /\ (exact => amt = rec.gas)
  BY DEF CapTrue, ChargeTrue, x
<1>10. \A y \in Txs : y # x => Due(s2)[y] = Due(s)[y] BY <1>1, <1>6 DEF Due
<1>11. CapDue(s2) = CapDue(s) + (Due(s2)[x] - Due(s)[x]) BY <1>2, <1>9, <1>10, DueChange
<1>12. /\ Due(s)[x] = IF rec.day = s.day THEN amt ELSE 0
       /\ Due(s2)[x] = IF rec.day = s.day THEN cost ELSE 0
  BY <1>1, <1>6, <1>9 DEF Due
<1>13. CapDue(s) \in Nat /\ Due(s)[x] <= CapDue(s) BY <1>9, DueType, DueBound
<1>14. s.gas <= CapDue(s) /\ (exact => s.gas = CapDue(s)) BY DEF CapTrue
<1> HIDE DEF amt
<1>15. s2.gas <= CapDue(s2) /\ (exact => s2.gas = CapDue(s2))
  <2>1. CASE rec.day # s.day BY <1>5, <1>11, <1>12, <1>13, <1>14, <2>1
  <2>2. CASE rec.day = s.day
    BY <1>4, <1>5, <1>9, <1>11, <1>12, <1>13, <1>14, <2>2 DEF Clamp
  <2> QED BY <2>1, <2>2
<1>16. CapTrue(s2, fa2, exact) BY <1>7, <1>8, <1>15 DEF CapTrue
<1> QED BY <1>16 DEF s2

\* A reset forgives every charge.
LEMMA ResetCap ==
  ASSUME NEW s \in Image, NEW fa, NEW exact \in BOOLEAN, NEW exact2 \in BOOLEAN,
         CapTrue(s, fa, exact), RAW_TX => ~exact2,
         \A k \in Keys : InFlight(s.sent[k]) => s.sent[k].tx \in Txs
  PROVE  CapTrue(Reset(s), fa, exact2)
<1> DEFINE s2 == Reset(s)
           led == [x \in Txs |-> [s.ledger[x] EXCEPT !.amt = 0]]
<1>1. /\ s2.day = s.day /\ s2.gas = 0 /\ s2.ledger = led
      /\ s2.sent = [k \in Keys |-> IF InFlight(s.sent[k]) THEN s.sent[k] ELSE NoRec]
  BY DEF Reset, Image
<1>2. s2 \in Image BY ResetType
<1>3. \A x \in Txs : led[x].day = s.ledger[x].day /\ led[x].amt = 0 BY DEF Image
<1> HIDE DEF s2, led
<1>4. \A x \in Txs : Due(s2)[x] = 0 BY <1>1, <1>3 DEF Due
<1>5. CapDue(s2) = 0 BY <1>2, <1>4, DueType, SumZero
<1>6. ~InFlight(NoRec) BY DEF InFlight, NoRec
<1>7. ASSUME NEW k \in Keys, InFlight(s2.sent[k]) PROVE ChargeTrue(s2, k, exact2)
  <2>1. InFlight(s.sent[k]) /\ s2.sent[k] = s.sent[k] /\ s.sent[k].tx \in Txs BY <1>1, <1>6, <1>7
  <2>2. s.sent[k].gas \in Nat BY DEF Image, Rec
  <2> QED BY <1>1, <1>3, <2>1, <2>2 DEF CapTrue, ChargeTrue
<1>8. CapTrue(s2, fa, exact2) BY <1>1, <1>3, <1>5, <1>7 DEF CapTrue
<1> QED BY <1>8 DEF s2

-----------------------------------------------------------------------------
(***************************************************************************)
(* The two counters through every step of the executor.                    *)
(***************************************************************************)

\* No reset has forgiven charges of records it kept.
Unforgiven == RAW_TX => resets = 0

Books ==
  /\ st.day <= utc /\ disk.day <= utc /\ held.day <= utc
  /\ ConsecTrue(st) /\ ConsecTrue(disk) /\ ConsecTrue(held)
  /\ CapTrue(st, fate, Unforgiven) /\ CapTrue(disk, fate, Unforgiven)
  /\ CapTrue(held, fate, Unforgiven)

\* The image a first start finds.
LEMMA FreshBooks ==
  ASSUME NEW fa, NEW exact \in BOOLEAN
  PROVE  FreshImage.day = -1 /\ ConsecTrue(FreshImage) /\ CapTrue(FreshImage, fa, exact)
<1> DEFINE s == FreshImage
<1>1. s \in Image BY FreshType
<1>2. /\ s.day = -1 /\ s.gas = 0 /\ s.consec = 0 /\ s.hist = <<>>
      /\ \A k \in Keys : s.sent[k] = NoRec
      /\ \A x \in Txs : s.ledger[x].day = -1 /\ s.ledger[x].amt = 0
  BY DEF FreshImage, NoDay
<1> HIDE DEF s
<1>3. Run(s.hist) = {} BY <1>2 DEF Run
<1>4. ConsecTrue(s) BY <1>1, <1>2, <1>3, FS_EmptySet DEF ConsecTrue, RevertsInARow, Run
<1>5. CapDue(s) = 0
  <2>1. \A x \in Txs : Due(s)[x] = 0 BY <1>2 DEF Due
  <2> QED BY <1>1, <2>1, DueType, SumZero
<1>6. CapTrue(s, fa, exact)
  <2>1. ~InFlight(NoRec) BY DEF InFlight, NoRec
  <2> QED BY <1>2, <1>5, <2>1 DEF CapTrue
<1> QED BY <1>2, <1>4, <1>6 DEF s

LEMMA InitBooks == Init => Books
<1> SUFFICES ASSUME Init PROVE Books OBVIOUS
<1>1. Unforgiven \in BOOLEAN BY DEF Unforgiven
<1>2. st = FreshImage /\ disk = FreshImage /\ held = FreshImage /\ utc = 0 BY DEF Init
<1> QED BY <1>1, <1>2, FreshBooks DEF Books

\* Memory and file trade places while the chain stands still.
LEMMA BooksTraded ==
  ASSUME Books, TypeOK, st' \in {st, disk}, disk' \in {st, disk}, held' = held, fate' = fate,
         resets' = resets, utc' \in Nat, utc' >= utc
  PROVE  Books'
<1>1. st.day \in Int /\ disk.day \in Int /\ held.day \in Int /\ utc \in Nat BY DEF TypeOK, Image, NoDay
<1>2. st'.day <= utc' /\ disk'.day <= utc' /\ held'.day <= utc' BY <1>1 DEF Books
<1>3. ConsecTrue(st)' /\ ConsecTrue(disk)' /\ ConsecTrue(held)' BY DEF Books, ConsecTrue
<1>4. /\ CapTrue(st, fate, Unforgiven)' /\ CapTrue(disk, fate, Unforgiven)'
      /\ CapTrue(held, fate, Unforgiven)'
  BY DEF Books, Unforgiven, CapTrue, ChargeTrue, CapDue, Due
<1> QED BY <1>2, <1>3, <1>4 DEF Books

\* Memory keeps its counters and forgets or rewrites records.
LEMMA BooksKept ==
  ASSUME Books, TypeOK, st' \in Image, UNCHANGED <<disk, held, fate, resets, utc>>,
         st'.day = st.day, st'.gas = st.gas, st'.consec = st.consec, st'.hist = st.hist,
         st'.ledger = st.ledger,
         \A k \in Keys : InFlight(st'.sent[k]) =>
           /\ InFlight(st.sent[k]) /\ st'.sent[k].tx = st.sent[k].tx
           /\ st'.sent[k].gas = st.sent[k].gas /\ st'.sent[k].day = st.sent[k].day
  PROVE  Books'
<1>1. Unforgiven' = Unforgiven /\ Unforgiven \in BOOLEAN BY DEF Unforgiven
<1>2. CapTrue(st', fate, Unforgiven) BY <1>1, CapKept DEF Books, TypeOK
<1>3. ConsecTrue(st') BY DEF Books, ConsecTrue
<1> QED BY <1>1, <1>2, <1>3 DEF Books

\* A shot is booked as pending.
LEMMA BooksShot ==
  ASSUME IInv, Books, RAW_TX, NEW k \in Keys, NEW x \in Txs, NEW est \in Nat,
         Broadcast(x, k, "pool"), st' = BookPending(st, k, x, est, clock),
         UNCHANGED <<disk, held, resets, utc>>
  PROVE  Books'
<1>1. TypeOK /\ st \in Image /\ disk \in Image /\ held \in Image /\ clock \in Nat BY DEF IInv, TypeOK
<1>2. /\ fate[x] = "unsent" /\ fate'[x] # "unsent"
      /\ \A y \in Txs : y # x => fate'[y] = fate[y]
  <2>1. "pool" \in Fates \ {"unsent"} BY DEF Fates
  <2> QED BY <1>1, <2>1, BroadcastFacts
<1>3. Unforgiven' = Unforgiven /\ Unforgiven \in BOOLEAN BY DEF Unforgiven
<1>4. \A j \in Keys : InFlight(st.sent[j]) => st.sent[j].tx \in Txs /\ st.sent[j].tx # x
  BY <1>2 DEF IInv, ImageTrue, RecordsTrue
<1>5. CapTrue(st', fate', Unforgiven) BY <1>1, <1>2, <1>3, <1>4, BookPendingCap DEF Books
<1>6. CapTrue(disk, fate', Unforgiven) /\ CapTrue(held, fate', Unforgiven)
  <2>1. \A y \in Txs : fate'[y] = "unsent" => fate[y] = "unsent" BY <1>2
  <2> QED BY <1>1, <1>3, <2>1, CapKept DEF Books
<1>7. st'.consec = st.consec /\ st'.hist = st.hist /\ st'.day = st.day
  BY <1>1 DEF BookPending, Image
<1>8. ConsecTrue(st)' BY <1>7 DEF Books, ConsecTrue
<1> QED BY <1>3, <1>5, <1>6, <1>7, <1>8 DEF Books

LEMMA NextBooks == IInv /\ Books /\ [Next]_vars => Books'
<1> SUFFICES ASSUME IInv, Books, [Next]_vars PROVE Books' OBVIOUS
<1>t. /\ TypeOK /\ clock \in Nat /\ utc \in Nat /\ st \in Image /\ disk \in Image
      /\ held \in Image /\ fate \in [Txs -> Fates]
  BY DEF IInv, TypeOK
<1>t2. TypeOK' /\ st' \in Image BY <1>t, NextType DEF TypeOK
<1>u. Unforgiven \in BOOLEAN BY DEF Unforgiven
<1>1. CASE Start \/ StartTripped \/ TrippedExit \/ EndFire \/ EndProbe \/ IterationFails \/ Save
           \/ KillExit \/ Crash
  <2>1. /\ st' \in {st, disk} /\ disk' \in {st, disk} /\ held' = held /\ fate' = fate
        /\ resets' = resets /\ utc' = utc
    BY <1>1 DEF Start, StartTripped, TrippedExit, EndFire, EndProbe, IterationFails, Save,
                KillExit, Crash, chain, env, operator
  <2> QED BY <1>t, <2>1, BooksTraded
<1>2. CASE Tick \/ NextDay \/ UNCHANGED vars
  <2>1. /\ st' \in {st, disk} /\ disk' \in {st, disk} /\ held' = held /\ fate' = fate /\ resets' = resets
        /\ utc' \in Nat /\ utc' >= utc
    BY <1>2, <1>t DEF Tick, NextDay, vars, proc, chain, operator
  <2> QED BY <1>t, <2>1, BooksTraded
<1>3. CASE BeginIteration
  <2>1. st' = RollDay(st, utc) /\ UNCHANGED <<disk, held, fate, resets, utc>>
    BY <1>3 DEF BeginIteration, chain, env
  <2>2. Unforgiven' = Unforgiven BY <2>1 DEF Unforgiven
  <2>3. CapTrue(st', fate, Unforgiven) BY <1>t, <1>u, <2>1, RollDayCap DEF Books
  <2>4. st'.day = utc /\ st'.consec = st.consec /\ st'.hist = st.hist
    BY <1>t, <2>1 DEF RollDay, Image
  <2> QED BY <1>t, <2>1, <2>2, <2>3, <2>4 DEF Books, ConsecTrue
<1>4. ASSUME NEW k \in Keys, SkipThrottled(k) \/ NoVerdict(k) PROVE Books'
  <2> DEFINE r2 == IF NoVerdict(k) THEN Polled(k) ELSE Walled(k)
  <2>1. st' = [st EXCEPT !.sent[k] = r2] /\ UNCHANGED <<disk, held, fate, resets, utc>>
    BY <1>4 DEF SkipThrottled, NoVerdict, Looked, Throttled, chain, env
  <2>2. st.sent[k] \in Rec BY <1>t DEF Image
  <2>3. /\ InFlight(r2) => InFlight(st.sent[k])
        /\ r2.tx = st.sent[k].tx /\ r2.gas = st.sent[k].gas /\ r2.day = st.sent[k].day
    BY <2>2 DEF Polled, Walled, StaleWall, InFlight, Rec
  <2> HIDE DEF r2
  <2>4. /\ st'.day = st.day /\ st'.gas = st.gas /\ st'.consec = st.consec /\ st'.hist = st.hist
        /\ st'.ledger = st.ledger /\ st'.sent = [st.sent EXCEPT ![k] = r2]
    BY <1>t, <2>1 DEF Image
  <2>5. st'.sent[k] = r2 /\ \A j \in Keys : j # k => st'.sent[j] = st.sent[j]
    BY <1>t, <2>4 DEF Image
  <2>6. \A j \in Keys : InFlight(st'.sent[j]) =>
           /\ InFlight(st.sent[j]) /\ st'.sent[j].tx = st.sent[j].tx
           /\ st'.sent[j].gas = st.sent[j].gas /\ st'.sent[j].day = st.sent[j].day
    BY <2>3, <2>5
  <2> QED BY <1>t, <1>t2, <2>1, <2>4, <2>6, BooksKept
<1>5. ASSUME NEW k \in Keys, Decide(k) PROVE Books'
  <2> DEFINE x == st.sent[k].tx
  <2>1. PICK f \in IF fate[x] = "pool" THEN {"win", "revert"} ELSE {fate[x]},
             actual \in GasActual \cup {st.sent[k].gas} :
          /\ fate' = [fate EXCEPT ![x] = f]
          /\ st' = Settle(st, k, Polled(k), f = "win", actual)
    BY <1>5 DEF Decide
  <2>2. st.sent[k] \in Rec BY <1>t DEF Image
  <2>3. actual \in Nat BY <2>2, ExecutorAssumption DEF Rec
  <2>4. InFlight(st.sent[k]) /\ x \in Txs /\ fate[x] # "unsent" /\ shot[x].key = k
    BY <1>5 DEF Decide, IInv, TodoInFlight, ImageTrue, RecordsTrue
  <2>5. fate'[x] # "unsent" /\ \A y \in Txs : fate'[y] = "unsent" => fate[y] = "unsent"
    BY <1>t, <2>1, <2>4
  <2>6. /\ Polled(k) \in Rec /\ Polled(k).poll \in Nat /\ Polled(k).tx = x
        /\ Polled(k).gas = st.sent[k].gas /\ Polled(k).day = st.sent[k].day
    BY <1>t, <2>2, StaleWallType, PolledKeeps DEF Polled, Walled, StaleWall, Rec
  <2>7. \A j \in Keys : j # k /\ InFlight(st.sent[j]) => st.sent[j].tx \in Txs /\ st.sent[j].tx # x
    BY <2>4 DEF IInv, ImageTrue, RecordsTrue
  <2>8. UNCHANGED <<disk, held, resets, utc>> BY <1>5 DEF Decide, env
  <2> DEFINE win == f = "win"
             rec == Polled(k)
  <2>9. win \in BOOLEAN OBVIOUS
  <2>10. st' = Settle(st, k, rec, win, actual) BY <2>1
  <2>11. st'.day = st.day BY <1>t, <2>10 DEF Settle, Image
  <2> HIDE DEF win, rec
  <2>12. ConsecTrue(st') BY <1>t, <2>6, <2>9, <2>10, SettleConsec DEF Books, rec
  <2>13. CapTrue(st', fate', Unforgiven)
    BY <1>t, <1>u, <2>3, <2>4, <2>5, <2>6, <2>7, <2>9, <2>10, SettleCap DEF Books, rec
  <2>14. CapTrue(disk, fate', Unforgiven) /\ CapTrue(held, fate', Unforgiven)
    BY <1>t, <1>u, <2>5, CapKept DEF Books
  <2>15. Unforgiven' = Unforgiven BY <2>8 DEF Unforgiven
  <2> QED BY <2>8, <2>11, <2>12, <2>13, <2>14, <2>15 DEF Books, ConsecTrue
<1>6. CASE EndSettle
  <2>1. st' = Purge(st, clock) /\ UNCHANGED <<disk, held, fate, resets, utc>>
    BY <1>6 DEF EndSettle, chain, env
  <2>2. /\ st'.day = st.day /\ st'.gas = st.gas /\ st'.consec = st.consec /\ st'.hist = st.hist
        /\ st'.ledger = st.ledger
        /\ \A j \in Keys : st'.sent[j] = st.sent[j] \/ st'.sent[j] = NoRec
    BY <1>t, <2>1 DEF Purge, Image
  <2>3. ~InFlight(NoRec) BY DEF InFlight, NoRec
  <2> QED BY <1>t, <1>t2, <2>1, <2>2, <2>3, BooksKept
<1>7. ASSUME NEW k \in Keys, st' = BookSendError(st, k, clock), UNCHANGED <<disk, held, fate, resets, utc>>
      PROVE  Books'
  <2>1. /\ st'.day = st.day /\ st'.gas = st.gas /\ st'.consec = st.consec /\ st'.hist = st.hist
        /\ st'.ledger = st.ledger
        /\ \A j \in Keys : st'.sent[j] = st.sent[j] \/ st'.sent[j] = DoneRec("send_error", clock, NoTx)
    BY <1>t, <1>7 DEF BookSendError, Image
  <2>2. ~InFlight(DoneRec("send_error", clock, NoTx)) BY DEF InFlight, DoneRec, NoRec
  <2> QED BY <1>t, <1>t2, <1>7, <2>1, <2>2, BooksKept
<1>8. ASSUME NEW b \in Borrowers, FireRefused(b) PROVE Books'
  BY <1>7, <1>8, KeyType, BoundsAssumption DEF FireRefused, Refuse, chain, operator
<1>9. ASSUME NEW b \in Borrowers, ProbeRefused(b) PROVE Books'
  <2>1. specSeq' \in 0..MaxProbes BY <1>9, <1>t, BoundsAssumption DEF ProbeRefused, MayProbe, TypeOK
  <2> QED BY <1>7, <1>9, <2>1, KeyType DEF ProbeRefused, Refuse, chain, operator
<1>10. ASSUME NEW b \in Borrowers, FireRaw(b) PROVE Books'
  <2>1. PICK x \in Txs, est \in GasEst :
          Broadcast(x, <<b, 0>>, "pool") /\ st' = BookPending(st, <<b, 0>>, x, est, clock)
    BY <1>10 DEF FireRaw
  <2>2. <<b, 0>> \in Keys /\ est \in Nat BY KeyType, BoundsAssumption, ExecutorAssumption
  <2>3. RAW_TX /\ UNCHANGED <<disk, held, resets, utc>> BY <1>10 DEF FireRaw, env
  <2> QED BY <2>1, <2>2, <2>3, BooksShot
<1>11. ASSUME NEW b \in Borrowers, FireProbe(b) PROVE Books'
  <2> DEFINE k == <<b, specSeq'>>
  <2>1. PICK x \in Txs, est \in GasEst :
          Broadcast(x, k, "pool") /\ st' = BookPending(st, k, x, est, clock)
    BY <1>11 DEF FireProbe
  <2>2. specSeq' \in 0..MaxProbes BY <1>11, <1>t, BoundsAssumption DEF FireProbe, MayProbe, TypeOK
  <2>3. k \in Keys /\ est \in Nat BY <2>2, KeyType, ExecutorAssumption
  <2>4. RAW_TX /\ UNCHANGED <<disk, held, resets, utc>> BY <1>11 DEF FireProbe, MayProbe, env
  <2> HIDE DEF k
  <2> QED BY <2>1, <2>3, <2>4, BooksShot
<1>12. ASSUME NEW b \in Borrowers, FireCast(b) PROVE Books'
  <2> DEFINE k == <<b, 0>>
  <2>1. PICK x \in Txs, est \in GasEst, f \in {"win", "revert", "pool"} :
          Broadcast(x, k, f) /\ st' = BookCast(st, k, x, est, f = "win", clock)
    BY <1>12 DEF FireCast
  <2>2. k \in Keys /\ est \in Nat /\ f \in Fates \ {"unsent"}
    BY KeyType, BoundsAssumption, ExecutorAssumption DEF Fates
  <2>3. UNCHANGED <<disk, held, resets, utc>> /\ ~RAW_TX BY <1>12 DEF FireCast, env
  <2> DEFINE win == f = "win"
  <2>4. win \in BOOLEAN /\ st' = BookCast(st, k, x, est, win, clock) BY <2>1
  <2>5. /\ fate[x] = "unsent" /\ fate'[x] # "unsent"
        /\ \A y \in Txs : y # x => fate'[y] = fate[y]
    BY <1>t, <2>1, <2>2, BroadcastFacts
  <2> HIDE DEF k, win
  <2>6. ConsecTrue(st') BY <1>t, <2>4, CastConsec DEF Books
  <2>7. CapTrue(st', fate', Unforgiven) BY <1>t, <1>u, <2>2, <2>3, <2>4, <2>5, BookCastCap DEF Books
  <2>8. CapTrue(disk, fate', Unforgiven) /\ CapTrue(held, fate', Unforgiven)
    <3>1. \A y \in Txs : fate'[y] = "unsent" => fate[y] = "unsent" BY <2>5
    <3> QED BY <1>t, <1>u, <3>1, CapKept DEF Books
  <2>9. st'.day = st.day /\ Unforgiven' = Unforgiven BY <1>t, <2>3, <2>4 DEF BookCast, Image, Unforgiven
  <2> QED BY <2>3, <2>6, <2>7, <2>8, <2>9 DEF Books, ConsecTrue
<1>13. CASE ResetLoad
  <2>1. /\ held' = disk /\ resets' = resets + 1 /\ UNCHANGED <<st, disk, fate, utc>>
    BY <1>13 DEF ResetLoad, chain, proc
  <2>2. Unforgiven' \in BOOLEAN /\ (Unforgiven' => Unforgiven)
    BY <1>t, <2>1 DEF Unforgiven, TypeOK
  <2> DEFINE ex2 == Unforgiven'
  <2> HIDE DEF ex2
  <2>3. CapTrue(st, fate, ex2) /\ CapTrue(disk, fate, ex2)
    BY <1>t, <1>u, <2>2, CapKept DEF Books, ex2
  <2> QED BY <2>1, <2>3 DEF Books, ConsecTrue, ex2
<1>14. CASE ResetSave
  <2>1. /\ disk' = Reset(held) /\ held' = FreshImage /\ resetting /\ UNCHANGED <<fate, utc, resets>>
        /\ st' = IF pc = "down" THEN disk' ELSE st
    BY <1>14 DEF ResetSave, chain
  <2>2. Unforgiven' = Unforgiven BY <2>1 DEF Unforgiven
  <2>3. RAW_TX => ~Unforgiven BY <1>t, <2>1 DEF Unforgiven, TypeOK
  <2>4. \A k \in Keys : InFlight(held.sent[k]) => held.sent[k].tx \in Txs
    BY DEF IInv, ImageTrue, RecordsTrue
  <2>5. CapTrue(disk', fate, Unforgiven) BY <1>t, <1>u, <2>1, <2>3, <2>4, ResetCap DEF Books
  <2>6. CapTrue(held', fate, Unforgiven) /\ ConsecTrue(held') /\ held'.day = -1
    BY <1>u, <2>1, FreshBooks
  <2>7. ConsecTrue(disk') BY <1>t, <2>1, ResetConsec
  <2>8. disk'.day = held.day BY <1>t, <2>1 DEF Reset, Image
  <2> QED BY <1>t, <2>1, <2>2, <2>5, <2>6, <2>7, <2>8 DEF Books, ConsecTrue
<1> QED
  BY <1>1, <1>2, <1>3, <1>4, <1>5, <1>6, <1>8, <1>9, <1>10, <1>11, <1>12, <1>13, <1>14
  DEF Next, Process

-----------------------------------------------------------------------------
(***************************************************************************)
(* What the books are kept for                                             *)
(***************************************************************************)

LEMMA BooksAlways == Spec => [](IInv /\ Books)
BY InitInv, InitBooks, NextInv, NextBooks, PTL DEF Spec

\* For any number of shots, restarts and resets: in memory and in the file,
\* the kill-switch counter is the number of reverts read since the last win or
\* reset.
THEOREM ConsecExactHolds == Spec => []ConsecExact
<1>1. Books => ConsecExact BY DEF Books, ConsecTrue, ConsecExact
<1> QED BY <1>1, BooksAlways, PTL

\* Until an operator's reset forgives the charge of a record it keeps, the
\* daily counter is what today's shots cost, to the cent; the blocking path,
\* which keeps nothing in flight, needs no such proviso.
THEOREM GasExactHolds == Spec => [](Unforgiven => GasExact)
<1>1. Books => (Unforgiven => GasExact) BY DEF Books, CapTrue, GasExact
<1> QED BY <1>1, BooksAlways, PTL

\* Resets or not, the daily counter never exceeds what today's shots cost: no
\* charge is counted twice, so the cap cannot trip on money not spent.
THEOREM NeverOverstated == Spec => [](\A s \in {st, disk} : s.gas <= CapDue(s))
<1>1. Books => \A s \in {st, disk} : s.gas <= CapDue(s) BY DEF Books, CapTrue
<1> QED BY <1>1, BooksAlways, PTL

\* A guard answer that let an iteration fire still holds for the image in
\* memory: of the kill-switch all through it, of the day's budget until the
\* first shot.
GuardFresh ==
  /\ RAW_TX /\ guard /\ pc \in {"fire", "probe"} => st.consec < MAX_CONSEC_REVERTS
  /\ guard /\ pc = "fire" /\ done = {} => st.gas < MAX_DAILY_GAS

LEMMA InitGuard == Init => GuardFresh
BY DEF Init, GuardFresh

LEMMA NextGuard == TypeOK /\ GuardFresh /\ [Next]_vars => GuardFresh'
<1> SUFFICES ASSUME TypeOK, GuardFresh, [Next]_vars PROVE GuardFresh' OBVIOUS
<1>t. st \in Image BY DEF TypeOK
<1>1. CASE /\ pc' \notin {"fire", "probe"}
  BY <1>1 DEF GuardFresh
<1>2. CASE EndSettle
  <2>1. guard' = GuardOK(st') /\ pc' = "fire" BY <1>2 DEF EndSettle
  <2> QED BY <2>1 DEF GuardFresh, GuardOK
<1>3. ASSUME NEW b \in Borrowers, FireRaw(b) \/ FireRefused(b) PROVE GuardFresh'
  <2>1. st'.consec = st.consec /\ pc' = pc /\ guard' = guard /\ done' # {} /\ pc = "fire"
    BY <1>3, <1>t DEF FireRaw, FireRefused, MayFire, BookPending, BookSendError, Image
  <2> QED BY <2>1 DEF GuardFresh
<1>4. ASSUME NEW b \in Borrowers, FireCast(b) PROVE GuardFresh'
  <2>1. ~RAW_TX /\ done' # {} BY <1>4 DEF FireCast
  <2> QED BY <2>1 DEF GuardFresh
<1>5. CASE EndFire
  <2>1. st' = st /\ guard' = guard /\ pc = "fire" /\ pc' = "probe" BY <1>5 DEF EndFire
  <2> QED BY <2>1 DEF GuardFresh
<1>6. ASSUME NEW b \in Borrowers, FireProbe(b) \/ ProbeRefused(b) PROVE GuardFresh'
  <2>1. st'.consec = st.consec /\ pc' = pc /\ guard' = guard /\ pc = "probe"
    BY <1>6, <1>t DEF FireProbe, ProbeRefused, MayProbe, BookPending, BookSendError, Image
  <2> QED BY <2>1 DEF GuardFresh
<1>7. CASE ResetLoad \/ ResetSave
  <2>1. pc' = pc /\ guard' = guard /\ done' = done /\ (pc # "down" => st' = st)
    BY <1>7 DEF ResetLoad, ResetSave, proc
  <2> QED BY <2>1 DEF GuardFresh
<1>8. CASE Tick \/ NextDay \/ UNCHANGED vars
  <2>1. pc' = pc /\ guard' = guard /\ done' = done /\ st' = st
    BY <1>8 DEF Tick, NextDay, proc, vars
  <2> QED BY <2>1 DEF GuardFresh
<1>9. CASE Start \/ StartTripped \/ TrippedExit \/ BeginIteration \/ EndProbe \/ IterationFails
           \/ Save \/ KillExit \/ Crash \/ \E k \in Keys : SkipThrottled(k) \/ NoVerdict(k) \/ Decide(k)
  <2>1. pc' \notin {"fire", "probe"}
    BY <1>9 DEF Start, StartTripped, TrippedExit, BeginIteration, EndProbe, IterationFails, Save,
                KillExit, Crash, SkipThrottled, NoVerdict, Decide, Looked
  <2> QED BY <2>1, <1>1
<1> QED BY <1>2, <1>3, <1>4, <1>5, <1>6, <1>7, <1>8, <1>9 DEF Next, Process

\* What goes out goes out of a pass that its guard let fire.
LEMMA FiredFrom ==
  ASSUME IInv, [Next]_vars, NEW x \in Txs, FiredNow(x), RAW_TX
  PROVE  guard /\ pc \in {"fire", "probe"}
<1>t. fate \in [Txs -> Fates] BY DEF IInv, TypeOK
<1>1. fate' # fate BY DEF FiredNow
<1>2. ASSUME NEW k \in Keys, Decide(k) PROVE FALSE
  <2>1. /\ fate[st.sent[k].tx] # "unsent" /\ st.sent[k].tx \in Txs
    BY <1>2 DEF Decide, IInv, TodoInFlight, ImageTrue, RecordsTrue
  <2>2. PICK f : fate' = [fate EXCEPT ![st.sent[k].tx] = f] BY <1>2 DEF Decide
  <2>3. x # st.sent[k].tx BY <2>1 DEF FiredNow
  <2> QED BY <1>t, <2>2, <2>3 DEF FiredNow
<1>3. ASSUME NEW b \in Borrowers, FireRaw(b) \/ FireCast(b) \/ FireProbe(b)
      PROVE  guard /\ pc \in {"fire", "probe"}
  BY <1>3 DEF FireRaw, FireCast, FireProbe, MayFire, MayProbe
<1>4. \/ \E k \in Keys : Decide(k)
      \/ \E b \in Borrowers : FireRaw(b) \/ FireCast(b) \/ FireProbe(b)
  BY <1>1 DEF Next, Process, Start, StartTripped, TrippedExit, BeginIteration, SkipThrottled,
       NoVerdict, Looked, EndSettle, FireRefused, EndFire, ProbeRefused, EndProbe, IterationFails,
       Save, KillExit, Crash, ResetLoad, ResetSave, Tick, NextDay, chain, vars
<1> QED BY <1>2, <1>3, <1>4

\* For any constants: nothing is broadcast once the receipts read hold the
\* limit of reverts in a row, nor by the reactive pass of an iteration that
\* began with the day's budget spent.
THEOREM KillSwitchAlways == Spec => KillSwitchHolds
<1>1. IInv /\ Books /\ GuardFresh /\ [Next]_vars =>
        [\A x \in Txs : FiredNow(x) /\ RAW_TX =>
           /\ RevertsInARow(st.hist) < MAX_CONSEC_REVERTS
           /\ (pc = "fire" /\ done = {}) => st.gas < MAX_DAILY_GAS]_vars
  <2> SUFFICES ASSUME IInv, Books, GuardFresh, [Next]_vars, NEW x \in Txs, FiredNow(x), RAW_TX
               PROVE  /\ RevertsInARow(st.hist) < MAX_CONSEC_REVERTS
                      /\ (pc = "fire" /\ done = {}) => st.gas < MAX_DAILY_GAS
    OBVIOUS
  <2>1. guard /\ pc \in {"fire", "probe"} BY FiredFrom
  <2>2. RevertsInARow(st.hist) = st.consec BY DEF Books, ConsecTrue
  <2> QED BY <2>1, <2>2 DEF GuardFresh
<1>2. IInv => TypeOK BY DEF IInv
<1> QED BY <1>1, <1>2, BooksAlways, InitGuard, NextGuard, PTL DEF Spec, KillSwitchHolds
=============================================================================
