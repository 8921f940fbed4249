------------------------- MODULE ExecutorProperties -------------------------
(***************************************************************************)
(* What the executor's bookkeeping owes its operator.                      *)
(***************************************************************************)
EXTENDS Executor, Functions

\* The values every variable keeps; with no process, memory mirrors the file.
TypeOK ==
  /\ pc \in PCs /\ st \in Image /\ disk \in Image
  /\ todo \subseteq Keys /\ guard \in BOOLEAN /\ done \subseteq Borrowers
  /\ specSeq \in 0..MaxProbes
  /\ shot \in [Txs -> [key : Keys, at : Nat]]
  /\ fate \in [Txs -> Fates]
  /\ clock \in Nat /\ utc \in Nat /\ refused \in Nat /\ crashes \in Nat /\ resets \in Nat
  /\ lost \subseteq Txs
  /\ resetting \in BOOLEAN /\ held \in Image /\ (resetting => resets # 0)
  /\ pc = "down" => st = disk

-----------------------------------------------------------------------------
\* A reactive shot that the journal still has reason to protect: maybe on the
\* wire, younger than the stale wall, and its record not lost.
LiveShot(x) ==
  /\ fate[x] = "pool" /\ x \notin lost
  /\ ~IsProbe(shot[x].key) /\ clock - shot[x].at <= PENDING_STALE_SEC

\* A position never has two reactive shots on the wire within the stale wall,
\* whatever the passes, day rolls, resets and restarts in between; only a lost
\* record can cause a second one.  A record is lost when the process is killed
\* while the file does not hold it (not saved yet, or overwritten by a reset
\* that read the file before), or when such a reset writes the file after the
\* loop has made its last save and exited.
OneLiveShot ==
  RAW_TX => \A x, y \in Txs :
    LiveShot(x) /\ LiveShot(y) /\ shot[x].key = shot[y].key => x = y

\* A transaction's verdict is booked once: its gas is swapped once and it
\* moves the kill-switch counter once.
SettledOnce ==
  \A s \in {st, disk} : \A i, j \in DOMAIN s.hist :
    s.hist[i].tx = s.hist[j].tx /\ s.hist[i].tx # NoTx => i = j

\* The reverts booked since the last win or reset, probes apart.
RevertsInARow(h) ==
  Cardinality({i \in DOMAIN h : /\ h[i].v = "revert"
                                /\ \A j \in i..Len(h) : h[j].v \notin {"win", "reset"}})

\* The kill-switch counter is that number: probe reverts and refused sends
\* never feed it, a late receipt feeds it once.
ConsecExact == \A s \in {st, disk} : s.consec = RevertsInARow(s.hist)

\* What the shots of the image's own day cost the cap.
Due(s) == [x \in Txs |-> IF s.ledger[x].day = s.day THEN s.ledger[x].amt ELSE 0]
CapDue(s) == SumFunction(Due(s))

\* The daily counter is the sum of the estimates of today's undecided shots
\* and the costs of today's losses: no charge twice, none refunded into
\* another day, none lost when a record is displaced or purged.
GasExact == \A s \in {st, disk} : s.gas = CapDue(s)

-----------------------------------------------------------------------------
FiredNow(x) == fate[x] = "unsent" /\ fate'[x] # "unsent"

\* No shot goes out once the receipts read so far hold the limit of reverts in
\* a row, nor in a pass that began its shots with the day's budget spent.
\* (The blocking path counts as it shoots, within one pass.)
KillSwitchHolds ==
  [][\A x \in Txs : FiredNow(x) /\ RAW_TX =>
       /\ RevertsInARow(st.hist) < MAX_CONSEC_REVERTS
       /\ (pc = "fire" /\ done = {}) => st.gas < MAX_DAILY_GAS]_vars

\* A pending record cannot block its borrower for ever, even when no receipt
\* is ever read: the stale wall stands before the read.  Only a tripped
\* kill-switch, which waits for the operator, leaves the journal as it is.
PendingNotForever ==
  \A b \in Borrowers :
    st.sent[<<b, 0>>].status = "pending"
      ~> st.sent[<<b, 0>>].status # "pending" \/ ~GuardOK(st)
=============================================================================
