------------------------------- MODULE Sender -------------------------------
(***************************************************************************)
(* The write path of bot/executor.py: the nonce cache, one signed payload  *)
(* posted to several nodes at once, and the verdict drawn from their       *)
(* answers (_pending_nonce, _sign_and_send, _broadcast_raw), over the      *)
(* keep-alive transport of analysis/rpc.py.                                *)
(*                                                                         *)
(* The process sends one shot at a time.  The nodes keep a mempool each;   *)
(* a transaction spreads between them, may be evicted, and is mined in     *)
(* nonce order.                                                            *)
(***************************************************************************)
EXTENDS Integers, FiniteSets

CONSTANTS
  Urls,                   \* BROADCAST_RPCS: one thread each; a single one
                          \* is the HL_PARALLEL_BROADCAST=0 path
  WriteNode,              \* C.RPC_WRITE, the node asked for the nonce
  KEEPALIVE,              \* HL_KEEPALIVE: connections are reused
  NONCE_PREWARM_SEC,      \* cadence of the nonce prewarm, 0 = off
  NONCE_SEND_WINDOW_SEC,  \* how long a broadcast backs the local counter
  MaxShots,               \* bound: transactions signed
  MaxClock                \* bound: the clock

ASSUME NodesAssumption == WriteNode \in Urls /\ KEEPALIVE \in BOOLEAN
ASSUME SendBoundsAssumption == MaxShots \in Nat \ {0} /\ MaxClock \in Nat
ASSUME NonceTimersAssumption ==
  NONCE_PREWARM_SEC \in Nat /\ NONCE_SEND_WINDOW_SEC \in Nat

Txs == 1..MaxShots
NoShot == 0
Unset == -1             \* None in the cache

VARIABLES
  cache,    \* _nonce_cache: next, sendTs, chain, chainTs
  cur,      \* the shot being broadcast, or NoShot
  reply,    \* the volley: per url open, ok, verdict or err
  nonce,    \* per shot
  sentAt,   \* per shot: when its broadcast was reported
  outcome,  \* per shot: new, sent, accepted, refused, unknown
  again,    \* per shot: urls whose post was repeated on a new connection
  wire,     \* per shot: posts under way
  pool,     \* per shot: nodes that hold it unmined
  held,     \* per shot: some node has taken it at some time
  mined,    \* transactions of the account in the chain
  clock

vars == <<cache, cur, reply, nonce, sentAt, outcome, again,
          wire, pool, held, mined, clock>>
book == <<nonce, sentAt, outcome>>
net  == <<wire, pool, held, mined>>

Answers == {"open", "ok", "verdict", "err"}

Init ==
  /\ cache = [next |-> Unset, sendTs |-> Unset, chain |-> Unset, chainTs |-> Unset]
  /\ cur = NoShot /\ reply = [u \in Urls |-> "open"]
  /\ nonce = [x \in Txs |-> 0] /\ sentAt = [x \in Txs |-> 0]
  /\ outcome = [x \in Txs |-> "new"] /\ again = [x \in Txs |-> {}]
  /\ wire = [x \in Txs |-> {}] /\ pool = [x \in Txs |-> {}]
  /\ held = [x \in Txs |-> FALSE]
  /\ mined = 0 /\ clock = 0

-----------------------------------------------------------------------------
(***************************************************************************)
(* The nonce                                                               *)
(***************************************************************************)

\* eth_getTransactionCount(addr, "pending"): what is mined, and what the
\* node holds on top without a gap, as far as it has got.
Contiguous(u, n) ==
  \A m \in mined..(n - 1) : \E x \in Txs : u \in pool[x] /\ nonce[x] = m
PendingCounts(u) == {n \in mined..(mined + MaxShots) : Contiguous(u, n)}

\* Variant: reading the count vouches for the local counter as well.
Refreshed_Stamps(c, n) ==
  [c EXCEPT !.chain = n, !.chainTs = clock, !.sendTs = clock]

\* The node's count is read into the cache; send_ts is not touched.
Refreshed(c, n) == [c EXCEPT !.chain = n, !.chainTs = clock]

\* Loop: prewarm_nonce.
Prewarm ==
  /\ cur = NoShot /\ NONCE_PREWARM_SEC > 0
  /\ cache.chain = Unset \/ clock - cache.chainTs >= NONCE_PREWARM_SEC
  /\ \E n \in PendingCounts(WriteNode) :
       cache' = Refreshed(cache, n)
  /\ UNCHANGED <<cur, reply, again, book, net, clock>>

Warm ==
  /\ NONCE_PREWARM_SEC > 0 /\ cache.chain # Unset
  /\ clock - cache.chainTs <= 2 * NONCE_PREWARM_SEC

\* The pending count the shot works with, and the cache after reading it.
Views == IF Warm THEN {cache} ELSE
  {Refreshed(cache, n) : n \in PendingCounts(WriteNode)}

\* The local counter is ahead of the chain view and a send still backs it.
LocalAhead(c) == c.next > c.chain /\ clock - c.sendTs <= NONCE_SEND_WINDOW_SEC

\* _pending_nonce: the nonce, and the cache it leaves behind.
Chosen(c) == IF LocalAhead(c) THEN c.next ELSE c.chain
Kept(c) == IF c.next > c.chain /\ ~LocalAhead(c) THEN [c EXCEPT !.next = c.chain] ELSE c

\* _nonce_after_send: the only writer of sendTs.
AfterSend(c, n) == [c EXCEPT !.next = n + 1, !.sendTs = clock]

Fresh(x) == outcome[x] = "new" /\ \A y \in 1..(x - 1) : outcome[y] # "new"

\* _sign_and_send up to the wire: choose the nonce, sign, post to every url.
\* (When the count cannot be read nothing is signed and nothing changes.)
Sign(x) ==
  /\ cur = NoShot /\ Fresh(x)
  /\ \E c \in Views :
       /\ nonce' = [nonce EXCEPT ![x] = Chosen(c)]
       /\ cache' = Kept(c)
  /\ cur' = x
  /\ outcome' = [outcome EXCEPT ![x] = "sent"]
  /\ wire' = [wire EXCEPT ![x] = Urls]
  /\ UNCHANGED <<reply, again, sentAt, pool, held, mined, clock>>

-----------------------------------------------------------------------------
(***************************************************************************)
(* The volley: one thread per url                                          *)
(***************************************************************************)

\* The node at u has dealt with the post of x and answers a.  The thread that
\* still waits is told, or the answer is lost on the way; or the connection
\* was an idle one the node has closed, and the transport posts once more.
Answer(x, u, a) ==
  /\ u \in wire[x]
  /\ \/ /\ wire' = [wire EXCEPT ![x] = @ \ {u}]
        /\ IF x = cur /\ reply[u] = "open"
           THEN \E r \in {a, "err"} : reply' = [reply EXCEPT ![u] = r]
           ELSE UNCHANGED reply
        /\ UNCHANGED again
     \/ /\ KEEPALIVE /\ u \notin again[x]
        /\ again' = [again EXCEPT ![x] = @ \cup {u}]
        /\ UNCHANGED <<wire, reply>>
  /\ UNCHANGED <<cache, cur, book, mined, clock>>

\* The node takes the transaction, in place of one with the same nonce.
NodeTakes(x, u) ==
  /\ u \notin pool[x] /\ nonce[x] >= mined
  /\ pool' = [y \in Txs |-> IF y = x THEN pool[y] \cup {u}
                            ELSE IF nonce[y] = nonce[x] THEN pool[y] \ {u} ELSE pool[y]]
  /\ held' = [held EXCEPT ![x] = TRUE]
  /\ Answer(x, u, "ok")

\* "already known": counts as delivered.
NodeKnows(x, u) ==
  /\ u \in pool[x]
  /\ Answer(x, u, "ok")
  /\ UNCHANGED <<pool, held>>

\* An error in the body: nonce too low, underpriced, no funds, rate limit.
NodeRefuses(x, u) ==
  /\ Answer(x, u, "verdict")
  /\ UNCHANGED <<pool, held>>

\* The hard deadline of one post, or a transport error: the post itself may
\* be lost or may still arrive.
Timeout(u) ==
  /\ cur # NoShot /\ reply[u] = "open"
  /\ reply' = [reply EXCEPT ![u] = "err"]
  /\ UNCHANGED <<cache, cur, again, book, net, clock>>

\* Variant: one refusal is enough, whatever the others did.
Verdict_AnyRefusal ==
  IF \E u \in Urls : reply[u] = "ok" THEN "accepted"
  ELSE IF \E u \in Urls : reply[u] = "verdict" THEN "refused" ELSE "unknown"

\* _broadcast_raw and _sign_and_send: one acceptance wins, a unanimous
\* refusal is a refusal, anything else leaves the delivery open.
Verdict ==
  IF \E u \in Urls : reply[u] = "ok" THEN "accepted"
  ELSE IF \A u \in Urls : reply[u] = "verdict" THEN "refused" ELSE "unknown"

\* Variant: a refused shot takes its nonce with it.
Owned_Refused(o) == o \in {"accepted", "unknown", "refused"}

\* Variant: a delivery left open does not own its nonce.
Owned_AcceptedOnly(o) == o = "accepted"

Owned(o) == o \in {"accepted", "unknown"}

Report ==
  /\ cur # NoShot
  /\ \/ \E u \in Urls : reply[u] = "ok"
     \/ \A u \in Urls : reply[u] # "open"
  /\ outcome' = [outcome EXCEPT ![cur] = Verdict]
  /\ sentAt' = [sentAt EXCEPT ![cur] = clock]
  /\ cache' = IF Owned(Verdict) THEN AfterSend(cache, nonce[cur]) ELSE cache
  /\ cur' = NoShot /\ reply' = [u \in Urls |-> "open"]
  /\ UNCHANGED <<nonce, again, net, clock>>

-----------------------------------------------------------------------------
(***************************************************************************)
(* The network                                                             *)
(***************************************************************************)

Gossip(x, u, v) ==
  /\ u \in pool[x] /\ v \notin pool[x]
  /\ \A y \in Txs : v \in pool[y] => nonce[y] # nonce[x]
  /\ pool' = [pool EXCEPT ![x] = @ \cup {v}]
  /\ UNCHANGED <<cache, cur, reply, again, book, wire, held, mined, clock>>

Evict(x, u) ==
  /\ u \in pool[x]
  /\ pool' = [pool EXCEPT ![x] = @ \ {u}]
  /\ UNCHANGED <<cache, cur, reply, again, book, wire, held, mined, clock>>

\* The next transaction in nonce order is mined and leaves every mempool.
Mine ==
  /\ \E x \in Txs : pool[x] # {} /\ nonce[x] = mined
  /\ mined' = mined + 1
  /\ pool' = [x \in Txs |-> IF nonce[x] <= mined THEN {} ELSE pool[x]]
  /\ UNCHANGED <<cache, cur, reply, again, book, wire, held, clock>>

Tick ==
  /\ clock < MaxClock
  /\ clock' = clock + 1
  /\ UNCHANGED <<cache, cur, reply, again, book, net>>

Next ==
  \/ Prewarm \/ Report \/ Mine \/ Tick
  \/ \E x \in Txs : Sign(x)
  \/ \E u \in Urls : Timeout(u)
  \/ \E x \in Txs, u \in Urls :
       NodeTakes(x, u) \/ NodeKnows(x, u) \/ NodeRefuses(x, u) \/ Evict(x, u)
  \/ \E x \in Txs, u, v \in Urls : Gossip(x, u, v)

Spec == Init /\ [][Next]_vars

-----------------------------------------------------------------------------
(***************************************************************************)
(* Properties                                                              *)
(***************************************************************************)

Stamp == Nat \cup {Unset}
Cache == [next : Stamp, sendTs : Stamp, chain : Stamp, chainTs : Stamp]

\* The values every variable keeps.  A shot is being broadcast exactly while
\* it is the current one, and there is a send time exactly when there is a
\* local counter (_nonce_after_send is the only writer of both).
TypeOK ==
  /\ cache \in Cache /\ cur \in Txs \cup {NoShot}
  /\ reply \in [Urls -> Answers] /\ again \in [Txs -> SUBSET Urls]
  /\ nonce \in [Txs -> Nat] /\ sentAt \in [Txs -> Nat]
  /\ outcome \in [Txs -> {"new", "sent", "accepted", "refused", "unknown"}]
  /\ wire \in [Txs -> SUBSET Urls] /\ pool \in [Txs -> SUBSET Urls]
  /\ held \in [Txs -> BOOLEAN] /\ mined \in Nat /\ clock \in Nat
  /\ \A x \in Txs : outcome[x] = "sent" <=> x = cur
  /\ cache.next = Unset <=> cache.sendTs = Unset

\* The outcome of _sign_and_send means what the caller takes it to mean: an
\* accepted shot is with a node, a refused one is with none and never will
\* be, whatever answers were lost, late or out of order.  A refusal of a post
\* the transport repeated is read as an open delivery.
D == INSTANCE Delivery WITH
       outcome <- [x \in Txs |-> IF outcome[x] = "refused" /\ again[x] # {}
                                 THEN "unknown" ELSE outcome[x]]
DeliveryKept == D!Spec

\* What the callers are told of a shot that may be on the wire.
MayLand(y) == outcome[y] \in {"accepted", "unknown"}

Signed(x) == outcome[x] = "new" /\ outcome'[x] = "sent"

\* A shot that may be on the wire owns its nonce: within the send window no
\* later shot is signed with it, whatever the node's count or the prewarmed
\* view says.
NonceOwned ==
  [][\A x, y \in Txs :
       Signed(x) /\ MayLand(y) /\ clock - sentAt[y] <= NONCE_SEND_WINDOW_SEC
       => nonce'[x] # nonce[y]]_vars

\* send_ts is the time of a real broadcast and of nothing else: whenever the
\* window it opens lets the local counter win, some shot that may be on the
\* wire was reported at that very time.
BackedByASend ==
  cache.sendTs # Unset =>
    \E y \in Txs : MayLand(y) /\ sentAt[y] = cache.sendTs

\* "a verdict guarantees no hole": no shot is ever signed past a nonce that
\* no other shot may fill, however the node's count lags or jumps and
\* whatever was refused before.
MayFill(m) == \E y \in Txs : nonce[y] = m /\ (held[y] \/ MayLand(y))
NoGapSigned ==
  \A x \in Txs : outcome[x] # "new" => \A m \in 0..(nonce[x] - 1) : MayFill(m)

\* SendUndelivered: "it is in NO mempool and burns no gas".
RefusedNeverLands == \A x \in Txs : outcome[x] = "refused" => ~held[x]
=============================================================================
