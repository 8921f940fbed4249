---------------------------- MODULE SenderProofs ----------------------------
(***************************************************************************)
(* Proofs about the write path, for any number of nodes and shots.         *)
(*                                                                         *)
(* TypeOK comes first.  NetInv ties what the volley has heard to where the *)
(* transaction is; it carries the refinement of Delivery.  NonceInv ties   *)
(* the cache to the shots that own a nonce; GapInv says what lies below    *)
(* every number the next nonce may be taken from.                          *)
(***************************************************************************)
EXTENDS Sender, TLAPS

LEMMA TxsFacts == Txs \subseteq Nat /\ NoShot \notin Txs
BY SendBoundsAssumption DEF Txs, NoShot

\* The pending count of a node is a number.
LEMMA PendingCountsType ==
  ASSUME mined \in Nat PROVE PendingCounts(WriteNode) \subseteq Nat
BY SendBoundsAssumption DEF PendingCounts

LEMMA RefreshedType ==
  ASSUME NEW c \in Cache, NEW n \in Nat, clock \in Nat
  PROVE  /\ Refreshed(c, n) \in Cache
         /\ Refreshed(c, n).next = c.next /\ Refreshed(c, n).sendTs = c.sendTs
         /\ Refreshed(c, n).chain = n
<1>1. n \in Stamp /\ clock \in Stamp BY DEF Stamp
<1> QED BY <1>1 DEF Refreshed, Cache

\* Reading the node's count changes nothing but the chain view.
LEMMA ViewsType ==
  ASSUME TypeOK, NEW c \in Views
  PROVE  /\ c \in Cache /\ c.next = cache.next /\ c.sendTs = cache.sendTs
         /\ c.chain \in Nat
         /\ c.chain = cache.chain \/ c.chain \in PendingCounts(WriteNode)
<1>1. cache \in Cache /\ clock \in Nat /\ PendingCounts(WriteNode) \subseteq Nat
  BY PendingCountsType DEF TypeOK
<1>2. CASE Warm BY <1>1, <1>2 DEF Views, Warm, Cache, Stamp
<1>3. CASE ~Warm
  <2>1. PICK n \in PendingCounts(WriteNode) : c = Refreshed(cache, n) BY <1>3 DEF Views
  <2> QED BY <1>1, <2>1, RefreshedType
<1> QED BY <1>2, <1>3

\* The nonce is the local counter or the chain view, whichever is chosen;
\* the cache keeps its send time.
LEMMA ChosenType ==
  ASSUME TypeOK, NEW c \in Views
  PROVE  /\ Chosen(c) \in Nat /\ Chosen(c) \in {c.next, c.chain}
         /\ Kept(c) \in Cache /\ Kept(c).next \in {c.next, c.chain}
         /\ Kept(c).chain = c.chain /\ Kept(c).sendTs = c.sendTs
         /\ Kept(c).next = Unset <=> Kept(c).sendTs = Unset
<1>1. c \in Cache /\ c.chain \in Nat /\ (c.next = Unset <=> c.sendTs = Unset)
  BY ViewsType DEF TypeOK
<1>2. Chosen(c) \in Nat /\ Chosen(c) \in {c.next, c.chain}
  BY <1>1 DEF Chosen, LocalAhead, Cache, Stamp, Unset
<1>3. /\ [c EXCEPT !.next = c.chain] \in Cache
      /\ [c EXCEPT !.next = c.chain].next = c.chain
      /\ [c EXCEPT !.next = c.chain].chain = c.chain
      /\ [c EXCEPT !.next = c.chain].sendTs = c.sendTs
  BY <1>1 DEF Cache, Stamp
<1>4. CASE c.next > c.chain /\ ~LocalAhead(c)
  BY <1>1, <1>2, <1>3, <1>4 DEF Kept, Cache, Stamp, Unset
<1>5. CASE ~(c.next > c.chain /\ ~LocalAhead(c))
  BY <1>1, <1>2, <1>5 DEF Kept
<1> QED BY <1>4, <1>5

LEMMA AfterSendType ==
  ASSUME NEW c \in Cache, NEW n \in Nat, clock \in Nat
  PROVE  /\ AfterSend(c, n) \in Cache /\ AfterSend(c, n).chain = c.chain
         /\ AfterSend(c, n).next = n + 1 /\ AfterSend(c, n).sendTs = clock
         /\ AfterSend(c, n).next # Unset /\ AfterSend(c, n).sendTs # Unset
<1>1. n + 1 \in Stamp /\ clock \in Stamp /\ n + 1 # Unset /\ clock # Unset
  BY DEF Stamp, Unset
<1> QED BY <1>1 DEF AfterSend, Cache

-----------------------------------------------------------------------------
(***************************************************************************)
(* Type correctness                                                        *)
(***************************************************************************)

LEMMA InitType == Init => TypeOK
BY TxsFacts, SendBoundsAssumption
DEF Init, TypeOK, Cache, Stamp, Answers, NoShot, Unset

LEMMA AnswerType ==
  ASSUME TypeOK, NEW x \in Txs, NEW u \in Urls, NEW a \in {"ok", "verdict"},
         Answer(x, u, a), pool' \in [Txs -> SUBSET Urls], held' \in [Txs -> BOOLEAN]
  PROVE  TypeOK'
<1>1. reply' \in [Urls -> Answers] BY DEF TypeOK, Answer, Answers
<1>2. wire' \in [Txs -> SUBSET Urls] /\ again' \in [Txs -> SUBSET Urls]
  BY DEF TypeOK, Answer
<1> QED BY <1>1, <1>2 DEF TypeOK, Answer, book, Cache

LEMMA NextType == TypeOK /\ [Next]_vars => TypeOK'
<1> SUFFICES ASSUME TypeOK, [Next]_vars PROVE TypeOK' OBVIOUS
<1> USE DEF TypeOK, book, net
<1>1. CASE Prewarm
  BY <1>1, PendingCountsType, RefreshedType DEF Prewarm
<1>2. CASE Report
  <2>1. cur \in Txs /\ outcome[cur] = "sent" BY <1>2 DEF Report
  <2>2. Verdict \in {"accepted", "refused", "unknown"} BY DEF Verdict
  <2>3. cache' \in Cache /\ (cache'.next = Unset <=> cache'.sendTs = Unset)
    <3>1. CASE Owned(Verdict)
      <4>1. cache' = AfterSend(cache, nonce[cur]) BY <1>2, <3>1 DEF Report
      <4> QED BY <4>1, <2>1, AfterSendType
    <3>2. CASE ~Owned(Verdict) BY <1>2, <3>2 DEF Report
    <3> QED BY <3>1, <3>2
  <2>4. \A x \in Txs : outcome'[x] = "sent" <=> x = cur'
    BY <1>2, <2>1, <2>2, TxsFacts DEF Report
  <2> QED BY <1>2, <2>1, <2>2, <2>3, <2>4, TxsFacts DEF Report, Answers
<1>3. CASE Mine
  BY <1>3 DEF Mine
<1>4. CASE Tick
  BY <1>4 DEF Tick
<1>5. ASSUME NEW x \in Txs, Sign(x) PROVE TypeOK'
  <2>1. PICK c \in Views : nonce' = [nonce EXCEPT ![x] = Chosen(c)] /\ cache' = Kept(c)
    BY <1>5 DEF Sign
  <2>2. nonce' \in [Txs -> Nat] BY <2>1, ChosenType
  <2>3. cache' \in Cache /\ (cache'.next = Unset <=> cache'.sendTs = Unset)
    BY <2>1, ChosenType
  <2>4. \A y \in Txs : outcome'[y] = "sent" <=> y = cur'
    BY <1>5, TxsFacts DEF Sign
  <2> QED BY <1>5, <2>2, <2>3, <2>4 DEF Sign
<1>6. ASSUME NEW u \in Urls, Timeout(u) PROVE TypeOK'
  BY <1>6 DEF Timeout, Answers
<1>7. ASSUME NEW x \in Txs, NEW u \in Urls, NodeTakes(x, u) PROVE TypeOK'
  BY <1>7, AnswerType DEF NodeTakes
<1>8. ASSUME NEW x \in Txs, NEW u \in Urls, NodeKnows(x, u) PROVE TypeOK'
  BY <1>8, AnswerType DEF NodeKnows
<1>9. ASSUME NEW x \in Txs, NEW u \in Urls, NodeRefuses(x, u) PROVE TypeOK'
  BY <1>9, AnswerType DEF NodeRefuses
<1>10. ASSUME NEW x \in Txs, NEW u \in Urls, Evict(x, u) PROVE TypeOK'
  BY <1>10 DEF Evict
<1>11. ASSUME NEW x \in Txs, NEW u \in Urls, NEW v \in Urls, Gossip(x, u, v) PROVE TypeOK'
  BY <1>11 DEF Gossip
<1>12. CASE UNCHANGED vars
  BY <1>12 DEF vars
<1> QED
  BY <1>1, <1>2, <1>3, <1>4, <1>5, <1>6, <1>7, <1>8, <1>9, <1>10, <1>11, <1>12 DEF Next

\* Every variable keeps its type, for any number of nodes and shots.
THEOREM SenderTypeCorrect == Spec => []TypeOK
BY InitType, NextType, PTL DEF Spec

-----------------------------------------------------------------------------
(***************************************************************************)
(* The three outcomes: Sender implements Delivery                          *)
(***************************************************************************)

\* A mempool that holds a shot has taken it; a shot not yet signed, and one
\* refused without a repeated post, is nowhere.
PoolHeld == \A x \in Txs : pool[x] # {} => held[x]
Nowhere(x) == wire[x] = {} /\ ~held[x]
NewNowhere == \A x \in Txs : outcome[x] = "new" => Nowhere(x)
RefusedNowhere ==
  \A x \in Txs : outcome[x] = "refused" /\ again[x] = {} => Nowhere(x)

\* What the volley under way has heard.
IdleOpen == cur = NoShot => \A u \in Urls : reply[u] = "open"
OkHeld == cur # NoShot => \A u \in Urls : reply[u] = "ok" => held[cur]
VerdictDone ==
  cur # NoShot /\ again[cur] = {} => \A u \in Urls : reply[u] = "verdict" => u \notin wire[cur]
HeldHeard ==
  cur # NoShot /\ again[cur] = {} /\ held[cur] => \E u \in Urls : reply[u] \in {"ok", "err"}

NetInv == /\ TypeOK /\ PoolHeld /\ NewNowhere /\ RefusedNowhere
          /\ IdleOpen /\ OkHeld /\ VerdictDone /\ HeldHeard

LEMMA InitNet == Init => NetInv
BY InitType, TxsFacts
DEF Init, NetInv, PoolHeld, NewNowhere, RefusedNowhere, Nowhere, IdleOpen, OkHeld,
    VerdictDone, HeldHeard, NoShot

\* What an answer does to a shot whose post was not repeated.
LEMMA AnswerFacts ==
  ASSUME NetInv, NEW x \in Txs, NEW u \in Urls, NEW a \in {"ok", "verdict"}, Answer(x, u, a)
  PROVE  /\ u \in wire[x]
         /\ \A y \in Txs : wire'[y] \subseteq wire[y] /\ (again'[y] = {} => again[y] = {})
         /\ again'[x] = {} => u \notin wire'[x]
         /\ \A v \in Urls : reply'[v] # reply[v] =>
              x = cur /\ v = u /\ reply[u] = "open" /\ reply'[u] \in {a, "err"} /\ u \notin wire'[x]
         /\ again'[x] = {} /\ x = cur => reply'[u] # "open"
         /\ outcome' = outcome /\ cur' = cur
BY DEF Answer, NetInv, TypeOK, book

LEMMA AnswerNet ==
  ASSUME NetInv, TypeOK', NEW x \in Txs, NEW u \in Urls, NEW a \in {"ok", "verdict"},
         Answer(x, u, a),
         a = "ok" => /\ held' = [held EXCEPT ![x] = TRUE]
                     /\ \A y \in Txs \ {x} : pool'[y] \subseteq pool[y],
         a = "verdict" => held' = held /\ pool' = pool
  PROVE  NetInv'
<1>0. TypeOK /\ PoolHeld /\ NewNowhere /\ RefusedNowhere /\ IdleOpen /\ OkHeld
      /\ VerdictDone /\ HeldHeard
  BY DEF NetInv
<1>1. \A y \in Txs : held[y] => held'[y] BY <1>0 DEF TypeOK
<1>2. \A y \in Txs \ {x} : held'[y] = held[y] BY <1>0 DEF TypeOK
<1>3. a = "ok" => held'[x] BY <1>0 DEF TypeOK
<1>4. a = "verdict" => held' = held BY <1>0 DEF TypeOK
<1>5. PoolHeld' BY <1>0, <1>1, <1>2, <1>3 DEF PoolHeld, TypeOK
<1>6. NewNowhere' BY <1>0, <1>2, AnswerFacts DEF NewNowhere, Nowhere
<1>7. RefusedNowhere' BY <1>0, <1>2, AnswerFacts DEF RefusedNowhere, Nowhere
<1>8. IdleOpen' BY <1>0, AnswerFacts, TxsFacts DEF IdleOpen
<1>9. OkHeld' BY <1>0, <1>1, <1>3, AnswerFacts DEF OkHeld, TypeOK
<1>10. VerdictDone' BY <1>0, AnswerFacts DEF VerdictDone, TypeOK
<1>11. HeldHeard'
  <2> SUFFICES ASSUME cur # NoShot, again'[cur] = {}, held'[cur]
               PROVE  \E v \in Urls : reply'[v] \in {"ok", "err"}
    BY AnswerFacts DEF HeldHeard
  <2>1. cur \in Txs /\ again[cur] = {} /\ reply \in [Urls -> Answers] /\ reply' \in [Urls -> Answers]
    BY <1>0, AnswerFacts DEF TypeOK
  <2>2. CASE held[cur]
    <3>1. PICK v \in Urls : reply[v] \in {"ok", "err"} BY <1>0, <2>1, <2>2 DEF HeldHeard
    <3> QED BY <3>1, AnswerFacts
  <2>3. CASE ~held[cur]
    <3>1. x = cur /\ a = "ok" BY <1>2, <1>4, <2>1, <2>3
    <3>2. reply[u] # "verdict" BY <1>0, <2>1, <3>1, AnswerFacts DEF VerdictDone
    <3>3. reply'[u] # "open" BY <3>1, AnswerFacts
    <3>4. reply'[u] \in {"ok", "err"} BY <2>1, <3>1, <3>2, <3>3, AnswerFacts DEF Answers
    <3> QED BY <3>4
  <2> QED BY <2>2, <2>3
<1> QED BY <1>5, <1>6, <1>7, <1>8, <1>9, <1>10, <1>11 DEF NetInv

LEMMA ReportNet == NetInv /\ TypeOK' /\ Report => NetInv'
<1> SUFFICES ASSUME NetInv, TypeOK', Report PROVE NetInv' OBVIOUS
<1>0. TypeOK /\ PoolHeld /\ NewNowhere /\ RefusedNowhere /\ VerdictDone /\ HeldHeard
  BY DEF NetInv
<1>1. cur \in Txs BY <1>0 DEF Report, TypeOK
<1>2. Verdict = "refused" /\ again[cur] = {} => Nowhere(cur)
  <2> SUFFICES ASSUME Verdict = "refused", again[cur] = {} PROVE Nowhere(cur) OBVIOUS
  <2>1. \A u \in Urls : reply[u] = "verdict" BY DEF Verdict
  <2>2. ~held[cur] BY <1>0, <1>1, <2>1 DEF HeldHeard, Report
  <2>3. wire[cur] = {} BY <1>0, <1>1, <2>1 DEF VerdictDone, Report, TypeOK
  <2> QED BY <2>2, <2>3 DEF Nowhere
<1>3. PoolHeld' BY <1>0 DEF PoolHeld, Report, net
<1>4. Verdict # "new" BY DEF Verdict
<1>5. NewNowhere' BY <1>0, <1>1, <1>4 DEF NewNowhere, Nowhere, Report, net, TypeOK
<1>6. RefusedNowhere'
  BY <1>0, <1>1, <1>2 DEF RefusedNowhere, Nowhere, Report, net, TypeOK
<1>7. IdleOpen' /\ OkHeld' /\ VerdictDone' /\ HeldHeard'
  BY DEF Report, IdleOpen, OkHeld, VerdictDone, HeldHeard
<1> QED BY <1>3, <1>5, <1>6, <1>7 DEF NetInv

LEMMA SignNet ==
  ASSUME NetInv, TypeOK', NEW x \in Txs, Sign(x)
  PROVE  NetInv'
<1>0. TypeOK /\ PoolHeld /\ NewNowhere /\ RefusedNowhere /\ IdleOpen BY DEF NetInv
<1>1. outcome[x] = "new" /\ ~held[x] /\ \A u \in Urls : reply[u] = "open"
  BY <1>0 DEF Sign, Fresh, NewNowhere, Nowhere, IdleOpen
<1>2. PoolHeld' BY <1>0 DEF PoolHeld, Sign
<1>3. NewNowhere' BY <1>0 DEF NewNowhere, Nowhere, Sign, TypeOK
<1>4. RefusedNowhere' BY <1>0 DEF RefusedNowhere, Nowhere, Sign, TypeOK
<1>5. IdleOpen' BY <1>0, TxsFacts DEF IdleOpen, Sign
<1>6. OkHeld' /\ VerdictDone' /\ HeldHeard'
  BY <1>1 DEF OkHeld, VerdictDone, HeldHeard, Sign
<1> QED BY <1>2, <1>3, <1>4, <1>5, <1>6 DEF NetInv

LEMMA NextNet == NetInv /\ [Next]_vars => NetInv'
<1> SUFFICES ASSUME NetInv, [Next]_vars PROVE NetInv' OBVIOUS
<1>0. TypeOK /\ TypeOK' BY NextType DEF NetInv
<1> USE DEF NetInv, PoolHeld, NewNowhere, RefusedNowhere, Nowhere, IdleOpen, OkHeld,
            VerdictDone, HeldHeard, book, net
<1>1. CASE Prewarm BY <1>0, <1>1 DEF Prewarm
<1>2. CASE Report BY <1>0, <1>2, ReportNet
<1>3. CASE Mine
  <2>1. \A x \in Txs : pool'[x] \subseteq pool[x] BY <1>0, <1>3 DEF Mine
  <2> QED BY <1>0, <1>3, <2>1 DEF Mine
<1>4. CASE Tick BY <1>0, <1>4 DEF Tick
<1>5. ASSUME NEW x \in Txs, Sign(x) PROVE NetInv'
  BY <1>0, <1>5, SignNet
<1>6. ASSUME NEW u \in Urls, Timeout(u) PROVE NetInv'
  <2>1. \A v \in Urls : reply'[v] = IF v = u THEN "err" ELSE reply[v]
    BY <1>0, <1>6 DEF Timeout, TypeOK
  <2>2. reply[u] = "open" /\ cur # NoShot BY <1>6 DEF Timeout
  <2> QED BY <1>0, <1>6, <2>1, <2>2 DEF Timeout
<1>7. ASSUME NEW x \in Txs, NEW u \in Urls, NodeTakes(x, u) PROVE NetInv'
  <2>1. held' = [held EXCEPT ![x] = TRUE] /\ Answer(x, u, "ok") BY <1>7 DEF NodeTakes
  <2>2. \A y \in Txs \ {x} : pool'[y] \subseteq pool[y] BY <1>7 DEF NodeTakes
  <2> QED BY <1>0, <2>1, <2>2, AnswerNet
<1>8. ASSUME NEW x \in Txs, NEW u \in Urls, NodeKnows(x, u) PROVE NetInv'
  <2>1. held[x] BY <1>8 DEF NodeKnows
  <2>2. held' = [held EXCEPT ![x] = TRUE] /\ pool' = pool /\ Answer(x, u, "ok")
    BY <1>0, <1>8, <2>1 DEF NodeKnows, TypeOK
  <2> QED BY <1>0, <2>2, AnswerNet
<1>9. ASSUME NEW x \in Txs, NEW u \in Urls, NodeRefuses(x, u) PROVE NetInv'
  <2>1. held' = held /\ pool' = pool /\ Answer(x, u, "verdict")
    BY <1>9 DEF NodeRefuses
  <2> QED BY <1>0, <2>1, AnswerNet
<1>10. ASSUME NEW x \in Txs, NEW u \in Urls, Evict(x, u) PROVE NetInv'
  <2>1. \A y \in Txs : pool'[y] \subseteq pool[y] BY <1>0, <1>10 DEF Evict, TypeOK
  <2> QED BY <1>0, <1>10, <2>1 DEF Evict
<1>11. ASSUME NEW x \in Txs, NEW u \in Urls, NEW v \in Urls, Gossip(x, u, v) PROVE NetInv'
  <2>1. \A y \in Txs : pool'[y] # {} => pool[y] # {} BY <1>0, <1>11 DEF Gossip, TypeOK
  <2> QED BY <1>0, <1>11, <2>1 DEF Gossip
<1>12. CASE UNCHANGED vars
  BY <1>0, <1>12 DEF vars
<1> QED
  BY <1>1, <1>2, <1>3, <1>4, <1>5, <1>6, <1>7, <1>8, <1>9, <1>10, <1>11, <1>12 DEF Next

\* What the caller sees of a shot: Delivery's outcome.
Seen == [x \in Txs |-> IF outcome[x] = "refused" /\ again[x] # {}
                       THEN "unknown" ELSE outcome[x]]

LEMMA InitDelivery == Init => D!Init
BY DEF Init, D!Init

\* Every step is a step of Delivery or none.
LEMMA NextDelivery ==
  ASSUME NetInv, [Next]_vars
  PROVE  D!Next \/ (Seen' = Seen /\ held' = held)
<1> USE DEF NetInv
<1>0. TypeOK /\ TypeOK' BY NextType
<1>1. CASE Prewarm BY <1>1 DEF Prewarm, Seen, book, net
<1>2. CASE Report
  <2>1. cur \in Txs /\ outcome[cur] = "sent" BY <1>0, <1>2 DEF Report, TypeOK
  <2>2. CASE Verdict = "accepted"
    <3>1. held[cur] BY <1>2, <2>2 DEF Report, Verdict, OkHeld
    <3>2. Seen' = [Seen EXCEPT ![cur] = "accepted"]
      BY <1>0, <1>2, <2>1, <2>2 DEF Report, Seen, TypeOK
    <3>3. D!Report(cur, "accepted") BY <1>2, <2>1, <3>1, <3>2 DEF D!Report, Report, Seen, net
    <3> QED BY <2>1, <3>3 DEF D!Next
  <2>3. CASE Verdict = "refused" /\ again[cur] = {}
    <3>1. ~held[cur] BY <1>2, <2>3 DEF Report, Verdict, HeldHeard
    <3>2. Seen' = [Seen EXCEPT ![cur] = "refused"]
      BY <1>0, <1>2, <2>1, <2>3 DEF Report, Seen, TypeOK
    <3>3. D!Report(cur, "refused") BY <1>2, <2>1, <3>1, <3>2 DEF D!Report, Report, Seen, net
    <3> QED BY <2>1, <3>3 DEF D!Next
  <2>4. CASE Verdict = "unknown" \/ (Verdict = "refused" /\ again[cur] # {})
    <3>1. Seen' = [Seen EXCEPT ![cur] = "unknown"]
      BY <1>0, <1>2, <2>1, <2>4 DEF Report, Seen, TypeOK
    <3>2. D!Report(cur, "unknown") BY <1>2, <2>1, <3>1 DEF D!Report, Report, Seen, net
    <3> QED BY <2>1, <3>2 DEF D!Next
  <2> QED BY <2>2, <2>3, <2>4 DEF Verdict
<1>3. CASE Mine BY <1>3 DEF Mine, Seen, book
<1>4. CASE Tick BY <1>4 DEF Tick, Seen, book, net
<1>5. ASSUME NEW x \in Txs, Sign(x) PROVE D!Next
  <2>1. Seen' = [Seen EXCEPT ![x] = "sent"] /\ Seen[x] = "new"
    BY <1>0, <1>5 DEF Sign, Fresh, Seen, TypeOK
  <2>2. D!Send(x) BY <1>5, <2>1 DEF D!Send, Seen, Sign
  <2> QED BY <2>2 DEF D!Next
<1>6. ASSUME NEW u \in Urls, Timeout(u) PROVE Seen' = Seen /\ held' = held
  BY <1>6 DEF Timeout, Seen, book, net
<1>7. ASSUME NEW x \in Txs, NEW u \in Urls, NEW a \in {"ok", "verdict"}, Answer(x, u, a)
      PROVE  Seen' = Seen /\ Seen[x] \in {"sent", "accepted", "unknown"}
  <2>1. outcome[x] # "new" /\ ~(outcome[x] = "refused" /\ again[x] = {})
    BY <1>7, AnswerFacts DEF NewNowhere, RefusedNowhere, Nowhere
  <2>2. outcome' = outcome /\ \A y \in Txs \ {x} : again'[y] = again[y]
    BY <1>0, <1>7 DEF Answer, book, TypeOK
  <2>3. outcome[x] = "refused" => again'[x] # {} /\ again[x] # {}
    BY <1>7, <2>1, AnswerFacts
  <2> QED BY <1>0, <2>1, <2>2, <2>3 DEF Seen, TypeOK
<1>8. ASSUME NEW x \in Txs, NEW u \in Urls, NodeTakes(x, u) PROVE D!Next
  <2>1. Seen' = Seen /\ Seen[x] \in {"sent", "accepted", "unknown"}
    BY <1>7, <1>8 DEF NodeTakes
  <2>2. D!Take(x) BY <1>8, <2>1 DEF D!Take, NodeTakes, Seen
  <2> QED BY <2>2 DEF D!Next
<1>9. ASSUME NEW x \in Txs, NEW u \in Urls, NodeKnows(x, u) \/ NodeRefuses(x, u)
      PROVE  Seen' = Seen /\ held' = held
  BY <1>7, <1>9 DEF NodeKnows, NodeRefuses
<1>10. ASSUME NEW x \in Txs, NEW u \in Urls, Evict(x, u) PROVE Seen' = Seen /\ held' = held
  BY <1>10 DEF Evict, Seen, book
<1>11. ASSUME NEW x \in Txs, NEW u \in Urls, NEW v \in Urls, Gossip(x, u, v)
       PROVE  Seen' = Seen /\ held' = held
  BY <1>11 DEF Gossip, Seen, book
<1>12. CASE UNCHANGED vars BY <1>12 DEF vars, Seen
<1> QED
  BY <1>1, <1>2, <1>3, <1>4, <1>5, <1>6, <1>8, <1>9, <1>10, <1>11, <1>12 DEF Next

\* _sign_and_send implements its three-outcome promise for any number of
\* nodes and shots, up to refusals of a repeated post.
THEOREM DeliveryKeptHolds == Spec => DeliveryKept
<1>1. NetInv /\ [Next]_vars => [D!Next]_<<Seen, held>>
  BY NextDelivery
<1> QED
  BY InitNet, InitDelivery, NextNet, <1>1, PTL DEF Spec, DeliveryKept, D!Spec, Seen

-----------------------------------------------------------------------------
(***************************************************************************)
(* The nonce                                                               *)
(***************************************************************************)

\* Within the window of its report a shot that may land is behind the local
\* counter, which is still backed, and behind the shot under way.
InWindow(y) == MayLand(y) /\ clock - sentAt[y] <= NONCE_SEND_WINDOW_SEC
Backed == \A y \in Txs : InWindow(y) => cache.next > nonce[y] /\ cache.sendTs >= sentAt[y]
CurAhead == cur # NoShot => \A y \in Txs : InWindow(y) => nonce[cur] > nonce[y]
PastReports == \A y \in Txs : sentAt[y] <= clock

NonceInv == TypeOK /\ Backed /\ CurAhead /\ PastReports /\ BackedByASend

LEMMA InitNonce == Init => NonceInv
BY InitType, TxsFacts
DEF Init, NonceInv, Backed, CurAhead, PastReports, BackedByASend, InWindow, MayLand,
    NoShot, Unset

\* The nonce chosen for the next shot is none of those owned in the window.
LEMMA ChosenAhead ==
  ASSUME NonceInv, NEW c \in Views, NEW y \in Txs, InWindow(y)
  PROVE  /\ Chosen(c) > nonce[y] /\ Kept(c).next > nonce[y]
<1>1. /\ c \in Cache /\ c.next = cache.next /\ c.sendTs = cache.sendTs /\ c.chain \in Nat
  BY ViewsType DEF NonceInv
<1>2. /\ c.next > nonce[y] /\ c.sendTs >= sentAt[y]
      /\ clock - sentAt[y] <= NONCE_SEND_WINDOW_SEC
      /\ nonce[y] \in Nat /\ sentAt[y] \in Nat /\ clock \in Nat
  BY <1>1 DEF NonceInv, Backed, InWindow, TypeOK
<1>3. c.next \in Int /\ c.sendTs \in Int
  BY <1>1 DEF Cache, Stamp, Unset
<1>4. clock - c.sendTs <= NONCE_SEND_WINDOW_SEC
  BY <1>2, <1>3, NonceTimersAssumption
<1> QED BY <1>1, <1>2, <1>3, <1>4 DEF Chosen, Kept, LocalAhead

LEMMA SignNonce ==
  ASSUME NonceInv, TypeOK', NEW x \in Txs, Sign(x)
  PROVE  NonceInv'
<1>0. TypeOK /\ Backed /\ PastReports /\ BackedByASend BY DEF NonceInv
<1>1. PICK c \in Views : nonce' = [nonce EXCEPT ![x] = Chosen(c)] /\ cache' = Kept(c)
  BY DEF Sign
<1>2. cache'.sendTs = cache.sendTs BY <1>0, <1>1, ViewsType, ChosenType
<1>3. sentAt' = sentAt /\ clock' = clock /\ cur' = x /\ outcome[x] = "new"
  BY DEF Sign, Fresh
<1>4. outcome' = [outcome EXCEPT ![x] = "sent"] BY DEF Sign
<1>5. \A y \in Txs : MayLand(y)' <=> MayLand(y)
  BY <1>0, <1>3, <1>4 DEF MayLand, TypeOK
<1>6. ASSUME NEW y \in Txs, InWindow(y)'
      PROVE  y # x /\ InWindow(y) /\ nonce'[y] = nonce[y]
  <2>1. MayLand(y) BY <1>5, <1>6 DEF InWindow
  <2>2. y # x BY <1>3, <2>1 DEF MayLand
  <2> QED BY <1>0, <1>1, <1>3, <1>6, <2>1, <2>2 DEF InWindow, TypeOK
<1>7. ASSUME NEW y \in Txs, InWindow(y)' PROVE cache'.next > nonce'[y] /\ nonce'[x] > nonce'[y]
  BY <1>0, <1>1, <1>6, <1>7, ChosenAhead DEF TypeOK
<1>8. Backed' BY <1>0, <1>2, <1>3, <1>6, <1>7 DEF Backed
<1>9. CurAhead' BY <1>3, <1>7 DEF CurAhead
<1>10. PastReports' BY <1>0, <1>3 DEF PastReports
<1>11. BackedByASend' BY <1>0, <1>2, <1>3, <1>5 DEF BackedByASend
<1> QED BY <1>8, <1>9, <1>10, <1>11 DEF NonceInv

LEMMA ReportNonce == NonceInv /\ TypeOK' /\ Report => NonceInv'
<1> SUFFICES ASSUME NonceInv, TypeOK', Report PROVE NonceInv' OBVIOUS
<1>0. TypeOK /\ Backed /\ CurAhead /\ PastReports /\ BackedByASend BY DEF NonceInv
<1>1. PICK x \in Txs : x = cur /\ outcome[x] = "sent" BY <1>0 DEF Report, TypeOK
<1>2. outcome' = [outcome EXCEPT ![x] = Verdict] /\ sentAt' = [sentAt EXCEPT ![x] = clock]
      /\ nonce' = nonce /\ clock' = clock /\ cur' = NoShot
  BY <1>1 DEF Report, net
<1>3. \A y \in Txs \ {x} : (MayLand(y)' <=> MayLand(y)) /\ sentAt'[y] = sentAt[y]
  BY <1>0, <1>2 DEF MayLand, TypeOK
<1>4. (MayLand(x)' <=> Owned(Verdict)) /\ sentAt'[x] = clock
  BY <1>0, <1>1, <1>2 DEF MayLand, Owned, TypeOK
<1>5. PastReports' BY <1>0, <1>1, <1>2, <1>3, <1>4 DEF PastReports, TypeOK
<1>6. CurAhead' BY <1>2 DEF CurAhead
<1>7. CASE Owned(Verdict)
  <2>1. cache'.next = nonce[x] + 1 /\ cache'.sendTs = clock
    <3>1. cache' = AfterSend(cache, nonce[x]) BY <1>1, <1>7 DEF Report
    <3>2. cache \in Cache /\ nonce[x] \in Nat /\ clock \in Nat BY <1>0 DEF TypeOK
    <3> QED BY <3>1, <3>2, AfterSendType
  <2>2. \A y \in Txs \ {x} : InWindow(y)' => nonce[x] > nonce[y]
    BY <1>0, <1>1, <1>2, <1>3 DEF CurAhead, InWindow, Report
  <2>3. Backed'
    <3> SUFFICES ASSUME NEW y \in Txs, InWindow(y)'
                 PROVE  cache'.next > nonce'[y] /\ cache'.sendTs >= sentAt'[y]
      BY DEF Backed
    <3>1. nonce[x] \in Nat /\ nonce[y] \in Nat /\ clock \in Nat
      BY <1>0, <1>1 DEF TypeOK
    <3>2. sentAt'[y] <= clock /\ sentAt'[y] \in Nat BY <1>2, <1>5 DEF PastReports, TypeOK
    <3>3. CASE y = x BY <1>2, <1>4, <2>1, <3>1, <3>3
    <3>4. CASE y # x BY <1>2, <2>1, <2>2, <3>1, <3>2, <3>4
    <3> QED BY <3>3, <3>4
  <2>4. BackedByASend' BY <1>1, <1>4, <1>7, <2>1 DEF BackedByASend
  <2> QED BY <1>5, <1>6, <2>3, <2>4 DEF NonceInv
<1>8. CASE ~Owned(Verdict)
  <2>1. cache' = cache BY <1>8 DEF Report
  <2>2. Backed' BY <1>0, <1>2, <1>3, <1>4, <1>8, <2>1 DEF Backed, InWindow
  <2>3. \A y \in Txs : MayLand(y) => y # x BY <1>1 DEF MayLand
  <2>4. BackedByASend' BY <1>0, <1>3, <2>1, <2>3 DEF BackedByASend
  <2> QED BY <1>5, <1>6, <2>2, <2>4 DEF NonceInv
<1> QED BY <1>7, <1>8

\* Steps that leave cache, shots and clock alone.
LEMMA QuietNonce ==
  ASSUME NonceInv, TypeOK', UNCHANGED <<cur, book, clock>>,
         cache'.next = cache.next, cache'.sendTs = cache.sendTs
  PROVE  NonceInv'
BY DEF NonceInv, Backed, CurAhead, PastReports, BackedByASend, InWindow, MayLand, book

LEMMA NextNonce == NonceInv /\ [Next]_vars => NonceInv'
<1> SUFFICES ASSUME NonceInv, [Next]_vars PROVE NonceInv' OBVIOUS
<1>0. TypeOK /\ TypeOK' BY NextType DEF NonceInv
<1>1. CASE Prewarm
  <2>1. cache'.next = cache.next /\ cache'.sendTs = cache.sendTs
    BY <1>0, <1>1, PendingCountsType, RefreshedType DEF Prewarm, TypeOK
  <2> QED BY <1>0, <1>1, <2>1, QuietNonce DEF Prewarm
<1>2. CASE Report BY <1>0, <1>2, ReportNonce
<1>3. CASE Tick
  <2>1. clock \in Nat /\ sentAt \in [Txs -> Nat] /\ clock' = clock + 1
        /\ UNCHANGED <<cache, cur, nonce, sentAt, outcome>>
    BY <1>0, <1>3 DEF Tick, TypeOK, book
  <2>2. \A y \in Txs : InWindow(y)' => InWindow(y)
    BY <2>1, NonceTimersAssumption DEF InWindow, MayLand
  <2>3. Backed' /\ CurAhead' BY <2>1, <2>2 DEF NonceInv, Backed, CurAhead
  <2>4. PastReports' BY <2>1 DEF NonceInv, PastReports
  <2>5. BackedByASend' BY <2>1 DEF NonceInv, BackedByASend, MayLand
  <2> QED BY <1>0, <2>3, <2>4, <2>5 DEF NonceInv
<1>4. ASSUME NEW x \in Txs, Sign(x) PROVE NonceInv'
  BY <1>0, <1>4, SignNonce
<1>5. CASE UNCHANGED <<cache, cur, book, clock>>
  BY <1>0, <1>5, QuietNonce
<1>6. Mine \/ (\E u \in Urls : Timeout(u))
      \/ (\E x \in Txs, u \in Urls :
            NodeTakes(x, u) \/ NodeKnows(x, u) \/ NodeRefuses(x, u) \/ Evict(x, u))
      \/ (\E x \in Txs, u, v \in Urls : Gossip(x, u, v)) \/ UNCHANGED vars
      => UNCHANGED <<cache, cur, book, clock>>
  BY DEF Mine, Timeout, NodeTakes, NodeKnows, NodeRefuses, Answer, Evict, Gossip, vars, book
<1> QED BY <1>1, <1>2, <1>3, <1>4, <1>5, <1>6 DEF Next

\* The send window opens with a real broadcast and with nothing else.
THEOREM BackedByASendHolds == Spec => []BackedByASend
<1>1. NonceInv => BackedByASend BY DEF NonceInv
<1> QED BY InitNonce, NextNonce, <1>1, PTL DEF Spec

\* No shot is signed with the nonce of an earlier one that may be on the
\* wire and was sent within the window, whatever the nodes answer.
THEOREM NonceOwnedHolds == Spec => NonceOwned
<1>1. NonceInv /\ [Next]_vars =>
        [\A x, y \in Txs :
           Signed(x) /\ MayLand(y) /\ clock - sentAt[y] <= NONCE_SEND_WINDOW_SEC
           => nonce'[x] # nonce[y]]_vars
  <2> SUFFICES ASSUME NonceInv, Next, NEW x \in Txs, NEW y \in Txs,
                      Signed(x), InWindow(y)
               PROVE  nonce'[x] # nonce[y]
    BY DEF InWindow
  <2>0. TypeOK BY DEF NonceInv
  <2>1. Sign(x)
    <3>1. ASSUME NEW z \in Txs, Sign(z) PROVE z = x
      BY <2>0, <3>1 DEF Sign, Signed, TypeOK
    <3>2. CASE Report BY <2>0, <3>2 DEF Report, Signed, Verdict, TypeOK
    <3>3. outcome' = outcome => FALSE BY DEF Signed
    <3> QED BY <3>1, <3>2, <3>3 DEF Next, Prewarm, Mine, Tick, Timeout, NodeTakes, NodeKnows,
                 NodeRefuses, Answer, Evict, Gossip, book
  <2>2. PICK c \in Views : nonce' = [nonce EXCEPT ![x] = Chosen(c)] BY <2>1 DEF Sign
  <2>3. Chosen(c) > nonce[y] /\ Chosen(c) \in Nat BY <2>0, ChosenAhead, ChosenType
  <2> QED BY <2>0, <2>2, <2>3 DEF TypeOK
<1> QED BY InitNonce, NextNonce, <1>1, PTL DEF Spec, NonceOwned

-----------------------------------------------------------------------------
(***************************************************************************)
(* No gap                                                                  *)
(***************************************************************************)

\* Every number the next nonce may be taken from lies above filled ones only.
Filled(n) == \A m \in 0..(n - 1) : MayFill(m)
GapInv == NetInv /\ NoGapSigned /\ Filled(mined) /\ Filled(cache.next) /\ Filled(cache.chain)

LEMMA InitGap == Init => GapInv
BY InitNet DEF Init, GapInv, NoGapSigned, Filled, Unset

\* What may fill a nonce keeps it: a new shot fills none.
LEMMA MayFillKept ==
  ASSUME NetInv, [Next]_vars, NEW m \in Nat, MayFill(m)
  PROVE  MayFill(m)'
<1>0. TypeOK /\ TypeOK' BY NextType DEF NetInv
<1>1. PICK y \in Txs : nonce[y] = m /\ (held[y] \/ MayLand(y)) BY DEF MayFill
<1>2. outcome[y] # "new" BY <1>1 DEF NetInv, NewNowhere, Nowhere, MayLand
<1>3. nonce'[y] = nonce[y]
  BY <1>0, <1>2 DEF Next, vars, book, net, Prewarm, Report, Mine, Tick, Sign, Fresh, Timeout,
     NodeTakes, NodeKnows, NodeRefuses, Answer, Evict, Gossip, TypeOK
<1>4. held[y] => held'[y]
  BY <1>0 DEF Next, vars, book, net, Prewarm, Report, Mine, Tick, Sign, Timeout,
     NodeTakes, NodeKnows, NodeRefuses, Answer, Evict, Gossip, TypeOK
<1>5. MayLand(y) => MayLand(y)'
  BY <1>0, <1>2 DEF Next, vars, book, net, Prewarm, Report, Mine, Tick, Sign, Fresh, Timeout,
     NodeTakes, NodeKnows, NodeRefuses, Answer, Evict, Gossip, TypeOK, MayLand
<1> QED BY <1>1, <1>3, <1>4, <1>5 DEF MayFill

\* A count a node may answer lies above filled numbers only.
LEMMA PendingFilled ==
  ASSUME GapInv, NEW n \in PendingCounts(WriteNode)
  PROVE  Filled(n)
<1>1. n \in Nat /\ mined \in Nat /\ Contiguous(WriteNode, n) /\ TypeOK
  BY PendingCountsType DEF GapInv, NetInv, TypeOK, PendingCounts
<1> SUFFICES ASSUME NEW m \in 0..(n - 1) PROVE MayFill(m) BY DEF Filled
<1>2. CASE m < mined BY <1>1, <1>2 DEF GapInv, Filled
<1>3. CASE m >= mined
  <2>1. PICK x \in Txs : WriteNode \in pool[x] /\ nonce[x] = m
    BY <1>1, <1>3 DEF Contiguous
  <2>2. held[x] BY <2>1 DEF GapInv, NetInv, PoolHeld
  <2> QED BY <2>1, <2>2 DEF MayFill
<1> QED BY <1>1, <1>2, <1>3

LEMMA NextGap == GapInv /\ [Next]_vars => GapInv'
<1> SUFFICES ASSUME GapInv, [Next]_vars PROVE GapInv' OBVIOUS
<1>0. NetInv /\ NetInv' /\ TypeOK /\ TypeOK' BY NextNet DEF GapInv, NetInv
<1>1. ASSUME NEW n \in Int, Filled(n) PROVE \A m \in 0..(n - 1) : MayFill(m)'
  BY <1>0, <1>1, MayFillKept DEF Filled
<1>2. \A m \in 0..(mined - 1) : MayFill(m)' BY <1>0, <1>1 DEF GapInv, TypeOK
<1>3. \A m \in 0..(cache.next - 1) : MayFill(m)'
  BY <1>0, <1>1 DEF GapInv, TypeOK, Cache, Stamp, Unset
<1>4. \A m \in 0..(cache.chain - 1) : MayFill(m)'
  BY <1>0, <1>1 DEF GapInv, TypeOK, Cache, Stamp, Unset
<1>5. \A x \in Txs : outcome[x] # "new" => \A m \in 0..(nonce[x] - 1) : MayFill(m)'
  BY <1>0, MayFillKept DEF GapInv, NoGapSigned, TypeOK
<1>6. ASSUME NEW c \in Views
      PROVE  /\ \A m \in 0..(c.chain - 1) : MayFill(m)'
             /\ \A m \in 0..(c.next - 1) : MayFill(m)'
  <2>1. c.next = cache.next /\ c.chain \in Nat
        /\ (c.chain = cache.chain \/ c.chain \in PendingCounts(WriteNode))
    BY <1>0, ViewsType
  <2>2. Filled(c.chain) BY <2>1, PendingFilled DEF GapInv
  <2> QED BY <1>1, <1>3, <2>1, <2>2
<1>7. CASE Prewarm
  <2>1. PICK n \in PendingCounts(WriteNode) : cache' = Refreshed(cache, n) BY <1>7 DEF Prewarm
  <2>2. n \in Nat /\ cache'.next = cache.next /\ cache'.chain = n
    <3>1. n \in Nat /\ cache \in Cache /\ clock \in Nat BY <1>0, PendingCountsType DEF TypeOK
    <3> QED BY <2>1, <3>1, RefreshedType
  <2>3. \A m \in 0..(n - 1) : MayFill(m)' BY <1>1, <2>2, PendingFilled
  <2>4. mined' = mined /\ nonce' = nonce /\ outcome' = outcome BY <1>7 DEF Prewarm, book, net
  <2> QED BY <1>0, <1>2, <1>3, <1>5, <2>2, <2>3, <2>4 DEF GapInv, Filled, NoGapSigned
<1>8. ASSUME NEW x \in Txs, Sign(x) PROVE GapInv'
  <2>1. PICK c \in Views : nonce' = [nonce EXCEPT ![x] = Chosen(c)] /\ cache' = Kept(c)
    BY <1>8 DEF Sign
  <2>2. Chosen(c) \in {c.next, c.chain} /\ Kept(c).next \in {c.next, c.chain}
        /\ Kept(c).chain = c.chain
    BY <1>0, ChosenType
  <2>3. \A m \in 0..(Chosen(c) - 1) : MayFill(m)' BY <1>6, <2>2
  <2>4. \A y \in Txs \ {x} : nonce'[y] = nonce[y] /\ outcome'[y] = outcome[y]
    BY <1>0, <1>8, <2>1 DEF Sign, TypeOK
  <2>5. nonce'[x] = Chosen(c) BY <1>0, <2>1 DEF TypeOK
  <2>6. NoGapSigned' BY <1>5, <2>3, <2>4, <2>5 DEF NoGapSigned
  <2>7. mined' = mined BY <1>8 DEF Sign
  <2> QED BY <1>0, <1>2, <1>6, <2>1, <2>2, <2>6, <2>7 DEF GapInv, Filled
<1>9. CASE Report
  <2>1. PICK x \in Txs : x = cur /\ outcome[x] = "sent" BY <1>0, <1>9 DEF Report, TypeOK
  <2>2. mined' = mined /\ nonce' = nonce /\ outcome' = [outcome EXCEPT ![x] = Verdict]
    BY <1>9, <2>1 DEF Report, net
  <2>3. \A y \in Txs : outcome'[y] # "new" => outcome[y] # "new"
    BY <1>0, <2>1, <2>2 DEF TypeOK
  <2>4. NoGapSigned' BY <1>5, <2>2, <2>3 DEF NoGapSigned
  <2>5. CASE Owned(Verdict)
    <3>1. cache' = AfterSend(cache, nonce[x]) BY <1>9, <2>1, <2>5 DEF Report
    <3>2. nonce[x] \in Nat /\ cache'.next = nonce[x] + 1 /\ cache'.chain = cache.chain
      <4>1. nonce[x] \in Nat /\ cache \in Cache /\ clock \in Nat BY <1>0 DEF TypeOK
      <4> QED BY <3>1, <4>1, AfterSendType
    <3>3. MayFill(nonce[x])'
      <4>1. MayLand(x)' BY <1>0, <2>2, <2>5 DEF MayLand, Owned, TypeOK
      <4> QED BY <2>2, <4>1 DEF MayFill
    <3>4. \A m \in 0..(nonce[x] - 1) : MayFill(m)' BY <1>5, <2>1
    <3>5. \A m \in 0..(cache'.next - 1) : m = nonce[x] \/ m \in 0..(nonce[x] - 1)
      BY <3>2
    <3> QED BY <1>0, <1>2, <1>4, <2>2, <2>4, <3>2, <3>3, <3>4, <3>5 DEF GapInv, Filled
  <2>6. CASE ~Owned(Verdict)
    <3>1. cache' = cache BY <1>9, <2>6 DEF Report
    <3> QED BY <1>0, <1>2, <1>3, <1>4, <2>2, <2>4, <3>1 DEF GapInv, Filled
  <2> QED BY <2>5, <2>6
<1>10. CASE Mine
  <2>1. PICK x \in Txs : pool[x] # {} /\ nonce[x] = mined BY <1>10 DEF Mine
  <2>2. MayFill(mined) BY <1>0, <2>1 DEF MayFill, NetInv, PoolHeld
  <2>3. mined \in Nat /\ mined' = mined + 1 /\ cache' = cache /\ nonce' = nonce /\ outcome' = outcome
    BY <1>0, <1>10 DEF Mine, book, TypeOK
  <2>4. \A m \in 0..mined : MayFill(m)' BY <1>0, <1>2, <2>2, <2>3, MayFillKept
  <2> QED BY <1>0, <1>3, <1>4, <1>5, <2>3, <2>4 DEF GapInv, Filled, NoGapSigned
<1>11. CASE UNCHANGED <<cache, book, mined>>
  BY <1>0, <1>2, <1>3, <1>4, <1>5, <1>11 DEF GapInv, Filled, NoGapSigned, book
<1>12. Tick \/ (\E u \in Urls : Timeout(u))
      \/ (\E x \in Txs, u \in Urls :
            NodeTakes(x, u) \/ NodeKnows(x, u) \/ NodeRefuses(x, u) \/ Evict(x, u))
      \/ (\E x \in Txs, u, v \in Urls : Gossip(x, u, v)) \/ UNCHANGED vars
      => UNCHANGED <<cache, book, mined>>
  BY DEF Tick, Timeout, NodeTakes, NodeKnows, NodeRefuses, Answer, Evict, Gossip, vars, book, net
<1> QED BY <1>7, <1>8, <1>9, <1>10, <1>11, <1>12 DEF Next

\* No shot is signed past a nonce that nothing may fill.
THEOREM NoGapSignedHolds == Spec => []NoGapSigned
<1>1. GapInv => NoGapSigned BY DEF GapInv
<1> QED BY InitGap, NextGap, <1>1, PTL DEF Spec
=============================================================================
