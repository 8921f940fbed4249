------------------------------ MODULE Delivery ------------------------------
(***************************************************************************)
(* What _sign_and_send promises its caller about one signed transaction:   *)
(* three outcomes, and what each says about the network.                   *)
(*   accepted   some node has taken it                                     *)
(*   refused    no node has it and none ever will: nothing to track        *)
(*   unknown    either: the caller must track the hash                     *)
(***************************************************************************)
CONSTANT Txs
VARIABLES outcome,   \* per transaction: new, sent, accepted, refused, unknown
          held       \* per transaction: some node has taken it

TypeOK ==
  /\ outcome \in [Txs -> {"new", "sent", "accepted", "refused", "unknown"}]
  /\ held \in [Txs -> BOOLEAN]

Init ==
  /\ outcome = [x \in Txs |-> "new"]
  /\ held = [x \in Txs |-> FALSE]

Send(x) ==
  /\ outcome[x] = "new"
  /\ outcome' = [outcome EXCEPT ![x] = "sent"]
  /\ UNCHANGED held

\* A node takes the transaction, also after an outcome that left it open.
Take(x) ==
  /\ outcome[x] \in {"sent", "accepted", "unknown"}
  /\ held' = [held EXCEPT ![x] = TRUE]
  /\ UNCHANGED outcome

\* The caller is told.
Report(x, o) ==
  /\ outcome[x] = "sent"
  /\ o = "accepted" => held[x]
  /\ o = "refused" => ~held[x]
  /\ outcome' = [outcome EXCEPT ![x] = o]
  /\ UNCHANGED held

Next ==
  \E x \in Txs :
    \/ Send(x) \/ Take(x)
    \/ \E o \in {"accepted", "refused", "unknown"} : Report(x, o)

Spec == Init /\ [][Next]_<<outcome, held>>
=============================================================================
