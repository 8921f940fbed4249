------------------------------- MODULE Probes -------------------------------
(***************************************************************************)
(* bot/executor.py 1330-1574: the cache of ready quotes (arms), the thread *)
(* that fills it, the reactive pass that shoots from it, and the pass that *)
(* probes ahead of a price push.                                           *)
(*                                                                         *)
(* Time is kept as ages, each growing up to where nothing tells it from an *)
(* older one, so no clock is needed.  The thread runs beside the loop and  *)
(* writes its arms at any moment.  What a read of an account finds and     *)
(* what a quote brings is free, and so is whether a push is expected       *)
(* (spec.plan, see PriceWatch), which lasts until it changes.              *)
(***************************************************************************)
EXTENDS Naturals, FiniteSets

CONSTANTS
  Borrowers,
  Net,             \* what the arm of a borrower brings: the order of probes
  Debt,            \* a borrower's debt: the order of quotes
  PREARM_TTL, PREARM_REFRESH, PREARM_MAX,
  SPEC_MAX_PROBES, SPEC_WINDOW_GAP, SPEC_QUEUE,
  DEDUP, REVERT_COOLDOWN,
  MaxLag,          \* bound: time from one probe pass to the next
  Falling          \* bound: the borrowers whose health may fall below 1

ASSUME ProbesAssumption ==
  /\ IsFiniteSet(Borrowers) /\ SPEC_QUEUE \in BOOLEAN
  /\ Net \in [Borrowers -> Nat] /\ Debt \in [Borrowers -> Nat]
  /\ PREARM_TTL \in Nat /\ PREARM_REFRESH \in Nat /\ PREARM_MAX \in Nat
  /\ SPEC_MAX_PROBES \in Nat /\ SPEC_WINDOW_GAP \in Nat
  /\ DEDUP \in Nat /\ REVERT_COOLDOWN \in Nat
  /\ MaxLag \in Nat /\ Falling \subseteq Borrowers

VARIABLES
  pc,      \* the loop: top, react (and probe), arm
  edge,    \* borrowers this iteration has read at 1 <= HF < PREARM_HF
  due,     \* targets (read at HF < 1) the reactive pass has yet to look at
  sent,    \* the journal's reactive record per borrower
  plan,    \* whether spec.plan answers for the borrower
  arm,     \* _prearm: age, the age of the account it is sized on, and how old
           \* that account was when the arm was stored
  job,     \* the quoting thread: borrowers left and the age of its accounts
  win,     \* _spec_windows: age of "last", probes
  lag      \* time since the last probe pass

vars == <<pc, edge, due, sent, plan, arm, job, win, lag>>

\* At or above 1, [0.95, 1), below.
Levels == {"cured", "under", "deep"}
\* Variant: one too far.
Aged_Past(age, last) == IF age <= last THEN age + 1 ELSE age
Aged(age, last) == IF age < last THEN age + 1 ELSE age

NoArm == [age |-> 0, read |-> 0, took |-> 0, set |-> FALSE]
NoWin == [age |-> 0, probes |-> 0, open |-> FALSE]
NoJob == [left |-> {}, read |-> 0, busy |-> FALSE]
NoShot == [st |-> "none", age |-> 0]

Init ==
  /\ pc = "top" /\ edge = {} /\ due = {}
  /\ sent = [b \in Borrowers |-> NoShot] /\ plan = [b \in Borrowers |-> FALSE]
  /\ arm = [b \in Borrowers |-> NoArm] /\ job = NoJob
  /\ win = [b \in Borrowers |-> NoWin] /\ lag = 0

\* How long the journal keeps b from being shot at again; the longest such time.
Cooling(b) == IF sent[b].st = "revert" THEN REVERT_COOLDOWN ELSE DEDUP
Longest == IF DEDUP <= REVERT_COOLDOWN THEN REVERT_COOLDOWN ELSE DEDUP

Recent(b) ==
  \/ sent[b].st = "pending"
  \/ sent[b].st \in {"ok", "revert"} /\ sent[b].age < Cooling(b)

-----------------------------------------------------------------------------
(***************************************************************************)
(* The loop                                                                *)
(***************************************************************************)

\* _check_pending settles the reactive record of b.
Settle(b) ==
  /\ pc = "top" /\ sent[b].st = "pending"
  /\ \E v \in {"ok", "revert"} : sent' = [sent EXCEPT ![b].st = v]
  /\ UNCHANGED <<pc, edge, due, plan, arm, job, win, lag>>

\* sweep_accounts finds s on the edge and d below 1, the rest healthy or not
\* read; a tripped guard skips both passes.
Read(s, d) ==
  /\ pc = "top" /\ s \cap d = {}
  /\ edge' = s
  /\ \/ pc' = "react" /\ due' = d
     \/ pc' = "arm" /\ due' = {}
  /\ UNCHANGED <<sent, plan, arm, job, win, lag>>

\* Variant: the arm's age is not looked at.
ArmHitAnyAge(b, h) == h # "deep" /\ arm[b].set

\* _prearm_get: an arm in time, for the close factor it was quoted for.
ArmHit(b, h) == h # "deep" /\ arm[b].set /\ arm[b].age <= PREARM_TTL
AfterGet(b, h) ==
  IF h # "deep" /\ arm[b].set /\ ~ArmHit(b, h) THEN [arm EXCEPT ![b] = NoArm] ELSE arm

\* A reactive shot: journalled as pending, its arm dropped.
Fired(b) ==
  /\ sent' = [sent EXCEPT ![b] = [st |-> "pending", age |-> 0]]
  /\ arm' = [arm EXCEPT ![b] = NoArm]

Looked(b) == due' = due \ {b} /\ UNCHANGED <<pc, edge, plan, job, win, lag>>

\* Still cooling, cured by now (fresh_hf), or too dear for the wallet.
SkipTarget(b) ==
  /\ pc = "react" /\ b \in due
  /\ Looked(b) /\ UNCHANGED <<sent, arm>>

\* The quote is in the cache: shoot with it.
ArmShot(b) ==
  /\ pc = "react" /\ b \in due /\ ~Recent(b) /\ ArmHit(b, "under")
  /\ Fired(b) /\ Looked(b)

\* No arm fits: quote now; shoot, or find no profit, route or funds.
QuotedShot(b, h) ==
  /\ pc = "react" /\ b \in due /\ ~Recent(b) /\ h # "cured" /\ ~ArmHit(b, h)
  /\ \/ Fired(b)
     \/ arm' = AfterGet(b, h) /\ UNCHANGED sent
  /\ Looked(b)

-----------------------------------------------------------------------------
(***************************************************************************)
(* The probe pass: _spec_pass                                              *)
(***************************************************************************)

\* Borrowers whose window this pass feeds: armed, on the edge, a push expected.
Expected == {b \in Borrowers : /\ arm[b].set /\ arm[b].age <= PREARM_TTL
                               /\ b \in edge /\ plan[b]}

\* Variant: no window is ever closed.
NeverClosed(b) == FALSE

\* A window not fed for longer than the gap is closed before the pass.
Closed(b) == win[b].open /\ win[b].age > SPEC_WINDOW_GAP
Kept(b) == IF Closed(b) THEN NoWin ELSE win[b]
Fed(b) == IF b \in Expected THEN [Kept(b) EXCEPT !.age = 0, !.open = TRUE] ELSE Kept(b)

\* Variant: the pass breaks off, where it goes on, at a target at its cap.
ReadyBreak == {b \in Expected : /\ Fed(b).probes < SPEC_MAX_PROBES /\ ~Recent(b)
                                /\ \A c \in Expected : Net[c] <= Net[b]}
Ready == {b \in Expected : Fed(b).probes < SPEC_MAX_PROBES /\ ~Recent(b)}

\* Best first: the queue takes one, the fan-out all; the balance gate may cut.
Ranked(s) == \A b \in s : \A c \in Ready : Net[c] > Net[b] => c \in s
Volleys == {s \in SUBSET Ready : Ranked(s) /\ (SPEC_QUEUE => Cardinality(s) <= 1)}

SpecPass(s) ==
  /\ pc = "react" /\ due = {} /\ s \in Volleys
  /\ win' = [b \in Borrowers |-> IF b \in s THEN [Fed(b) EXCEPT !.probes = @ + 1] ELSE Fed(b)]
  /\ pc' = "arm" /\ lag' = 0
  /\ UNCHANGED <<edge, due, sent, plan, arm, job>>

-----------------------------------------------------------------------------
(***************************************************************************)
(* Arming                                                                  *)
(***************************************************************************)

\* prearm_tick: the edge without a young arm, the largest debts of it.
Stale == {b \in edge : arm[b].set => arm[b].age >= PREARM_REFRESH}
Picked(s) ==
  /\ s \subseteq Stale /\ Cardinality(s) <= PREARM_MAX
  /\ \A b \in s : \A c \in Stale \ s : Debt[c] <= Debt[b]
  /\ s # Stale => Cardinality(s) = PREARM_MAX

EndIteration ==
  /\ pc' = "top" /\ edge' = {} /\ due' = {}
  /\ UNCHANGED <<sent, plan, arm, win, lag>>

StartQuoting(s) ==
  /\ pc = "arm" /\ ~job.busy /\ Stale # {} /\ Picked(s)
  /\ job' = [left |-> s, read |-> 0, busy |-> TRUE]
  /\ EndIteration

NoQuoting ==
  /\ pc = "arm" /\ (job.busy \/ Stale = {})
  /\ EndIteration /\ UNCHANGED job

\* Any call of the iteration may throw; loop() goes on to the next one.
IterationFails == pc # "top" /\ EndIteration /\ UNCHANGED job

\* _prearm_quote: a profitable quote becomes an arm, stamped when it is stored,
\* not when the account was read.
QuoteArm(b) ==
  /\ job.busy /\ b \in job.left
  /\ arm' = [arm EXCEPT ![b] = [age |-> 0, read |-> job.read, took |-> job.read, set |-> TRUE]]
  /\ job' = [job EXCEPT !.left = @ \ {b}]
  /\ UNCHANGED <<pc, edge, due, sent, plan, win, lag>>

QuoteSkip(b) ==
  /\ job.busy /\ b \in job.left
  /\ job' = [job EXCEPT !.left = @ \ {b}]
  /\ UNCHANGED <<pc, edge, due, sent, plan, arm, win, lag>>

\* Variant: an exception leaves _prearm_busy set.
QuoteEndBusy ==
  /\ job.busy /\ job' = [job EXCEPT !.left = {}]
  /\ UNCHANGED <<pc, edge, due, sent, plan, arm, win, lag>>

\* The end of the thread, by the last row or by an exception.
QuoteEnd ==
  /\ job.busy /\ job' = NoJob
  /\ UNCHANGED <<pc, edge, due, sent, plan, arm, win, lag>>

-----------------------------------------------------------------------------
(***************************************************************************)
(* Surroundings                                                            *)
(***************************************************************************)

Expect(b) ==
  /\ plan' = [plan EXCEPT ![b] = ~@]
  /\ UNCHANGED <<pc, edge, due, sent, arm, job, win, lag>>

\* The process dies and is started again: only the journal survives.
Restart ==
  /\ pc' = "top" /\ edge' = {} /\ due' = {}
  /\ arm' = [b \in Borrowers |-> NoArm] /\ job' = NoJob
  /\ win' = [b \in Borrowers |-> NoWin] /\ lag' = 0
  /\ UNCHANGED <<sent, plan>>

Tick ==
  /\ lag < MaxLag
  /\ lag' = lag + 1
  /\ sent' = [b \in Borrowers |-> IF sent[b].st = "none" THEN sent[b]
                                  ELSE [sent[b] EXCEPT !.age = Aged(@, Longest)]]
  /\ arm' = [b \in Borrowers |-> IF ~arm[b].set THEN arm[b]
                                 ELSE [arm[b] EXCEPT !.age = Aged(@, PREARM_TTL + 1),
                                                     !.read = Aged(@, Longest)]]
  /\ win' = [b \in Borrowers |-> IF ~win[b].open THEN win[b]
                                 ELSE [win[b] EXCEPT !.age = Aged(@, SPEC_WINDOW_GAP + 1)]]
  /\ job' = IF job.busy THEN [job EXCEPT !.read = Aged(@, Longest)] ELSE job
  /\ UNCHANGED <<pc, edge, due, plan>>

Loop ==
  \/ \E b \in Borrowers : Settle(b) \/ SkipTarget(b) \/ ArmShot(b)
  \/ \E b \in Borrowers, h \in Levels : QuotedShot(b, h)
  \/ \E s \in SUBSET Borrowers : SpecPass(s) \/ StartQuoting(s)
  \/ \E s \in SUBSET Borrowers, d \in SUBSET Falling : Read(s, d)
  \/ NoQuoting \/ IterationFails

Thread == QuoteEnd \/ \E b \in Borrowers : QuoteArm(b) \/ QuoteSkip(b)

Next == Loop \/ Thread \/ Tick \/ Restart \/ \E b \in Borrowers : Expect(b)

Spec == Init /\ [][Next]_vars

-----------------------------------------------------------------------------
(***************************************************************************)
(* Properties                                                              *)
(***************************************************************************)

\* The values every variable keeps.
TypeOK ==
  /\ pc \in {"top", "react", "arm"}
  /\ edge \in SUBSET Borrowers /\ due \in SUBSET Borrowers /\ plan \in [Borrowers -> BOOLEAN]
  /\ sent \in [Borrowers -> [st : {"none", "pending", "ok", "revert"}, age : 0..Longest]]
  /\ arm \in [Borrowers -> [age : 0..(PREARM_TTL + 1), read : 0..Longest,
                           took : 0..Longest, set : BOOLEAN]]
  /\ job \in [left : SUBSET Borrowers, read : 0..Longest, busy : BOOLEAN]
  /\ win \in [Borrowers -> [age : 0..(SPEC_WINDOW_GAP + 1), probes : 0..SPEC_MAX_PROBES, open : BOOLEAN]]
  /\ lag \in 0..MaxLag

\* The reactive pass or the probe pass sends what is in the cache for b.
ProbeShot(b) == \E s \in SUBSET Borrowers : b \in s /\ SpecPass(s)

\* A shot from the cache, reactive or probe, is sized on a position read after
\* the last reactive shot at the borrower was sent, when the pass of quotes that
\* made the arm took less than what the cooling leaves over an arm's life (15 s
\* with the defaults; 1383-1388 tell of passes of 30-40 s, and nothing in the
\* code looks at it).  The thread may store an arm after the shot that dropped
\* it, but then the arm is dead before the journal lets the next shot go.
\* Nothing of the kind holds after a probe, which leaves the arm where it is.
SizedAfterReactive ==
  [][\A b \in Borrowers :
       /\ ArmShot(b) \/ ProbeShot(b)
       /\ sent[b].st # "none" /\ PREARM_TTL + arm[b].took < Cooling(b)
       => arm[b].read < sent[b].age]_vars

Waiting(b) ==
  /\ plan[b] /\ arm[b].set /\ arm[b].age <= PREARM_TTL /\ ~Recent(b)
  /\ pc = "react" => b \in edge

\* With probes queued one per pass, a target whose push stays expected gets its
\* probe: the cap on those before it hands the queue on, whatever they bring.
QueueServed ==
  \A b \in Borrowers : <>[]Waiting(b) => []<>(win[b].open /\ win[b].probes > 0)

\* A window whose push is not expected any more is closed, so that the sweep of
\* the book, which an open window holds up (1656-1657), goes on.
WindowsClose == \A b \in Borrowers : <>[]~plan[b] => []<>~win[b].open

\* A position that stays on the edge, when no more of them are there than a pass
\* of quotes takes, has a live arm again and again.
EdgeArmed ==
  \A b \in Borrowers :
    <>[](pc = "arm" => b \in edge /\ Cardinality(edge) <= PREARM_MAX)
      => []<>(arm[b].set /\ arm[b].age <= PREARM_TTL)

(***************************************************************************)
(* Fairness: the loop, the thread and time go on, and from some moment on  *)
(* nothing fails: no iteration throws, no guard trips, no quote is refused *)
(* or lost, the wallet pays, the process stays up.                         *)
(***************************************************************************)
Fault ==
  \/ pc # "arm" /\ IterationFails
  \/ ~job.busy /\ Stale # {} /\ IterationFails
  \/ Restart
  \/ pc = "top" /\ pc' = "arm"
  \/ \E b \in Borrowers : QuoteSkip(b)
  \/ job.left # {} /\ QuoteEnd
  \/ Ready # {} /\ SpecPass({})

FairSpec ==
  /\ Spec /\ WF_vars(Loop) /\ WF_vars(Thread) /\ WF_vars(Tick)
  /\ <>[][~Fault]_vars
=============================================================================
