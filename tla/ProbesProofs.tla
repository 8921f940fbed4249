---------------------------- MODULE ProbesProofs ----------------------------
(***************************************************************************)
(* Proofs about arms and probes, for any number of borrowers and any       *)
(* timers.                                                                 *)
(*                                                                         *)
(* An arm in time is sized on an account no older than its own age and the *)
(* time its quotes took (InTime).  When life and pass together are shorter *)
(* than the cooling, it is so younger than any shot that lets another go.  *)
(***************************************************************************)
EXTENDS Probes, TLAPS

Shots == [st : {"none", "pending", "ok", "revert"}, age : 0..Longest]
Arms == [age : 0..(PREARM_TTL + 1), read : 0..Longest, took : 0..Longest, set : BOOLEAN]
Windows == [age : 0..(SPEC_WINDOW_GAP + 1), probes : 0..SPEC_MAX_PROBES, open : BOOLEAN]
Jobs == [left : SUBSET Borrowers, read : 0..Longest, busy : BOOLEAN]

LEMMA TypeParts ==
  TypeOK <=>
    /\ pc \in {"top", "react", "arm"}
    /\ edge \in SUBSET Borrowers /\ due \in SUBSET Borrowers /\ plan \in [Borrowers -> BOOLEAN]
    /\ sent \in [Borrowers -> Shots] /\ arm \in [Borrowers -> Arms] /\ job \in Jobs
    /\ win \in [Borrowers -> Windows] /\ lag \in 0..MaxLag
BY DEF TypeOK, Shots, Arms, Jobs, Windows

-----------------------------------------------------------------------------
(***************************************************************************)
(* Types                                                                   *)
(***************************************************************************)

LEMMA LongestType == Longest \in Nat /\ \A b \in Borrowers : Cooling(b) \in 0..Longest
BY ProbesAssumption DEF Longest, Cooling

LEMMA NothingType ==
  /\ NoShot \in Shots /\ NoArm \in Arms /\ NoWin \in Windows /\ NoJob \in Jobs
BY ProbesAssumption, LongestType DEF NoShot, NoArm, NoWin, NoJob, Shots, Arms, Windows, Jobs

LEMMA AgedType ==
  ASSUME NEW last \in Nat, NEW age \in 0..last
  PROVE  Aged(age, last) \in 0..last /\ Aged(age, last) >= age /\ Aged(age, last) <= age + 1
BY DEF Aged

LEMMA InitType == Init => TypeOK
BY NothingType, TypeParts, ProbesAssumption DEF Init

LEMMA FedType ==
  ASSUME TypeOK, NEW b \in Borrowers PROVE Fed(b) \in Windows
<1>1. win[b] \in Windows BY TypeParts
<1>2. Kept(b) \in Windows BY <1>1, NothingType DEF Kept
<1>3. 0 \in 0..(SPEC_WINDOW_GAP + 1) BY ProbesAssumption
<1>4. [[Kept(b) EXCEPT !.age = 0] EXCEPT !.open = TRUE] \in Windows BY <1>2, <1>3 DEF Windows
<1> QED BY <1>2, <1>4 DEF Fed

LEMMA FiredType ==
  ASSUME TypeOK, NEW b \in Borrowers, Fired(b)
  PROVE  sent' \in [Borrowers -> Shots] /\ arm' \in [Borrowers -> Arms]
<1>1. [st |-> "pending", age |-> 0] \in Shots BY LongestType DEF Shots
<1>2. sent \in [Borrowers -> Shots] /\ arm \in [Borrowers -> Arms] BY TypeParts
<1> QED BY <1>1, <1>2, NothingType DEF Fired

LEMMA SpecPassType ==
  ASSUME TypeOK, NEW s \in SUBSET Borrowers, SpecPass(s) PROVE TypeOK'
<1>1. ASSUME NEW b \in Borrowers
      PROVE  (IF b \in s THEN [Fed(b) EXCEPT !.probes = @ + 1] ELSE Fed(b)) \in Windows
  <2>1. Fed(b) \in Windows BY FedType
  <2>2. ASSUME b \in s PROVE [Fed(b) EXCEPT !.probes = @ + 1] \in Windows
    <3>1. Fed(b).probes < SPEC_MAX_PROBES BY <2>2 DEF SpecPass, Volleys, Ready
    <3>2. Fed(b).probes + 1 \in 0..SPEC_MAX_PROBES
      BY <2>1, <3>1, ProbesAssumption DEF Windows
    <3> QED BY <2>1, <3>2 DEF Windows
  <2> QED BY <2>1, <2>2
<1>2. win' \in [Borrowers -> Windows] BY <1>1 DEF SpecPass
<1> QED BY <1>2, TypeParts, ProbesAssumption DEF SpecPass, TypeOK, Windows

LEMMA TickType == ASSUME TypeOK, Tick PROVE TypeOK'
<1>1. PREARM_TTL + 1 \in Nat /\ SPEC_WINDOW_GAP + 1 \in Nat /\ Longest \in Nat
  BY ProbesAssumption, LongestType
<1>2. sent' \in [Borrowers -> Shots]
  <2>1. ASSUME NEW b \in Borrowers
        PROVE  (IF sent[b].st = "none" THEN sent[b]
                ELSE [sent[b] EXCEPT !.age = Aged(@, Longest)]) \in Shots
    <3>1. sent[b] \in Shots BY TypeParts
    <3>2. sent[b].age \in 0..Longest BY <3>1 DEF Shots
    <3>3. Aged(sent[b].age, Longest) \in 0..Longest BY <1>1, <3>2, AgedType
    <3> QED BY <3>1, <3>3 DEF Shots
  <2> QED BY <2>1 DEF Tick
<1>3. arm' \in [Borrowers -> Arms]
  <2>1. ASSUME NEW b \in Borrowers
        PROVE  (IF ~arm[b].set THEN arm[b]
                ELSE [arm[b] EXCEPT !.age = Aged(@, PREARM_TTL + 1),
                                    !.read = Aged(@, Longest)]) \in Arms
    <3>1. arm[b] \in Arms BY TypeParts
    <3>2. arm[b].age \in 0..(PREARM_TTL + 1) /\ arm[b].read \in 0..Longest BY <3>1 DEF Arms
    <3>3. Aged(arm[b].age, PREARM_TTL + 1) \in 0..(PREARM_TTL + 1) BY <1>1, <3>2, AgedType
    <3>4. Aged(arm[b].read, Longest) \in 0..Longest BY <1>1, <3>2, AgedType
    <3> QED BY <3>1, <3>3, <3>4 DEF Arms
  <2> QED BY <2>1 DEF Tick
<1>4. win' \in [Borrowers -> Windows]
  <2>1. ASSUME NEW b \in Borrowers
        PROVE  (IF ~win[b].open THEN win[b]
                ELSE [win[b] EXCEPT !.age = Aged(@, SPEC_WINDOW_GAP + 1)]) \in Windows
    <3>1. win[b] \in Windows BY TypeParts
    <3>2. win[b].age \in 0..(SPEC_WINDOW_GAP + 1) BY <3>1 DEF Windows
    <3>3. Aged(win[b].age, SPEC_WINDOW_GAP + 1) \in 0..(SPEC_WINDOW_GAP + 1)
      BY <1>1, <3>2, AgedType
    <3> QED BY <3>1, <3>3 DEF Windows
  <2> QED BY <2>1 DEF Tick
<1>5. job' \in Jobs
  <2>1. job \in Jobs BY TypeParts
  <2>2. CASE job.busy
    <3>1. job.read \in 0..Longest BY <2>1 DEF Jobs
    <3>2. Aged(job.read, Longest) \in 0..Longest BY <1>1, <3>1, AgedType
    <3>3. job' = [job EXCEPT !.read = Aged(job.read, Longest)] BY <2>2 DEF Tick
    <3> QED BY <2>1, <3>2, <3>3 DEF Jobs
  <2>3. CASE ~job.busy BY <2>1, <2>3 DEF Tick
  <2> QED BY <2>2, <2>3
<1>6. lag' \in 0..MaxLag
  <2>1. lag \in 0..MaxLag /\ lag < MaxLag /\ lag' = lag + 1 BY TypeParts DEF Tick
  <2> QED BY <2>1, ProbesAssumption
<1>7. UNCHANGED <<pc, edge, due, plan>> BY DEF Tick
<1> QED BY <1>2, <1>3, <1>4, <1>5, <1>6, <1>7, TypeParts DEF TypeOK, Shots, Arms, Windows, Jobs

LEMMA ReactType ==
  ASSUME TypeOK, NEW b \in Borrowers,
         \/ SkipTarget(b) \/ ArmShot(b) \/ \E h \in Levels : QuotedShot(b, h)
  PROVE  TypeOK'
<1>1. UNCHANGED <<pc, edge, plan, job, win, lag>> /\ due' = due \ {b}
  BY DEF SkipTarget, ArmShot, QuotedShot, Looked
<1>2. sent' \in [Borrowers -> Shots] /\ arm' \in [Borrowers -> Arms]
  <2>1. sent \in [Borrowers -> Shots] /\ arm \in [Borrowers -> Arms] BY TypeParts
  <2>2. ASSUME NEW h \in Levels PROVE AfterGet(b, h) \in [Borrowers -> Arms]
    BY <2>1, NothingType DEF AfterGet
  <2> QED BY <2>1, <2>2, FiredType DEF SkipTarget, ArmShot, QuotedShot
<1> QED BY <1>1, <1>2, TypeParts DEF TypeOK, Shots, Arms

LEMMA NextType == TypeOK /\ [Next]_vars => TypeOK'
<1> SUFFICES ASSUME TypeOK, [Next]_vars PROVE TypeOK' OBVIOUS
<1> USE NothingType, LongestType, ProbesAssumption
<1>1. ASSUME NEW b \in Borrowers, Settle(b) PROVE TypeOK'
  <2>1. PICK v \in {"ok", "revert"} : sent' = [sent EXCEPT ![b].st = v] BY <1>1 DEF Settle
  <2>2. [sent[b] EXCEPT !.st = v] \in Shots BY TypeParts DEF Shots
  <2>3. sent' \in [Borrowers -> Shots] BY <2>1, <2>2, TypeParts
  <2> QED BY <1>1, <2>3 DEF Settle, TypeOK, Shots
<1>2. ASSUME NEW b \in Borrowers, SkipTarget(b) \/ ArmShot(b) PROVE TypeOK' BY <1>2, ReactType
<1>3. ASSUME NEW b \in Borrowers, NEW h \in Levels, QuotedShot(b, h) PROVE TypeOK'
  BY <1>3, ReactType
<1>4. ASSUME NEW s \in SUBSET Borrowers, SpecPass(s) PROVE TypeOK' BY <1>4, SpecPassType
<1>5. ASSUME NEW s \in SUBSET Borrowers, StartQuoting(s) PROVE TypeOK'
  BY <1>5 DEF StartQuoting, EndIteration, TypeOK
<1>6. ASSUME NEW s \in SUBSET Borrowers, NEW d \in SUBSET Falling, Read(s, d) PROVE TypeOK'
  BY <1>6 DEF Read, TypeOK
<1>7. ASSUME NoQuoting \/ IterationFails PROVE TypeOK'
  BY <1>7 DEF NoQuoting, IterationFails, EndIteration, TypeOK
<1>8. ASSUME NEW b \in Borrowers, QuoteArm(b) PROVE TypeOK'
  <2>1. job \in Jobs /\ arm \in [Borrowers -> Arms] BY TypeParts
  <2>2. [age |-> 0, read |-> job.read, took |-> job.read, set |-> TRUE] \in Arms
    BY <2>1 DEF Arms, Jobs
  <2>3. arm' \in [Borrowers -> Arms] BY <1>8, <2>1, <2>2 DEF QuoteArm
  <2>4. job' \in Jobs BY <1>8, <2>1 DEF QuoteArm, Jobs
  <2> QED BY <1>8, <2>3, <2>4 DEF QuoteArm, TypeOK, Arms, Jobs
<1>9. ASSUME NEW b \in Borrowers, QuoteSkip(b) PROVE TypeOK'
  <2>1. job' \in Jobs BY <1>9, TypeParts DEF QuoteSkip, Jobs
  <2> QED BY <1>9, <2>1 DEF QuoteSkip, TypeOK, Jobs
<1>10. ASSUME QuoteEnd PROVE TypeOK' BY <1>10 DEF QuoteEnd, TypeOK, Jobs
<1>11. ASSUME Tick PROVE TypeOK' BY <1>11, TickType
<1>12. ASSUME Restart PROVE TypeOK'
  <2>1. /\ arm' \in [Borrowers -> Arms] /\ win' \in [Borrowers -> Windows] /\ job' \in Jobs
    BY <1>12 DEF Restart
  <2> QED BY <1>12, <2>1 DEF Restart, TypeOK, Arms, Windows, Jobs
<1>13. ASSUME NEW b \in Borrowers, Expect(b) PROVE TypeOK' BY <1>13 DEF Expect, TypeOK
<1>14. ASSUME UNCHANGED vars PROVE TypeOK' BY <1>14 DEF vars, TypeOK
<1> QED
  BY <1>1, <1>2, <1>3, <1>4, <1>5, <1>6, <1>7, <1>8, <1>9, <1>10, <1>11, <1>12, <1>13, <1>14
  DEF Next, Loop, Thread

\* Every variable keeps its type; in particular no window takes more probes
\* than its cap.
THEOREM ProbesTypeCorrect == Spec => []TypeOK
BY InitType, NextType, PTL DEF Spec

-----------------------------------------------------------------------------
(***************************************************************************)
(* Arms                                                                    *)
(***************************************************************************)

\* An arm in time is sized on an account read no earlier than its quotes began.
InTime(a) == a.set /\ a.age <= PREARM_TTL => a.read <= a.age + a.took
ReadBefore == \A b \in Borrowers : InTime(arm[b])

LEMMA InitRead == Init => ReadBefore
BY DEF Init, ReadBefore, InTime, NoArm

LEMMA NextRead == TypeOK /\ ReadBefore /\ [Next]_vars => ReadBefore'
<1> SUFFICES ASSUME TypeOK, ReadBefore, [Next]_vars, NEW c \in Borrowers PROVE InTime(arm'[c])
  BY DEF ReadBefore
<1>1. arm \in [Borrowers -> Arms] /\ job \in Jobs BY TypeParts
<1>2. InTime(arm[c]) /\ InTime(NoArm) BY DEF ReadBefore, InTime, NoArm
<1>3. ASSUME Tick PROVE InTime(arm'[c])
  <2>1. CASE ~arm[c].set BY <1>1, <1>2, <1>3, <2>1 DEF Tick
  <2>2. CASE arm[c].set
    <3>1. arm'[c] = [arm[c] EXCEPT !.age = Aged(@, PREARM_TTL + 1), !.read = Aged(@, Longest)]
      BY <1>1, <1>3, <2>2 DEF Tick
    <3>2. /\ arm'[c].age = Aged(arm[c].age, PREARM_TTL + 1)
          /\ arm'[c].read = Aged(arm[c].read, Longest) /\ arm'[c].took = arm[c].took
      BY <1>1, <3>1 DEF Arms
    <3>3. /\ arm[c].age \in 0..(PREARM_TTL + 1)
          /\ arm[c].read \in 0..Longest /\ arm[c].took \in 0..Longest
      BY <1>1 DEF Arms
    <3> QED BY <1>2, <2>2, <3>2, <3>3, LongestType, ProbesAssumption DEF InTime, Aged
  <2> QED BY <2>1, <2>2
<1>4. ASSUME NEW b \in Borrowers, QuoteArm(b) PROVE InTime(arm'[c])
  <2>1. job.read \in 0..Longest BY <1>1 DEF Jobs
  <2>2. InTime([age |-> 0, read |-> job.read, took |-> job.read, set |-> TRUE])
    BY <2>1, LongestType DEF InTime
  <2> QED BY <1>1, <1>2, <1>4, <2>2 DEF QuoteArm
<1>5. ASSUME NEW b \in Borrowers, NEW h \in Levels, QuotedShot(b, h) PROVE InTime(arm'[c])
  BY <1>1, <1>2, <1>5 DEF QuotedShot, Fired, AfterGet
<1>6. ASSUME NEW b \in Borrowers, ArmShot(b) PROVE InTime(arm'[c])
  BY <1>1, <1>2, <1>6 DEF ArmShot, Fired
<1>7. ASSUME Restart PROVE InTime(arm'[c]) BY <1>2, <1>7 DEF Restart
<1>8. ASSUME arm' = arm PROVE InTime(arm'[c]) BY <1>2, <1>8
<1> QED
  BY <1>3, <1>4, <1>5, <1>6, <1>7, <1>8
  DEF Next, Loop, Thread, vars, Settle, SkipTarget, SpecPass, StartQuoting, Read, NoQuoting,
      IterationFails, EndIteration, QuoteSkip, QuoteEnd, Expect

\* No shot from the cache, reactive or probe, is sized on a position read before
\* the last reactive shot at the same borrower was sent, when the quotes of its
\* arm took less than what the cooling leaves over an arm's life.
THEOREM SizedAfterReactiveHolds == Spec => SizedAfterReactive
<1> DEFINE Sized(b) == /\ ArmShot(b) \/ ProbeShot(b)
                       /\ sent[b].st # "none" /\ PREARM_TTL + arm[b].took < Cooling(b)
                       => arm[b].read < sent[b].age
<1>1. ASSUME TypeOK, ReadBefore, NEW b \in Borrowers, ArmShot(b) \/ ProbeShot(b),
             sent[b].st # "none", PREARM_TTL + arm[b].took < Cooling(b)
      PROVE  arm[b].read < sent[b].age
  <2>1. arm[b] \in Arms /\ sent[b] \in Shots BY <1>1, TypeParts
  <2>2. arm[b].set /\ arm[b].age <= PREARM_TTL /\ ~Recent(b)
    <3>1. CASE ArmShot(b) BY <3>1 DEF ArmShot, ArmHit
    <3>2. CASE ProbeShot(b) BY <3>2 DEF ProbeShot, SpecPass, Volleys, Ready, Expected
    <3> QED BY <1>1, <3>1, <3>2
  <2>3. arm[b].read <= PREARM_TTL + arm[b].took
    <3>1. InTime(arm[b]) BY <1>1 DEF ReadBefore
    <3>2. arm[b].read <= arm[b].age + arm[b].took BY <2>2, <3>1 DEF InTime
    <3> QED BY <2>1, <2>2, <3>2, ProbesAssumption, LongestType DEF Arms
  <2>4. sent[b].age >= Cooling(b)
    <3>1. sent[b].st \in {"ok", "revert"} /\ ~(sent[b].age < Cooling(b))
      BY <1>1, <2>1, <2>2 DEF Recent, Shots
    <3> QED BY <2>1, <3>1, LongestType DEF Shots
  <2> QED BY <1>1, <2>1, <2>3, <2>4, LongestType, ProbesAssumption DEF Arms, Shots
<1>2. TypeOK /\ ReadBefore => [\A b \in Borrowers : Sized(b)]_vars
  BY <1>1
<1> QED
  BY <1>2, InitRead, NextRead, ProbesTypeCorrect, PTL DEF Spec, SizedAfterReactive
=============================================================================
