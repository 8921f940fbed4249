-------------------------------- MODULE Watch --------------------------------
(***************************************************************************)
(* What the bot looks at: the book of borrowers, the rolling cursor over   *)
(* it, the hot set that is re-read in every iteration, and the discovery   *)
(* of new borrowers at the end of a cycle (bot/executor.py, analysis/      *)
(* monitor.py).  Book and hot set are two files, saved at different        *)
(* moments; the process may be killed between any two steps.               *)
(*                                                                         *)
(* The market moves as it likes.  Of a position only its level counts:     *)
(* cold (HF at or above HOT_HF, no debt, or dust), edge (below HOT_HF), or *)
(* under (HF < 1).  Which targets are fired at is open.                    *)
(***************************************************************************)
EXTENDS Integers, FiniteSets

CONSTANTS
  Borrowers,     \* addresses, as numbers in the order the book is sorted
  SWEEP_CHUNK,   \* borrowers the cursor advances by
  SWEEP_EVERY,   \* the cursor moves in one iteration of so many
  INCR_WINDOW,   \* blocks back from the head that discovery looks
  LogLag,        \* blocks the node that serves the logs may be behind
  Seed,          \* borrowers in the book file at the start
  MaxBlock,      \* bound: the head
  MaxRestarts    \* bound: kills of the process

ASSUME BorrowersAssumption ==
  /\ Borrowers \subseteq Nat /\ IsFiniteSet(Borrowers) /\ Seed \subseteq Borrowers
ASSUME SweepAssumption ==
  SWEEP_CHUNK \in Nat \ {0} /\ SWEEP_EVERY \in Nat \ {0}
ASSUME BlocksAssumption ==
  INCR_WINDOW \in Nat /\ LogLag \in Nat /\ MaxBlock \in Nat /\ MaxRestarts \in Nat

Levels == {"cold", "edge", "under"}
NoBlock == 0      \* has not borrowed
Phases == {"iterate", "discover", "saveBook", "save"}

VARIABLES
  head,      \* the chain: its head,
  born,      \* per borrower: block of the first Borrow event,
  level,     \* per borrower: where its position stands
  pc,        \* the loop: the next step
  tick,      \* hs["tick"], modulo SWEEP_EVERY
  hs,        \* memory: cursor and hot set
  book,      \* memory: borrowers and last_block
  hotFile,   \* HOTSET_FILE
  bookFile,  \* BOOK_PATH
  targets,   \* borrowers read under water in the last iteration
  restarts

chain == <<head, born, level>>
files == <<hotFile, bookFile>>
vars == <<chain, pc, tick, hs, book, files, targets, restarts>>

(***************************************************************************)
(* hs carries two history fields: cycle, the book when the cursor's cycle  *)
(* began, and swept, what the cursor has passed over since.  The book      *)
(* carries one: lost, the blocks its checkpoint was moved over though      *)
(* nobody could read them, because they had fallen out of the window or    *)
(* because the node that served the logs did not have them yet.            *)
(***************************************************************************)
EmptyHot == [cursor |-> 0, hot |-> {}, cycle |-> Seed, swept |-> {}]

Init ==
  /\ head = 0 /\ born = [b \in Borrowers |-> NoBlock]
  /\ level \in [Borrowers -> {"cold"}]
  /\ pc = "iterate" /\ tick = 0 /\ hs = EmptyHot /\ hotFile = EmptyHot
  /\ book = [borrowers |-> Seed, last |-> 0, lost |-> {}] /\ bookFile = book
  /\ targets = {} /\ restarts = 0

-----------------------------------------------------------------------------
(***************************************************************************)
(* The chain                                                               *)
(***************************************************************************)

Loop == <<pc, tick, hs, book, files, targets, restarts>>

\* A new block, with the first Borrow event of some accounts in it.
Block ==
  /\ head < MaxBlock /\ head' = head + 1
  /\ \E new \in SUBSET {b \in Borrowers \ Seed : born[b] = NoBlock} :
       born' = [b \in Borrowers |-> IF b \in new THEN head' ELSE born[b]]
  /\ UNCHANGED <<level, Loop>>

\* Prices move, debt is taken and repaid.
Move(b, l) ==
  /\ b \in Seed \/ born[b] # NoBlock
  /\ level' = [level EXCEPT ![b] = l]
  /\ UNCHANGED <<head, born, Loop>>

-----------------------------------------------------------------------------
(***************************************************************************)
(* One iteration                                                           *)
(***************************************************************************)

\* The place of b in the sorted list of borrowers.
Pos(s, b) == Cardinality({c \in s : c < b})

\* borrowers[cursor : cursor + chunk]
Slice(s, cursor) == {b \in s : cursor <= Pos(s, b) /\ Pos(s, b) < cursor + SWEEP_CHUNK}

\* Variant: the last borrower of the book is taken for its end.
NextChunk_DropsLast(s, cursor) ==
  [slice   |-> Slice(s, cursor) \ {b \in s : Pos(s, b) = Cardinality(s) - 1},
   cursor  |-> IF cursor + SWEEP_CHUNK >= Cardinality(s) - 1 THEN 0 ELSE cursor + SWEEP_CHUNK,
   wrapped |-> cursor + SWEEP_CHUNK >= Cardinality(s) - 1]

\* Variant: the cursor stops at the end of the book.
NextChunk_NoWrap(s, cursor) ==
  [slice   |-> Slice(s, cursor),
   cursor  |-> IF cursor + SWEEP_CHUNK > Cardinality(s) THEN 0 ELSE cursor + SWEEP_CHUNK,
   wrapped |-> cursor + SWEEP_CHUNK > Cardinality(s)]

\* next_chunk.  The book never shrinks, so a cursor is never beyond it.
NextChunk(s, cursor) ==
  [slice   |-> Slice(s, cursor),
   cursor  |-> IF cursor + SWEEP_CHUNK >= Cardinality(s) THEN 0 ELSE cursor + SWEEP_CHUNK,
   wrapped |-> cursor + SWEEP_CHUNK >= Cardinality(s)]

NoChunk == [slice |-> {}, cursor |-> hs.cursor, wrapped |-> FALSE]

\* Variant: the count does not survive from one iteration to the next.
NextTick_Forgotten == 1 % SWEEP_EVERY

NextTick == (tick + 1) % SWEEP_EVERY

\* targets_from_accounts, on the accounts that could be read.
Under(read) == {b \in read : level[b] = "under"}

\* update_hotset: a member that was not read stays.
UpdateHotset(read, fired) ==
  ((hs.hot \ read) \cup {b \in read : level[b] # "cold"}) \ fired

\* The iteration reads the hot set and, unless a price update or an open
\* probe window suppresses it, the next chunk; the calls for missed fail.
HotIteration(suppressed, missed, fired) ==
  LET sweep == NextTick = 0 /\ ~suppressed
      next  == IF sweep THEN NextChunk(book.borrowers, hs.cursor) ELSE NoChunk
      read  == (hs.hot \cup next.slice) \ missed
  IN /\ pc = "iterate"
     /\ tick' = NextTick
     /\ targets' = Under(read)
     /\ fired \subseteq Under(read)
     /\ hs' = [cursor |-> next.cursor, hot |-> UpdateHotset(read, fired),
               cycle  |-> IF next.wrapped THEN book.borrowers ELSE hs.cycle,
               swept  |-> IF next.wrapped THEN {} ELSE hs.swept \cup next.slice]
     /\ pc' = IF next.wrapped THEN "discover" ELSE "save"
     /\ UNCHANGED <<chain, book, files, restarts>>

Iterate ==
  \E suppressed \in BOOLEAN, missed, fired \in SUBSET book.borrowers :
    HotIteration(suppressed, missed, fired)

\* An iteration that reaches the chunk at cursor c and reads all of it.
SweepIterate(c) ==
  /\ hs.cursor = c /\ NextTick = 0
  /\ \E fired \in SUBSET book.borrowers : HotIteration(FALSE, {}, fired)

\* A call that throws ends the iteration: neither cursor nor hot set move,
\* and whether the tick did depends on where it was thrown.
IterationFails ==
  /\ pc = "iterate" /\ pc' = "save"
  /\ tick' \in {tick, NextTick} /\ targets' = {}
  /\ UNCHANGED <<chain, hs, book, files, restarts>>

-----------------------------------------------------------------------------
(***************************************************************************)
(* The end of a cycle, and the end of an iteration                         *)
(***************************************************************************)

Latest(a, b) == IF a >= b THEN a ELSE b

\* discover_borrowers: the first block asked for.
From(to) ==
  Latest(book.last + 1, IF INCR_WINDOW > 0 THEN to - INCR_WINDOW ELSE to)

\* Variant: the checkpoint is set before the logs are read.
Checkpoint_Early(to, ok) == to

Checkpoint(to, ok) == IF ok THEN to ELSE book.last

\* History: the blocks since the checkpoint that are further back than the
\* window, or that the node that serves the logs does not have.
Unread(to, seen) ==
  {n \in (book.last + 1)..to : n < to - INCR_WINDOW \/ n > seen}

\* _run_discovery: merge what the logs show up to the head; if the logs
\* cannot be read, book and checkpoint stay.
Discover(to, seen, ok) ==
  /\ pc = "discover" /\ pc' = "saveBook"
  /\ to \in 0..head /\ to >= head - LogLag
  /\ seen \in 0..to /\ seen >= to - LogLag
  /\ book' = [borrowers |-> IF ok THEN book.borrowers \cup
                               {b \in Borrowers : born[b] # NoBlock
                                                  /\ born[b] \in From(to)..seen}
                            ELSE book.borrowers,
              last      |-> Checkpoint(to, ok),
              lost      |-> IF ok THEN book.lost \cup Unread(to, seen) ELSE book.lost]
  /\ UNCHANGED <<chain, tick, hs, files, targets, restarts>>

SaveBook ==
  /\ pc = "saveBook" /\ pc' = "save"
  /\ bookFile' = book
  /\ UNCHANGED <<chain, tick, hs, book, hotFile, targets, restarts>>

SaveHotset ==
  /\ pc = "save" /\ pc' = "iterate"
  /\ hotFile' = hs
  /\ UNCHANGED <<chain, tick, hs, book, bookFile, targets, restarts>>

\* Killed at any step and started again from the two files.
Restart ==
  /\ restarts < MaxRestarts /\ restarts' = restarts + 1
  /\ pc' = "iterate" /\ tick' = 0 /\ hs' = hotFile /\ book' = bookFile /\ targets' = {}
  /\ UNCHANGED <<chain, files>>

Process ==
  \/ Iterate \/ IterationFails \/ SaveBook \/ SaveHotset
  \/ \E to, seen \in 0..MaxBlock, ok \in BOOLEAN : Discover(to, seen, ok)

Next ==
  \/ Process \/ Restart \/ Block
  \/ \E b \in Borrowers, l \in Levels : Move(b, l)

\* The loop keeps stepping; iterations do not throw for ever; and neither
\* price updates, probe windows nor failed reads hit one chunk for ever.
Fairness ==
  /\ WF_vars(Process) /\ SF_vars(Iterate)
  /\ \A c \in 0..Cardinality(Borrowers) : SF_vars(SweepIterate(c))

Spec == Init /\ [][Next]_vars
FairSpec == Spec /\ Fairness

-----------------------------------------------------------------------------
(***************************************************************************)
(* Properties                                                              *)
(***************************************************************************)

HotRecords == [cursor : Nat, hot : SUBSET Borrowers,
               cycle : SUBSET Borrowers, swept : SUBSET Borrowers]
BookRecords == [borrowers : SUBSET Borrowers, last : Nat, lost : SUBSET Nat]

\* The values every variable keeps.  Cursor and hot set, in memory or saved,
\* belong to the book that goes with them, so the modulo of next_chunk is
\* never needed.
InBook(h, k) ==
  /\ h.cursor = 0 \/ h.cursor < Cardinality(k.borrowers)
  /\ h.hot \subseteq k.borrowers
TypeOK ==
  /\ head \in Nat /\ born \in [Borrowers -> Nat] /\ level \in [Borrowers -> Levels]
  /\ pc \in Phases /\ tick \in 0..(SWEEP_EVERY - 1) /\ restarts \in Nat
  /\ hs \in HotRecords /\ hotFile \in HotRecords
  /\ book \in BookRecords /\ bookFile \in BookRecords
  /\ targets \subseteq Borrowers
  /\ InBook(hs, book) /\ InBook(hotFile, bookFile)

\* "a borrower can never be permanently dropped": when the cursor wraps,
\* everybody who was in the book when its cycle began has been passed over,
\* though the book grew in between, and though the two files were saved at
\* different moments and read back after a kill.
CycleCoversBook ==
  [][hs'.cursor = 0 /\ hs'.swept = {} /\ pc = "iterate" /\ pc' = "discover"
     => hs.cycle \subseteq
          hs.swept \cup NextChunk(book.borrowers, hs.cursor).slice]_vars

\* "the un-scanned range is re-scanned from the same checkpoint": whoever
\* borrowed up to the checkpoint is in the book, in memory and in the file,
\* over failed discoveries and kills, unless it was in a block that a
\* successful discovery could not read: one that an outage or a series of
\* failures had left more than the window behind the head, or one that the
\* node that served the logs did not have.  Those the code loses.
Complete(k) ==
  \A b \in Borrowers :
    born[b] # NoBlock /\ born[b] <= k.last => b \in k.borrowers \/ born[b] \in k.lost
DiscoveryComplete == Complete(book) /\ Complete(bookFile)

\* A borrower in the book that stays under water is found again and again,
\* also after it was fired at and dropped from the hot set.
AlwaysFoundAgain ==
  \A b \in Borrowers :
    (<>[](b \in book.borrowers /\ level[b] = "under")) => []<>(b \in targets)
=============================================================================
