----------------------------- MODULE WatchProofs -----------------------------
(***************************************************************************)
(* Proofs about the book, the cursor and discovery, for any book, chunk,   *)
(* cadence and number of kills.                                            *)
(*                                                                         *)
(* The two files differ from memory by at most one save (InStep), and a    *)
(* book only grows, so the place of a borrower in it only moves up (PosUp):*)
(* a cursor saved with an older book never skips anybody in a newer one.   *)
(***************************************************************************)
EXTENDS Watch, FiniteSetTheorems, TLAPS

LEMMA BookFinite ==
  ASSUME NEW s \in SUBSET Borrowers
  PROVE  IsFiniteSet(s) /\ Cardinality(s) \in Nat
BY BorrowersAssumption, FS_Subset, FS_CardinalityType

LEMMA PosType ==
  ASSUME NEW s \in SUBSET Borrowers, NEW b \in Borrowers
  PROVE  Pos(s, b) \in Nat
BY BookFinite, {c \in s : c < b} \in SUBSET Borrowers DEF Pos

\* In a larger book everybody stands at the same place or further on.
LEMMA PosUp ==
  ASSUME NEW s \in SUBSET Borrowers, NEW t \in SUBSET Borrowers, s \subseteq t,
         NEW b \in Borrowers
  PROVE  Pos(s, b) <= Pos(t, b)
<1>1. {c \in s : c < b} \subseteq {c \in t : c < b} OBVIOUS
<1>2. IsFiniteSet({c \in t : c < b}) BY BookFinite, {c \in t : c < b} \in SUBSET Borrowers
<1> QED BY <1>1, <1>2, FS_Subset DEF Pos

\* A member's place is inside the book.
LEMMA PosInside ==
  ASSUME NEW s \in SUBSET Borrowers, NEW b \in s
  PROVE  Pos(s, b) < Cardinality(s)
<1> DEFINE low == {c \in s : c < b}
<1>1. b \notin low BY BorrowersAssumption
<1>2. low \subseteq s /\ low # s BY <1>1
<1>3. IsFiniteSet(s) /\ Cardinality(s) \in Nat BY BookFinite
<1>4. Cardinality(low) <= Cardinality(s) /\ (Cardinality(low) = Cardinality(s) => low = s)
  BY <1>2, <1>3, FS_Subset
<1>5. Pos(s, b) = Cardinality(low) BY DEF Pos
<1>6. Pos(s, b) \in Nat BY PosType
<1> QED BY <1>2, <1>3, <1>4, <1>5, <1>6

\* next_chunk leaves a cursor inside the book.
LEMMA NextChunkType ==
  ASSUME NEW s \in SUBSET Borrowers, NEW cursor \in Nat
  PROVE  /\ NextChunk(s, cursor).slice = Slice(s, cursor) /\ Slice(s, cursor) \subseteq s
         /\ cursor + SWEEP_CHUNK >= Cardinality(s) =>
              NextChunk(s, cursor).wrapped = TRUE /\ NextChunk(s, cursor).cursor = 0
         /\ cursor + SWEEP_CHUNK < Cardinality(s) =>
              /\ NextChunk(s, cursor).wrapped = FALSE
              /\ NextChunk(s, cursor).cursor = cursor + SWEEP_CHUNK
         /\ Cardinality(s) \in Nat /\ NextChunk(s, cursor).cursor \in Nat
<1>1. Cardinality(s) \in Nat /\ SWEEP_CHUNK \in Nat \ {0} BY BookFinite, SweepAssumption
<1>2. Slice(s, cursor) \subseteq s BY DEF Slice
<1>3. /\ NextChunk(s, cursor).slice = Slice(s, cursor)
      /\ NextChunk(s, cursor).wrapped = (cursor + SWEEP_CHUNK >= Cardinality(s))
      /\ NextChunk(s, cursor).cursor =
           IF cursor + SWEEP_CHUNK >= Cardinality(s) THEN 0 ELSE cursor + SWEEP_CHUNK
  BY DEF NextChunk
<1>4. CASE cursor + SWEEP_CHUNK >= Cardinality(s)
  <2>1. (cursor + SWEEP_CHUNK >= Cardinality(s)) = TRUE BY <1>4
  <2>2. NextChunk(s, cursor).wrapped = TRUE BY <1>3, <2>1, Zenon
  <2>3. NextChunk(s, cursor).cursor = 0 BY <1>3, <1>4
  <2> QED BY <1>1, <1>2, <1>3, <1>4, <2>2, <2>3
<1>5. CASE ~(cursor + SWEEP_CHUNK >= Cardinality(s))
  <2>1. (cursor + SWEEP_CHUNK >= Cardinality(s)) = FALSE BY <1>5
  <2>2. NextChunk(s, cursor).wrapped = FALSE BY <1>3, <2>1, Zenon
  <2>3. NextChunk(s, cursor).cursor = cursor + SWEEP_CHUNK BY <1>3, <1>5
  <2> QED BY <1>1, <1>2, <1>3, <1>5, <2>2, <2>3
<1> QED BY <1>4, <1>5

-----------------------------------------------------------------------------
(***************************************************************************)
(* Type correctness                                                        *)
(***************************************************************************)

\* Outside of the moment between discovery and save_book, the book in memory
\* is the book on disk; it is never smaller.
InStep ==
  /\ pc # "saveBook" => book = bookFile
  /\ bookFile.borrowers \subseteq book.borrowers

WatchInv == TypeOK /\ InStep

LEMMA InBookGrows ==
  ASSUME NEW h \in HotRecords, NEW k \in BookRecords, NEW l \in BookRecords,
         k.borrowers \subseteq l.borrowers, InBook(h, k)
  PROVE  InBook(h, l)
<1>1. IsFiniteSet(l.borrowers) /\ Cardinality(k.borrowers) \in Nat /\ Cardinality(l.borrowers) \in Nat
  BY BookFinite DEF BookRecords
<1>2. Cardinality(k.borrowers) <= Cardinality(l.borrowers) BY <1>1, FS_Subset
<1>3. h.cursor \in Nat BY DEF HotRecords
<1> QED BY <1>1, <1>2, <1>3 DEF InBook

LEMMA InitWatch == Init => WatchInv
BY BorrowersAssumption, SweepAssumption
DEF Init, WatchInv, TypeOK, InStep, InBook, EmptyHot, HotRecords, BookRecords, Levels, Phases,
    NoBlock

\* What an iteration leaves behind, sweeping or not.
LEMMA IterateFacts ==
  ASSUME WatchInv, NEW suppressed \in BOOLEAN, NEW missed \in SUBSET book.borrowers,
         NEW fired \in SUBSET book.borrowers, HotIteration(suppressed, missed, fired)
  PROVE  /\ hs' \in HotRecords /\ hs'.hot \subseteq book.borrowers
         /\ targets' \subseteq Borrowers /\ UNCHANGED <<chain, book, files, restarts>>
         /\ tick' = NextTick
         /\ \/ /\ pc' = "save" /\ hs'.cursor = hs.cursor
               /\ hs'.cycle = hs.cycle /\ hs'.swept = hs.swept
            \/ /\ pc' = "save" /\ hs.cursor + SWEEP_CHUNK < Cardinality(book.borrowers)
               /\ hs'.cursor = hs.cursor + SWEEP_CHUNK
               /\ hs'.cycle = hs.cycle
               /\ hs'.swept = hs.swept \cup Slice(book.borrowers, hs.cursor)
            \/ /\ pc' = "discover" /\ hs.cursor + SWEEP_CHUNK >= Cardinality(book.borrowers)
               /\ hs'.cursor = 0 /\ hs'.cycle = book.borrowers
<1> DEFINE sweep == NextTick = 0 /\ ~suppressed
           next  == IF sweep THEN NextChunk(book.borrowers, hs.cursor) ELSE NoChunk
           read  == (hs.hot \cup next.slice) \ missed
<1>1. book.borrowers \in SUBSET Borrowers /\ hs \in HotRecords /\ hs.cursor \in Nat
      /\ hs.hot \subseteq book.borrowers
  BY DEF WatchInv, TypeOK, InBook, HotRecords, BookRecords
<1>2. next.slice \subseteq book.borrowers /\ next.cursor \in Nat
  <2>1. CASE sweep
    <3>1. next = NextChunk(book.borrowers, hs.cursor) BY <2>1
    <3>2. /\ NextChunk(book.borrowers, hs.cursor).slice = Slice(book.borrowers, hs.cursor)
          /\ Slice(book.borrowers, hs.cursor) \subseteq book.borrowers
          /\ NextChunk(book.borrowers, hs.cursor).cursor \in Nat
      BY <1>1, NextChunkType
    <3> QED BY <3>1, <3>2, Zenon
  <2>2. CASE ~sweep
    <3>1. next = NoChunk BY <2>2
    <3>2. NoChunk.slice \subseteq book.borrowers /\ NoChunk.cursor \in Nat
      BY <1>1 DEF NoChunk
    <3> QED BY <3>1, <3>2, Zenon
  <2> QED BY <2>1, <2>2
<1>3. read \subseteq book.borrowers BY <1>1, <1>2
<1>4. targets' = Under(read) /\ tick' = NextTick
      /\ hs' = [cursor |-> next.cursor, hot |-> UpdateHotset(read, fired),
                cycle  |-> IF next.wrapped THEN book.borrowers ELSE hs.cycle,
                swept  |-> IF next.wrapped THEN {} ELSE hs.swept \cup next.slice]
      /\ pc' = (IF next.wrapped THEN "discover" ELSE "save")
      /\ UNCHANGED <<chain, book, files, restarts>>
  BY DEF HotIteration
<1>5. UpdateHotset(read, fired) \subseteq book.borrowers BY <1>1, <1>3 DEF UpdateHotset
<1>6. targets' \subseteq Borrowers BY <1>1, <1>3, <1>4 DEF Under
<1>7. CASE sweep
  <2>1. next = NextChunk(book.borrowers, hs.cursor) BY <1>7
  <2> HIDE DEF read, next
  <2>2. /\ next.slice = Slice(book.borrowers, hs.cursor)
        /\ hs.cursor + SWEEP_CHUNK >= Cardinality(book.borrowers) =>
             next.wrapped = TRUE /\ next.cursor = 0
        /\ hs.cursor + SWEEP_CHUNK < Cardinality(book.borrowers) =>
             next.wrapped = FALSE /\ next.cursor = hs.cursor + SWEEP_CHUNK
        /\ Cardinality(book.borrowers) \in Nat /\ SWEEP_CHUNK \in Nat
    BY <1>1, <2>1, NextChunkType, SweepAssumption
  <2>3. CASE hs.cursor + SWEEP_CHUNK >= Cardinality(book.borrowers)
    <3>1. hs' = [cursor |-> 0, hot |-> UpdateHotset(read, fired), cycle |-> book.borrowers,
                 swept |-> {}] /\ pc' = "discover"
      BY <1>4, <2>2, <2>3
    <3> QED BY <1>1, <1>4, <1>5, <1>6, <2>3, <3>1 DEF HotRecords
  <2>4. CASE hs.cursor + SWEEP_CHUNK < Cardinality(book.borrowers)
    <3>1. hs' = [cursor |-> hs.cursor + SWEEP_CHUNK, hot |-> UpdateHotset(read, fired),
                 cycle |-> hs.cycle, swept |-> hs.swept \cup Slice(book.borrowers, hs.cursor)]
          /\ pc' = "save"
      BY <1>4, <2>2, <2>4
    <3>2. Slice(book.borrowers, hs.cursor) \subseteq Borrowers BY <1>1 DEF Slice
    <3> QED BY <1>1, <1>4, <1>5, <1>6, <2>2, <2>4, <3>1, <3>2 DEF HotRecords
  <2> QED BY <1>1, <2>2, <2>3, <2>4
<1>8. CASE ~sweep
  <2>1. next.wrapped = FALSE /\ next.slice = {} /\ next.cursor = hs.cursor BY <1>8 DEF NoChunk
  <2> HIDE DEF read, next
  <2> QED BY <1>1, <1>2, <1>4, <1>5, <1>6, <2>1 DEF HotRecords
<1> QED BY <1>7, <1>8

LEMMA TickType == ASSUME TypeOK PROVE NextTick \in 0..(SWEEP_EVERY - 1)
BY SweepAssumption DEF TypeOK, NextTick

LEMMA DiscoverFacts ==
  ASSUME WatchInv, NEW to \in 0..MaxBlock, NEW seen \in 0..MaxBlock, NEW ok \in BOOLEAN,
         Discover(to, seen, ok)
  PROVE  /\ book' \in BookRecords /\ book.borrowers \subseteq book'.borrowers
         /\ book'.last = Checkpoint(to, ok)
         /\ pc = "discover" /\ pc' = "saveBook"
         /\ UNCHANGED <<chain, tick, hs, files, targets, restarts>>
<1>1. book \in BookRecords /\ to \in Nat BY BlocksAssumption DEF WatchInv, TypeOK
<1>2. Unread(to, seen) \subseteq Nat BY <1>1 DEF Unread, BookRecords
<1> QED BY <1>1, <1>2 DEF Discover, BookRecords, Checkpoint

LEMMA NextWatch == WatchInv /\ [Next]_vars => WatchInv'
<1> SUFFICES ASSUME WatchInv, [Next]_vars PROVE WatchInv' OBVIOUS
<1>0. TypeOK /\ InStep /\ InBook(hs, book) /\ InBook(hotFile, bookFile)
      /\ hs \in HotRecords /\ hotFile \in HotRecords
      /\ book \in BookRecords /\ bookFile \in BookRecords
  BY DEF WatchInv, TypeOK
<1>1. CASE Iterate
  <2>1. PICK suppressed \in BOOLEAN, missed \in SUBSET book.borrowers,
             fired \in SUBSET book.borrowers : HotIteration(suppressed, missed, fired)
    BY <1>1 DEF Iterate
  <2>2. hs' \in HotRecords /\ hs'.hot \subseteq book.borrowers
        /\ targets' \subseteq Borrowers /\ UNCHANGED <<chain, book, files, restarts>>
        /\ tick' = NextTick /\ pc' \in {"save", "discover"}
    BY <2>1, IterateFacts
  <2>3. hs'.cursor = 0 \/ hs'.cursor < Cardinality(book.borrowers)
    <3>1. book.borrowers \in SUBSET Borrowers /\ hs.cursor \in Nat
      BY <1>0 DEF HotRecords, BookRecords
    <3> QED BY <1>0, <2>1, <3>1, IterateFacts, NextChunkType DEF InBook
  <2>4. pc = "iterate" BY <2>1 DEF HotIteration
  <2> QED BY <1>0, <2>2, <2>3, <2>4, TickType
          DEF WatchInv, TypeOK, InStep, InBook, chain, files, Phases
<1>2. CASE IterationFails
  BY <1>0, <1>2, TickType DEF IterationFails, WatchInv, TypeOK, InStep, InBook, chain, files, Phases
<1>3. CASE SaveBook
  <2>1. InBook(hotFile, book) BY <1>0, InBookGrows DEF InStep
  <2> QED BY <1>0, <1>3, <2>1 DEF SaveBook, WatchInv, TypeOK, InStep, InBook, chain, Phases
<1>4. CASE SaveHotset
  BY <1>0, <1>4 DEF SaveHotset, WatchInv, TypeOK, InStep, InBook, chain, Phases
<1>5. ASSUME NEW to \in 0..MaxBlock, NEW seen \in 0..MaxBlock, NEW ok \in BOOLEAN,
             Discover(to, seen, ok)
      PROVE  WatchInv'
  <2>1. /\ book' \in BookRecords /\ book.borrowers \subseteq book'.borrowers
        /\ pc = "discover" /\ pc' = "saveBook"
        /\ UNCHANGED <<chain, tick, hs, files, targets, restarts>>
    BY <1>5, DiscoverFacts
  <2>2. InBook(hs, book') BY <1>0, <2>1, InBookGrows
  <2> QED BY <1>0, <2>1, <2>2 DEF WatchInv, TypeOK, InStep, InBook, chain, files, Phases
<1>6. CASE Restart
  BY <1>0, <1>6, SweepAssumption
  DEF Restart, WatchInv, TypeOK, InStep, InBook, chain, files, Phases
<1>7. CASE Block
  <2>1. head' \in Nat /\ born' \in [Borrowers -> Nat] BY <1>0, <1>7 DEF Block, TypeOK
  <2> QED BY <1>0, <1>7, <2>1 DEF Block, Loop, WatchInv, TypeOK, InStep, InBook, files
<1>8. ASSUME NEW b \in Borrowers, NEW l \in Levels, Move(b, l) PROVE WatchInv'
  BY <1>0, <1>8 DEF Move, Loop, WatchInv, TypeOK, InStep, InBook, files
<1>9. CASE UNCHANGED vars
  BY <1>0, <1>9 DEF vars, WatchInv, TypeOK, InStep, InBook, chain, files
<1> QED BY <1>1, <1>2, <1>3, <1>4, <1>5, <1>6, <1>7, <1>8, <1>9 DEF Next, Process

\* Cursor and hot set always belong to the book that goes with them, in
\* memory and on disk, whatever was saved last.
THEOREM WatchTypeCorrect == Spec => []TypeOK
<1>1. WatchInv => TypeOK BY DEF WatchInv
<1> QED BY InitWatch, NextWatch, <1>1, PTL DEF Spec
-----------------------------------------------------------------------------
(***************************************************************************)
(* The cycle                                                               *)
(***************************************************************************)

\* Of the book the cycle began with, whoever stands before the cursor has
\* been passed over.  A larger book only moves borrowers away from before it.
Passed(h, k) ==
  /\ h.cycle \subseteq k.borrowers
  /\ \A b \in h.cycle : Pos(k.borrowers, b) < h.cursor => b \in h.swept

CycleInv == Passed(hs, book) /\ Passed(hotFile, bookFile)

LEMMA PassedGrows ==
  ASSUME NEW h \in HotRecords, NEW k \in BookRecords, NEW l \in BookRecords,
         k.borrowers \subseteq l.borrowers, Passed(h, k)
  PROVE  Passed(h, l)
<1>1. k.borrowers \in SUBSET Borrowers /\ l.borrowers \in SUBSET Borrowers /\ h.cursor \in Nat
  BY DEF BookRecords, HotRecords
<1>2. ASSUME NEW b \in h.cycle, Pos(l.borrowers, b) < h.cursor PROVE b \in h.swept
  <2>1. b \in Borrowers BY <1>1 DEF Passed
  <2>2. Pos(k.borrowers, b) <= Pos(l.borrowers, b) BY <1>1, <2>1, PosUp
  <2>3. Pos(k.borrowers, b) \in Nat /\ Pos(l.borrowers, b) \in Nat BY <1>1, <2>1, PosType
  <2>4. Pos(k.borrowers, b) < h.cursor BY <1>1, <1>2, <2>2, <2>3
  <2> QED BY <2>4 DEF Passed
<1> QED BY <1>2 DEF Passed

LEMMA InitCycle == Init => CycleInv
<1> SUFFICES ASSUME Init PROVE CycleInv OBVIOUS
<1>1. \A b \in Seed : ~(Pos(Seed, b) < 0) BY PosType, BorrowersAssumption
<1> QED BY <1>1 DEF Init, EmptyHot, CycleInv, Passed

\* When the cursor wraps, the rest of the cycle's book is in the last chunk.
LEMMA WrapCovers ==
  ASSUME NEW h \in HotRecords, NEW k \in BookRecords, Passed(h, k),
         h.cursor + SWEEP_CHUNK >= Cardinality(k.borrowers)
  PROVE  h.cycle \subseteq h.swept \cup Slice(k.borrowers, h.cursor)
<1>1. k.borrowers \in SUBSET Borrowers /\ h.cursor \in Nat BY DEF BookRecords, HotRecords
<1>2. Cardinality(k.borrowers) \in Nat /\ SWEEP_CHUNK \in Nat BY <1>1, BookFinite, SweepAssumption
<1>3. ASSUME NEW b \in h.cycle, b \notin h.swept PROVE b \in Slice(k.borrowers, h.cursor)
  <2>1. b \in k.borrowers /\ ~(Pos(k.borrowers, b) < h.cursor) BY <1>3 DEF Passed
  <2>2. Pos(k.borrowers, b) < Cardinality(k.borrowers) BY <1>1, <2>1, PosInside
  <2>3. Pos(k.borrowers, b) \in Nat BY <1>1, <2>1, PosType
  <2> QED BY <1>1, <1>2, <2>1, <2>2, <2>3 DEF Slice
<1> QED BY <1>3

LEMMA NextCycle == WatchInv /\ CycleInv /\ [Next]_vars => CycleInv'
<1> SUFFICES ASSUME WatchInv, CycleInv, [Next]_vars PROVE CycleInv' OBVIOUS
<1>0. /\ hs \in HotRecords /\ hotFile \in HotRecords
      /\ book \in BookRecords /\ bookFile \in BookRecords
      /\ book.borrowers \in SUBSET Borrowers /\ hs.cursor \in Nat
      /\ Passed(hs, book) /\ Passed(hotFile, bookFile) /\ InStep
  BY DEF WatchInv, TypeOK, CycleInv, HotRecords, BookRecords
<1>1. CASE Iterate
  <2>1. PICK suppressed \in BOOLEAN, missed \in SUBSET book.borrowers,
             fired \in SUBSET book.borrowers : HotIteration(suppressed, missed, fired)
    BY <1>1 DEF Iterate
  <2>2. UNCHANGED <<book, hotFile, bookFile>> BY <2>1, IterateFacts DEF files
  <2>3. CASE hs'.cursor = hs.cursor /\ hs'.cycle = hs.cycle /\ hs'.swept = hs.swept
    BY <1>0, <2>2, <2>3 DEF CycleInv, Passed
  <2>4. CASE /\ hs'.cursor = hs.cursor + SWEEP_CHUNK /\ hs'.cycle = hs.cycle
             /\ hs'.swept = hs.swept \cup Slice(book.borrowers, hs.cursor)
    <3>1. ASSUME NEW b \in hs.cycle, Pos(book.borrowers, b) < hs.cursor + SWEEP_CHUNK
          PROVE  b \in hs'.swept
      <4>1. b \in book.borrowers BY <1>0 DEF Passed
      <4>2. Pos(book.borrowers, b) \in Nat /\ SWEEP_CHUNK \in Nat
        BY <1>0, <4>1, PosType, SweepAssumption
      <4>3. CASE Pos(book.borrowers, b) < hs.cursor BY <1>0, <2>4, <4>3 DEF Passed
      <4>4. CASE hs.cursor <= Pos(book.borrowers, b)
        BY <2>4, <3>1, <4>1, <4>4 DEF Slice
      <4> QED BY <1>0, <4>2, <4>3, <4>4
    <3> QED BY <1>0, <2>2, <2>4, <3>1 DEF CycleInv, Passed
  <2>5. CASE hs'.cursor = 0 /\ hs'.cycle = book.borrowers
    <3>1. \A b \in book.borrowers : ~(Pos(book.borrowers, b) < 0) BY <1>0, PosType
    <3> QED BY <1>0, <2>2, <2>5, <3>1 DEF CycleInv, Passed
  <2> QED BY <2>1, <2>3, <2>4, <2>5, IterateFacts
<1>2. CASE IterationFails BY <1>0, <1>2 DEF IterationFails, CycleInv, files
<1>3. CASE SaveBook
  <2>1. Passed(hotFile, book) BY <1>0, PassedGrows DEF InStep
  <2> QED BY <1>0, <1>3, <2>1 DEF SaveBook, CycleInv
<1>4. CASE SaveHotset BY <1>0, <1>4 DEF SaveHotset, CycleInv, InStep, WatchInv
<1>5. ASSUME NEW to \in 0..MaxBlock, NEW seen \in 0..MaxBlock, NEW ok \in BOOLEAN,
             Discover(to, seen, ok)
      PROVE  CycleInv'
  <2>1. book' \in BookRecords /\ book.borrowers \subseteq book'.borrowers
        /\ UNCHANGED <<hs, hotFile, bookFile>>
    BY <1>5, DiscoverFacts DEF files
  <2>2. Passed(hs, book') BY <1>0, <2>1, PassedGrows
  <2> QED BY <1>0, <2>1, <2>2 DEF CycleInv
<1>6. CASE Restart BY <1>0, <1>6 DEF Restart, CycleInv, files
<1>7. CASE Block BY <1>0, <1>7 DEF Block, Loop, CycleInv, files
<1>8. ASSUME NEW b \in Borrowers, NEW l \in Levels, Move(b, l) PROVE CycleInv'
  BY <1>0, <1>8 DEF Move, Loop, CycleInv, files
<1>9. CASE UNCHANGED vars BY <1>0, <1>9 DEF vars, CycleInv, files
<1> QED BY <1>1, <1>2, <1>3, <1>4, <1>5, <1>6, <1>7, <1>8, <1>9 DEF Next, Process

LEMMA CycleStep ==
  ASSUME WatchInv, CycleInv, [Next]_vars
  PROVE  [hs'.cursor = 0 /\ hs'.swept = {} /\ pc = "iterate" /\ pc' = "discover"
            => hs.cycle \subseteq
                 hs.swept \cup NextChunk(book.borrowers, hs.cursor).slice]_vars
<1> SUFFICES ASSUME pc = "iterate", pc' = "discover"
             PROVE  hs.cycle \subseteq
                      hs.swept \cup NextChunk(book.borrowers, hs.cursor).slice
  OBVIOUS
<1>1. Iterate
  BY DEF Next, Process, IterationFails, SaveBook, SaveHotset, Discover, Restart, Block, Move,
         Loop, vars
<1>2. PICK suppressed \in BOOLEAN, missed \in SUBSET book.borrowers,
           fired \in SUBSET book.borrowers : HotIteration(suppressed, missed, fired)
  BY <1>1 DEF Iterate
<1>3. hs.cursor + SWEEP_CHUNK >= Cardinality(book.borrowers) BY <1>2, IterateFacts
<1>4. hs \in HotRecords /\ book \in BookRecords /\ Passed(hs, book)
  BY DEF WatchInv, TypeOK, CycleInv
<1> QED BY <1>3, <1>4, WrapCovers DEF NextChunk

\* A borrower who is in the book when a cycle of the cursor begins has been
\* passed over when it ends, for every book, chunk and cadence, however the
\* book grows in between and wherever the process was killed.
THEOREM CycleCoversBookHolds == Spec => CycleCoversBook
<1>1. Spec => [](WatchInv /\ CycleInv)
  BY InitWatch, NextWatch, InitCycle, NextCycle, PTL DEF Spec
<1>2. WatchInv /\ CycleInv /\ [Next]_vars
        => [hs'.cursor = 0 /\ hs'.swept = {} /\ pc = "iterate" /\ pc' = "discover"
              => hs.cycle \subseteq
                   hs.swept \cup NextChunk(book.borrowers, hs.cursor).slice]_vars
  BY CycleStep
<1> QED BY <1>1, <1>2, PTL DEF Spec, CycleCoversBook

-----------------------------------------------------------------------------
(***************************************************************************)
(* Discovery                                                               *)
(***************************************************************************)

\* Nobody borrows, and no checkpoint is set, beyond the head.
HeadInv ==
  /\ head <= MaxBlock
  /\ \A b \in Borrowers : born[b] <= head
  /\ book.last <= head /\ bookFile.last <= head

LEMMA NextHead == WatchInv /\ HeadInv /\ [Next]_vars => HeadInv'
<1> SUFFICES ASSUME WatchInv, HeadInv, [Next]_vars PROVE HeadInv' OBVIOUS
<1>0. /\ head \in Nat /\ MaxBlock \in Nat /\ born \in [Borrowers -> Nat]
      /\ book \in BookRecords /\ bookFile \in BookRecords
      /\ book.last \in Nat /\ bookFile.last \in Nat
  BY BlocksAssumption DEF WatchInv, TypeOK, BookRecords
<1>1. CASE Iterate BY <1>1 DEF Iterate, HotIteration, HeadInv, chain, files
<1>2. CASE IterationFails BY <1>2 DEF IterationFails, HeadInv, chain, files
<1>3. CASE SaveBook BY <1>3 DEF SaveBook, HeadInv, chain
<1>4. CASE SaveHotset BY <1>4 DEF SaveHotset, HeadInv, chain
<1>5. ASSUME NEW to \in 0..MaxBlock, NEW seen \in 0..MaxBlock, NEW ok \in BOOLEAN,
             Discover(to, seen, ok)
      PROVE  HeadInv'
  <2>1. book'.last = Checkpoint(to, ok) /\ UNCHANGED <<chain, bookFile>>
    BY <1>5, DiscoverFacts DEF files
  <2>2. to <= head BY <1>0, <1>5 DEF Discover
  <2> QED BY <1>0, <2>1, <2>2 DEF HeadInv, Checkpoint, chain
<1>6. CASE Restart BY <1>6 DEF Restart, HeadInv, chain, files
<1>7. CASE Block
  <2>1. \A b \in Borrowers : born'[b] = head' \/ born'[b] = born[b] BY <1>7 DEF Block
  <2> QED BY <1>0, <1>7, <2>1 DEF Block, HeadInv, Loop, files
<1>8. ASSUME NEW b \in Borrowers, NEW l \in Levels, Move(b, l) PROVE HeadInv'
  BY <1>8 DEF Move, Loop, HeadInv, files
<1>9. CASE UNCHANGED vars BY <1>9 DEF vars, HeadInv, chain, files
<1> QED BY <1>1, <1>2, <1>3, <1>4, <1>5, <1>6, <1>7, <1>8, <1>9 DEF Next, Process

\* Discovery reads every block since the checkpoint but those it cannot read:
\* the first block asked for leaves nothing else out.
LEMMA NothingElseLeftOut ==
  ASSUME NEW to \in Nat, NEW seen \in Nat, book.last \in Nat,
         NEW n \in Nat, ~(n <= book.last), n <= to, n \notin Unread(to, seen)
  PROVE  n \in From(to)..seen
<1>1. n \in (book.last + 1)..to OBVIOUS
<1>2. ~(n < to - INCR_WINDOW) /\ ~(n > seen) BY <1>1 DEF Unread
<1> QED BY <1>1, <1>2, BlocksAssumption DEF From, Latest

LEMMA NextDiscovery ==
  WatchInv /\ HeadInv /\ DiscoveryComplete /\ [Next]_vars => DiscoveryComplete'
<1> SUFFICES ASSUME WatchInv, HeadInv, DiscoveryComplete, [Next]_vars
             PROVE  DiscoveryComplete'
  OBVIOUS
<1>0. /\ head \in Nat /\ MaxBlock \in Nat /\ INCR_WINDOW \in Nat
      /\ born \in [Borrowers -> Nat]
      /\ book \in BookRecords /\ bookFile \in BookRecords
      /\ book.last \in Nat /\ bookFile.last \in Nat
      /\ Complete(book) /\ Complete(bookFile)
  BY BlocksAssumption DEF WatchInv, TypeOK, BookRecords, DiscoveryComplete
<1>1. CASE Iterate
  BY <1>0, <1>1 DEF Iterate, HotIteration, DiscoveryComplete, Complete, chain, files
<1>2. CASE IterationFails
  BY <1>0, <1>2 DEF IterationFails, DiscoveryComplete, Complete, chain, files
<1>3. CASE SaveBook BY <1>0, <1>3 DEF SaveBook, DiscoveryComplete, Complete, chain
<1>4. CASE SaveHotset BY <1>0, <1>4 DEF SaveHotset, DiscoveryComplete, Complete, chain
<1>5. ASSUME NEW to \in 0..MaxBlock, NEW seen \in 0..MaxBlock, NEW ok \in BOOLEAN,
             Discover(to, seen, ok)
      PROVE  DiscoveryComplete'
  <2>1. UNCHANGED <<head, born, bookFile>> BY <1>5 DEF Discover, chain, files
  <2>2. to \in Nat /\ seen \in Nat BY <1>0
  <2>3. CASE ~ok
    <3>1. book'.borrowers = book.borrowers /\ book'.last = book.last /\ book'.lost = book.lost
      BY <1>5, <2>3 DEF Discover, Checkpoint
    <3> QED BY <1>0, <2>1, <3>1 DEF DiscoveryComplete, Complete
  <2>4. CASE ok
    <3>1. /\ book'.last = to /\ book'.lost = book.lost \cup Unread(to, seen)
          /\ book'.borrowers = book.borrowers \cup
               {b \in Borrowers : born[b] # NoBlock /\ born[b] \in From(to)..seen}
      BY <1>5, <2>4 DEF Discover, Checkpoint
    <3>2. ASSUME NEW b \in Borrowers, born[b] # NoBlock, born[b] <= to
          PROVE  b \in book'.borrowers \/ born[b] \in book'.lost
      <4>1. born[b] \in Nat BY <1>0
      <4>2. CASE born[b] <= book.last BY <1>0, <3>1, <3>2, <4>2 DEF Complete
      <4>3. CASE ~(born[b] <= book.last) /\ born[b] \in Unread(to, seen)
        BY <3>1, <4>3
      <4>4. CASE ~(born[b] <= book.last) /\ born[b] \notin Unread(to, seen)
        <5>1. born[b] \in From(to)..seen
          BY <1>0, <2>2, <3>2, <4>1, <4>4, NothingElseLeftOut
        <5> QED BY <3>1, <3>2, <5>1
      <4> QED BY <4>2, <4>3, <4>4
    <3> QED BY <1>0, <2>1, <3>1, <3>2 DEF DiscoveryComplete, Complete
  <2> QED BY <2>3, <2>4
<1>6. CASE Restart BY <1>0, <1>6 DEF Restart, DiscoveryComplete, Complete, chain, files
<1>7. CASE Block
  <2>1. \A b \in Borrowers : born'[b] = head + 1 \/ born'[b] = born[b] BY <1>7 DEF Block
  <2>2. UNCHANGED <<book, bookFile>> BY <1>7 DEF Block, Loop, files
  <2> QED BY <1>0, <2>1, <2>2 DEF DiscoveryComplete, Complete, HeadInv
<1>8. ASSUME NEW b \in Borrowers, NEW l \in Levels, Move(b, l) PROVE DiscoveryComplete'
  BY <1>0, <1>8 DEF Move, Loop, DiscoveryComplete, Complete, files
<1>9. CASE UNCHANGED vars BY <1>0, <1>9 DEF vars, DiscoveryComplete, Complete, chain, files
<1> QED BY <1>1, <1>2, <1>3, <1>4, <1>5, <1>6, <1>7, <1>8, <1>9 DEF Next, Process

\* Whoever borrowed up to the checkpoint is in the book and in its file, over
\* failed discoveries and kills, but for the blocks that a successful
\* discovery could not read: nothing else is ever lost.
THEOREM DiscoveryCompleteHolds == Spec => []DiscoveryComplete
<1>1. Init => HeadInv /\ DiscoveryComplete
  BY BlocksAssumption DEF Init, HeadInv, DiscoveryComplete, Complete, NoBlock
<1> QED BY InitWatch, NextWatch, NextHead, NextDiscovery, <1>1, PTL DEF Spec
=============================================================================
