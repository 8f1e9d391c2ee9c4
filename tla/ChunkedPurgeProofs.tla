------------------------- MODULE ChunkedPurgeProofs -------------------------
(***************************************************************************)
(* The chunked runs, for every set of rows, every batch size, every number *)
(* of retries, and every choice of strategies.                             *)
(***************************************************************************)
EXTENDS ChunkedPurge, FiniteSetTheorems, TLAPS

LEMMA WrittenTyped ==
  ASSUME TypeOK, NEW i \in Ids
  PROVE  Written(i) \in Row
  BY DEF TypeOK, Written, Row

LEMMA OthersTyped ==
  ASSUME TypeOK, NEW i \in Ids, NEW row \in Row, Others(i, row)
  PROVE  TypeOK'
  BY DEF TypeOK, Others

\* What another process writes: one row, which no run has removed and which it does
\* not mark or remove.
LEMMA OthersWrite ==
  ASSUME TypeOK, NEW i \in Ids, Insert(i) \/ Leave(i) \/ Delete(i)
  PROVE  /\ rows[i].state # "removed"
         /\ \E row \in Row : /\ Others(i, row)
                            /\ row.marked = rows[i].marked /\ row.state # "removed"
<1> rows[i] \in Row
  BY DEF TypeOK
<1>1. CASE Insert(i)
  <2>1. PICK c \in BOOLEAN : Others(i, [rows[i] EXCEPT !.state = "present", !.cohort = c])
    BY <1>1 DEF Insert
  <2> DEFINE row == [rows[i] EXCEPT !.state = "present", !.cohort = c]
  <2>2. row \in Row /\ row.marked = rows[i].marked /\ row.state # "removed"
    BY DEF Row
  <2>3. rows[i].state # "removed"
    BY <1>1 DEF Insert
  <2> QED
    BY <2>1, <2>2, <2>3
<1>2. CASE Leave(i)
  <2> DEFINE row == [rows[i] EXCEPT !.cohort = FALSE]
  <2>1. /\ rows[i].state # "removed" /\ Others(i, row)
        /\ row \in Row /\ row.marked = rows[i].marked /\ row.state = rows[i].state
    BY <1>2 DEF Leave, Row
  <2> QED
    BY <2>1
<1>3. CASE Delete(i)
  <2> DEFINE row == IF SoftDelete THEN [rows[i] EXCEPT !.hidden = TRUE]
                    ELSE [rows[i] EXCEPT !.state = "deleted"]
  <2>1. rows[i].state = "present" /\ Others(i, row)
    BY <1>3 DEF Delete
  <2>2. row \in Row /\ row.marked = rows[i].marked /\ row.state # "removed"
    BY <2>1 DEF Row
  <2> QED
    BY <2>1, <2>2
<1> QED
  BY <1>1, <1>2, <1>3

\* So no row becomes touched, and no touched row changes.
LEMMA OthersTouchNothing ==
  ASSUME TypeOK, NEW i \in Ids, Insert(i) \/ Leave(i) \/ Delete(i), NEW j \in Ids
  PROVE  /\ rows[j].state = "removed" <=> rows'[j].state = "removed"
         /\ rows[j].marked <=> rows'[j].marked
<1>1. PICK row \in Row : /\ Others(i, row)
                         /\ row.marked = rows[i].marked /\ row.state # "removed"
  BY OthersWrite
<1>2. rows' = [rows EXCEPT ![i] = row]
  BY <1>1 DEF Others
<1>3. CASE j = i
  BY <1>1, <1>2, <1>3, OthersWrite DEF TypeOK
<1>4. CASE j # i
  BY <1>2, <1>4 DEF TypeOK
<1> QED
  BY <1>3, <1>4

\* Every variable keeps its type.
THEOREM TypeCorrect == Spec => []TypeOK
<1>1. Init => TypeOK
  BY PurgeAssumption DEF Init, TypeOK
<1>2. TypeOK /\ [Next]_vars => TypeOK'
  <2> SUFFICES ASSUME TypeOK, [Next]_vars PROVE TypeOK'
    OBVIOUS
  <2>1. CASE Start
    BY <2>1 DEF Start, TypeOK
  <2>2. CASE ReadChunk
    <3>1. PICK c \in SUBSET Selected :
            chunk' = c /\ last' \in {i \in c : \A j \in c : j <= i}
      BY <2>2 DEF ReadChunk
    <3>2. chunk' \subseteq Ids /\ last' \in Nat
      BY <3>1, PurgeAssumption DEF Selected
    <3> QED
      BY <2>2, <3>2 DEF ReadChunk, TypeOK
  <2>3. CASE Finish
    BY <2>3 DEF Finish, TypeOK
  <2>4. CASE WriteToSink
    BY <2>4 DEF WriteToSink, TypeOK
  <2>5. CASE CommitChunk
    BY <2>5 DEF CommitChunk, TypeOK
  <2>6. ASSUME NEW i \in Ids, WriteRow(i) PROVE TypeOK'
    BY <2>6, WrittenTyped DEF WriteRow, TypeOK
  <2>7. CASE ChunkFails
    BY <2>7 DEF ChunkFails, CursorOnFailure, TypeOK
  <2>8. CASE Crash
    BY <2>8 DEF Crash, TypeOK
  <2>9. ASSUME NEW i \in Ids, Insert(i) \/ Leave(i) \/ Delete(i) PROVE TypeOK'
    <3>1. \A c \in BOOLEAN : [rows[i] EXCEPT !.state = "present", !.cohort = c] \in Row
      BY DEF TypeOK, Row
    <3>2. /\ [rows[i] EXCEPT !.cohort = FALSE] \in Row
          /\ [rows[i] EXCEPT !.hidden = TRUE] \in Row
          /\ [rows[i] EXCEPT !.state = "deleted"] \in Row
      BY DEF TypeOK, Row
    <3> QED
      BY <2>9, <3>1, <3>2, OthersTyped DEF Insert, Leave, Delete
  <2>10. CASE UNCHANGED vars
    BY <2>10 DEF vars, TypeOK
  <2> QED
    BY <2>1, <2>2, <2>3, <2>4, <2>5, <2>6, <2>7, <2>8, <2>9, <2>10 DEF Next, RunStep
<1> QED
  BY <1>1, <1>2, PTL DEF Spec

-----------------------------------------------------------------------------
(***************************************************************************)
(* Completeness.  A run is complete when the repository's hooks do not     *)
(* narrow its writes.  The invariant follows a row that stays in the       *)
(* filter: until it is touched it lies beyond the cursor, and, once a      *)
(* chunk has been selected, in the chunk or beyond its end.                *)
(***************************************************************************)

Unnarrowed == SoftDelete => Strategies \cap {"soft", "anonymize"} = {}

Running == pc \in {"reading", "sinking", "writing"}

StrategyChosen == strategy \in Strategies

\* A row that stayed is touched, or still to come.
AheadOfCursor ==
  Running => \A i \in stayed : Touched(i) \/ (Base(i) /\ i > cursor)

InChunkOrBeyond ==
  pc \in {"sinking", "writing"} /\ Keyset =>
    \A i \in stayed : Touched(i) \/ i \in chunk \/ i > last

\* The archive port reads from the front.
ArchiveHasNoCursor == ~Keyset => cursor = 0

SweepInv == StrategyChosen /\ AheadOfCursor /\ InChunkOrBeyond /\ ArchiveHasNoCursor /\ Complete

\* Another process changes one row: a row that stayed is still in the filter, and
\* touched rows stay touched.
LEMMA OthersKeepSweep ==
  ASSUME TypeOK, SweepInv, NEW i \in Ids, NEW row \in Row, Others(i, row),
         row.marked = rows[i].marked, rows[i].state # "removed"
  PROVE  SweepInv'
<1>1. /\ UNCHANGED <<strategy, pc, cursor, chunk, last>>
      /\ rows' = [rows EXCEPT ![i] = row] /\ stayed' \subseteq stayed
      /\ i \in stayed' => row.state = "present" /\ row.cohort
  BY DEF Others
<1>2. \A j \in Ids : j # i => rows'[j] = rows[j]
  BY <1>1 DEF TypeOK
<1>3. rows'[i] = row
  BY <1>1 DEF TypeOK
<1>4. \A j \in stayed' : j \in Ids /\ j \in stayed
  BY <1>1 DEF TypeOK
<1>5. \A j \in stayed' : Touched(j) => Touched(j)'
  BY <1>2, <1>3, <1>4 DEF Touched
<1>6. \A j \in stayed' : Base(j) => Base(j)'
  BY <1>1, <1>2, <1>3, <1>4 DEF Base
<1> QED
  BY <1>1, <1>4, <1>5, <1>6 DEF SweepInv, StrategyChosen, AheadOfCursor, InChunkOrBeyond,
     ArchiveHasNoCursor, Complete, Running, Keyset

\* Writing a row of the chunk: it is touched if it is still in the filter.
LEMMA WriteKeepsSweep ==
  ASSUME Unnarrowed, TypeOK, SweepInv, NEW i \in Ids, WriteRow(i)
  PROVE  SweepInv'
<1>1. /\ UNCHANGED <<strategy, pc, cursor, last, stayed>> /\ pc = "writing" /\ i \in chunk
      /\ chunk' = chunk \ {i}
  BY DEF WriteRow
<1>2. \A j \in Ids : j # i => rows'[j] = rows[j]
  BY DEF WriteRow, TypeOK
<1>3. Touched(i) => Touched(i)'
  BY DEF WriteRow, Touched, Written, WriteFilter, TypeOK, Row
<1>4. Base(i) => Touched(i)'
  <2>1. Base(i) => WriteFilter(i)
    BY DEF Base, WriteFilter, ByUpdateMany, Unnarrowed, SweepInv, StrategyChosen
  <2>2. WriteFilter(i) => rows'[i] = Written(i)
    BY DEF WriteRow, TypeOK
  <2> QED
    BY <2>1, <2>2 DEF Written, Touched, TypeOK, Row
<1>5. \A j \in stayed : j \in Ids
  BY DEF TypeOK
<1>6. \A j \in stayed : Touched(j) => Touched(j)'
  BY <1>2, <1>3, <1>5 DEF Touched
<1>7. \A j \in stayed : j # i /\ Base(j) => Base(j)'
  BY <1>2, <1>5 DEF Base
<1>8. AheadOfCursor'
  BY <1>1, <1>4, <1>5, <1>6, <1>7 DEF SweepInv, AheadOfCursor, Running
<1>9. InChunkOrBeyond'
  <2> SUFFICES ASSUME Keyset, NEW j \in stayed
               PROVE  Touched(j)' \/ j \in chunk' \/ j > last'
    BY <1>1 DEF InChunkOrBeyond, Keyset
  <2>1. Touched(j) \/ j \in chunk \/ j > last
    BY <1>1 DEF SweepInv, InChunkOrBeyond
  <2>2. CASE j = i
    BY <1>1, <1>3, <1>4, <2>2 DEF SweepInv, AheadOfCursor, Running
  <2> QED
    BY <1>1, <1>6, <2>1, <2>2
<1> QED
  BY <1>1, <1>8, <1>9 DEF SweepInv, StrategyChosen, ArchiveHasNoCursor, Complete, Keyset

\* Selecting a chunk: what stayed and is untouched is selected, and comes in the
\* chunk or after it.
LEMMA ReadKeepsSweep ==
  ASSUME TypeOK, SweepInv, ReadChunk
  PROVE  SweepInv'
<1>1. PICK c \in SUBSET Selected :
        FirstOf(c, Selected) /\ chunk' = c /\ last' \in {i \in c : \A j \in c : j <= i}
  BY DEF ReadChunk
<1>2. /\ UNCHANGED <<rows, strategy, cursor, stayed>> /\ pc = "reading"
      /\ pc' \in {"sinking", "writing"}
  BY DEF ReadChunk
<1>3. \A i \in stayed : Touched(i) \/ i \in Selected
  BY <1>2, PurgeAssumption DEF SweepInv, AheadOfCursor, Running, Selected, SelectFilter, Base, TypeOK
<1>4. InChunkOrBeyond'
  BY <1>1, <1>2, <1>3 DEF InChunkOrBeyond, FirstOf, Touched
<1> QED
  BY <1>2, <1>4 DEF SweepInv, StrategyChosen, AheadOfCursor, ArchiveHasNoCursor, Complete,
     Running, Keyset, Touched, Base

LEMMA SweepInductive ==
  ASSUME Unnarrowed, TypeOK, SweepInv, [Next]_vars
  PROVE  SweepInv'
<1>1. CASE Start
  BY <1>1, PurgeAssumption DEF Start, SweepInv, StrategyChosen, AheadOfCursor, InChunkOrBeyond,
     ArchiveHasNoCursor, Complete, Running, Keyset, Touched, Base
<1>2. CASE ReadChunk
  BY <1>2, ReadKeepsSweep
<1>3. CASE Finish
  <2>1. \A i \in stayed : Touched(i)
    BY <1>3 DEF Finish, SweepInv, AheadOfCursor, Running, Selected, SelectFilter, Base, TypeOK
  <2> QED
    BY <1>3, <2>1 DEF Finish, SweepInv, StrategyChosen, AheadOfCursor, InChunkOrBeyond,
       ArchiveHasNoCursor, Complete, Running, Keyset, Touched
<1>4. CASE WriteToSink
  BY <1>4 DEF WriteToSink, SweepInv, StrategyChosen, AheadOfCursor, InChunkOrBeyond,
     ArchiveHasNoCursor, Complete, Running, Keyset, Touched, Base
<1>5. CASE CommitChunk
  <2>1. /\ UNCHANGED <<rows, strategy, stayed>> /\ pc' = "reading" /\ pc = "writing" /\ chunk = {}
        /\ cursor' = IF Keyset THEN last ELSE cursor
    BY <1>5 DEF CommitChunk
  <2>2. AheadOfCursor'
    BY <2>1 DEF SweepInv, AheadOfCursor, InChunkOrBeyond, Running, Touched, Base
  <2> QED
    BY <2>1, <2>2 DEF SweepInv, StrategyChosen, InChunkOrBeyond, ArchiveHasNoCursor, Complete, Keyset
<1>6. ASSUME NEW i \in Ids, WriteRow(i) PROVE SweepInv'
  BY <1>6, WriteKeepsSweep
<1>7. CASE ChunkFails
  BY <1>7 DEF ChunkFails, CursorOnFailure, SweepInv, StrategyChosen, AheadOfCursor,
     InChunkOrBeyond, ArchiveHasNoCursor, Complete, Running, Keyset, Touched, Base
<1>8. CASE Crash
  BY <1>8 DEF Crash, SweepInv, StrategyChosen, AheadOfCursor, InChunkOrBeyond,
     ArchiveHasNoCursor, Complete, Running, Keyset
<1>9. ASSUME NEW i \in Ids, Insert(i) \/ Leave(i) \/ Delete(i) PROVE SweepInv'
  BY <1>9, OthersWrite, OthersKeepSweep
<1>10. CASE UNCHANGED vars
  BY <1>10 DEF vars, SweepInv, StrategyChosen, AheadOfCursor, InChunkOrBeyond,
     ArchiveHasNoCursor, Complete, Running, Keyset, Touched, Base
<1> QED
  BY <1>1, <1>2, <1>3, <1>4, <1>5, <1>6, <1>7, <1>8, <1>9, <1>10 DEF Next, RunStep

\* A run whose writes the hooks do not narrow reaches every row that matched
\* throughout, whatever fails, is repeated or is changed by others.
THEOREM SweepsAreComplete == Unnarrowed => (Spec => []Complete)
<1>1. Init => SweepInv
  BY DEF Init, SweepInv, StrategyChosen, AheadOfCursor, InChunkOrBeyond, ArchiveHasNoCursor,
     Complete, Running
<1>2. Unnarrowed /\ TypeOK /\ SweepInv /\ [Next]_vars => SweepInv'
  BY SweepInductive
<1>3. SweepInv => Complete
  BY DEF SweepInv
<1>4. ASSUME Unnarrowed PROVE Spec => []Complete
  <2>1. TypeOK /\ SweepInv /\ [Next]_vars => SweepInv'
    BY <1>2, <1>4
  <2> QED
    BY <1>1, <1>3, <2>1, TypeCorrect, PTL DEF Spec
<1> QED
  BY <1>4

-----------------------------------------------------------------------------
(***************************************************************************)
(* Archiving: while a chunk is deleted, it is in the sink.                 *)
(***************************************************************************)

SinkInv ==
  /\ ArchivedBeforeRemoved
  /\ strategy = "archive" /\ pc = "writing" => chunk \subseteq sink

\* An archive run removes no row that it has not written to the sink before.
THEOREM ArchivesFirst == Spec => []ArchivedBeforeRemoved
<1>1. Init => SinkInv
  BY DEF Init, SinkInv, ArchivedBeforeRemoved
<1>2. TypeOK /\ SinkInv /\ [Next]_vars => SinkInv'
  <2> SUFFICES ASSUME TypeOK, SinkInv, [Next]_vars PROVE SinkInv'
    OBVIOUS
  <2>1. CASE Start \/ Finish \/ WriteToSink \/ CommitChunk \/ ChunkFails \/ Crash
    BY <2>1 DEF Start, Finish, WriteToSink, CommitChunk, ChunkFails, Crash, SinkInv,
       ArchivedBeforeRemoved
  <2>2. CASE ReadChunk
    BY <2>2 DEF ReadChunk, SinkInv, ArchivedBeforeRemoved
  <2>3. ASSUME NEW i \in Ids, WriteRow(i) PROVE SinkInv'
    <3>1. \A j \in Ids : j # i => rows'[j] = rows[j]
      BY <2>3 DEF WriteRow, TypeOK
    <3>2. strategy = "archive" => i \in sink
      BY <2>3 DEF WriteRow, SinkInv
    <3> QED
      BY <2>3, <3>1, <3>2 DEF WriteRow, SinkInv, ArchivedBeforeRemoved
  <2>4. ASSUME NEW i \in Ids, Insert(i) \/ Leave(i) \/ Delete(i) PROVE SinkInv'
    <3>1. UNCHANGED <<strategy, pc, chunk, sink>>
      BY <2>4, OthersWrite DEF Others
    <3> QED
      BY <2>4, <3>1, OthersTouchNothing DEF SinkInv, ArchivedBeforeRemoved
  <2>5. CASE UNCHANGED vars
    BY <2>5 DEF vars, SinkInv, ArchivedBeforeRemoved
  <2> QED
    BY <2>1, <2>2, <2>3, <2>4, <2>5 DEF Next, RunStep
<1>3. SinkInv => ArchivedBeforeRemoved
  BY DEF SinkInv
<1> QED
  BY <1>1, <1>2, <1>3, TypeCorrect, PTL DEF Spec

-----------------------------------------------------------------------------
(***************************************************************************)
(* What is touched.  Without a predicate of the caller on _id, the         *)
(* narrowed write re-asserts the whole filter.                             *)
(***************************************************************************)

\* A run touches only rows that satisfy the caller's filter at that moment, when
\* the filter has no predicate on _id.
THEOREM OnlyMatchesTouched == IdFilter = Ids => (Spec => OnlyMatchingTouched)
<1> SUFFICES ASSUME IdFilter = Ids PROVE Spec => OnlyMatchingTouched
  OBVIOUS
<1> DEFINE Fine == \A i \in Ids : Touched(i)' /\ ~Touched(i) /\ strategy # "anonymizeFunction" => Base(i)
<1>1. TypeOK /\ [Next]_vars => Fine
  <2> SUFFICES ASSUME TypeOK, [Next]_vars, NEW i \in Ids, Touched(i)', ~Touched(i),
                      strategy # "anonymizeFunction"
               PROVE  Base(i)
    OBVIOUS
  <2>1. rows' # rows
    BY DEF Touched
  <2>2. ASSUME NEW j \in Ids, WriteRow(j) PROVE Base(i)
    <3>1. j = i /\ WriteFilter(i)
      BY <2>1, <2>2 DEF WriteRow, Touched, TypeOK
    <3> QED
      BY <3>1 DEF WriteFilter, Base
  <2>3. ASSUME NEW j \in Ids, Insert(j) \/ Leave(j) \/ Delete(j) PROVE FALSE
    BY <2>3, OthersTouchNothing DEF Touched
  <2> QED
    BY <2>1, <2>2, <2>3 DEF Next, RunStep, Start, ReadChunk, Finish, WriteToSink, CommitChunk,
       ChunkFails, Crash, vars
<1>2. TypeOK /\ [Next]_vars => [Fine]_vars
  BY <1>1
<1> QED
  BY <1>2, TypeCorrect, PTL DEF Spec, OnlyMatchingTouched
=============================================================================
