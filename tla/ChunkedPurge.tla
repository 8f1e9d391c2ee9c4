---------------------------- MODULE ChunkedPurge ----------------------------
(***************************************************************************)
(* purgeByField, purgeByFilter and archiveByFilter: a run selects the rows *)
(* of the caller's filter chunk by chunk in the order of _id, writes every *)
(* chunk, and moves on, while other processes insert, change and delete    *)
(* rows.  A chunk may fail in the middle and be tried again; the process   *)
(* may stop, and the run be started over.  The loop around the ports is    *)
(* runChunkedPurge and runChunkedArchive of repo-core.                     *)
(***************************************************************************)
EXTENDS Integers, FiniteSets

CONSTANTS
  Ids,         \* the values of _id, in their order
  IdFilter,    \* the rows that the caller's own predicate on _id allows
  Strategies,  \* the strategies a caller may choose
  SoftDelete,  \* whether the repository has softDeletePlugin
  BatchSize,
  MaxRetries   \* the attempts for a chunk after the first

AllStrategies == {"hard", "soft", "anonymize", "anonymizeFunction", "archive"}

ASSUME PurgeAssumption ==
  /\ Ids \subseteq Nat \ {0} /\ IsFiniteSet(Ids)
  /\ IdFilter \subseteq Ids
  /\ Strategies \subseteq AllStrategies
  /\ SoftDelete \in BOOLEAN
  /\ BatchSize \in Nat \ {0}
  /\ MaxRetries \in Nat

VARIABLES
  rows,      \* rows[i]: the row with _id i
  strategy,
  pc,        \* what the run does
  cursor,    \* the port's keyset cursor, 0 for null
  chunk,     \* the rows of the chunk that are still to be written
  last,      \* the last _id of the chunk
  retries,
  sink,      \* what the archive sink has been given
  stayed     \* history: the rows that matched at the start, and since

vars == <<rows, strategy, pc, cursor, chunk, last, retries, sink, stayed>>

\* cohort: the caller's conditions on other fields hold.  hidden: soft-deleted
\* through the plugin.  marked: soft-deleted or anonymized by a run.
Row == [state : {"absent", "present", "deleted", "removed"},
        cohort : BOOLEAN, hidden : BOOLEAN, marked : BOOLEAN]

TypeOK ==
  /\ rows \in [Ids -> Row]
  /\ strategy \in AllStrategies
  /\ pc \in {"idle", "reading", "sinking", "writing", "done", "failed"}
  /\ cursor \in Nat /\ last \in Nat
  /\ chunk \subseteq Ids
  /\ retries \in Nat
  /\ sink \subseteq Ids /\ stayed \subseteq Ids

Init ==
  /\ rows \in [Ids -> {r \in Row : /\ r.state \in {"absent", "present"} /\ ~r.marked
                                   /\ r.hidden => SoftDelete /\ r.state = "present"
                                   /\ r.cohort => r.state = "present"}]
  /\ strategy \in Strategies
  /\ pc = "idle"
  /\ cursor = 0 /\ last = 0 /\ chunk = {} /\ retries = 0
  /\ sink = {} /\ stayed = {}

-----------------------------------------------------------------------------
(* The filters                                                              *)

\* The caller's filter.
Base(i) == rows[i].state = "present" /\ rows[i].cohort /\ i \in IdFilter

Keyset == strategy # "archive"

\* Mutant of SelectFilter: no cursor.
SelectFromFront(i) == Base(i)

\* keysetFilter: the bound on _id replaces the caller's predicate on _id.  The
\* archive port has no cursor.
SelectFilter(i) ==
  IF Keyset /\ cursor # 0
  THEN rows[i].state = "present" /\ rows[i].cohort /\ i > cursor
  ELSE Base(i)

\* The strategies that write with the repository's updateMany, whose policy hook
\* narrows the filter to rows that are not soft-deleted.
ByUpdateMany == strategy \in {"soft", "anonymize"}

\* Mutant of WriteFilter: the ids alone address the chunk.
WriteByIdOnly(i) == rows[i].state = "present"

\* narrowToIds re-asserts the caller's filter; the bulkWrite of function-form
\* replacers does not.
WriteFilter(i) ==
  /\ rows[i].state = "present"
  /\ strategy # "anonymizeFunction" => rows[i].cohort
  /\ ByUpdateMany /\ SoftDelete => ~rows[i].hidden

-----------------------------------------------------------------------------
(* A run                                                                    *)

Touched(i) == rows[i].marked \/ rows[i].state = "removed"

\* A fresh port, also after a run that failed or whose process stopped.
Start ==
  /\ pc \in {"idle", "failed"}
  /\ pc' = "reading"
  /\ cursor' = 0 /\ retries' = 0 /\ chunk' = {}
  /\ stayed' = {i \in Ids : Base(i)}
  /\ UNCHANGED <<rows, strategy, last, sink>>

\* sort({_id: 1}).limit(batchSize).
FirstOf(c, s) ==
  /\ c \subseteq s
  /\ \A i \in c : \A j \in s \ c : i < j
  /\ Cardinality(c) <= BatchSize
  /\ c # s => Cardinality(c) = BatchSize

Selected == {i \in Ids : SelectFilter(i)}

\* selectKeysetChunk; a run ends with an empty chunk.
ReadChunk ==
  /\ pc = "reading" /\ Selected # {}
  /\ \E c \in SUBSET Selected :
       /\ FirstOf(c, Selected)
       /\ chunk' = c
       /\ last' \in {i \in c : \A j \in c : j <= i}
  /\ pc' = IF strategy = "archive" THEN "sinking" ELSE "writing"
  /\ UNCHANGED <<rows, strategy, cursor, retries, sink, stayed>>

Finish ==
  /\ pc = "reading" /\ Selected = {}
  /\ pc' = "done"
  /\ UNCHANGED <<rows, strategy, cursor, chunk, last, retries, sink, stayed>>

\* Mutant of WriteToSink: the sink is given the rows after the delete.
WriteToSinkLater ==
  /\ pc = "sinking"
  /\ pc' = "writing"
  /\ UNCHANGED <<rows, strategy, cursor, chunk, last, retries, sink, stayed>>

\* runChunkedArchive writes to the sink before it deletes.
WriteToSink ==
  /\ pc = "sinking"
  /\ sink' = sink \cup chunk
  /\ pc' = "writing"
  /\ UNCHANGED <<rows, strategy, cursor, chunk, last, retries, stayed>>

Written(i) ==
  IF strategy \in {"hard", "archive"} THEN [rows[i] EXCEPT !.state = "removed"]
  ELSE [rows[i] EXCEPT !.marked = TRUE]

\* deleteMany, updateMany and bulkWrite write row after row.
WriteRow(i) ==
  /\ pc = "writing" /\ i \in chunk
  /\ chunk' = chunk \ {i}
  /\ \/ WriteFilter(i) /\ rows' = [rows EXCEPT ![i] = Written(i)]
     \/ ~WriteFilter(i) /\ UNCHANGED rows
  /\ UNCHANGED <<strategy, pc, cursor, last, retries, sink, stayed>>

\* The write succeeded: the cursor moves on.
CommitChunk ==
  /\ pc = "writing" /\ chunk = {}
  /\ cursor' = IF Keyset THEN last ELSE cursor
  /\ pc' = "reading" /\ retries' = 0
  /\ UNCHANGED <<rows, strategy, chunk, last, sink, stayed>>

\* Mutant of CursorOnFailure: the cursor has moved although the write failed.
CursorPastChunk == IF pc = "writing" THEN last ELSE cursor

CursorOnFailure == cursor

\* A call throws, after some of the rows were written: the chunk is tried again,
\* or the run ends, as it does when its signal is aborted.
ChunkFails ==
  /\ pc \in {"reading", "sinking", "writing"}
  /\ chunk' = {}
  /\ cursor' = CursorOnFailure
  /\ \/ retries < MaxRetries /\ retries' = retries + 1 /\ pc' = "reading"
     \/ pc' = "failed" /\ UNCHANGED retries
  /\ UNCHANGED <<rows, strategy, last, sink, stayed>>

\* The process stops.
Crash ==
  /\ pc \in {"reading", "sinking", "writing"}
  /\ pc' = "idle" /\ chunk' = {}
  /\ UNCHANGED <<rows, strategy, cursor, last, retries, sink, stayed>>

-----------------------------------------------------------------------------
(* The other processes                                                      *)

Others(i, row) ==
  /\ rows' = [rows EXCEPT ![i] = row]
  /\ stayed' = IF row.state = "present" /\ row.cohort THEN stayed ELSE stayed \ {i}
  /\ UNCHANGED <<strategy, pc, cursor, chunk, last, retries, sink>>

Insert(i) ==
  /\ rows[i].state = "absent"
  /\ \E c \in BOOLEAN : Others(i, [rows[i] EXCEPT !.state = "present", !.cohort = c])

\* The row leaves the filter (bound: it does not come back).
Leave(i) ==
  /\ rows[i].state = "present" /\ rows[i].cohort
  /\ Others(i, [rows[i] EXCEPT !.cohort = FALSE])

\* Deleted by a caller: through softDeletePlugin, or physically.
Delete(i) ==
  /\ rows[i].state = "present"
  /\ Others(i, IF SoftDelete THEN [rows[i] EXCEPT !.hidden = TRUE]
               ELSE [rows[i] EXCEPT !.state = "deleted"])

RunStep == ReadChunk \/ Finish \/ WriteToSink \/ CommitChunk \/ \E i \in Ids : WriteRow(i)

Next ==
  \/ Start \/ RunStep \/ ChunkFails \/ Crash
  \/ \E i \in Ids : Insert(i) \/ Leave(i) \/ Delete(i)

Spec == Init /\ [][Next]_vars

\* The calls of a run return.
FairSpec == Spec /\ WF_vars(RunStep)

-----------------------------------------------------------------------------
(* Properties                                                               *)

\* A run that ends without an error has reached every row that matched its filter
\* from its start to its end, whatever chunks were tried again and whatever was
\* inserted, changed or deleted around it: the keyset never skips a row.
Complete == pc = "done" => \A i \in stayed : Touched(i)

\* A row is written only if it satisfies the caller's filter at that moment, not
\* merely when its chunk was selected (narrowToIds; the function-form replacers
\* write by _id).
OnlyMatchingTouched ==
  [][\A i \in Ids : Touched(i)' /\ ~Touched(i) /\ strategy # "anonymizeFunction"
       => Base(i)]_vars

\* A row that an archive run removed is in the sink, whatever failed or crashed
\* between the sink and the delete.
ArchivedBeforeRemoved ==
  strategy = "archive" => \A i \in Ids : rows[i].state = "removed" => i \in sink

\* A run does not select the same rows for ever, although rows that are soft-deleted
\* or anonymized go on matching the filter.
RunEnds == pc = "reading" ~> pc \in {"idle", "done", "failed"}
=============================================================================
