--------------------------- MODULE RecordedWrites ---------------------------
(***************************************************************************)
(* One document, a number under a unique key, as concurrent callers write  *)
(* it, and what two plugins record of that: the change log, from which     *)
(* replicas rebuild the document, and the audit trail.  The after hooks    *)
(* run once the write is done, one await after the other; in between,      *)
(* other calls run, the operation may reject, and the process may stop.  A *)
(* call is bound to a transaction of its own, or not.  The callers also    *)
(* use the number as a quota (incrementIfBelow), and as a usage counter    *)
(* (an upsert that retries).                                               *)
(***************************************************************************)
EXTENDS Integers, Sequences, FiniteSets, SequencesExt

CONSTANTS
  Callers,
  Absent,      \* in place of a number: there is no document
  NoDiff,      \* an audit entry without changes
  Setups,      \* the configurations considered
  Amounts,     \* what a call adds, or the value an update sets
  Ceiling,     \* of incrementIfBelow
  MaxCalls     \* calls started in a behaviour

None == "none"

\* increment, decrement (give), multiplyField, setMin, setMax and setField are
\* operators passed to update (mongo-operations.plugin.ts:100, 160), whose hooks they
\* run: they are captured, although the header of the change log lists these helpers as
\* not captured, `not wired in v1` (change-log.plugin.ts:22-30).
Operators == {"increment", "give", "multiply", "setMin", "setMax", "setField"}
Updating == {"update"} \cup Operators
Captured == {"create", "delete"} \cup Updating
Upserts  == {"usage", "getOrCreate"}
Verbs    == {"take"} \cup Captured \cup Upserts

\* bound: calls carry the session of a transaction; audit: the delivery mode.
Setup == [bound : BOOLEAN, audit : {"best-effort", "transactional"}, verbs : SUBSET Verbs]

ASSUME RecordedAssumption ==
  /\ IsFiniteSet(Callers) /\ None \notin Callers
  /\ Absent \notin Int /\ NoDiff \notin Int \cup {Absent}
  /\ Setups \subseteq Setup
  /\ \A s \in Setups : s.bound => s.verbs \subseteq Captured \ {"give"}
  /\ Amounts \subseteq Nat \ {0}
  /\ Ceiling \in Nat
  /\ MaxCalls \in Nat

VARIABLES
  setup,     \* the configuration, fixed
  doc,       \* the committed number, or Absent
  feed,      \* the change log: the images appended
  trail,     \* the audit entries
  work,      \* what each caller is doing
  writer,    \* the caller whose open transaction has written the document
  loose,     \* audit entries of a caller that are still in flight
  holding,   \* callers that hold a slot of the quota
  started,   \* calls started so far
  history,   \* every committed write
  acked      \* the calls that have returned, with the writes they made

vars == <<setup, doc, feed, trail, work, writer, loose, holding, started, history, acked>>

\* What there may be under the key.
Value == Int \cup {Absent}

\* A write, and an audit entry: the verb, the value before and after.
Change == [verb : Verbs, from : Value, to : Value]
Entry  == [verb : Verbs, from : Value \cup {NoDiff}, to : Value \cup {NoDiff}]

\* What is known of a call that has returned.
Answer == [verb : Verbs, by : Nat, made : Seq(Change)]

\* begun: the writes committed when the transaction took its snapshot.
Work == [stage : {"idle", "before", "write", "insert", "log", "audit", "return", "dead"},
         verb : Verbs, by : Nat, prev : Value, begun : Int, made : Seq(Change),
         image : Seq(Value), entry : Seq(Entry)]

Idle == [stage |-> "idle", verb |-> "update", by |-> 0, prev |-> Absent, begun |-> -1,
         made |-> <<>>, image |-> <<>>, entry |-> <<>>]

TypeOK ==
  /\ setup \in Setups
  /\ doc \in Value
  /\ feed \in Seq(Value)
  /\ trail \in Seq(Entry)
  /\ work \in [Callers -> Work]
  /\ writer \in Callers \cup {None}
  /\ loose \in [Callers -> Seq(Entry)]
  /\ holding \subseteq Callers
  /\ started \in 0 .. MaxCalls
  /\ history \in Seq(Change)
  /\ acked \in Seq(Answer)

Init ==
  /\ setup \in Setups
  /\ doc = IF setup.verbs \cap Upserts # {} THEN Absent ELSE 0
  /\ feed = <<>> /\ trail = <<>> /\ history = <<>> /\ acked = <<>>
  /\ work = [c \in Callers |-> Idle]
  /\ writer = None
  /\ loose = [c \in Callers |-> <<>>]
  /\ holding = {}
  /\ started = 0

-----------------------------------------------------------------------------
(* What a verb writes                                                       *)

Below(n) == n < Ceiling

\* Whether the statement finds a document to write, or a free key to insert under.
Matches(c) ==
  CASE work[c].verb = "create" -> doc = Absent
    [] work[c].verb = "take"   -> doc # Absent /\ Below(doc)
    [] OTHER                   -> doc # Absent

Written(c) ==
  CASE work[c].verb \in {"create", "update", "setField"} -> work[c].by
    [] work[c].verb \in {"increment", "usage"} -> doc + work[c].by
    [] work[c].verb = "multiply"    -> doc * work[c].by
    [] work[c].verb = "setMin"      -> Min({doc, work[c].by})
    [] work[c].verb = "setMax"      -> Max({doc, work[c].by})
    [] work[c].verb = "take"        -> doc + 1
    [] work[c].verb = "give"        -> doc - 1
    [] work[c].verb = "delete"      -> Absent
    [] work[c].verb = "getOrCreate" -> doc

\* What an upsert inserts: the increment counts from zero.
Inserted(c) == IF work[c].verb = "usage" THEN work[c].by ELSE 0

\* Before an update the trail reads the value it replaces.
FirstStage(v) == IF v \in Updating THEN "before" ELSE "write"

Begin(v, by) == [Idle EXCEPT !.stage = FirstStage(v), !.verb = v, !.by = by]

Call(c) ==
  /\ work[c].stage = "idle"
  /\ started < MaxCalls
  /\ \E v \in setup.verbs, by \in Amounts :
       /\ v = "take" => c \notin holding
       /\ v = "give" => c \in holding
       /\ v \in {"take", "give", "delete", "getOrCreate"} => by = 1
       /\ work' = [work EXCEPT ![c] = Begin(v, by)]
       \* a caller stops using its slot before it gives it back
       /\ holding' = IF v = "give" THEN holding \ {c} ELSE holding
  /\ started' = started + 1
  /\ UNCHANGED <<setup, doc, feed, trail, writer, loose, history, acked>>

\* Mutant of SnapshotAt: the read is outside the transaction.
SnapshotOutside == -1

\* The point at which a transaction took its snapshot, at its first statement.
SnapshotAt == IF setup.bound THEN Len(history) ELSE -1

\* The read of the trail's before hook.
Before(c) ==
  /\ work[c].stage = "before"
  /\ work' = [work EXCEPT ![c].stage = "write", ![c].prev = doc, ![c].begun = SnapshotAt]
  /\ UNCHANGED <<setup, doc, feed, trail, writer, loose, holding, started, history, acked>>

\* Another transaction has written the document, or did since the snapshot.
Conflicting(c) ==
  /\ setup.bound
  /\ writer # None \/ (work[c].begun # -1 /\ work[c].begun # Len(history))

\* The driver runs the callback of the transaction again.
Conflict(c) ==
  /\ work[c].stage = "write" /\ Conflicting(c)
  /\ work' = [work EXCEPT ![c] = Begin(work[c].verb, work[c].by)]
  /\ UNCHANGED <<setup, doc, feed, trail, writer, loose, holding, started, history, acked>>

\* c's statement turns the document into n; its transaction commits that later.
Apply(c, n, next) ==
  LET change == [verb |-> work[c].verb, from |-> doc, to |-> n]
  IN  /\ work' = [work EXCEPT ![c].stage = next, ![c].made = <<change>>]
      /\ IF setup.bound
         THEN writer' = c /\ UNCHANGED <<doc, history>>
         ELSE doc' = n /\ history' = Append(history, change) /\ UNCHANGED writer

Write(c) ==
  /\ work[c].stage = "write" /\ work[c].verb \notin Upserts
  /\ ~Conflicting(c)
  /\ IF Matches(c)
     THEN Apply(c, Written(c), "log")
     ELSE \* nothing to write is a result, a taken key an error
          /\ work' = [work EXCEPT ![c] = IF @.verb = "create" THEN Idle ELSE [@ EXCEPT !.stage = "log"]]
          /\ UNCHANGED <<doc, writer, history>>
  /\ UNCHANGED <<setup, feed, trail, loose, holding, started, acked>>

\* An upsert looks for the document, then inserts it under its unique key.
Upsert(c) ==
  /\ work[c].stage = "write" /\ work[c].verb \in Upserts
  /\ IF doc # Absent
     THEN Apply(c, Written(c), "return")
     ELSE work' = [work EXCEPT ![c].stage = "insert"] /\ UNCHANGED <<doc, writer, history>>
  /\ UNCHANGED <<setup, feed, trail, loose, holding, started, acked>>

UpsertInserts(c) ==
  /\ work[c].stage = "insert" /\ doc = Absent
  /\ Apply(c, Inserted(c), "return")
  /\ UNCHANGED <<setup, feed, trail, loose, holding, started, acked>>

\* Mutant of AfterCollision: the loser of the race is told it is done.
CollisionIsDone(c) == {"return"}

\* The usage store repeats its upsert; getOrCreate rejects, unless the server
\* has repeated it.
AfterCollision(c) == IF work[c].verb = "usage" THEN {"write"} ELSE {"write", "idle"}

UpsertCollides(c) ==
  /\ work[c].stage = "insert" /\ doc # Absent
  /\ \E next \in AfterCollision(c) : work' = [work EXCEPT ![c].stage = next]
  /\ UNCHANGED <<setup, doc, feed, trail, writer, loose, holding, started, history, acked>>

-----------------------------------------------------------------------------
(* After the write                                                          *)

\* Mutant of Images: the hook runs for a verb's result, whether or not it is null.
ImagesOfAll(c) == IF work[c].verb \in Captured THEN <<work[c].by>> ELSE <<>>

\* The document after a captured write; a deletion leaves a tombstone.
Images(c) ==
  IF work[c].verb \in Captured THEN [i \in DOMAIN work[c].made |-> work[c].made[i].to] ELSE <<>>

\* Mutant of Joins: the session is not passed on.
JoinsNothing == FALSE

\* The entry of the change log is part of the transaction.
Joins == setup.bound

Log(c) ==
  /\ work[c].stage = "log"
  /\ IF Joins
     THEN work' = [work EXCEPT ![c].stage = "audit", ![c].image = Images(c)] /\ UNCHANGED feed
     ELSE work' = [work EXCEPT ![c].stage = "audit"] /\ feed' = feed \o Images(c)
  /\ UNCHANGED <<setup, doc, trail, writer, loose, holding, started, history, acked>>

\* The differences of a patch.  An operator is no field of the document: its
\* entry has no values.
Diff(c) ==
  IF work[c].verb = "update" /\ work[c].prev \notin {Absent, work[c].by}
  THEN [verb |-> "update", from |-> work[c].prev, to |-> work[c].by]
  ELSE [verb |-> work[c].verb, from |-> NoDiff, to |-> NoDiff]

\* findOneAndUpdate is not among the operations audited by default; updates and
\* deletions are audited whatever their result.
Entries(c) == IF work[c].verb = "take" THEN <<>> ELSE <<Diff(c)>>

\* Mutant of Awaited: the entry is written in the background.
NotAwaited == FALSE

Awaited == setup.audit = "transactional"

Audit(c) ==
  /\ work[c].stage = "audit"
  /\ work' = [work EXCEPT ![c].stage = "return",
                          ![c].entry = IF Awaited /\ setup.bound THEN Entries(c) ELSE <<>>]
  /\ trail' = IF Awaited /\ ~setup.bound THEN trail \o Entries(c) ELSE trail
  /\ loose' = IF Awaited THEN loose ELSE [loose EXCEPT ![c] = @ \o Entries(c)]
  /\ UNCHANGED <<setup, doc, feed, writer, holding, started, history, acked>>

\* A best-effort entry reaches the collection, or is lost.
Deliver(c) ==
  /\ loose[c] # <<>>
  /\ loose' = [loose EXCEPT ![c] = Tail(@)]
  /\ trail' \in {trail, Append(trail, Head(loose[c]))}
  /\ UNCHANGED <<setup, doc, feed, work, writer, holding, started, history, acked>>

\* The call returns; its transaction, if it has one, commits first.
Return(c) ==
  /\ work[c].stage = "return"
  /\ acked' = Append(acked, [verb |-> work[c].verb, by |-> work[c].by, made |-> work[c].made])
  /\ work' = [work EXCEPT ![c] = Idle]
  /\ holding' = IF work[c].verb = "take" /\ work[c].made # <<>> THEN holding \cup {c} ELSE holding
  /\ feed'  = feed \o work[c].image
  /\ trail' = trail \o work[c].entry
  /\ IF setup.bound /\ work[c].made # <<>>
     THEN doc' = work[c].made[1].to /\ history' = history \o work[c].made /\ writer' = None
     ELSE UNCHANGED <<doc, history, writer>>
  /\ UNCHANGED <<setup, loose, started>>

\* c's open transaction is rolled back.
RolledBack(c) == writer' = IF writer = c THEN None ELSE writer

\* A hook or the network fails: the call rejects, whatever it has done.
Reject(c) ==
  /\ work[c].stage \in {"write", "insert", "log", "audit", "return"}
  /\ work' = [work EXCEPT ![c] = Idle]
  /\ RolledBack(c)
  /\ UNCHANGED <<setup, doc, feed, trail, loose, holding, started, history, acked>>

Crash(c) ==
  /\ work[c].stage # "dead"
  /\ work' = [work EXCEPT ![c] = [Idle EXCEPT !.stage = "dead"]]
  /\ RolledBack(c)
  /\ loose' = [loose EXCEPT ![c] = <<>>]
  /\ holding' = holding \ {c}
  /\ UNCHANGED <<setup, doc, feed, trail, started, history, acked>>

Next ==
  \E c \in Callers :
     \/ Call(c) \/ Before(c) \/ Conflict(c) \/ Write(c)
     \/ Upsert(c) \/ UpsertInserts(c) \/ UpsertCollides(c)
     \/ Log(c) \/ Audit(c) \/ Deliver(c) \/ Return(c) \/ Reject(c) \/ Crash(c)

Spec == Init /\ [][Next]_vars

-----------------------------------------------------------------------------
(* Properties                                                               *)

\* A replica that applies the change log in its order holds the document, when
\* the captured verbs run in transactions: the store persists the entry with the
\* business write (change-log.plugin.ts, header).  The captured verbs are those the code
\* captures, the operators among them, and not those the header says.
ReplicaIsCurrent ==
  setup.bound => doc = IF feed = <<>> THEN 0 ELSE Last(feed)

\* The entries of s that say what an update changed, in their order.
IsUpdate(x) == x.verb = "update" /\ x.from # NoDiff /\ x.from # x.to

Updates(s) ==
  LET upTo[i \in 0 .. Len(s)] ==
        IF i = 0 THEN <<>> ELSE IF IsUpdate(s[i]) THEN Append(upTo[i - 1], s[i]) ELSE upTo[i - 1]
  IN  upTo[Len(s)]

\* In transactional mode, and in transactions, the before and after values of the
\* audit trail are those of the committed updates, one entry each, in their order.
AuditIsExact ==
  setup.bound /\ setup.audit = "transactional" => Updates(trail) = Updates(history)

Times(n, s) == Cardinality({i \in DOMAIN s : s[i] = n})

Values == [i \in DOMAIN history |-> history[i].to]

\* The answers to a captured call that wrote, and those of them that wrote n.
Announced == {i \in DOMAIN acked : acked[i].verb \in Captured /\ acked[i].made # <<>>}
AnnouncedAs(n) == {i \in Announced : acked[i].made[1].to = n}

\* Also without a transaction: a captured write whose call has returned is in the
\* change log, and nothing is in it that no write has made, whichever calls
\* failed between their write and their hooks.  Captured is meant as in the code: the
\* operators are, against the plugin's header.
FeedMatchesWrites ==
  \A n \in {acked[i].made[1].to : i \in Announced} \cup ToSet(feed) :
     Cardinality(AnnouncedAs(n)) <= Times(n, feed) /\ Times(n, feed) <= Times(n, Values)

\* In transactional mode a call does not return success unless its audit entry
\* landed (audit-trail.plugin.ts, AuditTrailMode).
AckedIsAudited ==
  setup.audit = "transactional" =>
    \A v \in Captured :
       Cardinality({i \in DOMAIN acked : acked[i].verb = v})
         <= Cardinality({i \in DOMAIN trail : trail[i].verb = v})

\* The verbs that may leave a smaller number than they found, besides give.
Lowering == {"update", "setField", "setMin", "delete"}

\* Every usage increment that was acknowledged, one unit of it at a time.
Acknowledged ==
  UNION {{i} \X (1 .. acked[i].by) : i \in {j \in DOMAIN acked : acked[j].verb = "usage"}}

\* The counters hold what their callers were told.  A quota that nothing else lowers:
\* at most Ceiling callers hold a slot taken with incrementIfBelow and given back with
\* decrement, whichever calls and callers fail.  A usage counter: every increment that
\* was acknowledged is counted, also when two callers insert the cell at once.
CountersAreRight ==
  /\ setup.verbs \cap Lowering = {} => Cardinality(holding) <= Ceiling
  /\ setup.verbs \subseteq Upserts =>
       Cardinality(Acknowledged) <= IF doc = Absent THEN 0 ELSE doc
=============================================================================
