-------------------------- MODULE BatchTransaction --------------------------
(***************************************************************************)
(* withTransaction and batchTransaction: callers that run a callback over  *)
(* session-bound repositories, inside a MongoDB transaction that the       *)
(* driver retries, or without one on a standalone server                   *)
(* (allowFallback).  The callback creates an invoice, numbered by          *)
(* customIdPlugin from a counter document, and reserves or updates stock   *)
(* documents.                                                              *)
(*                                                                         *)
(* The proxy passes the session to a method only when the method is in     *)
(* SESSION_OPTIONS_INDEX; any other method acts outside the transaction.   *)
(***************************************************************************)
EXTENDS Integers, Sequences, FiniteSets

CONSTANTS
  Callers,        \* one batch each; the invoice of a caller is named by it
  Stock, Counter, \* the other documents
  Nobody,
  Script,         \* Script[p]: the callback of p, [method, doc] steps
  Deployments,    \* whether the server is a standalone one, without transactions
  AllowFallback,  \* the callers whose options.allowFallback is set
  FreshData       \* the callback builds its data anew on every run

Docs == Callers \cup Stock \cup {Counter}

Methods == {"create", "getOrCreate", "findOneAndUpdate", "update", "upsert",
            "claim", "claimVersion", "applyTransition", "incrementIfBelow", "lease"}

ASSUME BatchAssumption ==
  /\ Counter \notin Callers \cup Stock
  /\ Stock \cap Callers = {}
  /\ Nobody \notin Callers
  /\ Script \in [Callers -> Seq([method : Methods, doc : Docs \ {Counter}])]
  /\ \A p \in Callers : \A i \in DOMAIN Script[p] :
       IF Script[p][i].method = "create" THEN Script[p][i].doc = p
       ELSE Script[p][i].doc \in Stock
  /\ AllowFallback \subseteq Callers
  /\ Deployments \subseteq BOOLEAN /\ FreshData \in BOOLEAN

VARIABLES
  standalone, \* the deployment: it does not change
  db,     \* the committed documents
  pc,     \* idle, running, done (the batch resolved) or failed (it threw)
  mode,   \* closed: no statement sent yet; tx: in a transaction; plain: fallback
  step,   \* the statement of the callback that comes next
  data,   \* the number stamped into the caller's data; 0 when it has none
  view,   \* the transaction's snapshot with its own writes
  dirty,  \* the documents the transaction has written (and locked)
  stale   \* the documents others have changed since its snapshot

vars == <<standalone, db, pc, mode, step, data, view, dirty, stale>>

\* For the counter n is its seq, for an invoice its number, for stock the
\* number of writes; by is who wrote the document.
Document == [n : Nat, by : Callers \cup {Nobody}]

Empty == [d \in Docs |-> [n |-> 0, by |-> Nobody]]

TypeOK ==
  /\ standalone \in BOOLEAN
  /\ db \in [Docs -> Document]
  /\ pc \in [Callers -> {"idle", "running", "done", "failed"}]
  /\ mode \in [Callers -> {"closed", "tx", "plain"}]
  /\ step \in [Callers -> Nat]
  /\ data \in [Callers -> Nat]
  /\ view \in [Callers -> [Docs -> Document]]
  /\ dirty \in [Callers -> SUBSET Docs]
  /\ stale \in [Callers -> SUBSET Docs]

Init ==
  /\ standalone \in Deployments
  /\ db = Empty
  /\ pc = [p \in Callers |-> "idle"]
  /\ mode = [p \in Callers |-> "closed"]
  /\ step = [p \in Callers |-> 1]
  /\ data = [p \in Callers |-> 0]
  /\ view = [p \in Callers |-> Empty]
  /\ dirty = [p \in Callers |-> {}]
  /\ stale = [p \in Callers |-> {}]

-----------------------------------------------------------------------------
(* What the proxy does with a call                                          *)

\* Mutant of SessionMethods: a method is missing from the table.
SessionMethodsNoUpdate == {"create", "getOrCreate", "findOneAndUpdate", "upsert"}

\* SESSION_OPTIONS_INDEX, as far as the scripts use it.
SessionMethods == {"create", "getOrCreate", "findOneAndUpdate", "update", "upsert"}

Current(p) == Script[p][step[p]]

HasNext(p) == pc[p] = "running" /\ step[p] \in DOMAIN Script[p]

Bound(p) == Current(p).method \in SessionMethods

\* The statement is sent in the transaction, or on its own.
InTransaction(p) == HasNext(p) /\ Bound(p) /\ mode[p] = "tx"
OnItsOwn(p) == HasNext(p) /\ (~Bound(p) \/ mode[p] = "plain")

-----------------------------------------------------------------------------
(* The transaction                                                          *)

Begin(p) ==
  /\ pc[p] = "idle"
  /\ pc' = [pc EXCEPT ![p] = "running"]
  /\ UNCHANGED <<db, mode, step, data, view, dirty, stale>>

\* The first statement with the session opens the snapshot.
OpenTransaction(p) ==
  /\ HasNext(p) /\ Bound(p) /\ mode[p] = "closed"
  /\ ~standalone
  /\ mode' = [mode EXCEPT ![p] = "tx"]
  /\ view' = [view EXCEPT ![p] = db]
  /\ UNCHANGED <<db, pc, step, data, dirty, stale>>

\* Nothing of the attempt is kept but the caller's data object.
Rewind(p) ==
  /\ step' = [step EXCEPT ![p] = 1]
  /\ data' = IF FreshData THEN [data EXCEPT ![p] = 0] ELSE data
  /\ view' = [view EXCEPT ![p] = Empty]
  /\ dirty' = [dirty EXCEPT ![p] = {}]
  /\ stale' = [stale EXCEPT ![p] = {}]

\* A standalone server rejects the first statement with the session: the
\* callback runs again on its own, or the batch throws.
FallBack(p) ==
  /\ HasNext(p) /\ Bound(p) /\ mode[p] = "closed"
  /\ standalone /\ p \in AllowFallback
  /\ mode' = [mode EXCEPT ![p] = "plain"]
  /\ Rewind(p)
  /\ UNCHANGED <<db, pc>>

Unsupported(p) ==
  /\ HasNext(p) /\ Bound(p) /\ mode[p] = "closed"
  /\ standalone /\ p \notin AllowFallback
  /\ pc' = [pc EXCEPT ![p] = "failed"]
  /\ UNCHANGED <<db, mode, step, data, view, dirty, stale>>

\* An error labelled TransientTransactionError, which _handleError passes on
\* unwrapped: a write conflict, a failover, an expired transaction.  The driver
\* aborts and runs the callback again.
TransientAbort(p) ==
  /\ pc[p] = "running" /\ mode[p] = "tx"
  /\ mode' = [mode EXCEPT ![p] = "closed"]
  /\ Rewind(p)
  /\ UNCHANGED <<db, pc>>

\* The callback throws an error of its own, the driver gives up, or the process
\* stops: the transaction is aborted.
Abort(p) ==
  /\ pc[p] = "running"
  /\ pc' = [pc EXCEPT ![p] = "failed"]
  /\ mode' = [mode EXCEPT ![p] = "closed"]
  /\ Rewind(p)
  /\ UNCHANGED db

\* The documents ds changed: snapshots that are open are stale there.
Changed(p, ds) ==
  stale' = [q \in Callers |-> IF q # p /\ mode[q] = "tx" THEN stale[q] \cup ds
                              ELSE stale[q]]

\* The callback returned; the driver commits (and repeats a commit whose result
\* it does not know, which has no further effect).
Commit(p) ==
  /\ pc[p] = "running" /\ step[p] = Len(Script[p]) + 1
  /\ pc' = [pc EXCEPT ![p] = "done"]
  /\ db' = [d \in Docs |-> IF d \in dirty[p] THEN view[p][d] ELSE db[d]]
  /\ mode' = [mode EXCEPT ![p] = "closed"]
  /\ dirty' = [dirty EXCEPT ![p] = {}]
  /\ Changed(p, dirty[p])
  /\ UNCHANGED <<step, data, view>>

-----------------------------------------------------------------------------
(* The statements                                                           *)

\* A write in the transaction conflicts (and aborts it) when another
\* transaction holds the document or it changed since the snapshot.
Writable(p, d) == d \notin stale[p] /\ \A q \in Callers \ {p} : d \notin dirty[q]

WriteInside(p, d, doc) ==
  /\ Writable(p, d)
  /\ view' = [view EXCEPT ![p][d] = doc]
  /\ dirty' = [dirty EXCEPT ![p] = @ \cup {d}]
  /\ UNCHANGED <<db, stale>>

\* A write on its own waits while any transaction holds the document.
WriteOutside(p, d, doc) ==
  /\ \A q \in Callers : d \notin dirty[q]
  /\ db' = [db EXCEPT ![d] = doc]
  /\ stale' = [q \in Callers |-> IF mode[q] = "tx" THEN stale[q] \cup {d} ELSE stale[q]]
  /\ UNCHANGED <<view, dirty>>

Write(p, d, doc) ==
  \/ InTransaction(p) /\ WriteInside(p, d, doc)
  \/ OnItsOwn(p) /\ WriteOutside(p, d, doc)

Seen(p) == IF InTransaction(p) THEN view[p] ELSE db

Creating(p) == HasNext(p) /\ Current(p).method = "create" /\ mode[p] # "closed"

\* generateOnlyIfEmpty.
NeedsNumber(p) == data[p] = 0

\* Mutant of Bump: counting the invoices instead of a counter.
BumpByCounting(p) ==
  /\ data' = [data EXCEPT ![p] = Cardinality({q \in Callers : Seen(p)[q].n > 0}) + 1]
  /\ UNCHANGED <<db, view, dirty, stale>>

\* Mutant of Bump: the counter is incremented without the session of the call.
BumpOutside(p) ==
  /\ WriteOutside(p, Counter, [n |-> db[Counter].n + 1, by |-> p])
  /\ data' = [data EXCEPT ![p] = db[Counter].n + 1]

\* getNextSequence: $inc the counter with the session of the call; the number is
\* stamped into the caller's data.
Bump(p) ==
  /\ Write(p, Counter, [n |-> Seen(p)[Counter].n + 1, by |-> p])
  /\ data' = [data EXCEPT ![p] = Seen(p)[Counter].n + 1]

\* The before:create hook of customIdPlugin.
GenerateId(p) ==
  /\ Creating(p) /\ NeedsNumber(p)
  /\ Bump(p)
  /\ UNCHANGED <<pc, mode, step>>

\* create: insert the document with the number of the data.
Create(p) ==
  /\ Creating(p) /\ ~NeedsNumber(p)
  /\ Write(p, p, [n |-> data[p], by |-> p])
  /\ step' = [step EXCEPT ![p] = @ + 1]
  /\ UNCHANGED <<pc, mode, data>>

Reserving(p) == HasNext(p) /\ Current(p).method # "create"
                /\ (mode[p] # "closed" \/ ~Bound(p))

Held(p) == Seen(p)[Current(p).doc]

\* A conditional write (claim, findOneAndUpdate, update by a pinned filter ...)
\* that matches: the stock is free or the caller's own.
Reserve(p) ==
  /\ Reserving(p) /\ Held(p).by \in {Nobody, p}
  /\ Write(p, Current(p).doc, [n |-> step[p], by |-> p])
  /\ step' = [step EXCEPT ![p] = @ + 1]
  /\ UNCHANGED <<pc, mode, data>>

Next ==
  /\ UNCHANGED standalone
  /\ \E p \in Callers :
       \/ Begin(p) \/ OpenTransaction(p) \/ FallBack(p) \/ Unsupported(p)
       \/ TransientAbort(p) \/ Abort(p) \/ Commit(p)
       \/ GenerateId(p) \/ Create(p) \/ Reserve(p)

Spec == Init /\ [][Next]_vars

-----------------------------------------------------------------------------
(* Properties                                                               *)

Effects(p) == {d \in Docs \ {Counter} : db[d].by = p}

Everything(p) == {Script[p][i].doc : i \in DOMAIN Script[p]}

Settled ==
  \A p \in Callers : Effects(p) = IF pc[p] = "done" THEN Everything(p) ELSE {}

\* With transactions a batch is atomic and isolated: all its documents are there
\* once it resolved, and none before, or after it threw, whatever attempts were
\* aborted on the way (batchTransaction over the tx-bound proxy).
AllOrNothing == ~standalone => Settled

\* No two invoices have the same number (customIdPlugin: `guaranteeing no
\* duplicate IDs under concurrency`).  With transactions this is a promise to callbacks
\* that build their data anew (FreshData): a data object that outlives its first run, as
\* in transaction.ts:101, keeps a number whose increment was rolled back.
NoDuplicateIds ==
  \A p, q \in Callers : db[p].by = p /\ db[q].by = q /\ db[p].n = db[q].n => p = q

\* In transactions the counter advances with the invoices and only with them:
\* an aborted attempt leaves no gap.
NoGaps ==
  ~standalone => db[Counter].n = Cardinality({p \in Callers : db[p].by = p})

\* When the callback runs again without a transaction, nothing of the run that
\* the server rejected is left behind.
FallBackIsClean == [][\A p \in Callers : FallBack(p) => Effects(p) = {}]_vars
=============================================================================
