----------------------- MODULE BatchTransactionProofs -----------------------
(***************************************************************************)
(* Atomicity and serial effects of the batches, and distinct invoice       *)
(* numbers, for every set of callers and every script.                     *)
(***************************************************************************)
EXTENDS BatchSerial, FiniteSetTheorems, TLAPS

LEMMA ScriptSteps ==
  ASSUME NEW p \in Callers, NEW i \in DOMAIN Script[p]
  PROVE  /\ Script[p][i].doc \in Docs \ {Counter}
         /\ Script[p][i].method = "create" => Script[p][i].doc = p
         /\ Script[p][i].method # "create" => Script[p][i].doc \in Stock
  BY BatchAssumption DEF Docs

LEMMA CallerIsDoc == \A p \in Callers : p \in Docs /\ p # Counter /\ p # Nobody /\ Counter \in Docs
  BY BatchAssumption DEF Docs

\* A write keeps the types, in the transaction or on its own.
LEMMA WriteTyped ==
  ASSUME TypeOK, NEW p \in Callers, NEW d \in Docs, NEW doc \in Document,
         Write(p, d, doc)
  PROVE  /\ db' \in [Docs -> Document]
         /\ view' \in [Callers -> [Docs -> Document]]
         /\ dirty' \in [Callers -> SUBSET Docs]
         /\ stale' \in [Callers -> SUBSET Docs]
<1>1. CASE WriteInside(p, d, doc)
  <2>1. view' = [view EXCEPT ![p] = [view[p] EXCEPT ![d] = doc]]
    BY <1>1 DEF WriteInside
  <2> QED
    BY <1>1, <2>1 DEF WriteInside, TypeOK
<1>2. CASE WriteOutside(p, d, doc)
  BY <1>2 DEF WriteOutside, TypeOK
<1> QED
  BY <1>1, <1>2 DEF Write

LEMMA EmptyTyped == Empty \in [Docs -> Document]
  BY DEF Empty, Document

LEMMA RewindTyped ==
  ASSUME TypeOK, NEW p \in Callers, Rewind(p)
  PROVE  /\ step' \in [Callers -> Nat]
         /\ data' \in [Callers -> Nat]
         /\ view' \in [Callers -> [Docs -> Document]]
         /\ dirty' \in [Callers -> SUBSET Docs]
         /\ stale' \in [Callers -> SUBSET Docs]
  BY EmptyTyped DEF Rewind, TypeOK

LEMMA SeenTyped ==
  ASSUME TypeOK, NEW p \in Callers, NEW d \in Docs
  PROVE  Seen(p)[d] \in Document
  BY DEF TypeOK, Seen

LEMMA InitTyped == Init => TypeOK
<1> SUFFICES ASSUME Init PROVE TypeOK
  OBVIOUS
<1>1. standalone \in BOOLEAN
  BY BatchAssumption DEF Init
<1> QED
  BY <1>1, EmptyTyped DEF Init, TypeOK

\* Every variable keeps its type.
THEOREM TypeCorrect == Spec => []TypeOK
<1>1. Init => TypeOK
  BY InitTyped
<1>2. TypeOK /\ [Next]_vars => TypeOK'
  <2> SUFFICES ASSUME TypeOK, [Next]_vars PROVE TypeOK'
    OBVIOUS
  <2>0. standalone' \in BOOLEAN
    BY DEF Next, vars, TypeOK
  <2>1. ASSUME NEW p \in Callers, Begin(p) \/ OpenTransaction(p) \/ Unsupported(p)
        PROVE  TypeOK'
    <3>1. CASE Begin(p)
      BY <2>0, <3>1 DEF Begin, TypeOK
    <3>2. CASE OpenTransaction(p)
      BY <2>0, <3>2 DEF OpenTransaction, TypeOK
    <3>3. CASE Unsupported(p)
      BY <2>0, <3>3 DEF Unsupported, TypeOK
    <3> QED
      BY <2>1, <3>1, <3>2, <3>3
  <2>2. ASSUME NEW p \in Callers, FallBack(p) \/ TransientAbort(p) \/ Abort(p)
        PROVE  TypeOK'
    BY <2>0, <2>2, RewindTyped DEF FallBack, TransientAbort, Abort, TypeOK
  <2>3. ASSUME NEW p \in Callers, Commit(p) PROVE TypeOK'
    BY <2>0, <2>3 DEF Commit, Changed, TypeOK
  <2>4. ASSUME NEW p \in Callers, GenerateId(p) PROVE TypeOK'
    <3>1. [n |-> Seen(p)[Counter].n + 1, by |-> p] \in Document
      BY SeenTyped, CallerIsDoc DEF Document
    <3>2. Seen(p)[Counter].n + 1 \in Nat
      BY <3>1 DEF Document
    <3> QED
      BY <2>0, <2>4, <3>1, <3>2, WriteTyped, CallerIsDoc DEF GenerateId, Bump, TypeOK
  <2>5. ASSUME NEW p \in Callers, Create(p) PROVE TypeOK'
    <3>1. [n |-> data[p], by |-> p] \in Document
      BY DEF TypeOK, Document
    <3> QED
      BY <2>0, <2>5, <3>1, WriteTyped, CallerIsDoc DEF Create, TypeOK
  <2>6. ASSUME NEW p \in Callers, Reserve(p) PROVE TypeOK'
    <3>1. [n |-> step[p], by |-> p] \in Document
      BY DEF TypeOK, Document
    <3>2. Current(p).doc \in Docs
      BY <2>6, ScriptSteps DEF Reserve, Reserving, HasNext, Current
    <3> QED
      BY <2>0, <2>6, <3>1, <3>2, WriteTyped DEF Reserve, TypeOK
  <2>7. CASE UNCHANGED vars
    BY <2>7 DEF vars, TypeOK
  <2> QED
    BY <2>1, <2>2, <2>3, <2>4, <2>5, <2>6, <2>7 DEF Next
<1> QED
  BY <1>1, <1>2, PTL DEF Spec

-----------------------------------------------------------------------------
(***************************************************************************)
(* Atomicity.  It holds of the batches the proxy can make atomic: a server *)
(* with transactions, and scripts of methods in SESSION_OPTIONS_INDEX.     *)
(* Then every write is a write in the transaction and what has to be       *)
(* strengthened is the transaction's state: a snapshot that is right       *)
(* except where it is marked stale, locks that exclude each other, and a   *)
(* write set that holds exactly the documents of the statements made so    *)
(* far.                                                                    *)
(***************************************************************************)

Bindable ==
  \A p \in Callers : \A i \in DOMAIN Script[p] : Script[p][i].method \in SessionMethods

Transactional == ~standalone /\ Bindable

Modes ==
  \A p \in Callers :
    /\ mode[p] \in {"closed", "tx"}
    /\ mode[p] = "tx" => pc[p] = "running"
    /\ mode[p] = "closed" => dirty[p] = {}
    /\ mode[p] = "closed" /\ pc[p] # "done" => step[p] = 1

Snapshots ==
  \A p \in Callers : mode[p] = "tx" =>
    \A d \in Docs : d \notin dirty[p] \cup stale[p] => view[p][d] = db[d]

Locks ==
  \A p, q \in Callers : p # q => dirty[p] \cap dirty[q] = {}

\* The documents of p's first k - 1 statements.
Written(p, k) == {Script[p][i].doc : i \in 1 .. (k - 1)}

WriteSets ==
  \A p \in Callers : mode[p] = "tx" =>
    /\ step[p] \in 1 .. (Len(Script[p]) + 1)
    /\ dirty[p] \ {Counter} = Written(p, step[p])
    /\ \A d \in dirty[p] : view[p][d].by = p
    /\ \A d \in dirty[p] \ {Counter} : db[d].by \in {Nobody, p}

BatchInv == TypeOK /\ Modes /\ Snapshots /\ Locks /\ WriteSets /\ Settled

LEMMA EverythingWritten ==
  ASSUME BatchInv, NEW p \in Callers, mode[p] = "tx", step[p] = Len(Script[p]) + 1
  PROVE  dirty[p] \ {Counter} = Everything(p)
<1>1. DOMAIN Script[p] = 1 .. Len(Script[p]) /\ Len(Script[p]) \in Nat
  BY BatchAssumption
<1>2. step[p] - 1 = Len(Script[p])
  BY <1>1
<1> QED
  BY <1>1, <1>2 DEF BatchInv, WriteSets, Written, Everything

LEMMA OnlyInside ==
  ASSUME BatchInv, Transactional, NEW p \in Callers, NEW d, NEW doc, Write(p, d, doc)
  PROVE  InTransaction(p) /\ WriteInside(p, d, doc)
<1>1. HasNext(p) => Bound(p)
  BY DEF HasNext, Bound, Current, Transactional, Bindable
<1> QED
  BY <1>1 DEF Write, OnItsOwn, BatchInv, Modes

\* Nobody else's batch creates p's invoice.
LEMMA InvoiceIsOwn ==
  ASSUME BatchInv, NEW p \in Callers
  PROVE  db[p].by \in {Nobody, p}
<1> SUFFICES ASSUME NEW q \in Callers, db[p].by = q PROVE q = p
  BY CallerIsDoc DEF BatchInv, TypeOK, Document
<1>1. p \in Everything(q)
  BY CallerIsDoc DEF BatchInv, Settled, Effects
<1>2. PICK i \in DOMAIN Script[q] : p = Script[q][i].doc
  BY <1>1 DEF Everything
<1> QED
  BY <1>2, ScriptSteps, BatchAssumption

\* A write in the transaction: of the counter, or of the current statement.
LEMMA WriteKeeps ==
  ASSUME BatchInv, TypeOK', Transactional,
         NEW p \in Callers, NEW d \in Docs, NEW doc \in Document,
         Write(p, d, doc), doc.by = p,
         d # Counter => db[d].by \in {Nobody, p},
         UNCHANGED <<pc, mode>>,
         \A q \in Callers \ {p} : data'[q] = data[q],
         \/ d = Counter /\ UNCHANGED step
         \/ d = Current(p).doc /\ d # Counter /\ step' = [step EXCEPT ![p] = @ + 1]
  PROVE  BatchInv'
<1>1. InTransaction(p) /\ WriteInside(p, d, doc)
  BY OnlyInside
<1>2. mode[p] = "tx" /\ step[p] \in 1 .. Len(Script[p]) /\ Len(Script[p]) \in Nat
  BY <1>1, BatchAssumption DEF InTransaction, HasNext
<1>3. /\ db' = db /\ stale' = stale
      /\ view' = [view EXCEPT ![p] = [view[p] EXCEPT ![d] = doc]]
      /\ dirty' = [dirty EXCEPT ![p] = dirty[p] \cup {d}]
      /\ \A q \in Callers \ {p} : d \notin dirty[q]
  BY <1>1 DEF WriteInside, Writable
<1>4. Modes'
  BY <1>2, <1>3 DEF BatchInv, Modes, TypeOK
<1>5. Snapshots'
  BY <1>3 DEF BatchInv, Snapshots, TypeOK
<1>6. Locks'
  BY <1>3 DEF BatchInv, Locks, TypeOK
<1>7. WriteSets'
  <2> SUFFICES ASSUME NEW q \in Callers, mode[q] = "tx" PROVE
        /\ step'[q] \in 1 .. (Len(Script[q]) + 1)
        /\ dirty'[q] \ {Counter} = Written(q, step'[q])
        /\ \A e \in dirty'[q] : view'[q][e].by = q
        /\ \A e \in dirty'[q] \ {Counter} : db'[e].by \in {Nobody, q}
    BY DEF WriteSets
  <2>1. CASE q # p
    BY <1>3, <2>1 DEF BatchInv, WriteSets, TypeOK
  <2>2. CASE q = p
    <3>1. dirty'[p] = dirty[p] \cup {d} /\ view'[p] = [view[p] EXCEPT ![d] = doc]
      BY <1>3 DEF BatchInv, TypeOK
    <3>2. view[p] \in [Docs -> Document] /\ dirty[p] \subseteq Docs
      BY DEF BatchInv, TypeOK
    <3>3. CASE d = Counter /\ UNCHANGED step
      BY <1>2, <1>3, <2>2, <3>1, <3>2, <3>3 DEF BatchInv, WriteSets
    <3>4. CASE d = Current(p).doc /\ d # Counter /\ step' = [step EXCEPT ![p] = @ + 1]
      <4>1. step'[p] = step[p] + 1 /\ d = Script[p][step[p]].doc
        BY <3>4 DEF Current, BatchInv, TypeOK
      <4>2. 1 .. (step'[p] - 1) = (1 .. (step[p] - 1)) \cup {step[p]}
        BY <1>2, <4>1
      <4>3. Written(p, step'[p]) = Written(p, step[p]) \cup {d}
        BY <4>1, <4>2 DEF Written
      <4>4. dirty'[p] \ {Counter} = (dirty[p] \ {Counter}) \cup {d}
        BY <3>1, <3>4
      <4>5. dirty'[p] \ {Counter} = Written(p, step'[p])
        BY <1>2, <4>3, <4>4 DEF BatchInv, WriteSets
      <4>6. step'[p] \in 1 .. (Len(Script[p]) + 1)
        BY <1>2, <4>1
      <4>7. \A e \in dirty'[p] : view'[p][e].by = p
        BY <1>2, <3>1, <3>2 DEF BatchInv, WriteSets
      <4>8. \A e \in dirty'[p] \ {Counter} : db'[e].by \in {Nobody, p}
        BY <1>2, <1>3, <3>1 DEF BatchInv, WriteSets
      <4> QED
        BY <2>2, <4>5, <4>6, <4>7, <4>8
    <3> QED
      BY <3>3, <3>4
  <2> QED
    BY <2>1, <2>2
<1>8. Settled'
  BY <1>3 DEF BatchInv, Settled, Effects, Everything
<1> QED
  BY <1>4, <1>5, <1>6, <1>7, <1>8 DEF BatchInv

\* Dropping a transaction that has written nothing to the database.
LEMMA RewindKeeps ==
  ASSUME BatchInv, TypeOK', Transactional, NEW p \in Callers,
         pc[p] = "running", pc' = [pc EXCEPT ![p] = pc'[p]], pc'[p] \in {"running", "failed"},
         mode' = [mode EXCEPT ![p] = "closed"], Rewind(p), UNCHANGED db
  PROVE  BatchInv'
<1> USE DEF BatchInv
<1>1. Modes'
  BY DEF Modes, Rewind, TypeOK
<1>2. Snapshots'
  BY DEF Snapshots, Rewind, TypeOK
<1>3. Locks'
  BY DEF Locks, Rewind, TypeOK
<1>4. WriteSets'
  BY DEF WriteSets, Rewind, TypeOK
<1>5. Settled'
  BY DEF Settled, Effects, Everything, TypeOK
<1> QED
  BY <1>1, <1>2, <1>3, <1>4, <1>5

LEMMA CommitKeeps ==
  ASSUME BatchInv, TypeOK', Transactional, NEW p \in Callers, Commit(p)
  PROVE  BatchInv'
<1> USE DEF BatchInv
<1>1. /\ pc[p] = "running" /\ pc' = [pc EXCEPT ![p] = "done"]
      /\ mode' = [mode EXCEPT ![p] = "closed"] /\ dirty' = [dirty EXCEPT ![p] = {}]
      /\ db' = [d \in Docs |-> IF d \in dirty[p] THEN view[p][d] ELSE db[d]]
      /\ stale' = [q \in Callers |-> IF q # p /\ mode[q] = "tx" THEN stale[q] \cup dirty[p]
                                     ELSE stale[q]]
      /\ UNCHANGED <<step, data, view>>
  BY DEF Commit, Changed
<1>2. Modes'
  BY <1>1 DEF Modes, TypeOK
<1>3. Snapshots'
  BY <1>1 DEF Snapshots, TypeOK
<1>4. Locks'
  BY <1>1 DEF Locks, TypeOK
<1>5. \A q \in Callers \ {p} : \A d \in dirty[q] : d \in Docs /\ db'[d] = db[d]
  BY <1>1 DEF Locks, TypeOK
<1>6. WriteSets'
  <2>1. \A q \in Callers : mode'[q] = "tx" =>
          q # p /\ mode[q] = "tx" /\ dirty'[q] = dirty[q] /\ view'[q] = view[q] /\ step'[q] = step[q]
    BY <1>1 DEF TypeOK
  <2>2. \A q \in Callers \ {p} : mode[q] = "tx" =>
          \A d \in dirty[q] \ {Counter} : db'[d].by \in {Nobody, q}
    BY <1>5 DEF WriteSets
  <2> QED
    BY <2>1, <2>2 DEF WriteSets
<1>7. dirty[p] \ {Counter} = Everything(p)
  <2>1. CASE mode[p] = "tx"
    BY <2>1, EverythingWritten DEF Commit
  <2>2. CASE mode[p] = "closed"
    BY <2>2, BatchAssumption DEF Commit, Modes, Everything
  <2> QED
    BY <2>1, <2>2 DEF Modes
<1>8. \A d \in dirty[p] \ {Counter} : d \in Docs /\ db[d].by \in {Nobody, p} /\ view[p][d].by = p
  BY DEF Modes, WriteSets, TypeOK
<1>9. Effects(p)' = Everything(p)
  <2>1. Effects(p) = {}
    BY <1>1 DEF Settled
  <2>2. \A d \in Docs \ {Counter} : db'[d].by = p <=> d \in dirty[p] \ {Counter}
    BY <1>1, <1>8, <2>1 DEF Effects
  <2> QED
    BY <1>7, <1>8, <2>2 DEF Effects
<1>10. \A q \in Callers \ {p} : Effects(q)' = Effects(q)
  <2> SUFFICES ASSUME NEW q \in Callers \ {p}, NEW d \in Docs \ {Counter}
               PROVE  db'[d].by = q <=> db[d].by = q
    BY DEF Effects
  <2> QED
    BY <1>1, <1>8, BatchAssumption
<1>11. Settled'
  <2>1. pc'[p] = "done" /\ \A q \in Callers \ {p} : pc'[q] = pc[q]
    BY <1>1 DEF TypeOK
  <2>2. SUFFICES ASSUME NEW q \in Callers
                 PROVE  Effects(q)' = (IF pc'[q] = "done" THEN Everything(q) ELSE {})
    BY ONLY <2>2 DEF Settled, Everything
  <2>3. CASE q = p
    BY ONLY <1>9, <2>1, <2>3
  <2>4. CASE q # p
    <3>1. Effects(q) = (IF pc[q] = "done" THEN Everything(q) ELSE {})
      BY DEF Settled
    <3> QED
      BY ONLY <1>10, <2>1, <2>4, <3>1, q \in Callers
  <2> QED
    BY ONLY <2>3, <2>4
<1> QED
  BY <1>2, <1>3, <1>4, <1>6, <1>11

LEMMA BatchInvInductive ==
  BatchInv /\ TypeOK' /\ Transactional /\ [Next]_vars => BatchInv'
<1> SUFFICES ASSUME BatchInv, TypeOK', Transactional, [Next]_vars PROVE BatchInv'
  OBVIOUS
<1>1. ASSUME NEW p \in Callers, Begin(p) PROVE BatchInv'
  BY <1>1 DEF Begin, BatchInv, Modes, Snapshots, Locks, WriteSets, Settled,
     Effects, Everything, TypeOK
<1>2. ASSUME NEW p \in Callers, OpenTransaction(p) PROVE BatchInv'
  <2> USE <1>2 DEF OpenTransaction, BatchInv, TypeOK
  <2>1. Modes'
    BY DEF Modes, HasNext
  <2>2. Snapshots' /\ Locks'
    BY DEF Snapshots, Locks
  <2>3. WriteSets'
    <3>1. step[p] = 1 /\ 1 \in 1 .. (Len(Script[p]) + 1) /\ dirty[p] = {}
      BY BatchAssumption DEF Modes, HasNext
    <3>2. Written(p, 1) = {}
      BY DEF Written
    <3> QED
      BY <3>1, <3>2 DEF WriteSets
  <2>4. Settled'
    BY DEF Settled, Effects, Everything
  <2> QED
    BY <2>1, <2>2, <2>3, <2>4
<1>3. ASSUME NEW p \in Callers, FallBack(p) \/ Unsupported(p) PROVE BatchInv'
  BY <1>3 DEF FallBack, Unsupported, Transactional
<1>4. ASSUME NEW p \in Callers, TransientAbort(p) \/ Abort(p) PROVE BatchInv'
  <2>1. pc' = [pc EXCEPT ![p] = pc'[p]] /\ pc'[p] \in {"running", "failed"}
    BY <1>4 DEF TransientAbort, Abort, BatchInv, TypeOK
  <2> QED
    BY <1>4, <2>1, RewindKeeps DEF TransientAbort, Abort
<1>5. ASSUME NEW p \in Callers, Commit(p) PROVE BatchInv'
  BY <1>5, CommitKeeps
<1>6. ASSUME NEW p \in Callers, GenerateId(p) PROVE BatchInv'
  <2>1. [n |-> Seen(p)[Counter].n + 1, by |-> p] \in Document
    BY SeenTyped, CallerIsDoc DEF Document, BatchInv
  <2>2. Write(p, Counter, [n |-> Seen(p)[Counter].n + 1, by |-> p])
        /\ data' = [data EXCEPT ![p] = Seen(p)[Counter].n + 1] /\ UNCHANGED <<pc, mode, step>>
    BY <1>6 DEF GenerateId, Bump
  <2>3. \A q \in Callers \ {p} : data'[q] = data[q]
    BY <2>2 DEF BatchInv, TypeOK
  <2> QED
    BY <2>1, <2>2, <2>3, WriteKeeps, CallerIsDoc
<1>7. ASSUME NEW p \in Callers, Create(p) PROVE BatchInv'
  <2>1. [n |-> data[p], by |-> p] \in Document
    BY DEF TypeOK, Document, BatchInv
  <2>2. Current(p).doc = p
    BY <1>7, ScriptSteps DEF Create, Creating, HasNext, Current
  <2>3. db[p].by \in {Nobody, p}
    BY InvoiceIsOwn
  <2> QED
    BY <1>7, <2>1, <2>2, <2>3, WriteKeeps, CallerIsDoc DEF Create
<1>8. ASSUME NEW p \in Callers, Reserve(p) PROVE BatchInv'
  <2>1. [n |-> step[p], by |-> p] \in Document
    BY DEF TypeOK, Document, BatchInv
  <2>2. Current(p).doc \in Docs \ {Counter}
    BY <1>8, ScriptSteps DEF Reserve, Reserving, HasNext, Current
  <2>3. Write(p, Current(p).doc, [n |-> step[p], by |-> p])
    BY <1>8 DEF Reserve
  <2>4. InTransaction(p) /\ WriteInside(p, Current(p).doc, [n |-> step[p], by |-> p])
    BY <2>3, OnlyInside
  <2>5. db[Current(p).doc].by \in {Nobody, p}
    BY <1>8, <2>2, <2>4 DEF Reserve, Held, Seen, InTransaction, WriteInside, Writable,
       BatchInv, Snapshots, WriteSets
  <2> QED
    BY <1>8, <2>1, <2>2, <2>3, <2>5, WriteKeeps DEF Reserve
<1>9. CASE UNCHANGED vars
  BY <1>9 DEF vars, BatchInv, Modes, Snapshots, Locks, WriteSets, Settled,
     Effects, Everything
<1> QED
  BY <1>1, <1>2, <1>3, <1>4, <1>5, <1>6, <1>7, <1>8, <1>9 DEF Next

LEMMA BatchInvInvariant == Spec => [](Transactional => BatchInv)
<1>1. Init => BatchInv
  <2> SUFFICES ASSUME Init PROVE BatchInv
    OBVIOUS
  <2>1. Modes /\ Snapshots /\ Locks /\ WriteSets
    BY DEF Init, Modes, Snapshots, Locks, WriteSets
  <2>2. Settled
    BY BatchAssumption DEF Init, Settled, Effects, Empty
  <2>3. TypeOK
    BY InitTyped
  <2> QED
    BY <2>1, <2>2, <2>3 DEF BatchInv
<1>2. (Transactional => BatchInv) /\ TypeOK' /\ [Next]_vars => (Transactional => BatchInv)'
  BY BatchInvInductive DEF Transactional, Next, vars
<1> QED
  BY <1>1, <1>2, TypeCorrect, PTL DEF Spec

\* With transactions, a batch is all there once it resolved, and not at all
\* before, or after it threw, whatever attempts the driver aborted and ran again.
THEOREM Atomic == Bindable => (Spec => []AllOrNothing)
<1> SUFFICES ASSUME Bindable PROVE Spec => []AllOrNothing
  OBVIOUS
<1>1. (Transactional => BatchInv) => AllOrNothing
  BY DEF BatchInv, AllOrNothing, Transactional
<1> QED
  BY <1>1, BatchInvInvariant, PTL

-----------------------------------------------------------------------------
(***************************************************************************)
(* Numbers.  A transaction that has drawn its number holds the counter, so *)
(* the number it will commit is the one after the committed counter, and   *)
(* nobody else can draw or commit one meanwhile.  That takes a callback    *)
(* that has no number yet when it runs again: its increment of the counter *)
(* was rolled back with the first run, but a data object it did not build  *)
(* anew (transaction.ts:101) still has the number, and generateOnlyIfEmpty *)
(* then draws no other.                                                    *)
(***************************************************************************)

Renumbers == \A p \in Callers : TransientAbort(p) => data'[p] = 0

\* So it is with a callback that builds its data in its body, and so it is, whatever
\* the callback, of a run in which no transient error comes after a number was drawn.
LEMMA FreshRenumbers == FreshData => (Spec => [][Renumbers]_vars)
<1> SUFFICES ASSUME FreshData PROVE Spec => [][Renumbers]_vars
  OBVIOUS
<1>1. TypeOK /\ [Next]_vars => [Renumbers]_vars
  BY DEF Renumbers, TransientAbort, Rewind, TypeOK
<1> QED
  BY <1>1, TypeCorrect, PTL DEF Spec

Drawn ==
  \A p \in Callers : mode[p] = "tx" =>
    /\ Counter \in dirty[p] <=> data[p] # 0
    /\ data[p] # 0 => view[p][Counter].n = data[p] /\ data[p] = db[Counter].n + 1
    /\ p \in dirty[p] => data[p] # 0 /\ view[p][p].n = data[p]
    /\ data[p] # 0 /\ p \notin dirty[p] => HasNext(p) /\ Current(p).method = "create"

Unnumbered ==
  \A p \in Callers : mode[p] = "closed" /\ pc[p] \in {"idle", "running"} => data[p] = 0

Invoiced == {p \in Callers : db[p].by = p}

Numbered == \A p \in Invoiced : db[p].n <= db[Counter].n

Dense == db[Counter].n = Cardinality(Invoiced)

NumberInv == Drawn /\ Unnumbered /\ Numbered /\ NoDuplicateIds /\ IsFiniteSet(Invoiced) /\ Dense

\* Only the committed documents matter to the rest of NumberInv.
LEMMA CommittedOnly ==
  ASSUME NumberInv, UNCHANGED db
  PROVE  Numbered' /\ NoDuplicateIds' /\ IsFiniteSet(Invoiced)' /\ Dense'
<1>1. Invoiced' = Invoiced
  BY DEF Invoiced
<1> QED
  BY <1>1 DEF NumberInv, Numbered, NoDuplicateIds, Dense

LEMMA CommitNumbers ==
  ASSUME BatchInv, BatchInv', NumberInv, Transactional, NEW p \in Callers, Commit(p)
  PROVE  NumberInv'
<1> USE DEF NumberInv
<1>1. /\ pc[p] = "running" /\ pc' = [pc EXCEPT ![p] = "done"]
      /\ mode' = [mode EXCEPT ![p] = "closed"] /\ dirty' = [dirty EXCEPT ![p] = {}]
      /\ db' = [d \in Docs |-> IF d \in dirty[p] THEN view[p][d] ELSE db[d]]
      /\ UNCHANGED <<step, data, view>> /\ ~HasNext(p)
  BY BatchAssumption DEF Commit, HasNext
<1>2. p \in Docs /\ Counter \in Docs /\ p # Counter /\ db[Counter].n \in Nat
  BY CallerIsDoc DEF BatchInv, TypeOK, Document
<1>3. p \notin Invoiced
  BY <1>1, <1>2 DEF BatchInv, Settled, Effects, Invoiced
<1>4. \A q \in Callers \ {p} : db'[q] = db[q]
  <2> SUFFICES ASSUME NEW q \in Callers \ {p}, q \in dirty[p] PROVE FALSE
    BY <1>1, CallerIsDoc
  <2>1. mode[p] = "tx"
    BY DEF BatchInv, Modes
  <2>2. db'[q].by = p
    BY <1>1, <2>1, CallerIsDoc DEF BatchInv, WriteSets
  <2>3. db'[q].by \in {Nobody, q}
    <3>1. db'[q].by \in Callers \cup {Nobody}
      BY CallerIsDoc DEF BatchInv, TypeOK, Document
    <3>2. ASSUME NEW r \in Callers, db'[q].by = r PROVE r = q
      <4>1. q \in Everything(r)
        BY <3>2, CallerIsDoc DEF BatchInv, Settled, Effects, Everything
      <4>2. PICK i \in DOMAIN Script[r] : q = Script[r][i].doc
        BY <4>1 DEF Everything
      <4> QED
        BY <4>2, ScriptSteps, BatchAssumption
    <3> QED
      BY <3>1, <3>2
  <2> QED
    BY <2>2, <2>3, CallerIsDoc
<1>5. Unnumbered'
  BY <1>1 DEF Unnumbered, BatchInv, TypeOK
<1>6. CASE data[p] # 0 /\ mode[p] = "tx"
  <2>1. Counter \in dirty[p] /\ p \in dirty[p] /\ data[p] = db[Counter].n + 1
        /\ view[p][Counter].n = data[p] /\ view[p][p].n = data[p] /\ view[p][p].by = p
    BY <1>1, <1>6 DEF Drawn, BatchInv, WriteSets
  <2>2. db'[Counter].n = db[Counter].n + 1 /\ db'[p].n = db[Counter].n + 1 /\ db'[p].by = p
    BY <1>1, <1>2, <2>1
  <2>3. Invoiced' = Invoiced \cup {p}
    BY <1>4, <2>2 DEF Invoiced
  <2>4. IsFiniteSet(Invoiced') /\ Cardinality(Invoiced') = Cardinality(Invoiced) + 1
    BY <1>3, <2>3, FS_AddElement
  <2>5. Dense'
    BY <2>2, <2>4 DEF Dense, Invoiced
  <2>6. \A q \in Invoiced : q # p /\ db'[q] = db[q] /\ db[q].n \in Nat
    BY <1>3, <1>4, CallerIsDoc DEF Invoiced, BatchInv, TypeOK, Document
  <2>7. Numbered'
    BY <1>2, <2>2, <2>3, <2>6 DEF Numbered
  <2>8. NoDuplicateIds'
    <3>1. \A q \in Callers : db'[q].by = q => q \in Invoiced \cup {p}
      BY <2>3 DEF Invoiced
    <3>2. \A q \in Invoiced : db'[q].n <= db[Counter].n /\ db'[q].n \in Nat
      BY <2>6 DEF Numbered
    <3>3. \A q, r \in Invoiced : db'[q].n = db'[r].n => q = r
      BY <2>6 DEF NoDuplicateIds, Invoiced
    <3> QED
      BY <1>2, <2>2, <3>1, <3>2, <3>3 DEF NoDuplicateIds
  <2>9. Drawn'
    <3>1. \A q \in Callers \ {p} : mode[q] = "tx" /\ data[q] # 0 => FALSE
      BY <2>1 DEF Drawn, BatchInv, Locks
    <3> QED
      BY <1>1, <3>1 DEF Drawn, BatchInv, TypeOK, HasNext, Current
  <2> QED
    BY <1>5, <2>4, <2>5, <2>7, <2>8, <2>9
<1>7. CASE data[p] = 0 \/ mode[p] = "closed"
  <2>1. Counter \notin dirty[p] /\ p \notin dirty[p]
    BY <1>7 DEF Drawn, BatchInv, Modes
  <2>2. db'[Counter] = db[Counter] /\ \A q \in Callers : db'[q] = db[q]
    BY <1>1, <1>2, <1>4, <2>1
  <2>3. Invoiced' = Invoiced
    BY <2>2 DEF Invoiced
  <2>4. Numbered' /\ NoDuplicateIds' /\ Dense'
    <3>1. Numbered'
      BY <2>2, <2>3 DEF Numbered, Invoiced
    <3>2. NoDuplicateIds'
      BY <2>2 DEF NoDuplicateIds
    <3>3. Dense'
      BY <2>2, <2>3 DEF Dense
    <3> QED
      BY <3>1, <3>2, <3>3
  <2>5. Drawn'
    BY <1>1, <2>2 DEF Drawn, BatchInv, TypeOK, HasNext, Current
  <2> QED
    BY <1>5, <2>3, <2>4, <2>5
<1> QED
  BY <1>6, <1>7 DEF BatchInv, Modes

LEMMA NumberInvInductive ==
  BatchInv /\ BatchInv' /\ NumberInv /\ Transactional /\ [Next]_vars /\ [Renumbers]_vars
    => NumberInv'
<1> SUFFICES ASSUME BatchInv, BatchInv', NumberInv, Transactional, [Next]_vars, [Renumbers]_vars
             PROVE  NumberInv'
  OBVIOUS
<1> USE DEF NumberInv
<1>1. ASSUME NEW p \in Callers, Begin(p) PROVE NumberInv'
  <2>1. Drawn'
    BY <1>1 DEF Begin, Drawn, BatchInv, TypeOK, Modes, HasNext, Current
  <2>2. Unnumbered'
    BY <1>1 DEF Begin, Unnumbered, BatchInv, TypeOK
  <2> QED
    BY <1>1, <2>1, <2>2, CommittedOnly DEF Begin
<1>2. ASSUME NEW p \in Callers, OpenTransaction(p) PROVE NumberInv'
  <2>1. data[p] = 0 /\ dirty[p] = {}
    BY <1>2 DEF OpenTransaction, BatchInv, Modes, Unnumbered, HasNext
  <2>2. Drawn'
    BY <1>2, <2>1 DEF OpenTransaction, Drawn, BatchInv, TypeOK, HasNext, Current
  <2>3. Unnumbered'
    BY <1>2 DEF OpenTransaction, Unnumbered, BatchInv, TypeOK
  <2> QED
    BY <1>2, <2>2, <2>3, CommittedOnly DEF OpenTransaction
<1>3. ASSUME NEW p \in Callers, FallBack(p) \/ Unsupported(p) PROVE NumberInv'
  BY <1>3 DEF FallBack, Unsupported, Transactional
<1>4. ASSUME NEW p \in Callers, (TransientAbort(p) /\ Renumbers) \/ Abort(p) PROVE NumberInv'
  <2>1. mode'[p] = "closed" /\ UNCHANGED db
    BY <1>4 DEF TransientAbort, Abort, BatchInv, TypeOK
  <2>2. ASSUME NEW q \in Callers \ {p}
        PROVE  /\ pc'[q] = pc[q] /\ mode'[q] = mode[q] /\ step'[q] = step[q]
               /\ data'[q] = data[q] /\ view'[q] = view[q] /\ dirty'[q] = dirty[q]
    <3>1. Rewind(p) /\ mode' = [mode EXCEPT ![p] = "closed"]
      BY <1>4 DEF TransientAbort, Abort
    <3>2. pc'[q] = pc[q]
      BY <1>4 DEF TransientAbort, Abort, BatchInv, TypeOK
    <3> QED
      BY <3>1, <3>2 DEF Rewind, BatchInv, TypeOK
  <2>3. Drawn'
    <3>1. SUFFICES ASSUME NEW q \in Callers, mode'[q] = "tx"
                   PROVE  /\ Counter \in dirty'[q] <=> data'[q] # 0
                          /\ data'[q] # 0 => /\ view'[q][Counter].n = data'[q]
                                            /\ data'[q] = db'[Counter].n + 1
                          /\ q \in dirty'[q] => data'[q] # 0 /\ view'[q][q].n = data'[q]
                          /\ data'[q] # 0 /\ q \notin dirty'[q] =>
                               HasNext(q)' /\ Current(q)'.method = "create"
      BY ONLY <3>1 DEF Drawn
    <3>2. q # p
      BY <2>1, <3>1
    <3>3. HasNext(q)' = HasNext(q) /\ Current(q)' = Current(q)
      BY <2>2, <3>2 DEF HasNext, Current
    <3> QED
      BY <2>1, <2>2, <3>1, <3>2, <3>3 DEF Drawn
  <2>4. Unnumbered'
    <3>1. pc'[p] = "failed" \/ data'[p] = 0
      BY <1>4 DEF Abort, Renumbers, BatchInv, TypeOK
    <3> QED
      BY <2>2, <3>1 DEF Unnumbered
  <2> QED
    BY <1>4, <2>3, <2>4, CommittedOnly DEF TransientAbort, Abort
<1>5. ASSUME NEW p \in Callers, Commit(p) PROVE NumberInv'
  BY <1>5, CommitNumbers
<1>6. ASSUME NEW p \in Callers, GenerateId(p) PROVE NumberInv'
  <2> DEFINE doc == [n |-> Seen(p)[Counter].n + 1, by |-> p]
  <2>1. InTransaction(p) /\ WriteInside(p, Counter, doc)
    BY <1>6, OnlyInside DEF GenerateId, Bump
  <2>2. /\ mode[p] = "tx" /\ data[p] = 0 /\ HasNext(p) /\ Current(p).method = "create"
        /\ data' = [data EXCEPT ![p] = Seen(p)[Counter].n + 1]
        /\ view' = [view EXCEPT ![p] = [view[p] EXCEPT ![Counter] = doc]]
        /\ dirty' = [dirty EXCEPT ![p] = dirty[p] \cup {Counter}]
        /\ UNCHANGED <<db, pc, mode, step>>
    BY <1>6, <2>1 DEF GenerateId, Creating, NeedsNumber, Bump, InTransaction, WriteInside
  <2>3. Seen(p)[Counter].n = db[Counter].n /\ db[Counter].n \in Nat
    BY <2>1, <2>2, CallerIsDoc DEF Seen, WriteInside, Writable, Drawn, BatchInv, Snapshots,
       TypeOK, Document
  <2>4. p \notin dirty[p] /\ p # Counter
    BY <2>2, CallerIsDoc DEF Drawn
  <2>5. view'[p][Counter].n = db[Counter].n + 1 /\ data'[p] = db[Counter].n + 1
    BY <2>2, <2>3, CallerIsDoc DEF BatchInv, TypeOK
  <2>6. Drawn'
    BY <2>2, <2>3, <2>4, <2>5 DEF Drawn, BatchInv, TypeOK, HasNext, Current
  <2>7. Unnumbered'
    BY <2>2 DEF Unnumbered, BatchInv, TypeOK
  <2> QED
    BY <2>2, <2>6, <2>7, CommittedOnly
<1>7. ASSUME NEW p \in Callers, Create(p) PROVE NumberInv'
  <2> DEFINE doc == [n |-> data[p], by |-> p]
  <2>1. InTransaction(p) /\ WriteInside(p, p, doc)
    BY <1>7, OnlyInside DEF Create
  <2>2. /\ mode[p] = "tx" /\ data[p] # 0
        /\ view' = [view EXCEPT ![p] = [view[p] EXCEPT ![p] = doc]]
        /\ dirty' = [dirty EXCEPT ![p] = dirty[p] \cup {p}]
        /\ UNCHANGED <<db, pc, mode, data>>
        /\ step' = [step EXCEPT ![p] = @ + 1]
    BY <1>7, <2>1 DEF Create, NeedsNumber, InTransaction, WriteInside
  <2>3. p \in Docs /\ p # Counter
    BY CallerIsDoc
  <2>4. view'[p][Counter] = view[p][Counter] /\ view'[p][p].n = data[p]
    BY <2>2, <2>3, CallerIsDoc DEF BatchInv, TypeOK
  <2>5. Drawn'
    BY <2>2, <2>3, <2>4 DEF Drawn, BatchInv, TypeOK, HasNext, Current
  <2>6. Unnumbered'
    BY <2>2 DEF Unnumbered
  <2> QED
    BY <2>2, <2>5, <2>6, CommittedOnly
<1>8. ASSUME NEW p \in Callers, Reserve(p) PROVE NumberInv'
  <2> DEFINE d == Current(p).doc
             doc == [n |-> step[p], by |-> p]
  <2>1. InTransaction(p) /\ WriteInside(p, d, doc)
    BY <1>8, OnlyInside DEF Reserve
  <2>2. /\ mode[p] = "tx" /\ Current(p).method # "create"
        /\ view' = [view EXCEPT ![p] = [view[p] EXCEPT ![d] = doc]]
        /\ dirty' = [dirty EXCEPT ![p] = dirty[p] \cup {d}]
        /\ UNCHANGED <<db, pc, mode, data>>
        /\ step' = [step EXCEPT ![p] = @ + 1]
    BY <1>8, <2>1 DEF Reserve, Reserving, InTransaction, WriteInside
  <2>3. d \in Stock
    BY <1>8, <2>2, ScriptSteps DEF Reserve, Reserving, HasNext, Current
  <2>4. d # Counter /\ \A q \in Callers : d # q
    BY <2>3, BatchAssumption
  <2>5. view'[p][Counter] = view[p][Counter] /\ view'[p][p] = view[p][p]
    BY <2>2, <2>4, CallerIsDoc DEF BatchInv, TypeOK
  <2>6. data[p] # 0 => p \in dirty[p]
    BY <2>2 DEF Drawn
  <2> HIDE DEF d, doc
  <2>7. Drawn'
    BY <2>2, <2>4, <2>5, <2>6, CallerIsDoc DEF Drawn, BatchInv, TypeOK, HasNext, Current
  <2>8. Unnumbered'
    BY <2>2 DEF Unnumbered
  <2> QED
    BY <2>2, <2>7, <2>8, CommittedOnly
<1>9. CASE UNCHANGED vars
  <2>1. Drawn' /\ Unnumbered'
    BY <1>9 DEF vars, Drawn, Unnumbered, HasNext, Current
  <2> QED
    BY <1>9, <2>1, CommittedOnly DEF vars
<1>10. CASE Next /\ Renumbers
  BY <1>1, <1>2, <1>3, <1>4, <1>5, <1>6, <1>7, <1>8, <1>10 DEF Next
<1> QED
  BY <1>9, <1>10

LEMMA NumberInvInvariant == Spec /\ [][Renumbers]_vars => [](Transactional => NumberInv)
<1>1. Init => NumberInv
  <2> SUFFICES ASSUME Init PROVE NumberInv
    OBVIOUS
  <2>1. Drawn /\ Unnumbered
    BY DEF Init, Drawn, Unnumbered
  <2>2. Invoiced = {} /\ db[Counter].n = 0
    <3>1. \A d \in Docs : db[d].n = 0 /\ db[d].by = Nobody
      BY DEF Init, Empty
    <3>2. Counter \in Docs
      BY DEF Docs
    <3> QED
      BY <3>1, <3>2, CallerIsDoc DEF Invoiced
  <2>3. Numbered /\ NoDuplicateIds
    BY <2>2 DEF Numbered, NoDuplicateIds, Invoiced
  <2>4. IsFiniteSet(Invoiced) /\ Cardinality(Invoiced) = 0
    BY <2>2, FS_EmptySet
  <2> QED
    BY <2>1, <2>2, <2>3, <2>4 DEF NumberInv, Dense
<1>2. (Transactional => BatchInv) /\ (Transactional => BatchInv)'
      /\ (Transactional => NumberInv) /\ [Next]_vars /\ [Renumbers]_vars
        => (Transactional => NumberInv)'
  BY NumberInvInductive DEF Transactional, Next, vars
<1> QED
  BY <1>1, <1>2, BatchInvInvariant, PTL DEF Spec

\* With transactions the numbers that are drawn are the numbers that are used, if a batch
\* that runs again has no number yet.
THEOREM NumbersDense == Bindable => (Spec /\ [][Renumbers]_vars => []NoGaps)
<1> SUFFICES ASSUME Bindable PROVE Spec /\ [][Renumbers]_vars => []NoGaps
  OBVIOUS
<1>1. (Transactional => NumberInv) => NoGaps
  BY DEF NumberInv, Dense, Invoiced, NoGaps, Transactional
<1> QED
  BY <1>1, NumberInvInvariant, PTL

-----------------------------------------------------------------------------
(***************************************************************************)
(* The batches run serially.  A batch takes effect at its commit.  What it *)
(* then puts in the store is what it has written to its snapshot, and that *)
(* is what it would write now: the documents it has written were as        *)
(* committed when it read them, are locked since, and were free.           *)
(***************************************************************************)

\* Stock that a transaction has written carries the number of its last statement
\* on it.
Ordered ==
  \A p \in Callers : mode[p] = "tx" =>
    \A d \in dirty[p] \cap Stock :
       \E i \in 1 .. (step[p] - 1) :
          /\ Script[p][i].doc = d /\ view[p][d].n = i
          /\ \A j \in 1 .. (step[p] - 1) : Script[p][j].doc = d => j <= i

\* A step after which p, if it is in a transaction, has the write set it had.
LEMMA OrderedKept ==
  ASSUME BatchInv, Ordered, NEW p \in Callers,
         \A q \in Callers \ {p} : mode'[q] = mode[q] /\ dirty'[q] = dirty[q]
                                  /\ view'[q] = view[q] /\ step'[q] = step[q],
         mode'[p] = "tx" => dirty'[p] \cap Stock = {}
  PROVE  Ordered'
<1> SUFFICES ASSUME NEW q \in Callers, mode'[q] = "tx", NEW d \in dirty'[q] \cap Stock
             PROVE  \E i \in 1 .. (step'[q] - 1) :
                       /\ Script[q][i].doc = d /\ view'[q][d].n = i
                       /\ \A j \in 1 .. (step'[q] - 1) : Script[q][j].doc = d => j <= i
  BY DEF Ordered
<1> QED
  BY DEF Ordered

LEMMA OrderedInductive ==
  ASSUME BatchInv, BatchInv', Ordered, Transactional, [Next]_vars PROVE Ordered'
<1>1. ASSUME NEW p \in Callers, Begin(p) PROVE Ordered'
  BY <1>1 DEF Begin, Ordered
<1>2. ASSUME NEW p \in Callers, OpenTransaction(p) PROVE Ordered'
  <2>1. dirty[p] = {}
    BY <1>2 DEF OpenTransaction, BatchInv, Modes
  <2> QED
    BY <1>2, <2>1, OrderedKept DEF OpenTransaction, BatchInv, TypeOK
<1>3. ASSUME NEW p \in Callers, FallBack(p) \/ Unsupported(p) PROVE Ordered'
  BY <1>3 DEF FallBack, Unsupported, Transactional
<1>4. ASSUME NEW p \in Callers, TransientAbort(p) \/ Abort(p) PROVE Ordered'
  <2>1. Rewind(p) /\ mode' = [mode EXCEPT ![p] = "closed"]
    BY <1>4 DEF TransientAbort, Abort
  <2> QED
    BY <2>1, OrderedKept DEF Rewind, BatchInv, TypeOK
<1>5. ASSUME NEW p \in Callers, Commit(p) PROVE Ordered'
  BY <1>5, OrderedKept DEF Commit, BatchInv, TypeOK
<1>6. ASSUME NEW p \in Callers, GenerateId(p) PROVE Ordered'
  <2>1. WriteInside(p, Counter, [n |-> Seen(p)[Counter].n + 1, by |-> p])
        /\ UNCHANGED <<mode, step>>
    BY <1>6, OnlyInside DEF GenerateId, Bump
  <2>2. Counter \notin Stock
    BY BatchAssumption
  <2>3. \A q \in Callers : /\ dirty'[q] \cap Stock = dirty[q] \cap Stock
                           /\ \A d \in Stock : view'[q][d] = view[q][d]
    BY <2>1, <2>2 DEF WriteInside, BatchInv, TypeOK, Docs
  <2> QED
    BY <2>1, <2>3 DEF Ordered
<1>7. ASSUME NEW p \in Callers, NEW d \in Docs, NEW doc, WriteInside(p, d, doc), HasNext(p),
             d = Current(p).doc, d \in Stock => doc.n = step[p],
             step' = [step EXCEPT ![p] = @ + 1], UNCHANGED mode
      PROVE  Ordered'
  <2>1. /\ dirty' = [dirty EXCEPT ![p] = dirty[p] \cup {d}]
        /\ view' = [view EXCEPT ![p] = [view[p] EXCEPT ![d] = doc]]
    BY <1>7 DEF WriteInside
  <2>2. \A q \in Callers \ {p} : dirty'[q] = dirty[q] /\ view'[q] = view[q] /\ step'[q] = step[q]
    BY <1>7, <2>1 DEF BatchInv, TypeOK
  <2>3. step'[p] = step[p] + 1 /\ step[p] \in 1 .. Len(Script[p]) /\ Len(Script[p]) \in Nat
    BY <1>7, BatchAssumption DEF BatchInv, TypeOK, HasNext
  <2>4. dirty'[p] = dirty[p] \cup {d} /\ view'[p][d] = doc
        /\ \A e \in Docs \ {d} : view'[p][e] = view[p][e]
    BY <2>1 DEF BatchInv, TypeOK
  <2>5. Script[p][step[p]].doc = d
    BY <1>7 DEF Current
  <2>6. ASSUME mode[p] = "tx", NEW e \in dirty'[p] \cap Stock
        PROVE  \E i \in 1 .. (step'[p] - 1) :
                  /\ Script[p][i].doc = e /\ view'[p][e].n = i
                  /\ \A j \in 1 .. (step'[p] - 1) : Script[p][j].doc = e => j <= i
    <3>1. 1 .. (step'[p] - 1) = (1 .. (step[p] - 1)) \cup {step[p]}
      BY <2>3
    <3>2. CASE e = d
      <4>1. view'[p][e].n = step[p]
        BY <1>7, <2>4, <2>6, <3>2
      <4>2. \A j \in 1 .. (step'[p] - 1) : j <= step[p]
        BY <2>3
      <4> QED
        BY <2>5, <3>1, <3>2, <4>1, <4>2
    <3>3. CASE e # d
      <4>1. e \in dirty[p] \cap Stock /\ e \in Docs
        BY <2>4, <2>6, <3>3 DEF Docs
      <4>2. PICK i \in 1 .. (step[p] - 1) :
              /\ Script[p][i].doc = e /\ view[p][e].n = i
              /\ \A j \in 1 .. (step[p] - 1) : Script[p][j].doc = e => j <= i
        BY <2>6, <4>1 DEF Ordered
      <4> QED
        BY <2>4, <2>5, <3>1, <3>3, <4>1, <4>2
    <3> QED
      BY <3>2, <3>3
  <2> SUFFICES ASSUME NEW q \in Callers, mode'[q] = "tx", NEW e \in dirty'[q] \cap Stock
               PROVE  \E i \in 1 .. (step'[q] - 1) :
                         /\ Script[q][i].doc = e /\ view'[q][e].n = i
                         /\ \A j \in 1 .. (step'[q] - 1) : Script[q][j].doc = e => j <= i
    BY DEF Ordered
  <2>7. CASE q = p
    BY <1>7, <2>6, <2>7
  <2>8. CASE q # p
    BY <1>7, <2>2, <2>8 DEF Ordered
  <2> QED
    BY <2>7, <2>8
<1>8. ASSUME NEW p \in Callers, Create(p) PROVE Ordered'
  <2>1. WriteInside(p, p, [n |-> data[p], by |-> p])
    BY <1>8, OnlyInside DEF Create
  <2>2. HasNext(p) /\ Current(p).doc = p /\ p \in Docs /\ p \notin Stock
    BY <1>8, ScriptSteps, CallerIsDoc, BatchAssumption DEF Create, Creating, HasNext, Current
  <2> QED
    BY <1>7, <1>8, <2>1, <2>2 DEF Create
<1>9. ASSUME NEW p \in Callers, Reserve(p) PROVE Ordered'
  <2>1. WriteInside(p, Current(p).doc, [n |-> step[p], by |-> p])
    BY <1>9, OnlyInside DEF Reserve
  <2>2. HasNext(p) /\ Current(p).doc \in Docs
    BY <1>9, ScriptSteps DEF Reserve, Reserving, HasNext, Current
  <2> QED
    BY <1>7, <1>9, <2>1, <2>2 DEF Reserve
<1>10. CASE UNCHANGED vars
  BY <1>10 DEF vars, Ordered
<1> QED
  BY <1>1, <1>2, <1>3, <1>4, <1>5, <1>6, <1>8, <1>9, <1>10 DEF Next

LEMMA OrderedInvariant == Spec => [](Transactional => Ordered)
<1>1. Init => Ordered
  BY DEF Init, Ordered
<1>2. (Transactional => BatchInv) /\ (Transactional => BatchInv)'
      /\ (Transactional => Ordered) /\ [Next]_vars => (Transactional => Ordered)'
  BY OrderedInductive DEF Transactional, Next, vars
<1> QED
  BY <1>1, <1>2, BatchInvInvariant, PTL DEF Spec

\* A step that leaves the committed documents alone, and settles a batch or none.
LEMMA QuietStep ==
  ASSUME BatchInv, ~standalone, standalone' = standalone, NEW p \in Callers,
         UNCHANGED db, pc' = [pc EXCEPT ![p] = pc'[p]],
         \/ pc[p] \in {"idle", "running"} /\ pc'[p] \in {"idle", "running"}
         \/ pc[p] \in {"idle", "running"} /\ pc'[p] = "failed"
         \/ pc' = pc
  PROVE  [Serial!Next]_(Serial!batches)
<1>1. Store' = Store
  BY DEF Store
<1>2. \A q \in Callers \ {p} : pc'[q] = pc[q]
  BY DEF BatchInv, TypeOK
<1>3. \A q \in Callers : /\ Outcome[q] = IF pc[q] \notin {"done", "failed"} THEN "open" ELSE pc[q]
                         /\ Outcome'[q] = IF pc'[q] \notin {"done", "failed"} THEN "open" ELSE pc'[q]
  BY DEF Outcome
<1>4. CASE pc[p] \in {"idle", "running"} /\ pc'[p] = "failed"
  <2>1. Outcome[p] = "open" /\ Outcome' = [Outcome EXCEPT ![p] = "failed"]
    BY <1>2, <1>4 DEF Outcome
  <2> QED
    BY <1>1, <2>1 DEF Serial!Fail, Serial!Next
<1>5. CASE pc' = pc \/ (pc[p] \in {"idle", "running"} /\ pc'[p] \in {"idle", "running"})
  <2>1. Outcome' = Outcome
    BY <1>2, <1>5 DEF Outcome
  <2> QED
    BY <1>1, <2>1 DEF Serial!batches
<1> QED
  BY <1>4, <1>5

\* The last of the statements that write d is the one that is told of.
LEMMA LastWriteIs ==
  ASSUME NEW p \in Callers, NEW d, NEW i \in DOMAIN Script[p], Script[p][i].doc = d,
         \A j \in DOMAIN Script[p] : Script[p][j].doc = d => j <= i
  PROVE  Serial!LastWrite(p, d) = i
<1> DEFINE W == Serial!Writes(p, d)
           k == Serial!LastWrite(p, d)
<1>1. i \in W /\ W \subseteq Int /\ \A j \in W : j <= i
  BY BatchAssumption DEF Serial!Writes
<1>2. k \in W /\ \A j \in W : j <= k
  BY <1>1 DEF Serial!LastWrite
<1> HIDE DEF W, k
<1>3. i <= k /\ k <= i /\ i \in Int /\ k \in Int
  BY <1>1, <1>2
<1>4. k = i
  BY <1>3
<1> QED
  BY <1>4 DEF k

\* A transaction that commits has written what its script writes, and the counter if
\* it has created its invoice.
LEMMA CommitWrites ==
  ASSUME BatchInv, NumberInv, NEW p \in Callers, Commit(p)
  PROVE  /\ \A d \in Docs \ {Counter} : d \in dirty[p] <=> Serial!Writes(p, d) # {}
         /\ Counter \in dirty[p] <=> Serial!Creates(p)
<1>1. step[p] = Len(Script[p]) + 1 /\ ~HasNext(p) /\ DOMAIN Script[p] = 1 .. Len(Script[p])
  BY BatchAssumption DEF Commit, HasNext
<1>2. dirty[p] \ {Counter} = Everything(p)
  <2>1. CASE mode[p] = "tx"
    BY <1>1, <2>1, EverythingWritten
  <2>2. CASE mode[p] = "closed"
    BY <2>2, BatchAssumption DEF Commit, BatchInv, Modes, Everything
  <2> QED
    BY <2>1, <2>2 DEF BatchInv, Modes
<1>3. \A d \in Docs \ {Counter} : d \in Everything(p) <=> Serial!Writes(p, d) # {}
  BY DEF Everything, Serial!Writes
<1>4. p \in Docs /\ p # Counter
  BY CallerIsDoc
<1>5. Counter \in dirty[p] <=> p \in dirty[p]
  <2>1. CASE mode[p] = "tx"
    BY <1>1, <2>1 DEF NumberInv, Drawn
  <2>2. CASE mode[p] = "closed"
    BY <2>2 DEF BatchInv, Modes
  <2> QED
    BY <2>1, <2>2 DEF BatchInv, Modes
<1> QED
  BY <1>2, <1>3, <1>4, <1>5 DEF Serial!Creates

\* What it has written is what the batch leaves when it runs as a whole at its commit.
LEMMA CommitLeaves ==
  ASSUME BatchInv, NumberInv, Ordered, ~standalone, NEW p \in Callers, Commit(p), NEW d \in Docs
  PROVE  db'[d] = Serial!Left(p, d)
<1>1. db'[d] = IF d \in dirty[p] THEN view[p][d] ELSE db[d]
  BY DEF Commit
<1>2. Store = db
  BY DEF Store
<1>3. p \in Docs /\ p # Counter /\ Counter \in Docs /\ Counter \notin Stock /\ p \notin Stock
  BY CallerIsDoc, BatchAssumption
<1>4. view[p][d] \in Document /\ db[d] \in Document
  BY DEF BatchInv, TypeOK
<1>5. d \in dirty[p] => mode[p] = "tx" /\ view[p][d] = [n |-> view[p][d].n, by |-> p]
  BY <1>4 DEF BatchInv, Modes, WriteSets, Document
<1>6. CASE d \in {p, Counter} /\ Serial!Creates(p)
  <2>1. p \in dirty[p] /\ Counter \in dirty[p]
    BY <1>3, <1>6, CommitWrites DEF Serial!Creates
  <2>2. view[p][d].n = db[Counter].n + 1
    BY <1>5, <1>6, <2>1 DEF NumberInv, Drawn
  <2>3. Serial!Left(p, d) = [n |-> db[Counter].n + 1, by |-> p]
    BY <1>2, <1>3, <1>6 DEF Serial!Left, Serial!NextNumber
  <2> QED
    BY <1>1, <1>5, <1>6, <2>1, <2>2, <2>3
<1>7. CASE d \in Stock /\ Serial!Writes(p, d) # {}
  <2>1. d \in dirty[p]
    BY <1>3, <1>7, CommitWrites
  <2>2. /\ step[p] = Len(Script[p]) + 1 /\ DOMAIN Script[p] = 1 .. Len(Script[p])
        /\ Len(Script[p]) \in Nat
    BY BatchAssumption DEF Commit
  <2>3. step[p] - 1 = Len(Script[p])
    BY <2>2
  <2>4. PICK i \in 1 .. (step[p] - 1) :
          /\ Script[p][i].doc = d /\ view[p][d].n = i
          /\ \A j \in 1 .. (step[p] - 1) : Script[p][j].doc = d => j <= i
    BY <1>5, <1>7, <2>1 DEF Ordered
  <2>5. Serial!LastWrite(p, d) = i
    BY <2>2, <2>3, <2>4, LastWriteIs
  <2>6. Serial!Left(p, d) = [n |-> i, by |-> p]
    BY <1>3, <1>7, <2>5 DEF Serial!Left
  <2> QED
    BY <1>1, <1>5, <2>1, <2>4, <2>6
<1>8. CASE ~(d \in {p, Counter} /\ Serial!Creates(p)) /\ ~(d \in Stock /\ Serial!Writes(p, d) # {})
  <2>1. d \notin dirty[p]
    <3>1. CASE d = Counter
      BY <1>8, <3>1, CommitWrites
    <3>2. CASE d # Counter
      <4>1. SUFFICES ASSUME d \in dirty[p] PROVE FALSE
        OBVIOUS
      <4>2. PICK i \in DOMAIN Script[p] : Script[p][i].doc = d
        BY <3>2, <4>1, CommitWrites DEF Serial!Writes
      <4>3. d = p \/ d \in Stock
        BY <4>2, ScriptSteps
      <4> QED
        BY <1>8, <3>2, <4>1, <4>3, CommitWrites DEF Serial!Creates
    <3> QED
      BY <3>1, <3>2
  <2>2. Serial!Left(p, d) = db[d]
    BY <1>2, <1>8 DEF Serial!Left
  <2> QED
    BY <1>1, <2>1, <2>2
<1> QED
  BY <1>6, <1>7, <1>8

LEMMA CommitRuns ==
  ASSUME BatchInv, NumberInv, Ordered, ~standalone, standalone' = standalone,
         NEW p \in Callers, Commit(p)
  PROVE  Serial!Run(p)
<1>1. Store = db /\ Store' = db' /\ DOMAIN db = Docs /\ db' = [d \in Docs |-> db'[d]]
  BY DEF Store, Commit, BatchInv, TypeOK
<1>2. Store' = [d \in DOMAIN Store |-> Serial!Left(p, d)]
  BY <1>1, CommitLeaves
<1>3. pc[p] = "running" /\ pc' = [pc EXCEPT ![p] = "done"]
  BY DEF Commit
<1>4. Outcome[p] = "open" /\ Outcome' = [Outcome EXCEPT ![p] = "done"]
  BY <1>3 DEF Outcome, BatchInv, TypeOK
<1>5. Serial!Free(p)
  <2> SUFFICES ASSUME NEW d \in Stock, Serial!Writes(p, d) # {} PROVE db[d].by = Nobody
    BY <1>1 DEF Serial!Free
  <2>1. d \in Docs \ {Counter}
    BY BatchAssumption DEF Docs
  <2>2. d \in dirty[p] \ {Counter}
    BY <2>1, CommitWrites
  <2>3. mode[p] = "tx"
    BY <2>2 DEF BatchInv, Modes
  <2>4. db[d].by \in {Nobody, p}
    BY <2>2, <2>3 DEF BatchInv, WriteSets
  <2>5. db[d].by # p
    BY <1>3, <2>1 DEF BatchInv, Settled, Effects
  <2> QED
    BY <2>4, <2>5
<1> QED
  BY <1>2, <1>4, <1>5 DEF Serial!Run

LEMMA StepSerial ==
  ASSUME BatchInv, NumberInv, Ordered, Transactional, [Next]_vars
  PROVE  [Serial!Next]_(Serial!batches)
<1>0. ~standalone /\ standalone' = standalone
  BY DEF Transactional, Next, vars
<1>1. ASSUME NEW p \in Callers, Commit(p) PROVE [Serial!Next]_(Serial!batches)
  BY <1>0, <1>1, CommitRuns DEF Serial!Next
<1>2. ASSUME NEW p \in Callers, FallBack(p) \/ Unsupported(p) PROVE FALSE
  BY <1>0, <1>2 DEF FallBack, Unsupported
<1>3. ASSUME NEW p \in Callers, Begin(p) \/ Abort(p) \/ TransientAbort(p) \/ OpenTransaction(p)
      PROVE  [Serial!Next]_(Serial!batches)
  <2>1. UNCHANGED db /\ pc' = [pc EXCEPT ![p] = pc'[p]]
        /\ \/ pc[p] \in {"idle", "running"} /\ pc'[p] \in {"running", "failed"}
           \/ pc' = pc
    BY <1>3 DEF Begin, Abort, TransientAbort, OpenTransaction, BatchInv, TypeOK
  <2> QED
    BY <1>0, <2>1, QuietStep
<1>4. ASSUME NEW p \in Callers, GenerateId(p) \/ Create(p) \/ Reserve(p)
      PROVE  [Serial!Next]_(Serial!batches)
  <2>1. PICK d, doc : Write(p, d, doc)
    BY <1>4 DEF GenerateId, Bump, Create, Reserve
  <2>2. UNCHANGED db
    BY <2>1, OnlyInside DEF WriteInside
  <2>3. pc' = pc /\ pc' = [pc EXCEPT ![p] = pc'[p]]
    BY <1>4 DEF GenerateId, Create, Reserve, BatchInv, TypeOK
  <2> QED
    BY <1>0, <2>2, <2>3, QuietStep
<1>5. CASE UNCHANGED vars
  BY <1>5 DEF vars, Store, Outcome, Serial!batches
<1> QED
  BY <1>1, <1>2, <1>3, <1>4, <1>5 DEF Next

\* With transactions and session-aware methods, batches have the effects of batches that
\* run one at a time, in the order of their commits, if one that runs again has no number
\* yet.
THEOREM BatchesAreSerial == Bindable => (Spec /\ [][Renumbers]_vars => RunsSerially)
<1> SUFFICES ASSUME Bindable PROVE Spec /\ [][Renumbers]_vars => RunsSerially
  OBVIOUS
<1>1. Init => Serial!Init
  <2> SUFFICES ASSUME Init PROVE Serial!Init
    OBVIOUS
  <2>1. Store = Empty
    BY DEF Init, Store
  <2>2. Outcome = [p \in Callers |-> "open"]
    BY DEF Init, Outcome
  <2> QED
    BY <2>1, <2>2 DEF Serial!Init, Empty, Docs
<1>2. standalone /\ [Next]_vars => [Serial!Next]_(Serial!batches)
  <2> SUFFICES ASSUME standalone, [Next]_vars PROVE Store' = Store /\ Outcome' = Outcome
    BY DEF Serial!batches
  <2> QED
    BY DEF Next, vars, Store, Outcome
<1>3. ~standalone => Transactional
  BY DEF Transactional
<1>4. (Transactional => BatchInv) /\ (Transactional => NumberInv) /\ (Transactional => Ordered)
      /\ [Next]_vars => [Serial!Next]_(Serial!batches)
  BY <1>2, <1>3, StepSerial
<1> QED
  BY <1>1, <1>4, BatchInvInvariant, NumberInvInvariant, OrderedInvariant, PTL
     DEF Spec, RunsSerially, Serial!Spec

-----------------------------------------------------------------------------
(***************************************************************************)
(* Numbers without transactions: a number is drawn by its own increment,   *)
(* so it is below the counter and unlike every other number that is drawn  *)
(* or used.                                                                *)
(***************************************************************************)

PlainModes == \A p \in Callers : dirty[p] = {} /\ mode[p] # "tx"

\* The number p has in hand, and the one it has used.
Issued(p) == {n \in Nat \ {0} : n = data[p] \/ (db[p].by = p /\ n = db[p].n)}

PlainNumbers ==
  /\ \A p \in Callers : db[p].by = p => db[p].n # 0
  /\ \A p \in Callers : \A n \in Issued(p) : n <= db[Counter].n
  /\ \A p, q \in Callers : p # q => Issued(p) \cap Issued(q) = {}

PlainInv == TypeOK /\ PlainModes /\ PlainNumbers

LEMMA PlainUnique == PlainInv => NoDuplicateIds
<1> SUFFICES ASSUME PlainInv, NEW p \in Callers, NEW q \in Callers,
                    db[p].by = p, db[q].by = q, db[p].n = db[q].n
             PROVE  p = q
  BY DEF NoDuplicateIds
<1>1. db[p].n \in Nat \ {0}
  BY CallerIsDoc DEF PlainInv, PlainNumbers, TypeOK, Document
<1>2. db[p].n \in Issued(p) /\ db[p].n \in Issued(q)
  BY <1>1 DEF Issued
<1> QED
  BY <1>2 DEF PlainInv, PlainNumbers

\* A step that issues nothing.
LEMMA NothingIssued ==
  ASSUME PlainInv, db'[Counter] = db[Counter],
         \A p \in Callers : db'[p].by = p => db'[p].n # 0,
         \A p \in Callers : Issued(p)' \subseteq Issued(p)
  PROVE  PlainNumbers'
  BY DEF PlainInv, PlainNumbers

LEMMA PlainInvInductive ==
  PlainInv /\ TypeOK' /\ standalone /\ [Next]_vars => PlainInv'
<1> SUFFICES ASSUME PlainInv, TypeOK', standalone, [Next]_vars PROVE PlainInv'
  OBVIOUS
<1> USE DEF PlainInv
<1>1. ASSUME NEW p \in Callers, NEW d, NEW doc, Write(p, d, doc)
      PROVE  db' = [db EXCEPT ![d] = doc] /\ UNCHANGED dirty
  BY <1>1 DEF Write, WriteOutside, InTransaction, PlainModes
<1>2. ASSUME NEW p \in Callers,
             Begin(p) \/ OpenTransaction(p) \/ Unsupported(p) \/ FallBack(p)
             \/ TransientAbort(p) \/ Abort(p) \/ Commit(p)
      PROVE  PlainInv'
  <2>1. PlainModes'
    <3>1. CASE Begin(p) \/ OpenTransaction(p)
      BY <3>1 DEF PlainModes, Begin, OpenTransaction, TypeOK
    <3>2. CASE Unsupported(p) \/ FallBack(p)
      BY <3>2 DEF PlainModes, Unsupported, FallBack, Rewind, TypeOK
    <3>3. CASE TransientAbort(p) \/ Abort(p)
      BY <3>3 DEF PlainModes, TransientAbort, Abort, Rewind, TypeOK
    <3>4. CASE Commit(p)
      BY <3>4 DEF PlainModes, Commit, TypeOK
    <3> QED
      BY <1>2, <3>1, <3>2, <3>3, <3>4
  <2>2. db' = db
    <3>1. CASE Commit(p)
      BY <3>1 DEF Commit, PlainModes, TypeOK
    <3> QED
      BY <1>2, <3>1 DEF Begin, OpenTransaction, Unsupported, FallBack, TransientAbort, Abort
  <2>3. \A q \in Callers : data'[q] \in {0, data[q]}
    <3>1. CASE Rewind(p)
      BY <3>1 DEF Rewind, TypeOK
    <3>2. CASE UNCHANGED data
      BY <3>2
    <3> QED
      BY <1>2, <3>1, <3>2 DEF Begin, OpenTransaction, Unsupported, FallBack, TransientAbort,
         Abort, Commit
  <2>4. \A q \in Callers : Issued(q)' \subseteq Issued(q)
    BY <2>2, <2>3 DEF Issued
  <2> QED
    BY <2>1, <2>2, <2>4, NothingIssued DEF PlainNumbers
<1>3. ASSUME NEW p \in Callers, GenerateId(p) PROVE PlainInv'
  <2> DEFINE next == db[Counter].n + 1
  <2>1. /\ db' = [db EXCEPT ![Counter] = [n |-> next, by |-> p]]
        /\ data' = [data EXCEPT ![p] = next] /\ data[p] = 0
        /\ UNCHANGED <<dirty, mode>>
    BY <1>1, <1>3 DEF GenerateId, NeedsNumber, Bump, Seen, InTransaction, PlainModes
  <2>2. Counter \in Docs /\ db[Counter].n \in Nat /\ \A q \in Callers : db'[q] = db[q]
    BY <2>1, CallerIsDoc DEF TypeOK, Document
  <2>3. db'[Counter].n = next /\ next \in Nat \ {0}
    BY <2>1, <2>2 DEF TypeOK
  <2>4. \A q \in Callers \ {p} : Issued(q)' = Issued(q)
    BY <2>1, <2>2 DEF Issued, TypeOK
  <2>5. Issued(p)' = Issued(p) \cup {next}
    BY <2>1, <2>2, <2>3 DEF Issued, TypeOK
  <2>6. \A q \in Callers : \A n \in Issued(q) : n \in Nat /\ n < next
    BY <2>2 DEF PlainNumbers, Issued
  <2> HIDE DEF next
  <2>7. \A q \in Callers : \A n \in Issued(q)' : n <= db'[Counter].n
    BY <2>3, <2>4, <2>5, <2>6
  <2>8. \A q \in Callers : next \notin Issued(q)
    BY <2>3, <2>6
  <2>9. \A q, r \in Callers : q # r => Issued(q)' \cap Issued(r)' = {}
    BY <2>4, <2>5, <2>8 DEF PlainNumbers
  <2> QED
    BY <2>1, <2>2, <2>7, <2>9 DEF PlainModes, PlainNumbers
<1>4. ASSUME NEW p \in Callers, Create(p) PROVE PlainInv'
  <2>1. /\ db' = [db EXCEPT ![p] = [n |-> data[p], by |-> p]]
        /\ data[p] # 0 /\ UNCHANGED <<data, dirty, mode>>
    BY <1>1, <1>4 DEF Create, NeedsNumber
  <2>2. \A q \in Callers \ {p} : db'[q] = db[q]
    BY <2>1, CallerIsDoc DEF TypeOK
  <2>3. db'[p] = [n |-> data[p], by |-> p] /\ db'[Counter] = db[Counter]
    BY <2>1, CallerIsDoc DEF TypeOK
  <2>4. \A q \in Callers : Issued(q)' \subseteq Issued(q)
    BY <2>1, <2>2, <2>3 DEF Issued
  <2> QED
    BY <2>1, <2>2, <2>3, <2>4, NothingIssued DEF PlainModes, PlainNumbers
<1>5. ASSUME NEW p \in Callers, Reserve(p) PROVE PlainInv'
  <2>1. /\ db' = [db EXCEPT ![Current(p).doc] = [n |-> step[p], by |-> p]]
        /\ UNCHANGED <<data, dirty, mode>>
    BY <1>1, <1>5 DEF Reserve
  <2>2. Current(p).doc \in Stock
    BY <1>5, ScriptSteps DEF Reserve, Reserving, HasNext, Current
  <2>3. db'[Counter] = db[Counter] /\ \A q \in Callers : db'[q] = db[q]
    BY <2>1, <2>2, CallerIsDoc, BatchAssumption DEF TypeOK
  <2>4. \A q \in Callers : Issued(q)' \subseteq Issued(q)
    BY <2>1, <2>3 DEF Issued
  <2> QED
    BY <2>1, <2>3, <2>4, NothingIssued DEF PlainModes, PlainNumbers
<1>6. CASE UNCHANGED vars
  <2>1. \A q \in Callers : Issued(q)' \subseteq Issued(q)
    BY <1>6 DEF vars, Issued
  <2> QED
    BY <1>6, <2>1, NothingIssued DEF vars, PlainModes, PlainNumbers
<1> QED
  BY <1>2, <1>3, <1>4, <1>5, <1>6 DEF Next

LEMMA PlainInvInvariant == Spec => [](standalone => PlainInv)
<1>1. Init => PlainInv
  <2> SUFFICES ASSUME Init PROVE PlainInv
    OBVIOUS
  <2>1. \A p \in Callers : data[p] = 0 /\ db[p].by = Nobody
    BY CallerIsDoc DEF Init, Empty
  <2>2. \A p \in Callers : Issued(p) = {}
    BY <2>1, CallerIsDoc DEF Issued
  <2>3. PlainNumbers
    BY <2>1, <2>2, CallerIsDoc DEF PlainNumbers
  <2>4. TypeOK /\ PlainModes
    BY InitTyped DEF Init, PlainModes
  <2> QED
    BY <2>3, <2>4 DEF PlainInv
<1>2. (standalone => PlainInv) /\ TypeOK' /\ [Next]_vars => (standalone => PlainInv)'
  BY PlainInvInductive DEF Next, vars
<1> QED
  BY <1>1, <1>2, TypeCorrect, PTL DEF Spec

\* No two invoices get the same number: without transactions in any case, and with them
\* when the methods are session-aware and a batch that runs again has no number yet.
\* That is so of every callback that builds its data anew, but not of the documented one
\* (transaction.ts:101), whose data object outlives its first run: then a transient
\* error behind the increment leaves it a number that somebody else will draw.
THEOREM NumbersUnique ==
  /\ Spec => [](standalone => NoDuplicateIds)
  /\ Bindable => (Spec /\ [][Renumbers]_vars => []NoDuplicateIds)
  /\ Bindable /\ FreshData => (Spec => []NoDuplicateIds)
<1>1. Spec => [](standalone => NoDuplicateIds)
  BY PlainUnique, PlainInvInvariant, PTL
<1>2. ASSUME Bindable PROVE Spec /\ [][Renumbers]_vars => []NoDuplicateIds
  <2>1. (Transactional => NumberInv) /\ (standalone => NoDuplicateIds) => NoDuplicateIds
    BY <1>2 DEF NumberInv, Transactional
  <2> QED
    BY <1>1, <2>1, NumberInvInvariant, PTL
<1>3. ASSUME Bindable, FreshData PROVE Spec => []NoDuplicateIds
  BY <1>2, <1>3, FreshRenumbers, PTL
<1> QED
  BY <1>1, <1>2, <1>3

-----------------------------------------------------------------------------
(***************************************************************************)
(* Falling back.  Without transactions a batch has no effect before its    *)
(* first statement with the session is rejected, because none of its       *)
(* methods is sent on its own until then.                                  *)
(***************************************************************************)

Untouched ==
  \A p \in Callers : pc[p] \in {"idle", "running"} /\ mode[p] = "closed" =>
    \A d \in Docs \ {Counter} : db[d].by # p

LEMMA UntouchedInductive ==
  ASSUME Bindable, standalone, PlainInv, Untouched, [Next]_vars PROVE Untouched'
<1> USE DEF PlainInv
<1>1. CASE UNCHANGED vars
  BY <1>1 DEF vars, Untouched
<1>2. ASSUME NEW p \in Callers, Begin(p) \/ OpenTransaction(p) \/ Unsupported(p) PROVE Untouched'
  BY <1>2 DEF Begin, OpenTransaction, Unsupported, Untouched, TypeOK
<1>3. ASSUME NEW p \in Callers, FallBack(p) \/ Abort(p) PROVE Untouched'
  BY <1>3 DEF FallBack, Abort, Untouched, TypeOK
<1>4. ASSUME NEW p \in Callers, TransientAbort(p) PROVE FALSE
  BY <1>4 DEF TransientAbort, PlainModes
<1>5. ASSUME NEW p \in Callers, Commit(p) PROVE Untouched'
  <2>1. db' = db
    BY <1>5 DEF Commit, PlainModes, TypeOK
  <2> QED
    BY <1>5, <2>1 DEF Commit, Untouched, TypeOK
<1>6. ASSUME NEW p \in Callers, NEW d, NEW n, Write(p, d, [n |-> n, by |-> p]),
             UNCHANGED <<pc, mode>>
      PROVE  Untouched'
  <2>1. mode[p] = "plain" /\ db' = [db EXCEPT ![d] = [n |-> n, by |-> p]]
    BY <1>6 DEF Write, WriteOutside, InTransaction, OnItsOwn, HasNext, Bound, Current,
       Bindable, PlainModes
  <2>2. ASSUME NEW q \in Callers, q # p, NEW e \in Docs, db[e].by # q PROVE db'[e].by # q
    BY <2>1, <2>2 DEF TypeOK
  <2> QED
    BY <1>6, <2>1, <2>2 DEF Untouched
<1>7. ASSUME NEW p \in Callers, GenerateId(p) \/ Create(p) \/ Reserve(p) PROVE Untouched'
  BY <1>6, <1>7 DEF GenerateId, Bump, Create, Reserve
<1> QED
  BY <1>1, <1>2, <1>3, <1>4, <1>5, <1>7 DEF Next

\* When the callback runs again without a transaction, nothing of its first run is left.
THEOREM FallsBackCleanly == Bindable => (Spec => FallBackIsClean)
<1> SUFFICES ASSUME Bindable PROVE Spec => FallBackIsClean
  OBVIOUS
<1>1. Init => (standalone => Untouched)
  BY CallerIsDoc DEF Init, Untouched, Empty
<1>2. (standalone => PlainInv) /\ (standalone => Untouched) /\ [Next]_vars
        => (standalone => Untouched)'
  BY UntouchedInductive DEF Next, vars
<1>3. (standalone => Untouched) => [\A p \in Callers : FallBack(p) => Effects(p) = {}]_vars
  BY DEF FallBack, HasNext, Untouched, Effects
<1> QED
  BY <1>1, <1>2, <1>3, PlainInvInvariant, PTL DEF Spec, FallBackIsClean
=============================================================================
