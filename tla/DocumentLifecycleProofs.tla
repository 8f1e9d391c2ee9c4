---------------------- MODULE DocumentLifecycleProofs ----------------------
(***************************************************************************)
(* Safety of deletions and their hooks, for every number of callers,       *)
(* parents, children, relations and tenants, and every configuration.      *)
(***************************************************************************)
EXTENDS DocumentLifecycle, TLAPS

-----------------------------------------------------------------------------
(* Types                                                                    *)

LEMMA WriteTyped ==
  ASSUME TypeOK, NEW c \in Callers, NEW D \in SUBSET Docs, NEW new \in [D -> Document],
         call' \in [Callers -> Call], Write(c, new)
  PROVE  doc' \in [Docs -> Document] /\ news' \in [Callers -> SUBSET Docs]
<1>1. DOMAIN new = D
  OBVIOUS
<1>2. doc' \in [Docs -> Document]
  BY <1>1 DEF Write, TypeOK
<1>3. news' \in [Callers -> SUBSET Docs]
  BY <1>1 DEF Write, TypeOK
<1> QED
  BY <1>2, <1>3

LEMMA SetsTyped ==
  ASSUME TypeOK, NEW c \in Callers
  PROVE  /\ Matching(c) \subseteq Parents \cap Scope(c)
         /\ Addressed(c) \subseteq Docs \cap Scope(c)
         /\ \A r, ids : Referencing(c, r, ids) \subseteq Children \cap Scope(c)
         /\ \A r, ids : Referencing(c, r, ids) \subseteq Docs
         /\ Matching(c) \subseteq Docs
  BY DEF TypeOK, Matching, Addressed, Referencing, Scope, Docs

LEMMA NewTyped ==
  ASSUME TypeOK, NEW D \in SUBSET Docs
  PROVE  /\ Marked(D) \in [D -> Document]
         /\ Removed(D) \in [D -> Document]
         /\ Restored(D) \in [D -> Document]
<1>1. \A d \in D : /\ [doc[d] EXCEPT !.deleted = "date"] \in Document
                   /\ [doc[d] EXCEPT !.exists = FALSE] \in Document
                   /\ [doc[d] EXCEPT !.deleted = "null"] \in Document
  BY DEF TypeOK, Document
<1> QED
  BY <1>1 DEF Marked, Removed, Restored

LEMMA FlagsTyped ==
  ASSUME TypeOK
  PROVE  \A d \in Docs : /\ [doc[d] EXCEPT !.in = ~@] \in Document
                         /\ [doc[d] EXCEPT !.in = FALSE] \in Document
                         /\ [doc[d] EXCEPT !.frozen = TRUE] \in Document
<1> SUFFICES ASSUME NEW d \in Docs
             PROVE  /\ [doc[d] EXCEPT !.in = ~@] \in Document
                    /\ [doc[d] EXCEPT !.in = FALSE] \in Document
                    /\ [doc[d] EXCEPT !.frozen = TRUE] \in Document
  OBVIOUS
<1>1. doc[d] \in Document /\ (~doc[d].in) \in BOOLEAN
  BY DEF TypeOK
<1>2. \A b \in BOOLEAN : [doc[d] EXCEPT !.in = b] \in Document /\ [doc[d] EXCEPT !.frozen = b] \in Document
  BY <1>1 DEF Document
<1> QED
  BY <1>1, <1>2

LEMMA CountTyped ==
  ASSUME TypeOK, started < MaxCalls, started' = started + 1 PROVE started' \in 0 .. MaxCalls
  BY LifecycleAssumption DEF TypeOK

LEMMA HooksTyped ==
  ASSUME NEW o PROVE Hooks(o) \subseteq Relations \cup {"snapshot", "guard"}
  BY DEF Hooks, Related

LEMMA IdleTyped == Idle \in Call
  BY DEF Idle, Call, Operations, Deletions, ById, ByFilter

LEMMA BlankTyped == Blank \in Document /\ Missing \in Document
  BY DEF Blank, Missing, Document

LEMMA BeginTyped ==
  ASSUME TypeOK, NEW c \in Callers, NEW o \in Operations, NEW target \in SUBSET Docs,
         NEW hard \in BOOLEAN, Begin(c, o, target, hard)
  PROVE  TypeOK'
<1>1. call' \in [Callers -> Call]
  <2>1. [Idle EXCEPT !.stage = IF o \in Deletions /\ setup.soft /\ ~hard THEN "policy" ELSE "hooks",
                     !.op = o, !.hard = hard, !.ids = target, !.todo = Hooks(o)] \in Call
    BY HooksTyped, IdleTyped DEF Call
  <2> QED
    BY <2>1 DEF Begin, TypeOK
<1>2. started' \in 0 .. MaxCalls
  BY LifecycleAssumption DEF Begin, TypeOK
<1> QED
  BY <1>1, <1>2 DEF Begin, TypeOK

\* The call of c as the steps leave it, field by field.
LEMMA EndsCall ==
  ASSUME TypeOK, NEW c \in Callers, NEW how \in {"done", "missed", "refused", "failed"}, Ends(c, how)
  PROVE  /\ call' = [call EXCEPT ![c] = [call[c] EXCEPT !.stage = how, !.todo = {}]]
         /\ call' \in [Callers -> Call]
         /\ \A x \in Callers \ {c} : call'[x] = call[x]
<1>1. call[c] \in Call /\ call \in [Callers -> Call]
  BY DEF TypeOK
<1>2. [call[c] EXCEPT !.stage = how, !.todo = {}] \in Call
  BY <1>1 DEF Call
<1>3. call' = [call EXCEPT ![c] = [call[c] EXCEPT !.stage = how, !.todo = {}]]
  <2> DEFINE mid == [call EXCEPT ![c].stage = how]
  <2>1. call' = [mid EXCEPT ![c].todo = {}]
    BY DEF Ends
  <2>2. mid[c] = [call[c] EXCEPT !.stage = how] /\ DOMAIN mid = Callers /\ \A x \in Callers \ {c} : mid[x] = call[x]
    BY <1>1
  <2>3. [mid[c] EXCEPT !.todo = {}] = [call[c] EXCEPT !.stage = how, !.todo = {}]
    BY <1>1, <2>2 DEF Call
  <2> HIDE DEF mid
  <2>4. call' = [x \in Callers |-> IF x = c THEN [mid[c] EXCEPT !.todo = {}] ELSE call[x]]
    BY <2>1, <2>2
  <2> QED
    BY <1>1, <2>3, <2>4
<1> QED
  BY <1>1, <1>2, <1>3

LEMMA PassesCall ==
  ASSUME TypeOK, NEW c \in Callers, NEW h, Passes(c, h)
  PROVE  /\ call' = [call EXCEPT ![c] = [call[c] EXCEPT !.todo = @ \ {h}]]
         /\ call' \in [Callers -> Call]
         /\ \A x \in Callers \ {c} : call'[x] = call[x]
<1>1. call[c] \in Call /\ call \in [Callers -> Call]
  BY DEF TypeOK
<1> QED
  BY <1>1 DEF Passes, Call

LEMMA ReturnsCall ==
  ASSUME TypeOK, NEW c \in Callers, Returns(c)
  PROVE  /\ call' = [call EXCEPT ![c] = Idle] /\ call' \in [Callers -> Call]
         /\ \A x \in Callers \ {c} : call'[x] = call[x]
  BY IdleTyped DEF Returns, TypeOK

LEMMA AfterCall ==
  ASSUME TypeOK, NEW c \in Callers, NEW stage \in {"detach", "cascade"}, After(c, stage)
  PROVE  LET todo == IF call[c].ids # {} THEN Related({stage}) ELSE {}
         IN  /\ call' = [call EXCEPT ![c] = [call[c] EXCEPT !.stage = stage, !.todo = todo]]
             /\ call' \in [Callers -> Call]
             /\ \A x \in Callers \ {c} : call'[x] = call[x]
<1> DEFINE todo == IF call[c].ids # {} THEN Related({stage}) ELSE {}
<1>1. call[c] \in Call /\ call \in [Callers -> Call] /\ todo \subseteq Relations
  BY DEF TypeOK, Related
<1>2. [call[c] EXCEPT !.stage = stage, !.todo = todo] \in Call
  BY <1>1 DEF Call
<1>3. call' = [call EXCEPT ![c] = [call[c] EXCEPT !.stage = stage, !.todo = todo]]
  <2> DEFINE mid == [call EXCEPT ![c].stage = stage]
  <2>1. todo = Related({stage}) \cap {r \in Relations : call[c].ids # {}}
    BY DEF Related
  <2>2. call' = [mid EXCEPT ![c].todo = todo]
    BY <2>1 DEF After
  <2>3. mid[c] = [call[c] EXCEPT !.stage = stage] /\ DOMAIN mid = Callers /\ \A x \in Callers \ {c} : mid[x] = call[x]
    BY <1>1
  <2> HIDE DEF todo
  <2>4. [mid[c] EXCEPT !.todo = todo] = [call[c] EXCEPT !.stage = stage, !.todo = todo]
    BY <1>1, <2>3 DEF Call
  <2> HIDE DEF mid
  <2>5. call' = [x \in Callers |-> IF x = c THEN [mid[c] EXCEPT !.todo = todo] ELSE call[x]]
    BY <2>2, <2>3
  <2> QED
    BY <1>1, <2>4, <2>5
<1> QED
  BY <1>1, <1>2, <1>3

LEMMA MarkedCall ==
  ASSUME TypeOK, NEW c \in Callers, call' = [call EXCEPT ![c].stage = "hooks", ![c].marked = TRUE]
  PROVE  /\ call' = [call EXCEPT ![c] = [call[c] EXCEPT !.stage = "hooks", !.marked = TRUE]]
         /\ call' \in [Callers -> Call]
         /\ \A x \in Callers \ {c} : call'[x] = call[x]
<1>1. call[c] \in Call /\ call \in [Callers -> Call]
  BY DEF TypeOK
<1>2. [call[c] EXCEPT !.stage = "hooks", !.marked = TRUE] \in Call
  BY <1>1 DEF Call
<1>3. call' = [call EXCEPT ![c] = [call[c] EXCEPT !.stage = "hooks", !.marked = TRUE]]
  <2> DEFINE mid == [call EXCEPT ![c].stage = "hooks"]
  <2>1. call' = [mid EXCEPT ![c].marked = TRUE]
    OBVIOUS
  <2>2. mid[c] = [call[c] EXCEPT !.stage = "hooks"] /\ DOMAIN mid = Callers /\ \A x \in Callers \ {c} : mid[x] = call[x]
    BY <1>1
  <2>3. [mid[c] EXCEPT !.marked = TRUE] = [call[c] EXCEPT !.stage = "hooks", !.marked = TRUE]
    BY <1>1, <2>2 DEF Call
  <2> HIDE DEF mid
  <2>4. call' = [x \in Callers |-> IF x = c THEN [mid[c] EXCEPT !.marked = TRUE] ELSE call[x]]
    BY <2>1, <2>2
  <2> QED
    BY <1>1, <2>3, <2>4
<1> QED
  BY <1>1, <1>2, <1>3

\* Every variable keeps its type.
THEOREM TypeCorrect == Spec => []TypeOK
<1>1. Init => TypeOK
  <2> SUFFICES ASSUME Init PROVE TypeOK
    OBVIOUS
  <2>1. \A in \in BOOLEAN, p \in Parents :
          [Blank EXCEPT !.in = in] \in Document /\ [Blank EXCEPT !.ref = p] \in Document
    BY BlankTyped DEF Document
  <2>2. PICK referenced \in Parents, in \in {{}, Parents} :
          doc = [d \in Docs |-> IF d \in Parents THEN [Blank EXCEPT !.in = d \in in]
                                ELSE [Blank EXCEPT !.ref = referenced]]
    BY DEF Init
  <2>3. \A d \in Docs : (d \in in) \in BOOLEAN
    OBVIOUS
  <2>4. \A d \in Docs : [Blank EXCEPT !.in = d \in in] \in Document /\ [Blank EXCEPT !.ref = referenced] \in Document
    BY <2>1, <2>3
  <2>5. doc \in [Docs -> Document]
    BY <2>2, <2>4
  <2> QED
    BY <2>5, IdleTyped, LifecycleAssumption DEF Init, TypeOK
<1>2. TypeOK /\ [Next]_vars => TypeOK'
  <2> SUFFICES ASSUME TypeOK, [Next]_vars PROVE TypeOK'
    OBVIOUS
  <2> USE SetsTyped, NewTyped
  <2>1. CASE UNCHANGED vars
    BY <2>1 DEF vars, TypeOK
  <2>2. ASSUME NEW c \in Callers, NEW o \in Operations, CallByFilter(c, o) PROVE TypeOK'
    BY <2>2, BeginTyped DEF CallByFilter
  <2>3. ASSUME NEW c \in Callers, NEW o \in Operations, NEW p \in Parents, CallById(c, o, p)
        PROVE  TypeOK'
    <3>1. {p} \in SUBSET Docs
      BY DEF Docs
    <3> QED
      BY <2>3, <3>1, BeginTyped DEF CallById
  <2>4. ASSUME NEW c \in Callers, SoftDelete(c) PROVE TypeOK'
    <3>1. call[c] \in Call
      BY DEF TypeOK
    <3>2. call' \in [Callers -> Call]
      BY <2>4, EndsCall, MarkedCall DEF SoftDelete
    <3>3. {p \in Matching(c) : Live(p)} \in SUBSET Docs /\ Addressed(c) \in SUBSET Docs
      OBVIOUS
    <3> QED
      BY <2>4, <3>2, <3>3, WriteTyped DEF SoftDelete, TypeOK, Reads
  <2>5. ASSUME NEW c \in Callers, Snapshot(c) PROVE TypeOK'
    BY <2>5 DEF Snapshot, TypeOK, Call, Reads
  <2>6. ASSUME NEW c \in Callers, NEW r, Guard(c) \/ Restrict(c, r) PROVE TypeOK'
    BY <2>6, EndsCall, PassesCall DEF Guard, Restrict, Reads, TypeOK
  <2>7. ASSUME NEW c \in Callers, Remove(c) PROVE TypeOK'
    <3>1. call' \in [Callers -> Call]
      BY <2>7, AfterCall DEF Remove
    <3>2. Addressed(c) \in SUBSET Docs /\ Matching(c) \in SUBSET Docs
      OBVIOUS
    <3> QED
      BY <2>7, <3>1, <3>2, WriteTyped DEF Remove, Reads, TypeOK
  <2>8. ASSUME NEW c \in Callers, WriteById(c) PROVE TypeOK'
    <3>1. Addressed(c) \in SUBSET Docs
      OBVIOUS
    <3>2. [p \in Addressed(c) |-> [doc[p] EXCEPT !.in = ~@]] \in [Addressed(c) -> Document]
      BY <3>1, FlagsTyped
    <3>3. call' \in [Callers -> Call]
      BY <2>8, ReturnsCall DEF WriteById
    <3> QED
      BY <2>8, <3>1, <3>2, <3>3, WriteTyped DEF WriteById, TypeOK
  <2>9. ASSUME NEW c \in Callers, UpdateOne(c) \/ UpdateMany(c) PROVE TypeOK'
    <3>1. \A D \in SUBSET Docs : [d \in D |-> [doc[d] EXCEPT !.in = FALSE]] \in [D -> Document]
      BY FlagsTyped
    <3>2. call' \in [Callers -> Call]
      BY <2>9, ReturnsCall DEF UpdateOne, UpdateMany
    <3>3. /\ {p \in Matching(c) : Live(p)} \in SUBSET Docs
          /\ {} \in SUBSET Docs
          /\ \A p \in Matching(c) : {p} \in SUBSET Docs
      OBVIOUS
    <3>4. CASE UpdateOne(c)
      BY <3>1, <3>2, <3>3, <3>4, WriteTyped DEF UpdateOne, TypeOK
    <3>5. CASE UpdateMany(c)
      BY <3>1, <3>2, <3>3, <3>5, WriteTyped DEF UpdateMany, TypeOK
    <3> QED
      BY <2>9, <3>4, <3>5
  <2>10. ASSUME NEW c \in Callers, NEW r \in Relations, Relay(c, r) PROVE TypeOK'
    <3>1. call' \in [Callers -> Call]
      BY <2>10, PassesCall DEF Relay
    <3>2. Detached(c, r) \in SUBSET Docs /\ Cascaded(c, r) \in SUBSET Docs
      BY DEF Detached, Cascaded
    <3>3. [k \in Detached(c, r) |-> [doc[k] EXCEPT !.ref = None]] \in [Detached(c, r) -> Document]
      BY <3>2 DEF TypeOK, Document
    <3> QED
      BY <2>10, <3>1, <3>2, <3>3, WriteTyped DEF Relay, TypeOK
  <2>11. ASSUME NEW c \in Callers, NEW r \in Relations, RelayFails(c, r) PROVE TypeOK'
    BY <2>11 DEF RelayFails, Reads, TypeOK, Call
  <2>12. ASSUME NEW c \in Callers, Relayed(c) PROVE TypeOK'
    BY <2>12, EndsCall, AfterCall DEF Relayed, Reads, TypeOK
  <2>13. ASSUME NEW c \in Callers, NEW p \in Parents, Freeze(c, p) PROVE TypeOK'
    <3>1. {p} \in SUBSET Docs
      BY DEF Docs
    <3>2. [d \in {p} |-> [doc[d] EXCEPT !.frozen = TRUE]] \in [{p} -> Document]
      BY <3>1, FlagsTyped
    <3> QED
      BY <2>13, <3>1, <3>2, ReturnsCall, WriteTyped, CountTyped DEF Freeze, TypeOK
  <2>14. ASSUME NEW c \in Callers, NEW k \in Children, RestoreChild(c, k) PROVE TypeOK'
    <3>1. {k} \in SUBSET Docs
      BY DEF Docs
    <3> QED
      BY <2>14, <3>1, ReturnsCall, WriteTyped, CountTyped DEF RestoreChild, TypeOK
  <2>15. ASSUME NEW c \in Callers, NEW k \in Children, NEW p \in Parents, CreateChild(c, k, p)
         PROVE  TypeOK'
    <3>1. {k} \in SUBSET Docs
      BY DEF Docs
    <3>2. [d \in {k} |-> [Blank EXCEPT !.ref = p]] \in [{k} -> Document]
      BY BlankTyped DEF Document
    <3> QED
      BY <2>15, <3>1, <3>2, ReturnsCall, WriteTyped, CountTyped DEF CreateChild, TypeOK
  <2>16. ASSUME NEW c \in Callers, Crash(c) PROVE TypeOK'
    BY <2>16, ReturnsCall DEF Crash, TypeOK
  <2> QED
    BY <2>1, <2>2, <2>3, <2>4, <2>5, <2>6, <2>7, <2>8, <2>9, <2>10, <2>11, <2>12, <2>13,
       <2>14, <2>15, <2>16 DEF Next, Step
<1> QED
  BY <1>1, <1>2, PTL DEF Spec

-----------------------------------------------------------------------------
(* What a step leaves alone                                                 *)

\* One step of c.
StepBy(c) ==
  \/ \E o \in Operations : CallByFilter(c, o) \/ \E p \in Parents : CallById(c, o, p)
  \/ Step(c)
  \/ \E p \in Parents : Freeze(c, p)
  \/ \E k \in Children : RestoreChild(c, k) \/ \E p \in Parents : CreateChild(c, k, p)
  \/ Crash(c)

\* What x's call sees of a step of others: their writes are news.
Undisturbed(x) ==
  /\ setup' = setup
  /\ call'[x] = call[x]
  /\ call[x].stage # "idle" =>
       /\ news[x] \subseteq news'[x]
       /\ \A d \in Docs : doc'[d] = doc[d] \/ d \in news'[x]

OthersUndisturbed(c) ==
  /\ \A x \in Callers \ {c} : Undisturbed(x)
  /\ \A d \in Docs : doc'[d] # doc[d] => d \in Scope(c)

LEMMA WriteFrame ==
  ASSUME TypeOK, NEW c \in Callers, NEW D \in SUBSET Docs, NEW new \in [D -> Document],
         Write(c, new), D \subseteq Scope(c), setup' = setup,
         \A x \in Callers \ {c} : call'[x] = call[x]
  PROVE  OthersUndisturbed(c)
<1>1. DOMAIN new = D
  OBVIOUS
<1>2. \A d \in Docs : doc'[d] = IF d \in D THEN new[d] ELSE doc[d]
  BY <1>1 DEF Write
<1>3. ASSUME NEW x \in Callers \ {c} PROVE Undisturbed(x)
  <2>1. CASE call[x].stage = "idle"
    BY <2>1 DEF Undisturbed
  <2>2. CASE call[x].stage # "idle"
    <3>1. call'[x] # Idle
      BY <2>2 DEF Idle
    <3>2. news'[x] = news[x] \cup D
      BY <1>1, <3>1 DEF Write, TypeOK
    <3> QED
      BY <1>2, <3>2 DEF Undisturbed
  <2> QED
    BY <2>1, <2>2
<1> QED
  BY <1>2, <1>3 DEF OthersUndisturbed

LEMMA ReadFrame ==
  ASSUME TypeOK, NEW c \in Callers, doc' = doc, setup' = setup,
         \A x \in Callers \ {c} : call'[x] = call[x] /\ news'[x] = news[x]
  PROVE  OthersUndisturbed(c)
  BY DEF OthersUndisturbed, Undisturbed

LEMMA StepFrame ==
  ASSUME TypeOK, NEW c \in Callers, StepBy(c)
  PROVE  OthersUndisturbed(c)
<1> USE SetsTyped, NewTyped
<1>1. ASSUME NEW o \in Operations, NEW target, NEW hard, Begin(c, o, target, hard)
      PROVE  OthersUndisturbed(c)
  BY <1>1, ReadFrame DEF Begin, TypeOK
<1>2. ASSUME NEW o \in Operations, CallByFilter(c, o) PROVE OthersUndisturbed(c)
  BY <1>1, <1>2 DEF CallByFilter
<1>3. ASSUME NEW o \in Operations, NEW p \in Parents, CallById(c, o, p) PROVE OthersUndisturbed(c)
  BY <1>1, <1>3 DEF CallById
<1>4. CASE SoftDelete(c)
  <2>1. /\ {p \in Matching(c) : Live(p)} \in SUBSET Docs /\ {p \in Matching(c) : Live(p)} \subseteq Scope(c)
        /\ Addressed(c) \in SUBSET Docs /\ Addressed(c) \subseteq Scope(c)
    OBVIOUS
  <2>2. \A x \in Callers \ {c} : call'[x] = call[x]
    BY <1>4, EndsCall, MarkedCall DEF SoftDelete, TypeOK
  <2> QED
    BY <1>4, <2>1, <2>2, WriteFrame, ReadFrame DEF SoftDelete, Reads
<1>5. CASE Snapshot(c)
  BY <1>5, ReadFrame DEF Snapshot, Reads, TypeOK
<1>6. ASSUME NEW r, Guard(c) \/ Restrict(c, r) PROVE OthersUndisturbed(c)
  <2>1. \A x \in Callers \ {c} : call'[x] = call[x]
    BY <1>6, EndsCall, PassesCall DEF Guard, Restrict, TypeOK
  <2> QED
    BY <1>6, <2>1, ReadFrame DEF Guard, Restrict, Reads
<1>7. CASE Remove(c)
  <2>1. \A x \in Callers \ {c} : call'[x] = call[x]
    BY <1>7, AfterCall DEF Remove, TypeOK
  <2>2. /\ Addressed(c) \in SUBSET Docs /\ Addressed(c) \subseteq Scope(c)
        /\ Matching(c) \in SUBSET Docs /\ Matching(c) \subseteq Scope(c)
    OBVIOUS
  <2> QED
    BY <1>7, <2>1, <2>2, WriteFrame, ReadFrame DEF Remove, Reads
<1>8. CASE Returns(c) /\ setup' = setup /\ \E D \in SUBSET Docs :
             D \subseteq Scope(c) /\ \E new \in [D -> Document] : Write(c, new)
  BY <1>8, ReturnsCall, WriteFrame DEF TypeOK
<1>9. CASE WriteById(c)
  <2>1. Addressed(c) \in SUBSET Docs /\ Addressed(c) \subseteq Scope(c)
    OBVIOUS
  <2>2. [p \in Addressed(c) |-> [doc[p] EXCEPT !.in = ~@]] \in [Addressed(c) -> Document]
    BY <2>1, FlagsTyped
  <2> QED
    BY <1>8, <1>9, <2>1, <2>2 DEF WriteById
<1>10. CASE UpdateOne(c)
  <2>1. \A D \in SUBSET Docs : [d \in D |-> [doc[d] EXCEPT !.in = FALSE]] \in [D -> Document]
    BY FlagsTyped
  <2>2. CASE \E p \in Matching(c) : Live(p)
    <3>1. PICK p \in Matching(c) : Write(c, [d \in {p} |-> [doc[d] EXCEPT !.in = FALSE]])
      BY <1>10, <2>2 DEF UpdateOne
    <3>2. {p} \in SUBSET Docs /\ {p} \subseteq Scope(c)
      OBVIOUS
    <3>3. [d \in {p} |-> [doc[d] EXCEPT !.in = FALSE]] \in [{p} -> Document]
      BY <2>1, <3>2
    <3> QED
      BY <1>8, <1>10, <3>1, <3>2, <3>3 DEF UpdateOne
  <2>3. CASE ~\E p \in Matching(c) : Live(p)
    <3>1. {} \in SUBSET Docs /\ {} \subseteq Scope(c) /\ Removed({}) \in [{} -> Document]
      OBVIOUS
    <3> QED
      BY <1>8, <1>10, <2>3, <3>1 DEF UpdateOne
  <2> QED
    BY <2>2, <2>3
<1>11. CASE UpdateMany(c)
  <2>1. \A D \in SUBSET Docs : [d \in D |-> [doc[d] EXCEPT !.in = FALSE]] \in [D -> Document]
    BY FlagsTyped
  <2>2. {p \in Matching(c) : Live(p)} \in SUBSET Docs /\ {p \in Matching(c) : Live(p)} \subseteq Scope(c)
    OBVIOUS
  <2> QED
    BY <1>8, <1>11, <2>1, <2>2 DEF UpdateMany
<1>12. ASSUME NEW r \in Relations, Relay(c, r) PROVE OthersUndisturbed(c)
  <2>1. \A x \in Callers \ {c} : call'[x] = call[x]
    BY <1>12, PassesCall DEF Relay, TypeOK
  <2>2. /\ Detached(c, r) \in SUBSET Docs /\ Detached(c, r) \subseteq Scope(c)
        /\ Cascaded(c, r) \in SUBSET Docs /\ Cascaded(c, r) \subseteq Scope(c)
    BY DEF Detached, Cascaded
  <2>3. [k \in Detached(c, r) |-> [doc[k] EXCEPT !.ref = None]] \in [Detached(c, r) -> Document]
    BY <2>2 DEF TypeOK, Document
  <2> QED
    BY <1>12, <2>1, <2>2, <2>3, WriteFrame DEF Relay
<1>13. ASSUME NEW r \in Relations, RelayFails(c, r) PROVE OthersUndisturbed(c)
  BY <1>13, ReadFrame DEF RelayFails, Reads, TypeOK
<1>14. CASE Relayed(c)
  <2>1. \A x \in Callers \ {c} : call'[x] = call[x]
    BY <1>14, EndsCall, AfterCall DEF Relayed, TypeOK
  <2> QED
    BY <1>14, <2>1, ReadFrame DEF Relayed, Reads
<1>15. ASSUME NEW p \in Parents, Freeze(c, p) PROVE OthersUndisturbed(c)
  <2>1. {p} \in SUBSET Docs /\ [d \in {p} |-> [doc[d] EXCEPT !.frozen = TRUE]] \in [{p} -> Document]
    BY FlagsTyped DEF Docs
  <2>2. {p} \subseteq Scope(c)
    BY <1>15 DEF Freeze
  <2> QED
    BY <1>8, <1>15, <2>1, <2>2 DEF Freeze
<1>16. ASSUME NEW k \in Children, RestoreChild(c, k) PROVE OthersUndisturbed(c)
  <2>1. {k} \in SUBSET Docs
    BY DEF Docs
  <2> QED
    BY <1>8, <1>16, <2>1 DEF RestoreChild
<1>17. ASSUME NEW k \in Children, NEW p \in Parents, CreateChild(c, k, p) PROVE OthersUndisturbed(c)
  <2>1. {k} \in SUBSET Docs /\ [d \in {k} |-> [Blank EXCEPT !.ref = p]] \in [{k} -> Document]
    BY BlankTyped DEF Docs, Document
  <2> QED
    BY <1>8, <1>17, <2>1 DEF CreateChild
<1>18. CASE Crash(c)
  BY <1>18, ReturnsCall, ReadFrame DEF Crash, TypeOK
<1> QED
  BY <1>2, <1>3, <1>4, <1>5, <1>6, <1>7, <1>9, <1>10, <1>11, <1>12, <1>13, <1>14, <1>15,
     <1>16, <1>17, <1>18 DEF StepBy, Step

\* A step changes documents of one tenant only, through the relations as well.
THEOREM TenantsStayApart == Spec => TenantsApart
<1>1. TypeOK /\ [Next]_vars => [\E t \in Tenants : \A d \in Docs : doc'[d] # doc[d] => Home[d] = t]_vars
  <2> SUFFICES ASSUME TypeOK, NEW c \in Callers, StepBy(c)
               PROVE  \E t \in Tenants : \A d \in Docs : doc'[d] # doc[d] => Home[d] = t
    BY DEF Next, StepBy
  <2>1. ActsFor[c] \in Tenants
    BY LifecycleAssumption
  <2>2. \A d \in Docs : doc'[d] # doc[d] => Home[d] = ActsFor[c]
    BY StepFrame DEF OthersUndisturbed, Scope
  <2> QED
    BY <2>1, <2>2
<1> QED
  BY <1>1, TypeCorrect, PTL DEF Spec, TenantsApart

-----------------------------------------------------------------------------
(* The invariant, caller by caller.  What a hook found is still so, except for *)
(* documents others have changed since the call began.                       *)

\* The hooks ahead are those of the operation; a bulk deletion has no ids, and
\* nothing is restricted, before its snapshot.
HooksAhead(c) ==
  call[c].stage \in {"policy", "hooks"} =>
    /\ call[c].todo \subseteq Hooks(call[c].op)
    /\ "snapshot" \in call[c].todo => Related({"restrict"}) \subseteq call[c].todo /\ call[c].ids = {}
    /\ call[c].stage = "policy" =>
         call[c].todo = Hooks(call[c].op) /\ setup.soft /\ call[c].op \in Deletions
    /\ call[c].broken = {}

\* Of what the statement is going to write, the guard has seen nothing frozen.
GuardPassed(c) ==
  call[c].stage = "hooks" /\ setup.guard /\ "guard" \notin call[c].todo
    /\ call[c].op # "findOneAndUpdate" =>
    \A p \in Guarded(c) : doc[p].frozen => p \in news[c]

\* The ids of a bulk deletion are those it matches.
SnapshotTaken(c) ==
  call[c].stage = "hooks" /\ call[c].op = "deleteMany" /\ "snapshot" \notin call[c].todo =>
    \A p \in Parents : p \in news[c] \/ (p \in call[c].ids <=> p \in Matching(c))

\* Nothing live is left under ids through r.
Childless(c, r) == \A k \in Referencing(c, r, call[c].ids) : Live(k) => k \in news[c]

\* A relation whose restriction has passed has no live child.
RestrictPassed(c) ==
  call[c].stage = "hooks" /\ call[c].op \in Deletions =>
    \A r \in Related({"restrict"}) \ call[c].todo : Childless(c, r)

MarkedSoftly(c) == call[c].marked => setup.soft

\* What the soft deletion marked is not live, nor what the statement removed.
DeletedAreGone(c) ==
  (call[c].stage = "hooks" /\ call[c].marked) \/ call[c].stage \in {"detach", "cascade"} =>
    \A p \in Parents \cap Scope(c) :
      /\ \/ p \in call[c].ids
         \/ call[c].op = "deleteMany" /\ "snapshot" \in call[c].todo /\ p \in Matching(c)
      /\ Live(p)
      => p \in news[c]

\* What a cascade has done with a relation.
Settled(c, r) ==
  \/ r \in call[c].broken
  \/ call[c].broken # {} /\ ~setup.parallel
  \/ Childless(c, r)

RelationsSettled(c) ==
  /\ call[c].stage \in {"detach", "cascade"} =>
       /\ call[c].todo \subseteq Related({call[c].stage})
       /\ "snapshot" \notin call[c].todo
       /\ \A r \in Related({call[c].stage}) \ call[c].todo : Settled(c, r)
  /\ call[c].stage = "detach" => call[c].broken \subseteq Related({"detach"})
  /\ call[c].stage = "cascade" => \A r \in Related({"detach"}) : Settled(c, r)
  /\ call[c].op \in Deletions /\ call[c].stage = "done" =>
       call[c].broken = {} /\ \A r \in Related({"detach", "cascade"}) : Settled(c, r)
  /\ call[c].op \in Deletions /\ call[c].stage = "failed" =>
       \A r \in Related({"detach", "cascade"}) :
          Settled(c, r) \/ (r \in Related({"cascade"}) /\ \E s \in call[c].broken : setup.policy[s] = "detach")

CallInv(c) ==
  /\ call[c].ids \subseteq Parents
  /\ HooksAhead(c) /\ GuardPassed(c) /\ SnapshotTaken(c) /\ RestrictPassed(c)
  /\ MarkedSoftly(c) /\ DeletedAreGone(c) /\ RelationsSettled(c)

LifecycleInv == \A c \in Callers : CallInv(c)

\* A document that is not written is seen as before.
LEMMA SeenAsBefore ==
  ASSUME NEW d, setup' = setup, doc'[d] = doc[d] PROVE Live(d)' <=> Live(d)
  BY DEF Live, Softly, Undeleted

LEMMA MatchedAsBefore ==
  ASSUME NEW c, NEW p, doc'[p] = doc[p] PROVE p \in Matching(c)' <=> p \in Matching(c)
  BY DEF Matching, Scope

\* What the guard probes, operation by operation.
LEMMA GuardedIs ==
  ASSUME NEW c
  PROVE  /\ call[c].op \in ById \cup {"delete"} => Guarded(c) = Addressed(c)
         /\ call[c].op = "deleteMany" => Guarded(c) = Matching(c)
         /\ call[c].op \in ByFilter => Guarded(c) = {p \in Matching(c) : Live(p)}
<1>1. CASE call[c].op \in ById \cup {"delete"}
  BY <1>1 DEF Guarded, ById, ByFilter
<1>2. CASE call[c].op = "deleteMany"
  BY <1>2 DEF Guarded, ById, ByFilter
<1>3. CASE call[c].op \in ByFilter
  BY <1>3 DEF Guarded, ById, ByFilter
<1> QED
  BY <1>1, <1>2, <1>3

LEMMA GuardedIsAfter ==
  ASSUME NEW c
  PROVE  /\ call'[c].op \in ById \cup {"delete"} => Guarded(c)' = Addressed(c)'
         /\ call'[c].op = "deleteMany" => Guarded(c)' = Matching(c)'
         /\ call'[c].op \in ByFilter => Guarded(c)' = {p \in Matching(c)' : Live(p)'}
<1>1. CASE call'[c].op \in ById \cup {"delete"}
  BY <1>1 DEF Guarded, ById, ByFilter
<1>2. CASE call'[c].op = "deleteMany"
  BY <1>2 DEF Guarded, ById, ByFilter
<1>3. CASE call'[c].op \in ByFilter
  BY <1>3 DEF Guarded, ById, ByFilter
<1> QED
  BY <1>1, <1>2, <1>3

LEMMA GuardedAsBefore ==
  ASSUME TypeOK, NEW c \in Callers, setup' = setup, call'[c].op = call[c].op,
         call'[c].ids = call[c].ids, NEW p, doc'[p] = doc[p]
  PROVE  p \in Guarded(c)' <=> p \in Guarded(c)
<1>1. call[c].op \in Operations
  BY DEF TypeOK, Call
<1>2. p \in Addressed(c)' <=> p \in Addressed(c)
  BY DEF Addressed, Scope
<1> QED
  BY <1>1, <1>2, GuardedIs, GuardedIsAfter, SeenAsBefore, MatchedAsBefore
     DEF Operations, Deletions

LEMMA GuardedTyped ==
  ASSUME TypeOK, NEW c \in Callers, call'[c] = call[c] PROVE Guarded(c)' \subseteq Docs
<1>1. call[c] \in Call
  BY DEF TypeOK
<1>2. Addressed(c)' \subseteq Docs /\ Matching(c)' \subseteq Docs
  BY <1>1 DEF Addressed, Matching, Call, Docs
<1> QED
  BY <1>1, <1>2, GuardedIsAfter DEF Call, Operations, Deletions

LEMMA RelatedAsBefore ==
  ASSUME setup' = setup PROVE \A policies : Related(policies)' = Related(policies)
  BY DEF Related

LEMMA HooksAsBefore ==
  ASSUME setup' = setup PROVE \A o : Hooks(o)' = Hooks(o)
  BY DEF Hooks, Related

\* The statements of others do not disturb what c has found: they are news.
LEMMA ChildlessUndisturbed ==
  ASSUME TypeOK, NEW c \in Callers, NEW r, setup' = setup, Childless(c, r),
         call'[c].ids = call[c].ids, news[c] \subseteq news'[c],
         \A k \in Children : RelationOf[k] = r => doc'[k] = doc[k] \/ k \in news'[c]
  PROVE  Childless(c, r)'
<1> SUFFICES ASSUME NEW k \in Referencing(c, r, call[c].ids)', Live(k)', k \notin news'[c]
             PROVE  FALSE
  BY DEF Childless
<1>1. k \in Children /\ RelationOf[k] = r
  BY DEF Referencing
<1>2. doc'[k] = doc[k]
  BY <1>1
<1>3. k \in Referencing(c, r, call[c].ids) /\ Live(k)
  BY <1>2, SeenAsBefore DEF Referencing, Scope
<1> QED
  BY <1>3 DEF Childless

LEMMA SettledUndisturbed ==
  ASSUME TypeOK, NEW c \in Callers, NEW r, setup' = setup, Settled(c, r),
         call'[c].ids = call[c].ids, call[c].broken \subseteq call'[c].broken,
         news[c] \subseteq news'[c],
         \A k \in Children : RelationOf[k] = r => doc'[k] = doc[k] \/ k \in news'[c]
  PROVE  Settled(c, r)'
  BY ChildlessUndisturbed DEF Settled

LEMMA OthersKeep ==
  ASSUME TypeOK, NEW x \in Callers, Undisturbed(x), CallInv(x) PROVE CallInv(x)'
<1> USE RelatedAsBefore, HooksAsBefore
<1>1. setup' = setup /\ call'[x] = call[x]
  BY DEF Undisturbed
<1>2. CASE call[x].stage = "idle"
  BY <1>1, <1>2 DEF CallInv, HooksAhead, GuardPassed, SnapshotTaken, RestrictPassed, MarkedSoftly,
     DeletedAreGone, RelationsSettled
<1>3. CASE call[x].stage # "idle"
  <2>1. news[x] \subseteq news'[x] /\ \A d \in Docs : doc'[d] = doc[d] \/ d \in news'[x]
    BY <1>3 DEF Undisturbed
  <2>2. (call[x].ids \subseteq Parents)' /\ HooksAhead(x)' /\ MarkedSoftly(x)'
    BY <1>1 DEF CallInv, HooksAhead, MarkedSoftly
  <2>3. \A k \in Children : doc'[k] = doc[k] \/ k \in news'[x]
    BY <2>1 DEF Docs
  <2>4. GuardPassed(x)'
    <3>1. ASSUME NEW p, doc'[p] = doc[p] PROVE p \in Guarded(x)' <=> p \in Guarded(x)
      BY <1>1, <3>1, GuardedAsBefore
    <3>2. Guarded(x)' \subseteq Docs
      BY <1>1, GuardedTyped
    <3> QED
      BY <1>1, <2>1, <3>1, <3>2 DEF CallInv, GuardPassed
  <2>5. SnapshotTaken(x)'
    BY <1>1, <2>1, MatchedAsBefore DEF CallInv, SnapshotTaken, Docs
  <2>6. RestrictPassed(x)'
    BY <1>1, <2>1, <2>3, ChildlessUndisturbed DEF CallInv, RestrictPassed
  <2>7. DeletedAreGone(x)'
    BY <1>1, <2>1, SeenAsBefore, MatchedAsBefore DEF CallInv, DeletedAreGone, Docs, Scope
  <2>8. RelationsSettled(x)'
    <3>1. \A r : Settled(x, r) => Settled(x, r)'
      BY <1>1, <2>1, <2>3, SettledUndisturbed
    <3> QED
      BY <1>1, <3>1 DEF CallInv, RelationsSettled
  <2> QED
    BY <2>2, <2>4, <2>5, <2>6, <2>7, <2>8 DEF CallInv
<1> QED
  BY <1>2, <1>3

-----------------------------------------------------------------------------
(* The invariant under the caller's own steps                               *)

LEMMA RestCall ==
  ASSUME NEW c \in Callers, call'[c].ids \subseteq Parents, call'[c].marked => setup'.soft,
         call'[c].stage \in {"idle", "missed", "refused"}
  PROVE  CallInv(c)'
  BY DEF CallInv, HooksAhead, GuardPassed, SnapshotTaken, RestrictPassed, MarkedSoftly,
     DeletedAreGone, RelationsSettled

LEMMA IdleCall ==
  ASSUME NEW c \in Callers, call'[c] = Idle PROVE CallInv(c)'
  BY RestCall DEF Idle

\* The names of the two other hooks are no relations.
LEMMA SnapshotHook == \A o : "snapshot" \in Hooks(o) => o = "deleteMany"
  BY LifecycleAssumption DEF Hooks, Related

LEMMA HooksOf ==
  ASSUME NEW o
  PROVE  /\ setup.guard => "guard" \in Hooks(o)
         /\ o = "deleteMany" => "snapshot" \in Hooks(o)
         /\ o \in Deletions => Related({"restrict"}) \subseteq Hooks(o)
  BY DEF Hooks, Deletions

LEMMA BeginKeeps ==
  ASSUME TypeOK, NEW c \in Callers, NEW o \in Operations, NEW target \in SUBSET Parents,
         NEW hard \in BOOLEAN, Begin(c, o, target, hard), o = "deleteMany" => target = {}
  PROVE  CallInv(c)'
<1> USE RelatedAsBefore, HooksAsBefore
<1> DEFINE stage == IF o \in Deletions /\ setup.soft /\ ~hard THEN "policy" ELSE "hooks"
<1>1. setup' = setup /\ doc' = doc /\ call'[c] = [Idle EXCEPT !.stage = stage, !.op = o, !.hard = hard,
                                                    !.ids = target, !.todo = Hooks(o)]
  BY DEF Begin, TypeOK
<1>2. /\ call'[c].stage = stage /\ call'[c].op = o /\ call'[c].ids = target
      /\ call'[c].todo = Hooks(o) /\ call'[c].marked = FALSE /\ call'[c].broken = {}
  BY <1>1 DEF Idle
<1>3. stage \in {"policy", "hooks"} /\ (stage = "policy" => setup.soft /\ o \in Deletions)
  OBVIOUS
<1> HIDE DEF stage
<1>4. HooksAhead(c)'
  BY <1>1, <1>2, <1>3, SnapshotHook, HooksOf DEF HooksAhead, Deletions
<1>5. GuardPassed(c)' /\ SnapshotTaken(c)' /\ RestrictPassed(c)'
  BY <1>1, <1>2, HooksOf DEF GuardPassed, SnapshotTaken, RestrictPassed
<1>6. MarkedSoftly(c)' /\ DeletedAreGone(c)' /\ RelationsSettled(c)'
  BY <1>2, <1>3 DEF MarkedSoftly, DeletedAreGone, RelationsSettled
<1> QED
  BY <1>2, <1>4, <1>5, <1>6 DEF CallInv

LEMMA SoftDeleteKeeps ==
  ASSUME TypeOK, NEW c \in Callers, SoftDelete(c), CallInv(c) PROVE CallInv(c)'
<1> USE RelatedAsBefore, HooksAsBefore
<1> DEFINE found == IF call[c].op = "delete" THEN Addressed(c) ELSE {p \in Matching(c) : Live(p)}
<1>1. call[c] \in Call /\ setup' = setup /\ call[c].stage = "policy"
  BY DEF SoftDelete, TypeOK
<1>2. /\ call[c].todo = Hooks(call[c].op) /\ setup.soft /\ call[c].op \in Deletions
      /\ call[c].broken = {} /\ call[c].ids \subseteq Parents
      /\ call[c].op = "deleteMany" => call[c].ids = {}
  BY <1>1, HooksOf DEF CallInv, HooksAhead
<1>3. CASE Ends(c, "missed")
  <2>1. call'[c] = [call[c] EXCEPT !.stage = "missed", !.todo = {}]
    BY <1>1, <1>3, EndsCall DEF TypeOK
  <2> QED
    BY <1>1, <1>2, <2>1, RestCall DEF Call
<1>4. CASE call' = [call EXCEPT ![c].stage = "hooks", ![c].marked = TRUE] /\ Write(c, Marked(found))
  <2>1. call'[c] = [call[c] EXCEPT !.stage = "hooks", !.marked = TRUE]
    BY <1>1, <1>4, MarkedCall DEF TypeOK
  <2>2. /\ call'[c].stage = "hooks" /\ call'[c].marked /\ call'[c].op = call[c].op
        /\ call'[c].ids = call[c].ids /\ call'[c].todo = call[c].todo /\ call'[c].broken = call[c].broken
    BY <1>1, <2>1 DEF Call
  <2>3. HooksAhead(c)' /\ MarkedSoftly(c)'
    BY <1>1, <1>2, <2>2, HooksOf DEF CallInv, HooksAhead, MarkedSoftly
  <2>4. GuardPassed(c)' /\ SnapshotTaken(c)' /\ RestrictPassed(c)' /\ RelationsSettled(c)'
    BY <1>1, <1>2, <2>2, HooksOf DEF GuardPassed, SnapshotTaken, RestrictPassed, RelationsSettled
  <2>5. \A d \in Docs : doc'[d] = IF d \in found THEN [doc[d] EXCEPT !.deleted = "date"] ELSE doc[d]
    BY <1>4 DEF Write, Marked
  <2>6. DeletedAreGone(c)'
    <3> SUFFICES ASSUME NEW p \in Parents \cap Scope(c), Live(p)',
                        p \in call[c].ids \/ (call[c].op = "deleteMany" /\ p \in Matching(c)')
                 PROVE  FALSE
      BY <2>2 DEF DeletedAreGone, Scope
    <3>1. p \in Docs /\ doc[p] \in Document
      BY DEF Docs, TypeOK
    <3>2. p \notin found
      <4>1. p \in found => doc'[p].deleted = "date"
        BY <2>5, <3>1 DEF Document
      <4> QED
        BY <1>1, <1>2, <4>1 DEF Live, Softly, Undeleted
    <3>3. doc'[p] = doc[p] /\ Live(p)
      BY <1>1, <2>5, <3>1, <3>2, SeenAsBefore
    <3>4. CASE call[c].op = "delete"
      BY <3>2, <3>3, <3>4 DEF Addressed, Live
    <3>5. CASE call[c].op = "deleteMany"
      BY <1>2, <3>2, <3>3, <3>5, MatchedAsBefore
    <3> QED
      BY <1>2, <3>4, <3>5 DEF Deletions
  <2> QED
    BY <1>2, <2>2, <2>3, <2>4, <2>6 DEF CallInv
<1> QED
  BY <1>3, <1>4 DEF SoftDelete

LEMMA SnapshotKeeps ==
  ASSUME TypeOK, NEW c \in Callers, Snapshot(c), CallInv(c) PROVE CallInv(c)'
<1> USE RelatedAsBefore, HooksAsBefore
<1>1. /\ call[c] \in Call /\ setup' = setup /\ doc' = doc /\ news' = news
      /\ call[c].stage = "hooks" /\ "snapshot" \in call[c].todo
  BY DEF Snapshot, TypeOK, Reads
<1>2. /\ call'[c].stage = "hooks" /\ call'[c].marked = call[c].marked /\ call'[c].op = call[c].op
      /\ call'[c].ids = Matching(c) /\ call'[c].todo = call[c].todo \ {"snapshot"}
      /\ call'[c].broken = call[c].broken
  BY <1>1 DEF Snapshot, TypeOK, Call
<1>3. call[c].op = "deleteMany"
  BY <1>1, SnapshotHook DEF CallInv, HooksAhead
<1>4. Matching(c)' = Matching(c) /\ Matching(c) \subseteq Parents /\ Scope(c)' = Scope(c)
  BY <1>1 DEF Matching, Scope
<1>5. HooksAhead(c)' /\ MarkedSoftly(c)' /\ RelationsSettled(c)'
  BY <1>1, <1>2 DEF CallInv, HooksAhead, MarkedSoftly, RelationsSettled
<1>6. GuardPassed(c)'
  BY <1>1, <1>2, <1>3, <1>4, GuardedIs, GuardedIsAfter DEF CallInv, GuardPassed
<1>7. SnapshotTaken(c)'
  BY <1>2, <1>4 DEF SnapshotTaken
<1>8. RestrictPassed(c)'
  <2>1. Related({"restrict"}) \subseteq call'[c].todo
    BY <1>1, <1>2, LifecycleAssumption DEF CallInv, HooksAhead, Related
  <2> QED
    BY <1>1, <2>1 DEF RestrictPassed
<1>9. DeletedAreGone(c)'
  BY <1>1, <1>2, <1>3, <1>4, SeenAsBefore DEF CallInv, DeletedAreGone
<1> QED
  BY <1>2, <1>4, <1>5, <1>6, <1>7, <1>8, <1>9 DEF CallInv

\* A hook other than the snapshot has passed: what it found is said of its own todo.
LEMMA PassKeeps ==
  ASSUME TypeOK, NEW c \in Callers, CallInv(c), Reads, setup' = setup,
         NEW h, h # "snapshot", Passes(c, h), call[c].stage = "hooks",
         h = "guard" => GuardPassed(c)', h # "guard" => "snapshot" \notin call[c].todo,
         h \in Relations /\ call[c].op \in Deletions => Childless(c, h)
  PROVE  CallInv(c)'
<1> USE RelatedAsBefore, HooksAsBefore
<1>1. call[c] \in Call /\ doc' = doc /\ news' = news
  BY DEF TypeOK, Reads
<1>2. call'[c] = [call[c] EXCEPT !.todo = @ \ {h}]
  <2>1. call' = [call EXCEPT ![c] = [call[c] EXCEPT !.todo = @ \ {h}]]
    BY PassesCall
  <2> QED
    BY <2>1 DEF TypeOK
<1>3. /\ call'[c].stage = "hooks" /\ call'[c].marked = call[c].marked /\ call'[c].op = call[c].op
      /\ call'[c].ids = call[c].ids /\ call'[c].todo = call[c].todo \ {h}
      /\ call'[c].broken = call[c].broken
  BY <1>1, <1>2 DEF Call
<1>4. Matching(c)' = Matching(c) /\ Scope(c)' = Scope(c)
  BY <1>1 DEF Matching, Scope
<1>5. HooksAhead(c)' /\ MarkedSoftly(c)' /\ RelationsSettled(c)'
  <2>1. h = "guard" => h \notin Related({"restrict"})
    BY LifecycleAssumption DEF Related
  <2> QED
    BY <1>1, <1>3, <2>1 DEF CallInv, HooksAhead, MarkedSoftly, RelationsSettled
<1>6. GuardPassed(c)'
  <2>1. \A p : p \in Guarded(c)' <=> p \in Guarded(c)
    BY <1>1, <1>3, GuardedAsBefore
  <2> QED
    BY <1>1, <1>3, <2>1 DEF CallInv, GuardPassed
<1>7. SnapshotTaken(c)'
  BY <1>1, <1>3, <1>4 DEF CallInv, SnapshotTaken
<1>8. RestrictPassed(c)'
  <2>1. \A r : Childless(c, r) => Childless(c, r)'
    BY <1>1, <1>3, ChildlessUndisturbed
  <2> QED
    BY <1>1, <1>3, <2>1 DEF CallInv, RestrictPassed, Related
<1>9. DeletedAreGone(c)'
  BY <1>1, <1>3, <1>4, SeenAsBefore DEF CallInv, DeletedAreGone
<1> QED
  BY <1>3, <1>5, <1>6, <1>7, <1>8, <1>9 DEF CallInv

LEMMA RefuseKeeps ==
  ASSUME TypeOK, NEW c \in Callers, CallInv(c), Ends(c, "refused"), setup' = setup PROVE CallInv(c)'
<1>1. call[c] \in Call /\ call'[c] = [call[c] EXCEPT !.stage = "refused", !.todo = {}]
  BY EndsCall DEF TypeOK
<1> QED
  BY <1>1, RestCall DEF Call, CallInv, MarkedSoftly

LEMMA RestrictKeeps ==
  ASSUME TypeOK, NEW c \in Callers, NEW r \in Relations, Restrict(c, r), CallInv(c)
  PROVE  CallInv(c)'
<1>1. CASE Ends(c, "refused")
  BY <1>1, RefuseKeeps DEF Restrict
<1>2. CASE Passes(c, r) /\ ~\E k \in Referencing(c, r, call[c].ids) : Live(k)
  <2>1. r \notin {"snapshot", "guard"}
    BY LifecycleAssumption
  <2> QED
    BY <1>2, <2>1, PassKeeps DEF Restrict, Childless
<1> QED
  BY <1>1, <1>2 DEF Restrict

LEMMA GuardKeeps ==
  ASSUME TypeOK, NEW c \in Callers, Guard(c), CallInv(c) PROVE CallInv(c)'
<1>1. CASE Ends(c, "refused")
  BY <1>1, RefuseKeeps DEF Guard
<1>2. CASE Passes(c, "guard") /\ (call[c].op # "findOneAndUpdate" => \A p \in Guarded(c) : ~doc[p].frozen)
  <2>1. call[c] \in Call /\ doc' = doc /\ setup' = setup /\ "guard" \notin Relations
    BY LifecycleAssumption DEF Guard, TypeOK, Reads
  <2>2. call'[c].op = call[c].op /\ call'[c].ids = call[c].ids
    BY <1>2, <2>1, PassesCall DEF Call, TypeOK
  <2>3. \A p : p \in Guarded(c)' <=> p \in Guarded(c)
    BY <2>1, <2>2, GuardedAsBefore
  <2>4. GuardPassed(c)'
    BY <1>2, <2>1, <2>2, <2>3 DEF GuardPassed
  <2> QED
    BY <1>2, <2>1, <2>4, PassKeeps DEF Guard
<1> QED
  BY <1>1, <1>2 DEF Guard

\* The fields of c's call after an After.
LEMMA AfterFields ==
  ASSUME TypeOK, NEW c \in Callers, NEW stage \in {"detach", "cascade"}, After(c, stage)
  PROVE  /\ call'[c].stage = stage /\ call'[c].op = call[c].op /\ call'[c].ids = call[c].ids
         /\ call'[c].marked = call[c].marked /\ call'[c].broken = call[c].broken
         /\ call'[c].todo = IF call[c].ids # {} THEN Related({stage}) ELSE {}
<1> DEFINE todo == IF call[c].ids # {} THEN Related({stage}) ELSE {}
<1>1. call' = [call EXCEPT ![c] = [call[c] EXCEPT !.stage = stage, !.todo = todo]]
  BY AfterCall
<1> HIDE DEF todo
<1>2. call'[c] = [call[c] EXCEPT !.stage = stage, !.todo = todo]
  BY <1>1 DEF TypeOK
<1>3. /\ call'[c].stage = stage /\ call'[c].op = call[c].op /\ call'[c].ids = call[c].ids
      /\ call'[c].marked = call[c].marked /\ call'[c].broken = call[c].broken /\ call'[c].todo = todo
  <2>1. call[c] \in Call
    BY DEF TypeOK
  <2> QED
    BY <1>2, <2>1 DEF Call
<1> QED
  BY <1>3 DEF todo

\* The relations of a call about nothing have no children.
LEMMA NothingReferenced ==
  ASSUME NEW c, NEW r, call'[c].ids = {} PROVE Childless(c, r)'
  BY DEF Childless, Referencing

\* In both after hooks the call is past the others' conditions.
LEMMA RelaysOnly ==
  ASSUME NEW c, call'[c].stage \in {"detach", "cascade"}
  PROVE  HooksAhead(c)' /\ GuardPassed(c)' /\ SnapshotTaken(c)' /\ RestrictPassed(c)'
  BY DEF HooksAhead, GuardPassed, SnapshotTaken, RestrictPassed

LEMMA RemoveKeeps ==
  ASSUME TypeOK, NEW c \in Callers, Remove(c), CallInv(c) PROVE CallInv(c)'
<1> USE RelatedAsBefore
<1>1. /\ setup' = setup /\ call[c].stage = "hooks" /\ call[c].todo = {} /\ call[c].op \in Deletions
      /\ call[c].broken = {} /\ call[c].ids \subseteq Parents
  BY DEF Remove, HooksPassed, CallInv, HooksAhead
<1>2. /\ call'[c].stage = "detach" /\ call'[c].op = call[c].op /\ call'[c].ids = call[c].ids
      /\ call'[c].marked = call[c].marked /\ call'[c].broken = {}
      /\ call'[c].todo = IF call[c].ids # {} THEN Related({"detach"}) ELSE {}
  BY <1>1, AfterFields DEF Remove
<1>3. HooksAhead(c)' /\ GuardPassed(c)' /\ SnapshotTaken(c)' /\ RestrictPassed(c)' /\ MarkedSoftly(c)'
  BY <1>1, <1>2, RelaysOnly DEF CallInv, MarkedSoftly
<1>4. RelationsSettled(c)'
  BY <1>1, <1>2, NothingReferenced, LifecycleAssumption DEF RelationsSettled, Settled, Related
<1>5. DeletedAreGone(c)'
  <2>1. SUFFICES ASSUME NEW p \in Parents \cap Scope(c), p \in call[c].ids, Live(p)'
                 PROVE  p \in news'[c]
    BY <1>1, <1>2, LifecycleAssumption DEF DeletedAreGone, Scope, Related
  <2>2. p \in Docs /\ doc[p] \in Document
    BY DEF Docs, TypeOK
  <2>3. CASE call[c].marked
    <3>1. doc' = doc /\ news' = news
      BY <2>3 DEF Remove, Reads
    <3> QED
      BY <1>1, <2>1, <2>3, <3>1, SeenAsBefore DEF CallInv, DeletedAreGone
  <2>4. CASE ~call[c].marked
    <3> DEFINE gone == IF call[c].op = "delete" THEN Addressed(c) ELSE Matching(c)
    <3>1. Write(c, Removed(gone)) /\ DOMAIN Removed(gone) = gone
      BY <2>4 DEF Remove, Removed
    <3>2. doc'[p] = IF p \in gone THEN [doc[p] EXCEPT !.exists = FALSE] ELSE doc[p]
      BY <2>2, <3>1 DEF Write, Removed
    <3>3. news'[c] = news[c]
      BY <1>2, <3>1 DEF Write, Idle
    <3>4. p \notin gone /\ doc[p].exists
      BY <2>1, <2>2, <3>2 DEF Live, Document
    <3>5. CASE call[c].op = "delete"
      BY <2>1, <3>4, <3>5 DEF Addressed
    <3>6. CASE call[c].op = "deleteMany"
      BY <1>1, <2>1, <3>3, <3>4, <3>6 DEF CallInv, SnapshotTaken
    <3> QED
      BY <1>1, <3>5, <3>6 DEF Deletions
  <2> QED
    BY <2>3, <2>4
<1> QED
  BY <1>1, <1>2, <1>3, <1>4, <1>5 DEF CallInv

\* What a relation's statement leaves: none of its children under ids is live.
LEMMA RelayWrites ==
  ASSUME TypeOK, NEW c \in Callers, NEW r \in Relations, Relay(c, r), CallInv(c)
  PROVE  /\ setup' = setup
         /\ call'[c].stage = call[c].stage /\ call'[c].op = call[c].op /\ call'[c].ids = call[c].ids
         /\ call'[c].marked = call[c].marked /\ call'[c].broken = call[c].broken
         /\ call'[c].todo = call[c].todo \ {r}
         /\ news'[c] = news[c]
         /\ \A d \in Docs : doc'[d] # doc[d] => d \in Children /\ RelationOf[d] = r
         /\ Childless(c, r)'
<1>1. /\ call[c] \in Call /\ setup' = setup /\ call[c].stage \in {"detach", "cascade"}
      /\ call[c].ids \subseteq Parents
  BY DEF Relay, TypeOK, CallInv
<1>2. call'[c] = [call[c] EXCEPT !.todo = @ \ {r}]
  <2>1. call' = [call EXCEPT ![c] = [call[c] EXCEPT !.todo = @ \ {r}]]
    BY PassesCall DEF Relay
  <2> QED
    BY <2>1 DEF TypeOK
<1>3. /\ call'[c].stage = call[c].stage /\ call'[c].op = call[c].op /\ call'[c].ids = call[c].ids
      /\ call'[c].marked = call[c].marked /\ call'[c].broken = call[c].broken
      /\ call'[c].todo = call[c].todo \ {r}
  BY <1>1, <1>2 DEF Call
<1>4. call'[c] # Idle
  BY <1>1, <1>3 DEF Idle
<1>5. Scope(c)' = Scope(c)
  BY DEF Scope
<1>6. CASE call[c].stage = "detach"
  <2>1. Write(c, [k \in Detached(c, r) |-> [doc[k] EXCEPT !.ref = None]])
    BY <1>6 DEF Relay
  <2>2. \A d \in Docs : doc'[d] = IF d \in Detached(c, r) THEN [doc[d] EXCEPT !.ref = None] ELSE doc[d]
    BY <2>1 DEF Write
  <2>3. news'[c] = news[c]
    BY <1>4, <2>1 DEF Write
  <2>4. Detached(c, r) \subseteq {k \in Children : RelationOf[k] = r}
    BY DEF Detached, Referencing
  <2>5. Childless(c, r)'
    <3> SUFFICES ASSUME NEW k \in Referencing(c, r, call[c].ids)', Live(k)' PROVE FALSE
      BY <1>3 DEF Childless, Referencing
    <3>1. /\ k \in Children \cap Scope(c) /\ RelationOf[k] = r /\ doc'[k].exists
          /\ doc'[k].ref \in call[c].ids
      BY <1>3 DEF Referencing, Scope
    <3>2. k \in Docs /\ doc[k] \in Document
      BY <3>1 DEF Docs, TypeOK
    <3>3. k \notin Detached(c, r)
      <4>1. None \notin Parents
        BY LifecycleAssumption
      <4>2. [doc[k] EXCEPT !.ref = None].ref = None
        BY <3>2 DEF Document
      <4> QED
        BY <1>1, <2>2, <3>1, <3>2, <4>1, <4>2
    <3>4. doc'[k] = doc[k] /\ Live(k)
      BY <1>1, <2>2, <3>2, <3>3, SeenAsBefore
    <3> QED
      BY <3>1, <3>3, <3>4 DEF Detached, Referencing
  <2> QED
    BY <1>1, <1>3, <2>2, <2>3, <2>4, <2>5
<1>7. CASE call[c].stage = "cascade"
  <2> DEFINE soft == call[c].marked /\ setup.softChild[r]
  <2>1. Write(c, IF soft THEN Marked(Cascaded(c, r)) ELSE Removed(Cascaded(c, r)))
    BY <1>7 DEF Relay
  <2>2. \A d \in Docs : doc'[d] = IF d \in Cascaded(c, r)
                                   THEN IF soft THEN [doc[d] EXCEPT !.deleted = "date"]
                                                ELSE [doc[d] EXCEPT !.exists = FALSE]
                                   ELSE doc[d]
    BY <2>1 DEF Write, Marked, Removed
  <2>3. news'[c] = news[c]
    BY <1>4, <2>1 DEF Write
  <2>4. Cascaded(c, r) \subseteq {k \in Children : RelationOf[k] = r}
    BY DEF Cascaded, Referencing
  <2>5. Childless(c, r)'
    <3> SUFFICES ASSUME NEW k \in Referencing(c, r, call[c].ids)', Live(k)' PROVE FALSE
      BY <1>3 DEF Childless, Referencing
    <3>1. /\ k \in Children \cap Scope(c) /\ RelationOf[k] = r /\ doc'[k].exists
          /\ doc'[k].ref \in call[c].ids
      BY <1>3 DEF Referencing, Scope
    <3>2. k \in Docs /\ doc[k] \in Document /\ k \notin Parents
      BY <3>1, LifecycleAssumption DEF Docs, TypeOK
    <3>3. CASE k \in Cascaded(c, r) /\ soft
      <4>1. doc'[k].deleted = "date"
        BY <2>2, <3>2, <3>3 DEF Document
      <4> QED
        BY <1>1, <3>1, <3>2, <3>3, <4>1 DEF Live, Softly, Undeleted
    <3>4. CASE k \in Cascaded(c, r) /\ ~soft
      BY <2>2, <3>1, <3>2, <3>4 DEF Document
    <3>5. CASE k \notin Cascaded(c, r)
      <4>1. doc'[k] = doc[k] /\ Live(k)
        BY <1>1, <2>2, <3>2, <3>5, SeenAsBefore
      <4> QED
        BY <3>1, <3>5, <4>1 DEF Cascaded, Referencing
    <3> QED
      BY <3>3, <3>4, <3>5
  <2> QED
    BY <1>1, <1>3, <2>2, <2>3, <2>4, <2>5
<1> QED
  BY <1>1, <1>6, <1>7

\* Parents that no step of c has changed stay as deleted as they were.
LEMMA DeletedStayGone ==
  ASSUME TypeOK, NEW c \in Callers, DeletedAreGone(c), setup' = setup,
         call[c].stage \in {"detach", "cascade"}, call'[c].stage \in {"detach", "cascade"},
         call'[c].ids = call[c].ids, "snapshot" \notin call'[c].todo, news'[c] = news[c],
         \A p \in Parents : doc'[p] = doc[p]
  PROVE  DeletedAreGone(c)'
<1> SUFFICES ASSUME NEW p \in Parents \cap Scope(c), p \in call[c].ids, Live(p)'
             PROVE  p \in news[c]
  BY DEF DeletedAreGone, Scope
<1> QED
  BY SeenAsBefore DEF DeletedAreGone

LEMMA RelayKeeps ==
  ASSUME TypeOK, NEW c \in Callers, NEW r \in Relations, Relay(c, r), CallInv(c)
  PROVE  CallInv(c)'
<1> USE RelatedAsBefore, RelayWrites
<1>1. call[c].stage \in {"detach", "cascade"} /\ r \in call[c].todo
  BY DEF Relay
<1>2. HooksAhead(c)' /\ GuardPassed(c)' /\ SnapshotTaken(c)' /\ RestrictPassed(c)' /\ MarkedSoftly(c)'
  BY <1>1, RelaysOnly DEF CallInv, MarkedSoftly
<1>3. DeletedAreGone(c)'
  <2>1. \A p \in Parents : doc'[p] = doc[p]
    BY LifecycleAssumption DEF Docs
  <2> QED
    BY <1>1, <2>1, DeletedStayGone DEF CallInv, RelationsSettled
<1>4. RelationsSettled(c)'
  <2>1. ASSUME NEW q, Settled(c, q) PROVE Settled(c, q)'
    <3>1. CASE q = r
      BY <3>1 DEF Settled
    <3>2. CASE q # r
      <4>1. \A k \in Children : RelationOf[k] = q => doc'[k] = doc[k]
        BY <3>2 DEF Docs
      <4> QED
        BY <2>1, <4>1, SettledUndisturbed
    <3> QED
      BY <3>1, <3>2
  <2>2. Settled(c, r)'
    BY DEF Settled
  <2> QED
    BY <1>1, <2>1, <2>2 DEF CallInv, RelationsSettled
<1> QED
  BY <1>2, <1>3, <1>4 DEF CallInv

LEMMA RelayFailsKeeps ==
  ASSUME TypeOK, NEW c \in Callers, NEW r \in Relations, RelayFails(c, r), CallInv(c)
  PROVE  CallInv(c)'
<1> USE RelatedAsBefore
<1>1. /\ call[c] \in Call /\ setup' = setup /\ doc' = doc /\ news' = news
      /\ call[c].stage \in {"detach", "cascade"} /\ r \in call[c].todo
  BY DEF RelayFails, TypeOK, Reads
<1>2. /\ call'[c].stage = call[c].stage /\ call'[c].op = call[c].op /\ call'[c].ids = call[c].ids
      /\ call'[c].marked = call[c].marked /\ call'[c].broken = call[c].broken \cup {r}
      /\ call'[c].todo = IF setup.parallel THEN call[c].todo \ {r} ELSE {}
  BY <1>1 DEF RelayFails, TypeOK, Call
<1>3. HooksAhead(c)' /\ GuardPassed(c)' /\ SnapshotTaken(c)' /\ RestrictPassed(c)' /\ MarkedSoftly(c)'
  BY <1>1, <1>2, RelaysOnly DEF CallInv, MarkedSoftly
<1>4. DeletedAreGone(c)'
  BY <1>1, <1>2, DeletedStayGone DEF CallInv, RelationsSettled
<1>5. RelationsSettled(c)'
  <2>1. \A q : Settled(c, q) => Settled(c, q)'
    BY <1>1, <1>2, SettledUndisturbed
  <2>2. Settled(c, r)' /\ (~setup.parallel => \A q : Settled(c, q)')
    BY <1>1, <1>2 DEF Settled
  <2>3. /\ call[c].todo \subseteq Related({call[c].stage}) /\ "snapshot" \notin call[c].todo
        /\ call'[c].todo \subseteq call[c].todo
    BY <1>1, <1>2 DEF CallInv, RelationsSettled
  <2>4. ASSUME NEW q \in Related({call[c].stage}) \ call'[c].todo PROVE Settled(c, q)'
    <3>1. CASE q = r \/ ~setup.parallel
      BY <2>2, <3>1
    <3>2. CASE q # r /\ setup.parallel
      <4>1. q \notin call[c].todo
        BY <1>2, <2>4, <3>2
      <4>2. Settled(c, q)
        BY <1>1, <2>4, <4>1 DEF CallInv, RelationsSettled
      <4> QED
        BY <2>1, <4>2
    <3> QED
      BY <3>1, <3>2
  <2>5. call[c].stage = "detach" => call'[c].broken \subseteq Related({"detach"})
    BY <1>1, <1>2, <2>3 DEF CallInv, RelationsSettled
  <2>6. call[c].stage = "cascade" => \A q \in Related({"detach"}) : Settled(c, q)'
    BY <2>1 DEF CallInv, RelationsSettled
  <2> QED
    BY <1>1, <1>2, <2>3, <2>4, <2>5, <2>6 DEF RelationsSettled
<1> QED
  BY <1>2, <1>3, <1>4, <1>5 DEF CallInv

LEMMA RelayedKeeps ==
  ASSUME TypeOK, NEW c \in Callers, Relayed(c), CallInv(c) PROVE CallInv(c)'
<1> USE RelatedAsBefore
<1>1. /\ call[c] \in Call /\ setup' = setup /\ doc' = doc /\ news' = news
      /\ call[c].stage \in {"detach", "cascade"} /\ call[c].todo = {}
  BY DEF Relayed, TypeOK, Reads
<1>2. \A r \in Related({"detach"}) : Settled(c, r)
  BY <1>1 DEF CallInv, RelationsSettled
<1>3. call[c].stage = "cascade" => \A r \in Related({"cascade"}) : Settled(c, r)
  BY <1>1 DEF CallInv, RelationsSettled
<1>4. Related({"detach", "cascade"}) = Related({"detach"}) \cup Related({"cascade"})
  BY DEF Related
<1>5. ASSUME call'[c].ids = call[c].ids, call'[c].broken = call[c].broken, NEW r, Settled(c, r)
      PROVE  Settled(c, r)'
  BY <1>1, <1>5, SettledUndisturbed
<1>6. ASSUME NEW how \in {"done", "failed"}, Ends(c, how) PROVE
        /\ call'[c].stage = how /\ call'[c].op = call[c].op /\ call'[c].ids = call[c].ids
        /\ call'[c].marked = call[c].marked /\ call'[c].broken = call[c].broken
  <2>1. call'[c] = [call[c] EXCEPT !.stage = how, !.todo = {}]
    <3>1. call' = [call EXCEPT ![c] = [call[c] EXCEPT !.stage = how, !.todo = {}]]
      <4>1. how \in {"done", "missed", "refused", "failed"} /\ Ends(c, how)
        BY <1>6
      <4> QED
        BY <4>1, EndsCall
    <3> QED
      BY <3>1 DEF TypeOK
  <2> QED
    BY <1>1, <2>1 DEF Call
<1>7. ASSUME NEW how \in {"done", "failed"}, Ends(c, how), RelationsSettled(c)' PROVE CallInv(c)'
  BY <1>1, <1>6, <1>7 DEF CallInv, HooksAhead, GuardPassed, SnapshotTaken, RestrictPassed,
     MarkedSoftly, DeletedAreGone
<1>8. CASE call[c].broken # {} /\ Ends(c, "failed")
  <2>1. call[c].stage = "detach" => \E s \in call[c].broken : setup.policy[s] = "detach"
    BY <1>8 DEF CallInv, RelationsSettled, Related
  <2>2. RelationsSettled(c)'
    BY <1>1, <1>2, <1>3, <1>4, <1>5, <1>6, <1>8, <2>1 DEF RelationsSettled
  <2> QED
    BY <1>7, <1>8, <2>2
<1>9. CASE call[c].broken = {} /\ call[c].stage = "cascade" /\ Ends(c, "done")
  <2>1. RelationsSettled(c)'
    BY <1>1, <1>2, <1>3, <1>4, <1>5, <1>6, <1>9 DEF RelationsSettled
  <2> QED
    BY <1>7, <1>9, <2>1
<1>10. CASE call[c].broken = {} /\ call[c].stage = "detach" /\ After(c, "cascade")
  <2>1. /\ call'[c].stage = "cascade" /\ call'[c].op = call[c].op /\ call'[c].ids = call[c].ids
        /\ call'[c].marked = call[c].marked /\ call'[c].broken = call[c].broken
        /\ call'[c].todo = IF call[c].ids # {} THEN Related({"cascade"}) ELSE {}
    BY <1>10, AfterFields
  <2>2. HooksAhead(c)' /\ GuardPassed(c)' /\ SnapshotTaken(c)' /\ RestrictPassed(c)' /\ MarkedSoftly(c)'
    BY <1>1, <2>1, RelaysOnly DEF CallInv, MarkedSoftly
  <2>3. "snapshot" \notin call'[c].todo /\ call'[c].todo \subseteq Related({"cascade"})
    BY <2>1, LifecycleAssumption DEF Related
  <2>4. DeletedAreGone(c)'
    BY <1>1, <2>1, <2>3, DeletedStayGone DEF CallInv
  <2>5. RelationsSettled(c)'
    <3>1. \A r \in Related({"cascade"}) \ call'[c].todo : Settled(c, r)'
      BY <2>1, NothingReferenced DEF Settled
    <3> QED
      BY <1>1, <1>2, <1>5, <2>1, <2>3, <3>1 DEF RelationsSettled
  <2> QED
    BY <2>1, <2>2, <2>4, <2>5 DEF CallInv
<1> QED
  BY <1>8, <1>9, <1>10 DEF Relayed

LEMMA OwnStepKeeps ==
  ASSUME TypeOK, NEW c \in Callers, StepBy(c), CallInv(c) PROVE CallInv(c)'
<1>1. ASSUME NEW o \in Operations, CallByFilter(c, o) PROVE CallInv(c)'
  BY <1>1, BeginKeeps DEF CallByFilter
<1>2. ASSUME NEW o \in Operations, NEW p \in Parents, CallById(c, o, p) PROVE CallInv(c)'
  <2>1. o # "deleteMany" /\ {p} \in SUBSET Parents
    BY <1>2 DEF CallById, ById
  <2> QED
    BY <1>2, <2>1, BeginKeeps DEF CallById
<1>3. CASE Returns(c)
  <2>1. call'[c] = Idle
    BY <1>3, ReturnsCall DEF TypeOK
  <2> QED
    BY <2>1, IdleCall
<1>4. CASE SoftDelete(c)
  BY <1>4, SoftDeleteKeeps
<1>5. CASE Snapshot(c)
  BY <1>5, SnapshotKeeps
<1>6. CASE Guard(c)
  BY <1>6, GuardKeeps
<1>7. ASSUME NEW r \in Relations, Restrict(c, r) PROVE CallInv(c)'
  BY <1>7, RestrictKeeps
<1>8. CASE Remove(c)
  BY <1>8, RemoveKeeps
<1>9. ASSUME NEW r \in Relations, Relay(c, r) \/ RelayFails(c, r) PROVE CallInv(c)'
  BY <1>9, RelayKeeps, RelayFailsKeeps
<1>10. CASE Relayed(c)
  BY <1>10, RelayedKeeps
<1> QED
  BY <1>1, <1>2, <1>3, <1>4, <1>5, <1>6, <1>7, <1>8, <1>9, <1>10
     DEF StepBy, Step, WriteById, UpdateOne, UpdateMany, Freeze, RestoreChild, CreateChild, Crash

LEMMA InvInit == ASSUME Init PROVE LifecycleInv
<1> SUFFICES ASSUME NEW c \in Callers PROVE CallInv(c)
  BY DEF LifecycleInv
<1>1. call[c] = Idle
  BY DEF Init
<1> QED
  BY <1>1 DEF Idle, CallInv, HooksAhead, GuardPassed, SnapshotTaken, RestrictPassed, MarkedSoftly,
     DeletedAreGone, RelationsSettled

LEMMA InvStep == ASSUME TypeOK, LifecycleInv, [Next]_vars PROVE LifecycleInv'
<1>1. CASE UNCHANGED vars
  <2> SUFFICES ASSUME NEW x \in Callers PROVE CallInv(x)'
    BY DEF LifecycleInv
  <2>1. Undisturbed(x)
    BY <1>1 DEF vars, Undisturbed
  <2> QED
    BY <2>1, OthersKeep DEF LifecycleInv
<1>2. ASSUME NEW c \in Callers, StepBy(c) PROVE LifecycleInv'
  <2> SUFFICES ASSUME NEW x \in Callers PROVE CallInv(x)'
    BY DEF LifecycleInv
  <2>1. CASE x = c
    BY <1>2, <2>1, OwnStepKeeps DEF LifecycleInv
  <2>2. CASE x # c
    BY <1>2, <2>2, StepFrame, OthersKeep DEF OthersUndisturbed, LifecycleInv
  <2> QED
    BY <2>1, <2>2
<1> QED
  BY <1>1, <1>2 DEF Next, StepBy

\* The inductive invariant.
THEOREM LifecycleInvariant == Spec => []LifecycleInv
  BY TypeCorrect, InvInit, InvStep, PTL DEF Spec

-----------------------------------------------------------------------------
(* What a caller can rely on                                                *)

\* A deletion that reports success leaves no live child of what it deleted.
THEOREM CascadesComplete == Spec => []CascadeComplete
<1>1. TypeOK /\ LifecycleInv => CascadeComplete
  <2> SUFFICES ASSUME TypeOK, NEW c \in Callers, CallInv(c), call[c].op \in Deletions,
                      call[c].stage \in {"done", "failed"},
                      NEW r \in Relations, NEW k \in Referencing(c, r, call[c].ids),
                      k \notin news[c], Live(k), setup.policy[r] # "restrict", r \notin call[c].broken,
                      ~(call[c].stage = "failed" /\ ~setup.parallel)
               PROVE  setup.policy[r] = "cascade" /\ \E s \in call[c].broken : setup.policy[s] = "detach"
    BY DEF LifecycleInv, CascadeComplete
  <2>1. setup.policy[r] \in {"detach", "cascade"}
    BY LifecycleAssumption DEF TypeOK, Setup, Policies
  <2>2. ~Childless(c, r)
    BY DEF Childless
  <2>3. CASE call[c].stage = "done"
    BY <2>1, <2>2, <2>3 DEF CallInv, RelationsSettled, Settled, Related
  <2>4. CASE call[c].stage = "failed"
    BY <2>1, <2>2, <2>4 DEF CallInv, RelationsSettled, Settled, Related
  <2> QED
    BY <2>3, <2>4
<1> QED
  BY <1>1, TypeCorrect, LifecycleInvariant, PTL

\* What the statement of a deletion changes: nothing that the soft deletion has marked.
LEMMA RemoveWrites ==
  ASSUME TypeOK, NEW c \in Callers, Remove(c), NEW p \in Docs, doc'[p] # doc[p]
  PROVE  /\ ~call[c].marked
         /\ call[c].op = "delete" => p \in Addressed(c)
         /\ call[c].op = "deleteMany" => p \in Matching(c)
<1>1. ~call[c].marked
  BY DEF Remove, Reads
<1> DEFINE gone == IF call[c].op = "delete" THEN Addressed(c) ELSE Matching(c)
<1>2. Write(c, Removed(gone)) /\ DOMAIN Removed(gone) = gone
  BY <1>1 DEF Remove, Removed
<1>3. p \in gone
  BY <1>2 DEF Write
<1> QED
  BY <1>1, <1>3

\* A parent with a restricted live child is not removed, but within the window.
THEOREM RestrictsHold == Spec => RestrictHolds
<1> DEFINE A == \A c \in Callers, p \in Parents :
       doc[p].exists /\ ~doc'[p].exists /\ Remove(c) =>
         \A r \in Related({"restrict"}) : \A k \in Referencing(c, r, {p}) :
           Live(k) => k \in news[c] \/ p \in news[c]
<1>1. TypeOK /\ LifecycleInv => A
  <2> SUFFICES ASSUME TypeOK, NEW c \in Callers, CallInv(c), NEW p \in Parents, Remove(c),
                      doc[p].exists, ~doc'[p].exists, NEW r \in Related({"restrict"}),
                      NEW k \in Referencing(c, r, {p}), Live(k), p \notin news[c]
               PROVE  k \in news[c]
    BY DEF LifecycleInv
  <2>1. call[c].stage = "hooks" /\ call[c].todo = {} /\ call[c].op \in Deletions
    BY DEF Remove, HooksPassed
  <2>2. p \in Docs /\ doc'[p] # doc[p]
    BY DEF Docs
  <2>3. p \in call[c].ids
    <3>1. CASE call[c].op = "delete"
      BY <2>2, <3>1, RemoveWrites DEF Addressed
    <3>2. CASE call[c].op = "deleteMany"
      BY <2>1, <2>2, <3>2, RemoveWrites DEF CallInv, SnapshotTaken
    <3> QED
      BY <2>1, <3>1, <3>2 DEF Deletions
  <2>4. Childless(c, r)
    BY <2>1 DEF CallInv, RestrictPassed
  <2>5. k \in Referencing(c, r, call[c].ids)
    BY <2>3 DEF Referencing
  <2> QED
    BY <2>4, <2>5 DEF Childless
<1>2. TypeOK /\ LifecycleInv => [A]_vars
  BY <1>1
<1> QED
  BY <1>2, TypeCorrect, LifecycleInvariant, PTL DEF RestrictHolds

\* A frozen parent changes only under a call whose window it was frozen in.
THEOREM FrozenChangeInWindow == Spec => FrozenOnlyInWindow
<1> DEFINE A == \A c \in Callers, p \in Parents :
       /\ setup.guard /\ doc[p].frozen /\ doc'[p] # doc[p]
       /\ Remove(c) \/ WriteById(c) \/ UpdateMany(c)
       => p \in news[c]
<1>1. TypeOK /\ LifecycleInv => A
  <2> SUFFICES ASSUME TypeOK, NEW c \in Callers, CallInv(c), NEW p \in Parents,
                      setup.guard, doc[p].frozen, doc'[p] # doc[p],
                      Remove(c) \/ WriteById(c) \/ UpdateMany(c)
               PROVE  p \in news[c]
    BY DEF LifecycleInv
  <2>1. p \in Docs /\ call[c].stage = "hooks" /\ call[c].todo = {}
    BY DEF Docs, Remove, WriteById, UpdateMany, HooksPassed
  <2>2. call[c].op # "findOneAndUpdate" /\ p \in Guarded(c)
    <3>1. CASE Remove(c)
      BY <2>1, <3>1, RemoveWrites, GuardedIs DEF Remove, Deletions
    <3>2. CASE WriteById(c)
      <4>1. p \in Addressed(c)
        BY <2>1, <3>2 DEF WriteById, Write, Restored
      <4> QED
        BY <3>2, <4>1, GuardedIs DEF WriteById, ById
    <3>3. CASE UpdateMany(c)
      <4>1. p \in Matching(c) /\ Live(p)
        BY <2>1, <3>3 DEF UpdateMany, Write
      <4> QED
        BY <3>3, <4>1, GuardedIs DEF UpdateMany, ByFilter
    <3> QED
      BY <3>1, <3>2, <3>3
  <2> QED
    BY <2>1, <2>2 DEF CallInv, GuardPassed
<1>2. TypeOK /\ LifecycleInv => [A]_vars
  BY <1>1
<1> QED
  BY <1>2, TypeCorrect, LifecycleInvariant, PTL DEF FrozenOnlyInWindow

\* A cascade deletes no child of a parent that is still live.
THEOREM LivingParentsKeepChildren == Spec => LivingKeepChildren
<1> DEFINE A == \A c \in Callers, r \in Relations, k \in Children :
       /\ doc'[k] # doc[k] /\ call[c].stage = "cascade" /\ Relay(c, r)
       /\ Home[doc[k].ref] = ActsFor[c] /\ Live(doc[k].ref)
       => doc[k].ref \in news[c]
<1>1. TypeOK /\ LifecycleInv => A
  <2> SUFFICES ASSUME TypeOK, NEW c \in Callers, CallInv(c), NEW r \in Relations, NEW k \in Children,
                      doc'[k] # doc[k], call[c].stage = "cascade", Relay(c, r),
                      Home[doc[k].ref] = ActsFor[c], Live(doc[k].ref)
               PROVE  doc[k].ref \in news[c]
    BY DEF LifecycleInv
  <2>1. k \in Cascaded(c, r)
    BY DEF Relay, Write, Marked, Removed, Docs
  <2>2. doc[k].ref \in call[c].ids
    BY <2>1 DEF Cascaded, Referencing
  <2>3. doc[k].ref \in Parents \cap Scope(c)
    BY <2>2 DEF CallInv, Scope, Docs
  <2> QED
    BY <2>2, <2>3 DEF CallInv, DeletedAreGone
<1>2. TypeOK /\ LifecycleInv => [A]_vars
  BY <1>1
<1> QED
  BY <1>2, TypeCorrect, LifecycleInvariant, PTL DEF LivingKeepChildren
=============================================================================
