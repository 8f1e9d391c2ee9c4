------------------------ MODULE DocumentWritesProofs ------------------------
(***************************************************************************)
(* Safety of the compare-and-set writes for every set of writers, every    *)
(* state machine, every choice of retrying writers and any number of       *)
(* retries.                                                                *)
(***************************************************************************)
EXTENDS DocumentWrites, FiniteSetTheorems, TLAPS

ControlStates == {"idle", "deciding", "writing", "diagnosing", "answered"}

\* A write leaves a document.
LEMMA WrittenTyped ==
  ASSUME TypeOK, NEW p \in Writers
  PROVE  Written(p) \in Document
<1>1. op[p].to \in States /\ seen[p].content \cup {p} \in SUBSET Writers
  BY DEF TypeOK, Operation, Document
<1>2. doc.version + 1 \in Nat
  BY DEF TypeOK, Document
<1>3. Append(doc.trail, [status |-> op[p].to, by |-> p]) \in Seq([status : States, by : Writers])
  BY <1>1 DEF TypeOK, Document
<1> QED
  BY <1>1, <1>2, <1>3 DEF TypeOK, Document, Written

LEMMA AnsweredTyped ==
  ASSUME TypeOK, NEW p \in Writers, NEW a \in Answer, Answered(p, a)
  PROVE  pc' \in [Writers -> ControlStates] /\ answer' \in [Writers -> Answer]
  BY DEF TypeOK, Answered, ControlStates

\* Every variable keeps its type.
THEOREM TypeCorrect == Spec => []TypeOK
<1>1. Init => TypeOK
  <2> SUFFICES ASSUME Init PROVE TypeOK
    OBVIOUS
  <2>1. New \in Document
    BY WritesAssumption DEF New, Document
  <2>2. NoOperation \in Operation
    BY WritesAssumption DEF NoOperation, Operation
  <2> QED
    BY <2>1, <2>2 DEF Init, TypeOK, Answer
<1>2. TypeOK /\ [Next]_vars => TypeOK'
  <2> SUFFICES ASSUME TypeOK, [Next]_vars PROVE TypeOK'
    OBVIOUS
  <2>1. CASE Delete
    BY <2>1 DEF Delete, TypeOK, Document
  <2>2. ASSUME NEW p \in Writers, Load(p) PROVE TypeOK'
    BY <2>2 DEF Load, TypeOK, Answer
  <2>3. ASSUME NEW p \in Writers, CallVersioned(p) PROVE TypeOK'
    <3>1. op' \in [Writers -> Operation]
      BY <2>3, WritesAssumption DEF CallVersioned, Decide, TypeOK, Operation
    <3> QED
      BY <2>3, <3>1 DEF CallVersioned, Decide, TypeOK
  <2>4. ASSUME NEW p \in Writers, CallTransition(p) PROVE TypeOK'
    <3>1. PICK t \in States, multi \in BOOLEAN : \E from \in Choices(p, t, multi) :
            /\ Decide(p, [kind |-> "applyTransition", from |-> from, to |-> t])
            /\ \/ pc' = [pc EXCEPT ![p] = "writing"] /\ UNCHANGED answer
               \/ Answered(p, "illegal")
      BY <2>4 DEF CallTransition
    <3>2. PICK from \in Choices(p, t, multi) :
            /\ Decide(p, [kind |-> "applyTransition", from |-> from, to |-> t])
            /\ \/ pc' = [pc EXCEPT ![p] = "writing"] /\ UNCHANGED answer
               \/ Answered(p, "illegal")
      BY <3>1
    <3>3. from \subseteq States
      <4>1. seen[p].status \in States
        BY DEF TypeOK, Document
      <4>2. Sources(t) \subseteq States
        BY DEF Sources
      <4> QED
        BY <4>1, <4>2 DEF Choices
    <3>4. op' \in [Writers -> Operation]
      BY <3>2, <3>3 DEF Decide, TypeOK, Operation
    <3> QED
      BY <3>2, <3>4 DEF Decide, Answered, TypeOK, Answer
  <2>5. ASSUME NEW p \in Writers, WriteApplied(p) PROVE TypeOK'
    BY <2>5, WrittenTyped DEF WriteApplied, ReplyLost, Answered, TypeOK, Answer
  <2>6. ASSUME NEW p \in Writers, WriteMissed(p) PROVE TypeOK'
    BY <2>6 DEF WriteMissed, Answered, TypeOK, Answer
  <2>7. ASSUME NEW p \in Writers, DiagnoseUpdate(p) \/ DiagnoseTransition(p) \/ CallFailed(p)
        PROVE TypeOK'
    BY <2>7 DEF DiagnoseUpdate, DiagnoseTransition, CallFailed, Answered, TypeOK, Answer
  <2>8. CASE UNCHANGED vars
    BY <2>8 DEF vars, TypeOK
  <2> QED
    BY <2>1, <2>2, <2>3, <2>4, <2>5, <2>6, <2>7, <2>8 DEF Next, Step
<1> QED
  BY <1>1, <1>2, PTL DEF Spec

-----------------------------------------------------------------------------
(***************************************************************************)
(* The transitions.  A call that got past the pre-flight names sources the *)
(* machine allows (or the target itself), and the filter of the write pins *)
(* the document to one of them at the moment of the write, whatever the    *)
(* writer has read and whoever wrote since.                                *)
(***************************************************************************)

PreflightPassed ==
  \A p \in Writers :
    pc[p] = "writing" /\ op[p].kind \notin Versioned =>
      \A s \in op[p].from : s = op[p].to \/ <<s, op[p].to>> \in Legal

TrailInv == PreflightPassed /\ TrailIsLegal

LEMMA PreflightInductive ==
  ASSUME TypeOK, PreflightPassed, [Next]_vars
  PROVE  PreflightPassed'
<1>1. ASSUME NEW p \in Writers, CallTransition(p) PROVE PreflightPassed'
  <2>1. PICK t \in States, multi \in BOOLEAN : \E from \in Choices(p, t, multi) :
          /\ Decide(p, [kind |-> "applyTransition", from |-> from, to |-> t])
          /\ \/ Preflight(from, t, multi) /\ pc' = [pc EXCEPT ![p] = "writing"]
             \/ Answered(p, "illegal")
    BY <1>1 DEF CallTransition
  <2>2. PICK from \in Choices(p, t, multi) :
          /\ Decide(p, [kind |-> "applyTransition", from |-> from, to |-> t])
          /\ \/ Preflight(from, t, multi) /\ pc' = [pc EXCEPT ![p] = "writing"]
             \/ Answered(p, "illegal")
    BY <2>1
  <2> QED
    BY <2>2 DEF Decide, Answered, Preflight, PreflightPassed, TypeOK
<1>2. ASSUME NEW p \in Writers, CallVersioned(p) PROVE PreflightPassed'
  BY <1>2 DEF CallVersioned, Decide, Versioned, PreflightPassed, TypeOK
<1>3. ASSUME NEW p \in Writers, Load(p) PROVE PreflightPassed'
  BY <1>3 DEF Load, PreflightPassed, TypeOK
<1>4. ASSUME NEW p \in Writers, WriteApplied(p) \/ WriteMissed(p) PROVE PreflightPassed'
  BY <1>4 DEF WriteApplied, ReplyLost, WriteMissed, Answered, PreflightPassed, TypeOK
<1>5. ASSUME NEW p \in Writers, DiagnoseUpdate(p) \/ DiagnoseTransition(p) \/ CallFailed(p)
      PROVE PreflightPassed'
  BY <1>5 DEF DiagnoseUpdate, DiagnoseTransition, CallFailed, Answered, PreflightPassed, TypeOK
<1>6. CASE Delete \/ UNCHANGED vars
  BY <1>6 DEF Delete, vars, PreflightPassed
<1> QED
  BY <1>1, <1>2, <1>3, <1>4, <1>5, <1>6 DEF Next, Step

\* A write is the only step that adds to the history, and it adds a legal entry.
LEMMA WriteKeepsTrail ==
  ASSUME TypeOK, TrailInv, NEW p \in Writers, WriteApplied(p)
  PROVE  TrailIsLegal'
<1>1. CASE op[p].kind \in Versioned
  <2>1. doc'.trail = doc.trail /\ doc'.status = doc.status
    BY <1>1 DEF WriteApplied, Written, TypeOK, Document
  <2> QED
    BY <2>1 DEF TrailInv, TrailIsLegal
<1>2. CASE op[p].kind \notin Versioned
  <2> DEFINE entry == [status |-> op[p].to, by |-> p]
  <2>1. /\ doc'.status = op[p].to
        /\ doc'.trail = Append(doc.trail, entry)
    BY <1>2 DEF WriteApplied, Written, TypeOK, Document
  <2>2. doc.status = op[p].to \/ <<doc.status, op[p].to>> \in Legal
    <3>1. doc.status \in op[p].from /\ pc[p] = "writing"
      BY <1>2 DEF WriteApplied, Matches
    <3> QED
      BY <3>1, <1>2 DEF TrailInv, PreflightPassed
  <2>3. doc.trail \in Seq([status : States, by : Writers]) /\ op[p].to \in States
    BY DEF TypeOK, Document, Operation
  <2>4. /\ DOMAIN doc'.trail = DOMAIN doc.trail \cup {Len(doc.trail) + 1}
        /\ Len(doc'.trail) = Len(doc.trail) + 1
        /\ doc'.trail[Len(doc.trail) + 1] = entry
        /\ \A i \in DOMAIN doc.trail : doc'.trail[i] = doc.trail[i]
        /\ doc'.trail # << >>
    BY <2>1, <2>3
  <2>5. doc'.status = doc'.trail[Len(doc'.trail)].status
    BY <2>1, <2>4
  <2>6. ASSUME NEW i \in DOMAIN doc'.trail
        PROVE  LET before == IF i = 1 THEN Initial ELSE doc'.trail[i - 1].status
               IN  before = doc'.trail[i].status \/ <<before, doc'.trail[i].status>> \in Legal
    <3>1. CASE i \in DOMAIN doc.trail
      <4>1. i = 1 \/ i - 1 \in DOMAIN doc.trail
        BY <3>1, <2>3
      <4> QED
        BY <3>1, <4>1, <2>4 DEF TrailInv, TrailIsLegal
    <3>2. CASE i = Len(doc.trail) + 1
      <4>1. CASE doc.trail = << >>
        <5>1. i = 1 /\ doc.status = Initial
          BY <3>2, <4>1 DEF TrailInv, TrailIsLegal
        <5> QED
          BY <5>1, <3>2, <2>2, <2>4
      <4>2. CASE doc.trail # << >>
        <5>1. i # 1 /\ i - 1 = Len(doc.trail) /\ i - 1 \in DOMAIN doc.trail
          BY <3>2, <4>2, <2>3
        <5>2. doc.status = doc.trail[i - 1].status
          BY <5>1, <4>2 DEF TrailInv, TrailIsLegal
        <5> QED
          BY <5>1, <5>2, <3>2, <2>2, <2>4
      <4> QED
        BY <4>1, <4>2
    <3> QED
      BY <3>1, <3>2, <2>4
  <2> QED
    BY <2>4, <2>5, <2>6 DEF TrailIsLegal
<1> QED
  BY <1>1, <1>2

LEMMA OthersKeepTrail ==
  ASSUME TypeOK, TrailIsLegal, [Next]_vars, \A p \in Writers : ~WriteApplied(p)
  PROVE  TrailIsLegal'
<1>1. doc'.trail = doc.trail /\ doc'.status = doc.status
  <2>1. CASE Delete
    BY <2>1 DEF Delete, TypeOK, Document
  <2>2. CASE UNCHANGED doc
    BY <2>2
  <2> QED
    BY <2>1, <2>2 DEF Next, Step, vars, Load, CallVersioned, CallTransition, Decide,
       WriteMissed, DiagnoseUpdate, DiagnoseTransition, CallFailed
<1> QED
  BY <1>1 DEF TrailIsLegal

\* The history is a legal path to the document's state for every machine, however
\* the writers race (the pre-flight and the filter of applyTransition).
THEOREM TrailStaysLegal == Spec => []TrailIsLegal
<1>1. Init => TrailInv
  BY DEF Init, TrailInv, PreflightPassed, TrailIsLegal, New
<1>2. TypeOK /\ TrailInv /\ [Next]_vars => TrailInv'
  <2> SUFFICES ASSUME TypeOK, TrailInv, [Next]_vars PROVE TrailInv'
    OBVIOUS
  <2>1. PreflightPassed'
    BY PreflightInductive DEF TrailInv
  <2>2. TrailIsLegal'
    BY WriteKeepsTrail, OthersKeepTrail DEF TrailInv
  <2> QED
    BY <2>1, <2>2 DEF TrailInv
<1>3. TrailInv => TrailIsLegal
  BY DEF TrailInv
<1> QED
  BY <1>1, <1>2, <1>3, TypeCorrect, PTL DEF Spec

-----------------------------------------------------------------------------
(***************************************************************************)
(* The versions.  What a writer has read is the present content or has an  *)
(* older version; a writer whose contribution is in the document has read  *)
(* an older version, and never reads again: only a writer that has done    *)
(* nothing starts over.  So a write that matches the version adds exactly  *)
(* one contribution, also when it is the repetition of a call.             *)
(***************************************************************************)

SeenIsPast ==
  \A p \in Writers :
    /\ seen[p].version <= doc.version
    /\ seen[p].version = doc.version => seen[p].content = doc.content
    /\ p \in doc.content => seen[p].version < doc.version

Losing == {"null", "conflict", "raceLost", "illegal", "missing"}

\* The writers whose calls so far have changed nothing.
Unsuccessful(p) ==
  \/ pc[p] \in {"idle", "deciding"}
  \/ p \notin Retrying /\ (pc[p] \in {"writing", "diagnosing"} \/ answer[p] \in Losing)

Absent(p) ==
  /\ p \notin doc.content
  /\ \A i \in DOMAIN doc.trail : doc.trail[i].by # p

UnsuccessfulIsAbsent == \A p \in Writers : Unsuccessful(p) => Absent(p)

\* A miss of update that the diagnosis finds alive is a version that moved on.
MissMovedOn ==
  \A p \in Writers :
    /\ pc[p] = "diagnosing" /\ op[p].kind = "update" /\ doc.live =>
         seen[p].version < doc.version
    /\ answer[p] = "conflict" => seen[p].version < doc.version
    /\ answer[p] = "missing" => ~doc.live

VersionInv ==
  /\ IsFiniteSet(doc.content) /\ NoLostUpdate
  /\ SeenIsPast /\ UnsuccessfulIsAbsent /\ MissMovedOn

LEMMA VersionInvImplies == TypeOK /\ VersionInv => LoserDidNothing /\ MissIsDiagnosed
<1> SUFFICES ASSUME TypeOK, VersionInv PROVE LoserDidNothing /\ MissIsDiagnosed
  OBVIOUS
<1>1. LoserDidNothing
  BY DEF VersionInv, UnsuccessfulIsAbsent, Unsuccessful, Absent, Losing, LoserDidNothing
<1>2. \A p \in Writers : seen[p].version \in Nat /\ doc.version \in Nat
  BY DEF TypeOK, Document
<1>3. MissIsDiagnosed
  BY <1>2 DEF VersionInv, MissMovedOn, MissIsDiagnosed
<1> QED
  BY <1>1, <1>3

\* Steps that leave the document and what was read alone.
LEMMA QuietSteps ==
  ASSUME TypeOK, VersionInv, UNCHANGED <<doc, seen>>,
         UnsuccessfulIsAbsent', MissMovedOn'
  PROVE  VersionInv'
  BY DEF VersionInv, NoLostUpdate, SeenIsPast

\* A writer that read the present content contributes once.
LEMMA OneMore ==
  ASSUME TypeOK, VersionInv, NEW p \in Writers, WriteApplied(p), op[p].kind \in Versioned
  PROVE  /\ doc'.version = doc.version + 1
         /\ doc'.content = doc.content \cup {p} /\ p \notin doc.content
         /\ doc'.trail = doc.trail /\ doc'.live
         /\ IsFiniteSet(doc'.content) /\ NoLostUpdate'
<1>1. doc.version = seen[p].version /\ doc.live
  BY DEF WriteApplied, Matches
<1>2. seen[p].content = doc.content /\ p \notin doc.content
  BY <1>1 DEF VersionInv, SeenIsPast, TypeOK, Document
<1>3. /\ doc'.version = doc.version + 1 /\ doc'.content = doc.content \cup {p}
      /\ doc'.trail = doc.trail /\ doc'.live
  BY <1>1, <1>2 DEF WriteApplied, Written, TypeOK, Document
<1>4. /\ IsFiniteSet(doc.content \cup {p})
      /\ Cardinality(doc.content \cup {p}) = Cardinality(doc.content) + 1
  BY <1>2, FS_AddElement DEF VersionInv
<1> QED
  BY <1>2, <1>3, <1>4 DEF VersionInv, NoLostUpdate

LEMMA WriteKeepsVersions ==
  ASSUME TypeOK, VersionInv, NEW p \in Writers, WriteApplied(p)
  PROVE  VersionInv'
<1>1. /\ pc[p] = "writing" /\ UNCHANGED <<seen, op>>
      /\ \A q \in Writers : q # p => pc'[q] = pc[q] /\ answer'[q] = answer[q]
      /\ pc'[p] \in {"writing", "answered"}
      /\ p \notin Retrying => pc'[p] = "answered" /\ answer'[p] \in {"done", "unknown"}
      /\ answer'[p] \in {"done", "unknown"} \/ answer'[p] = answer[p]
  BY DEF WriteApplied, ReplyLost, Answered, TypeOK
<1>2. \A q \in Writers : (q # p) => (Unsuccessful(q)' => Unsuccessful(q))
  BY <1>1 DEF Unsuccessful
<1>3. ~Unsuccessful(p)'
  BY <1>1 DEF Unsuccessful, Losing
<1>4. doc.live /\ doc.version \in Nat /\ \A q \in Writers : seen[q].version \in Nat
  BY DEF WriteApplied, Matches, TypeOK, Document
<1>5. CASE op[p].kind \in Versioned
  <2>1. /\ doc'.version = doc.version + 1 /\ doc'.content = doc.content \cup {p}
        /\ doc'.trail = doc.trail /\ IsFiniteSet(doc'.content) /\ NoLostUpdate'
    BY <1>5, OneMore
  <2>2. SeenIsPast'
    BY <1>1, <1>4, <2>1 DEF VersionInv, SeenIsPast
  <2>3. UnsuccessfulIsAbsent'
    BY <1>2, <1>3, <2>1 DEF VersionInv, UnsuccessfulIsAbsent, Absent
  <2>4. MissMovedOn'
    <3>1. \A q \in Writers : seen'[q].version < doc'.version
      BY <1>1, <1>4, <2>1 DEF VersionInv, SeenIsPast
    <3>2. \A q \in Writers : answer'[q] # "missing"
      BY <1>1, <1>4 DEF VersionInv, MissMovedOn
    <3> QED
      BY <3>1, <3>2 DEF MissMovedOn
  <2> QED
    BY <2>1, <2>2, <2>3, <2>4 DEF VersionInv
<1>6. CASE op[p].kind \notin Versioned
  <2> DEFINE entry == [status |-> op[p].to, by |-> p]
  <2>1. /\ doc'.version = doc.version /\ doc'.content = doc.content
        /\ doc'.trail = Append(doc.trail, entry) /\ doc'.live = doc.live
    BY <1>6 DEF WriteApplied, Written, TypeOK, Document
  <2>2. \A i \in DOMAIN doc'.trail :
          \/ doc'.trail[i] = entry
          \/ i \in DOMAIN doc.trail /\ doc'.trail[i] = doc.trail[i]
    <3>1. doc.trail \in Seq([status : States, by : Writers])
      BY DEF TypeOK, Document
    <3>2. entry \in [status : States, by : Writers]
      BY DEF TypeOK, Operation
    <3>3. /\ DOMAIN doc'.trail = DOMAIN doc.trail \cup {Len(doc.trail) + 1}
          /\ doc'.trail[Len(doc.trail) + 1] = entry
          /\ \A i \in DOMAIN doc.trail : doc'.trail[i] = doc.trail[i]
      BY <2>1, <3>1, <3>2
    <3> QED
      BY <3>3
  <2>3. UnsuccessfulIsAbsent'
    BY <1>2, <1>3, <2>1, <2>2 DEF VersionInv, UnsuccessfulIsAbsent, Absent
  <2>4. MissMovedOn'
    BY <1>1, <2>1, <1>4 DEF VersionInv, MissMovedOn
  <2> QED
    BY <1>1, <2>1, <2>3, <2>4 DEF VersionInv, NoLostUpdate, SeenIsPast
<1> QED
  BY <1>5, <1>6

LEMMA VersionInvInductive == TypeOK /\ VersionInv /\ [Next]_vars => VersionInv'
<1> SUFFICES ASSUME TypeOK, VersionInv, [Next]_vars PROVE VersionInv'
  OBVIOUS
<1> USE DEF VersionInv
<1>1. CASE Delete
  <2>1. /\ doc'.version = doc.version /\ doc'.content = doc.content
        /\ doc'.trail = doc.trail /\ ~doc'.live /\ UNCHANGED <<pc, seen, op, answer>>
    BY <1>1 DEF Delete, TypeOK, Document
  <2> QED
    BY <2>1 DEF NoLostUpdate, SeenIsPast, UnsuccessfulIsAbsent, Unsuccessful, Absent, MissMovedOn
<1>2. ASSUME NEW p \in Writers, Load(p) PROVE VersionInv'
  <2>1. Absent(p)
    BY <1>2 DEF Load, UnsuccessfulIsAbsent, Unsuccessful, Losing
  <2>2. SeenIsPast'
    <3>1. doc.version \in Nat /\ doc.version <= doc.version
      BY DEF TypeOK, Document
    <3>2. seen'[p] = doc /\ UNCHANGED doc /\ \A q \in Writers : q # p => seen'[q] = seen[q]
      BY <1>2 DEF Load, TypeOK
    <3> QED
      BY <2>1, <3>1, <3>2 DEF SeenIsPast, Absent
  <2>3. UnsuccessfulIsAbsent'
    <3>1. \A q \in Writers : (q # p) => (Unsuccessful(q)' => Unsuccessful(q))
      BY <1>2 DEF Load, Unsuccessful, TypeOK
    <3> QED
      BY <1>2, <2>1, <3>1 DEF Load, UnsuccessfulIsAbsent, Absent
  <2>4. MissMovedOn'
    BY <1>2 DEF Load, MissMovedOn, TypeOK
  <2> QED
    BY <1>2, <2>2, <2>3, <2>4 DEF Load, NoLostUpdate
<1>3. ASSUME NEW p \in Writers, CallVersioned(p) \/ CallTransition(p) PROVE VersionInv'
  <2>1. /\ pc[p] = "deciding" /\ UNCHANGED <<doc, seen>>
        /\ \A q \in Writers : q # p => pc'[q] = pc[q] /\ answer'[q] = answer[q] /\ op'[q] = op[q]
        /\ pc'[p] \in {"writing", "answered"} /\ answer'[p] \in {answer[p], "illegal"}
    BY <1>3 DEF CallVersioned, CallTransition, Decide, Answered, TypeOK
  <2>2. UnsuccessfulIsAbsent'
    <3>1. Absent(p)
      BY <2>1 DEF UnsuccessfulIsAbsent, Unsuccessful
    <3>2. \A q \in Writers : (q # p) => (Unsuccessful(q)' => Unsuccessful(q))
      BY <2>1 DEF Unsuccessful
    <3> QED
      BY <2>1, <3>1, <3>2 DEF UnsuccessfulIsAbsent, Absent
  <2>3. MissMovedOn'
    BY <2>1 DEF MissMovedOn
  <2> QED
    BY <2>1, <2>2, <2>3, QuietSteps
<1>4. ASSUME NEW p \in Writers, WriteApplied(p) PROVE VersionInv'
  BY <1>4, WriteKeepsVersions
<1>5. ASSUME NEW p \in Writers,
             WriteMissed(p) \/ CallFailed(p) \/ DiagnoseUpdate(p) \/ DiagnoseTransition(p)
      PROVE  VersionInv'
  <2>1. /\ pc[p] \in {"writing", "diagnosing"} /\ UNCHANGED <<doc, seen, op>>
        /\ \A q \in Writers : q # p => pc'[q] = pc[q] /\ answer'[q] = answer[q]
        /\ pc'[p] \in {"diagnosing", "answered"}
    BY <1>5 DEF WriteMissed, CallFailed, DiagnoseUpdate, DiagnoseTransition, Answered, TypeOK
  <2>2. UnsuccessfulIsAbsent'
    <3>1. \A q \in Writers : Unsuccessful(q)' => Unsuccessful(q)
      BY <2>1 DEF Unsuccessful
    <3> QED
      BY <2>1, <3>1 DEF UnsuccessfulIsAbsent, Absent
  <2>3. seen[p].version \in Nat /\ doc.version \in Nat /\ seen[p].version <= doc.version
    BY DEF TypeOK, Document, SeenIsPast
  <2>4. pc'[p] = "diagnosing" /\ op[p].kind = "update" /\ doc.live => seen[p].version < doc.version
    <3>1. CASE WriteMissed(p)
      BY <3>1, <2>3 DEF WriteMissed, Matches, Versioned
    <3>2. CASE ~WriteMissed(p)
      BY <3>2, <1>5 DEF CallFailed, DiagnoseUpdate, DiagnoseTransition, Answered, TypeOK
    <3> QED
      BY <3>1, <3>2
  <2>5. /\ answer'[p] = "conflict" => seen[p].version < doc.version
        /\ answer'[p] = "missing" => ~doc.live
    <3>1. CASE WriteMissed(p) \/ CallFailed(p)
      BY <3>1 DEF WriteMissed, CallFailed, Answered, TypeOK, MissMovedOn
    <3>2. CASE DiagnoseUpdate(p) \/ DiagnoseTransition(p)
      BY <3>2 DEF DiagnoseUpdate, DiagnoseTransition, Answered, TypeOK, MissMovedOn
    <3> QED
      BY <1>5, <3>1, <3>2
  <2>6. MissMovedOn'
    BY <2>1, <2>4, <2>5 DEF MissMovedOn
  <2> QED
    BY <2>1, <2>2, <2>6, QuietSteps
<1>6. CASE UNCHANGED vars
  BY <1>6 DEF vars, NoLostUpdate, SeenIsPast, UnsuccessfulIsAbsent, Unsuccessful, Absent, MissMovedOn
<1> QED
  BY <1>1, <1>2, <1>3, <1>4, <1>5, <1>6 DEF Next, Step

LEMMA VersionsHold == Spec => []VersionInv
<1>1. Init => VersionInv
  <2> SUFFICES ASSUME Init PROVE VersionInv
    OBVIOUS
  <2>1. doc.content = {} /\ doc.trail = << >> /\ doc.version = 0
    BY DEF Init, New
  <2>2. IsFiniteSet(doc.content) /\ NoLostUpdate
    BY <2>1, FS_EmptySet DEF NoLostUpdate
  <2> QED
    BY <2>1, <2>2 DEF Init, New, VersionInv, SeenIsPast, UnsuccessfulIsAbsent, Absent, MissMovedOn
<1> QED
  BY <1>1, VersionInvInductive, TypeCorrect, PTL DEF Spec

\* No versioned write overwrites what it has not read, and none counts twice, for
\* any number of writers and retries (update with ifVersion, claimVersion).
THEOREM UpdatesAreKept == Spec => []NoLostUpdate
<1>1. VersionInv => NoLostUpdate
  BY DEF VersionInv
<1> QED
  BY <1>1, VersionsHold, PTL

\* A writer without a retryPolicy that is told it lost has changed nothing: it
\* may repeat the operation.
THEOREM LosersDidNothing == Spec => []LoserDidNothing
  BY VersionInvImplies, VersionsHold, TypeCorrect, PTL

\* VersionConflictError and the not-found answers are true when they are given
\* and stay true.
THEOREM MissesAreDiagnosed == Spec => []MissIsDiagnosed
  BY VersionInvImplies, VersionsHold, TypeCorrect, PTL
=============================================================================
