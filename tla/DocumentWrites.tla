--------------------------- MODULE DocumentWrites ---------------------------
(***************************************************************************)
(* Optimistic writes of one document: applyTransition over claim (a        *)
(* compare- and-set on the state field), update with ifVersion and         *)
(* claimVersion (one on the version).  A writer reads the document,        *)
(* decides, and writes later; the write is one findOneAndUpdate; when it   *)
(* matches nothing, the repository reads once more to say why.             *)
(*                                                                         *)
(* A reply may be lost after the write.  A call with a retryPolicy then    *)
(* repeats the driver call (_withResilience), not the decision.            *)
(***************************************************************************)
EXTENDS Integers, Sequences, FiniteSets

CONSTANTS
  Writers,    \* each makes one write, and repeats it when it lost
  States,     \* the values of the state field
  Initial,
  Legal,      \* the pairs <<from, to>> the machine's assertTransition accepts
  Retrying,   \* the writers that pass a retryPolicy
  Deletable,  \* whether somebody may delete the document
  MaxRetries  \* the attempts of a retryPolicy after the first

ASSUME WritesAssumption ==
  /\ Initial \in States
  /\ Legal \subseteq States \X States
  /\ Retrying \subseteq Writers
  /\ Deletable \in BOOLEAN
  /\ MaxRetries \in Nat

VARIABLES
  doc,     \* the document
  pc,      \* what each writer does
  seen,    \* the document as the writer read it
  op,      \* the write it decided on
  tries,   \* the retries it has made
  answer   \* what its last call returned or threw

vars == <<doc, pc, seen, op, tries, answer>>

\* content stands for a field that every versioned writer computes from what it
\* read and overwrites: whose contributions it holds.  trail is statusHistory.
Document == [live : BOOLEAN, status : States, version : Nat,
             content : SUBSET Writers, trail : Seq([status : States, by : Writers])]

Versioned == {"update", "claimVersion"}

Operation == [kind : {"none", "applyTransition"} \cup Versioned,
              from : SUBSET States, to : States]

NoOperation == [kind |-> "none", from |-> {}, to |-> Initial]

Answer == {"none", "done", "unknown", "null", "conflict", "illegal", "missing", "raceLost"}

TypeOK ==
  /\ doc \in Document
  /\ pc \in [Writers -> {"idle", "deciding", "writing", "diagnosing", "answered"}]
  /\ seen \in [Writers -> Document]
  /\ op \in [Writers -> Operation]
  /\ tries \in [Writers -> Nat]
  /\ answer \in [Writers -> Answer]

New == [live |-> TRUE, status |-> Initial, version |-> 0, content |-> {}, trail |-> << >>]

Init ==
  /\ doc = New
  /\ pc = [p \in Writers |-> "idle"]
  /\ seen = [p \in Writers |-> New]
  /\ op = [p \in Writers |-> NoOperation]
  /\ tries = [p \in Writers |-> 0]
  /\ answer = [p \in Writers |-> "none"]

\* The call of p ends.
Answered(p, a) ==
  /\ pc' = [pc EXCEPT ![p] = "answered"]
  /\ answer' = [answer EXCEPT ![p] = a]

-----------------------------------------------------------------------------
(* The writer                                                               *)

\* The writer reads the document, for the first time or after it lost.
Load(p) ==
  /\ \/ pc[p] = "idle"
     \/ pc[p] = "answered" /\ answer[p] \in {"null", "conflict", "raceLost"} /\ p \notin Retrying
  /\ doc.live
  /\ seen' = [seen EXCEPT ![p] = doc]
  /\ pc' = [pc EXCEPT ![p] = "deciding"]
  /\ answer' = [answer EXCEPT ![p] = "none"]
  /\ UNCHANGED <<doc, op, tries>>

\* It decides on its write and makes the call.
Decide(p, o) ==
  /\ pc[p] = "deciding"
  /\ op' = [op EXCEPT ![p] = o]
  /\ UNCHANGED <<doc, seen, tries>>

\* update with ifVersion, or claimVersion.
CallVersioned(p) ==
  \E k \in Versioned :
    /\ Decide(p, [kind |-> k, from |-> {}, to |-> Initial])
    /\ pc' = [pc EXCEPT ![p] = "writing"] /\ UNCHANGED answer

\* The sources of a multi-source transition.
Sources(t) == {s \in States : <<s, t>> \in Legal}

\* What a writer passes as from: the state it read, or, when that one is among
\* them, the machine's validSources, with or without the target (a re-claim).
Choices(p, t, multi) ==
  IF multi THEN {f \in {Sources(t), Sources(t) \cup {t}} : seen[p].status \in f}
  ELSE {{seen[p].status}}

\* assertTransition of every source; in a multi-source array the target itself
\* is exempt.
Preflight(from, t, multi) == \A s \in from : (multi /\ s = t) \/ <<s, t>> \in Legal

\* applyTransition from the state the writer read, or from many.
CallTransition(p) ==
  \E t \in States, multi \in BOOLEAN :
    \E from \in Choices(p, t, multi) :
      /\ Decide(p, [kind |-> "applyTransition", from |-> from, to |-> t])
      /\ \/ Preflight(from, t, multi) /\ pc' = [pc EXCEPT ![p] = "writing"] /\ UNCHANGED answer
         \/ ~Preflight(from, t, multi) /\ Answered(p, "illegal")

-----------------------------------------------------------------------------
(* The write                                                                *)

\* Mutants of Matches: the version, or the state, is not in the filter; the
\* version is compared with the next one.
MatchesAnyVersion(p) ==
  doc.live /\ (op[p].kind \in Versioned \/ doc.status \in op[p].from)
MatchesAnyState(p) ==
  doc.live /\ (op[p].kind \in Versioned => doc.version = seen[p].version)
MatchesNextVersion(p) ==
  /\ doc.live
  /\ IF op[p].kind \in Versioned THEN doc.version = seen[p].version + 1
     ELSE doc.status \in op[p].from

\* The filter of the findOneAndUpdate: the id, and the version or the state.
Matches(p) ==
  /\ doc.live
  /\ IF op[p].kind \in Versioned THEN doc.version = seen[p].version
     ELSE doc.status \in op[p].from

\* $set and $inc of the version; $set of the state and $push of the history.
Written(p) ==
  IF op[p].kind \in Versioned
  THEN [doc EXCEPT !.content = seen[p].content \cup {p}, !.version = @ + 1]
  ELSE [doc EXCEPT !.status = op[p].to, !.trail = Append(@, [status |-> op[p].to, by |-> p])]

\* The reply is lost: the call is repeated under its retryPolicy, or throws.
ReplyLost(p) ==
  \/ /\ p \in Retrying /\ tries[p] < MaxRetries
     /\ tries' = [tries EXCEPT ![p] = @ + 1]
     /\ UNCHANGED <<pc, answer>>
  \/ Answered(p, "unknown") /\ UNCHANGED tries

WriteApplied(p) ==
  /\ pc[p] = "writing" /\ Matches(p)
  /\ doc' = Written(p)
  /\ \/ Answered(p, "done") /\ UNCHANGED tries
     \/ ReplyLost(p)
  /\ UNCHANGED <<seen, op>>

\* The filter matched nothing: claimVersion returns null, the others ask why.
WriteMissed(p) ==
  /\ pc[p] = "writing" /\ ~Matches(p)
  /\ \/ op[p].kind = "claimVersion" /\ Answered(p, "null")
     \/ /\ op[p].kind # "claimVersion"
        /\ pc' = [pc EXCEPT ![p] = "diagnosing"] /\ UNCHANGED answer
  /\ UNCHANGED <<doc, seen, op, tries>>

\* The call fails before it has an effect: an abort signal, a lost request.
CallFailed(p) ==
  /\ pc[p] \in {"writing", "diagnosing"}
  /\ Answered(p, "unknown")
  /\ UNCHANGED <<doc, seen, op, tries>>

-----------------------------------------------------------------------------
(* The diagnosis of a miss                                                  *)

\* Mutant of DiagnoseUpdate: every miss is a conflict.
DiagnoseWithoutRead(p) ==
  /\ pc[p] = "diagnosing" /\ op[p].kind = "update"
  /\ Answered(p, "conflict")
  /\ UNCHANGED <<doc, seen, op, tries>>

\* update: VersionConflictError when the document is still there, else null.
DiagnoseUpdate(p) ==
  /\ pc[p] = "diagnosing" /\ op[p].kind = "update"
  /\ Answered(p, IF doc.live THEN "conflict" ELSE "missing")
  /\ UNCHANGED <<doc, seen, op, tries>>

\* applyTransition: 404, the machine's error for the state it reads now, or 409
\* TRANSITION_RACE_LOST.
DiagnoseTransition(p) ==
  /\ pc[p] = "diagnosing" /\ op[p].kind = "applyTransition"
  /\ \/ ~doc.live /\ Answered(p, "missing")
     \/ /\ doc.live /\ doc.status # op[p].to /\ <<doc.status, op[p].to>> \notin Legal
        /\ Answered(p, "illegal")
     \/ /\ doc.live /\ (doc.status = op[p].to \/ <<doc.status, op[p].to>> \in Legal)
        /\ Answered(p, "raceLost")
  /\ UNCHANGED <<doc, seen, op, tries>>

-----------------------------------------------------------------------------

\* Somebody deletes the document (delete without softDeletePlugin).
Delete ==
  /\ Deletable /\ doc.live
  /\ doc' = [doc EXCEPT !.live = FALSE]
  /\ UNCHANGED <<pc, seen, op, tries, answer>>

Step(p) ==
  \/ Load(p) \/ CallVersioned(p) \/ CallTransition(p)
  \/ WriteApplied(p) \/ WriteMissed(p)
  \/ DiagnoseUpdate(p) \/ DiagnoseTransition(p)

Next == Delete \/ \E p \in Writers : Step(p) \/ CallFailed(p)

Spec == Init /\ [][Next]_vars

\* A writer's calls return, and a writer that lost reads again and repeats.
FairSpec == Spec /\ \A p \in Writers : WF_vars(Step(p))

-----------------------------------------------------------------------------
(* Properties                                                               *)

\* The history is a path of the machine that ends in the document's state, also
\* when transitions race, are repeated, or are diagnosed on a stale decision: an
\* entry follows its predecessor by a legal move, or is a re-claim.
TrailIsLegal ==
  /\ doc.status = IF doc.trail = << >> THEN Initial ELSE doc.trail[Len(doc.trail)].status
  /\ \A i \in DOMAIN doc.trail :
       LET before == IF i = 1 THEN Initial ELSE doc.trail[i - 1].status
       IN  before = doc.trail[i].status \/ <<before, doc.trail[i].status>> \in Legal

\* Every increment of the version is the contribution of one more writer: no
\* versioned write overwrites another it has not read, and none is applied twice
\* by a repeated call (the compare-and-set of update(ifVersion), claimVersion).
NoLostUpdate == doc.version = Cardinality(doc.content)

\* A writer that is told it lost has changed nothing and may start again (unless
\* it passed a retryPolicy, whose repeated call may lose to its own first one).
LoserDidNothing ==
  \A p \in Writers \ Retrying :
    answer[p] \in {"null", "conflict", "raceLost", "illegal", "missing"} =>
      /\ p \notin doc.content
      /\ \A i \in DOMAIN doc.trail : doc.trail[i].by # p

\* A conflict is reported only of a document that has moved past the version the
\* writer read, and null or 404 from the diagnosis only of one that is gone.
MissIsDiagnosed ==
  \A p \in Writers :
    /\ answer[p] = "conflict" => doc.version > seen[p].version
    /\ answer[p] = "missing" => ~doc.live

\* A writer does not lose for ever: each loss is another's success, and there
\* are only so many.
EveryWriterSettles == \A p \in Writers : <>[](pc[p] = "answered" \/ ~doc.live)
=============================================================================
