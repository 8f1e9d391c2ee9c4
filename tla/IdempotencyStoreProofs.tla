----------------------- MODULE IdempotencyStoreProofs -----------------------
(***************************************************************************)
(* Safety of the idempotency store for every number of callers, tokens,    *)
(* values and lease lengths, every attempts ceiling and every clock bound. *)
(***************************************************************************)
EXTENDS IdempotencyDecision, FiniteSetTheorems, TLAPS

(***************************************************************************)
(* Type correctness.                                                       *)
(***************************************************************************)

LEMMA ForgetTyped ==
  ASSUME TypeOK, NEW p \in Callers, Forget(p)
  PROVE  /\ pc' \in [Callers -> {"idle", "claiming", "reclaiming", "working", "expiring"}]
         /\ startedAt' \in [Callers -> Nat]
         /\ token' \in [Callers -> Tokens \cup {NoToken}]
         /\ until' \in [Callers -> Nat]
         /\ known' \in [Callers -> Values \cup {NoValue}]
  BY DEF TypeOK, Forget

LEMMA AbsentTyped == Absent \in Row
  BY DEF Absent, Row, Terminal

LEMMA BumpedTyped == \A n \in Nat : Bumped(n) \in Nat
  BY DEF Bumped

\* Every variable keeps its type: in particular the row is at every step a
\* claim row of the plugin's schema, or absent.
THEOREM TypeCorrect == Spec => []TypeOK
<1>1. Init => TypeOK
  BY AbsentTyped DEF Init, TypeOK, Answer, Reply
<1>2. TypeOK /\ [Next]_vars => TypeOK'
  <2> SUFFICES ASSUME TypeOK, [Next]_vars PROVE TypeOK'
    OBVIOUS
  <2>1. CASE Tick
    BY <2>1 DEF Tick, local, TypeOK
  <2>2. ASSUME NEW p \in Callers, ClaimStart(p) PROVE TypeOK'
    BY <2>2, StoreAssumption DEF ClaimStart, TypeOK, Answer, Reply
  <2>3. ASSUME NEW p \in Callers, ClaimLookup(p) PROVE TypeOK'
    <3>1. CASE ClaimInserted(p)
      <4>1. row' \in Row
        BY <3>1, AbsentTyped DEF ClaimInserted, TypeOK, Row, Absent
      <4> QED
        BY <3>1, <4>1 DEF ClaimInserted, TypeOK, Answer, Reply
    <3>2. CASE ClaimReplayed(p)
      <4>1. Reply(row.status, row.outcome) \in Answer
        BY <3>2 DEF ClaimReplayed, TypeOK, Row, Answer, Reply, Terminal
      <4> QED
        BY <3>2, <4>1, ForgetTyped DEF ClaimReplayed, TypeOK
    <3>3. CASE ClaimBusy(p)
      <4>1. Reply("busy", row.progress) \in Answer
        BY DEF TypeOK, Row, Answer, Reply
      <4> QED
        BY <3>3, <4>1, ForgetTyped DEF ClaimBusy, TypeOK
    <3>4. CASE ClaimExhausted(p)
      <4>1. Reply("exhausted", row.progress) \in Answer
        BY DEF TypeOK, Row, Answer, Reply
      <4> QED
        BY <3>4, <4>1, ForgetTyped DEF ClaimExhausted, TypeOK
    <3>5. CASE ClaimFoundExpired(p)
      BY <3>5 DEF ClaimFoundExpired, TypeOK, Row
    <3> QED
      BY <2>3, <3>1, <3>2, <3>3, <3>4, <3>5 DEF ClaimLookup
  <2>4. ASSUME NEW p \in Callers, ClaimReacquire(p) PROVE TypeOK'
    <3>1. CASE ClaimReacquired(p)
      <4>1. row' \in Row
        BY <3>1, BumpedTyped DEF ClaimReacquired, TypeOK, Row
      <4>2. Reply("acquired", ResumeFrom(p)) \in Answer
        BY DEF TypeOK, Row, Answer, Reply, ResumeFrom
      <4>3. known' \in [Callers -> Values \cup {NoValue}]
        BY <3>1 DEF ClaimReacquired, TypeOK, Row, ResumeFrom
      <4> QED
        BY <3>1, <4>1, <4>2, <4>3 DEF ClaimReacquired, TypeOK
    <3>2. CASE ClaimLostRace(p)
      <4>1. Reply("busy", known[p]) \in Answer
        BY DEF TypeOK, Answer, Reply
      <4> QED
        BY <3>2, <4>1, ForgetTyped DEF ClaimLostRace, TypeOK
    <3> QED
      BY <2>4, <3>1, <3>2 DEF ClaimReacquire
  <2>5. ASSUME NEW p \in Callers, SaveClaimProgress(p) PROVE TypeOK'
    BY <2>5 DEF SaveClaimProgress, TypeOK, Row
  <2>6. ASSUME NEW p \in Callers, CompleteClaim(p) \/ FailClaim(p) PROVE TypeOK'
    <3>1. row' \in Row
      BY <2>6 DEF CompleteClaim, FailClaim, Settle, TypeOK, Row, Terminal
    <3> QED
      BY <2>6, <3>1, ForgetTyped DEF CompleteClaim, FailClaim, Settle, TypeOK
  <2>7. ASSUME NEW p \in Callers, ReleaseClaim(p) PROVE TypeOK'
    BY <2>7, AbsentTyped, ForgetTyped DEF ReleaseClaim, TypeOK
  <2>8. ASSUME NEW p \in Callers, VerbLost(p) PROVE TypeOK'
    BY <2>8, ForgetTyped DEF VerbLost, TypeOK
  <2>9. ASSUME NEW p \in Callers, ExpireStart(p) PROVE TypeOK'
    BY <2>9 DEF ExpireStart, TypeOK
  <2>10. ASSUME NEW p \in Callers, ExpireClaim(p) PROVE TypeOK'
    <3>1. row' \in Row
      BY <2>10 DEF ExpireClaim, TypeOK, Row
    <3> QED
      BY <2>10, <3>1, ForgetTyped DEF ExpireClaim, TypeOK
  <2>11. ASSUME NEW p \in Callers, Crash(p) PROVE TypeOK'
    BY <2>11, ForgetTyped DEF Crash, TypeOK
  <2>12. CASE UNCHANGED vars
    BY <2>12 DEF vars, local, TypeOK
  <2> QED
    BY <2>1, <2>2, <2>3, <2>4, <2>5, <2>6, <2>7, <2>8, <2>9, <2>10, <2>11, <2>12
       DEF Next
<1> QED
  BY <1>1, <1>2, PTL DEF Spec

-----------------------------------------------------------------------------
(***************************************************************************)
(* The outcome of a key is final.  The compare-and-set of every verb asks  *)
(* for an in-flight row, so no step from a terminal row changes it.        *)
(***************************************************************************)

LEMMA TerminalStays ==
  [Next]_vars => (row.status \in Terminal => row' = row)
<1> SUFFICES ASSUME [Next]_vars, row.status \in Terminal PROVE row' = row
  OBVIOUS
<1>1. CASE UNCHANGED vars
  BY <1>1 DEF vars
<1>2. CASE Next
  BY <1>2 DEF Next, Tick, ClaimStart, ClaimLookup, ClaimInserted, ClaimReplayed,
     ClaimBusy, ClaimExhausted, ClaimFoundExpired, ClaimReacquire, ClaimReacquired,
     ReacquireMatches, ClaimLostRace, SaveClaimProgress, CompleteClaim, FailClaim,
     Settle, ReleaseClaim, VerbLost, ExpireStart, ExpireClaim, Crash, HoldsClaim,
     Terminal
<1> QED
  BY <1>1, <1>2

\* A terminal row is never changed or deleted by any verb of any caller.
THEOREM OutcomeFinal == Spec => OutcomeIsFinal
  BY TerminalStays, PTL DEF Spec, OutcomeIsFinal

\* What one step does to a caller's answer.
LEMMA AnswerStep ==
  ASSUME TypeOK, [Next]_vars, NEW q \in Callers
  PROVE  \/ answer'[q] = answer[q]
         \/ answer'[q].kind \notin Terminal
         \/ /\ row.status \in Terminal
            /\ answer'[q] = Reply(row.status, row.outcome)
<1> USE DEF TypeOK, Reply, Terminal
<1>1. CASE Tick \/ UNCHANGED vars
  BY <1>1 DEF Tick, vars, local
<1>2. ASSUME NEW p \in Callers, ClaimStart(p) \/ ClaimInserted(p) \/ ClaimBusy(p)
                                \/ ClaimExhausted(p) \/ ClaimLostRace(p)
      PROVE answer'[q] = answer[q] \/ answer'[q].kind \notin Terminal
  BY <1>2 DEF ClaimStart, ClaimInserted, ClaimBusy, ClaimExhausted, ClaimLostRace
<1>3. ASSUME NEW p \in Callers, ClaimReacquired(p)
      PROVE answer'[q] = answer[q] \/ answer'[q].kind \notin Terminal
  BY <1>3 DEF ClaimReacquired
<1>4. ASSUME NEW p \in Callers, ClaimReplayed(p)
      PROVE \/ answer'[q] = answer[q]
            \/ row.status \in Terminal /\ answer'[q] = Reply(row.status, row.outcome)
  BY <1>4 DEF ClaimReplayed
<1>5. ASSUME NEW p \in Callers,
             \/ ClaimFoundExpired(p) \/ SaveClaimProgress(p) \/ CompleteClaim(p)
             \/ FailClaim(p) \/ ReleaseClaim(p) \/ VerbLost(p) \/ ExpireStart(p)
             \/ ExpireClaim(p) \/ Crash(p)
      PROVE answer' = answer
  BY <1>5 DEF ClaimFoundExpired, SaveClaimProgress, CompleteClaim, FailClaim, Settle,
     ReleaseClaim, VerbLost, ExpireStart, ExpireClaim, Crash
<1> QED
  BY <1>1, <1>2, <1>3, <1>4, <1>5 DEF Next, ClaimLookup, ClaimReacquire

\* A replayed outcome is and stays the row's outcome.
THEOREM ReplaysAreTrue == Spec => []ReplayIsTrue
<1>1. Init => ReplayIsTrue
  BY DEF Init, ReplayIsTrue, Reply, Terminal
<1>2. TypeOK /\ ReplayIsTrue /\ [Next]_vars => ReplayIsTrue'
  <2> SUFFICES ASSUME TypeOK, ReplayIsTrue, [Next]_vars, NEW q \in Callers,
                      answer'[q].kind \in Terminal
               PROVE  answer'[q].kind = row'.status /\ answer'[q].value = row'.outcome
    BY DEF ReplayIsTrue
  <2>1. CASE answer'[q] = answer[q]
    BY <2>1, TerminalStays DEF ReplayIsTrue
  <2>2. CASE row.status \in Terminal /\ answer'[q] = Reply(row.status, row.outcome)
    BY <2>2, TerminalStays DEF Reply
  <2> QED
    BY <2>1, <2>2, AnswerStep
<1> QED
  BY <1>1, <1>2, TypeCorrect, PTL DEF Spec

-----------------------------------------------------------------------------
(***************************************************************************)
(* Mutual exclusion of live workers.  OneLiveWorker is not inductive: it   *)
(* says nothing of the row, so nothing would stop a claim from succeeding  *)
(* beside a live worker.  The strengthening ties the worker to the row:    *)
(* the row still carries its token, and the expiry it computed, and tokens *)
(* of different callers differ.                                            *)
(***************************************************************************)

\* A claim in progress has read the clock, and its token is in no row yet.
ClaimsAreFresh ==
  \A p \in Callers :
    /\ startedAt[p] <= clock
    /\ pc[p] \in {"claiming", "reclaiming"} => token[p] # row.token
    /\ pc[p] # "idle" => token[p] # NoToken
    /\ pc[p] = "idle" => token[p] = NoToken

TokensDiffer ==
  \A p, q \in Callers : token[p] = token[q] /\ token[p] # NoToken => p = q

LiveWorkerOwnsRow ==
  \A p \in Callers : Live(p) =>
    /\ row.status # "absent"
    /\ row.token = token[p]
    /\ row.status = "in_flight" => row.expires = until[p]

LeaseInv == ClaimsAreFresh /\ TokensDiffer /\ LiveWorkerOwnsRow

LEMMA LeaseInvExcludes == TypeOK /\ LeaseInv => OneLiveWorker
  BY DEF TypeOK, LeaseInv, ClaimsAreFresh, TokensDiffer, LiveWorkerOwnsRow,
     OneLiveWorker, Live

\* A caller that forgets its claim disturbs no other caller.
LEMMA ForgetKeeps ==
  ASSUME TypeOK, LeaseInv, NEW p \in Callers, Forget(p), clock' = clock,
         row' = row
  PROVE  LeaseInv'
<1>1. ClaimsAreFresh'
  BY DEF TypeOK, LeaseInv, ClaimsAreFresh, Forget
<1>2. TokensDiffer'
  BY DEF TypeOK, LeaseInv, TokensDiffer, Forget
<1>3. LiveWorkerOwnsRow'
  BY DEF TypeOK, LeaseInv, LiveWorkerOwnsRow, Live, Forget
<1> QED
  BY <1>1, <1>2, <1>3 DEF LeaseInv

LEMMA LeaseInvInductive == TypeOK /\ LeaseInv /\ [Next]_vars => LeaseInv'
<1> SUFFICES ASSUME TypeOK, LeaseInv, [Next]_vars PROVE LeaseInv'
  OBVIOUS
<1> USE DEF LeaseInv
<1>1. CASE Tick
  BY <1>1 DEF Tick, local, TypeOK, ClaimsAreFresh, TokensDiffer, LiveWorkerOwnsRow, Live
<1>2. ASSUME NEW p \in Callers, ClaimStart(p) PROVE LeaseInv'
  <2>1. PICK t \in Tokens \ InUse : token' = [token EXCEPT ![p] = t]
    BY <1>2 DEF ClaimStart
  <2>2. t # NoToken /\ t # row.token /\ \A q \in Callers : token[q] # t
    BY <2>1, StoreAssumption DEF InUse
  <2>3. ClaimsAreFresh'
    BY <1>2, <2>1, <2>2 DEF ClaimStart, TypeOK, ClaimsAreFresh
  <2>4. TokensDiffer'
    BY <1>2, <2>1, <2>2 DEF TypeOK, TokensDiffer
  <2>5. LiveWorkerOwnsRow'
    BY <1>2, <2>1 DEF ClaimStart, TypeOK, LiveWorkerOwnsRow, Live
  <2> QED
    BY <2>3, <2>4, <2>5
<1>3. ASSUME NEW p \in Callers, ClaimInserted(p) PROVE LeaseInv'
  <2>1. \A q \in Callers : q # p => token[q] # token[p]
    BY <1>3 DEF ClaimInserted, TokensDiffer, ClaimsAreFresh
  <2>2. row' = [status |-> "in_flight", token |-> token[p], expires |-> until[p],
                attempts |-> 1, progress |-> NoValue, outcome |-> NoValue]
    BY <1>3 DEF ClaimInserted, Absent
  <2>3. ClaimsAreFresh'
    BY <1>3, <2>1, <2>2 DEF ClaimInserted, TypeOK, ClaimsAreFresh
  <2>4. TokensDiffer'
    BY <1>3 DEF ClaimInserted, TokensDiffer
  <2>5. LiveWorkerOwnsRow'
    BY <1>3, <2>2 DEF ClaimInserted, TypeOK, LiveWorkerOwnsRow, Live
  <2> QED
    BY <2>3, <2>4, <2>5
<1>4. ASSUME NEW p \in Callers, ClaimReplayed(p) \/ ClaimBusy(p) \/ ClaimExhausted(p)
      PROVE LeaseInv'
  BY <1>4, ForgetKeeps DEF ClaimReplayed, ClaimBusy, ClaimExhausted
<1>5. ASSUME NEW p \in Callers, ClaimFoundExpired(p) PROVE LeaseInv'
  BY <1>5 DEF ClaimFoundExpired, TypeOK, ClaimsAreFresh, TokensDiffer,
     LiveWorkerOwnsRow, Live
<1>6. ASSUME NEW p \in Callers, ClaimReacquired(p) PROVE LeaseInv'
  <2>1. \A q \in Callers : q # p => token[q] # token[p]
    BY <1>6 DEF ClaimReacquired, TokensDiffer, ClaimsAreFresh
  <2>2. /\ row'.status = "in_flight" /\ row'.token = token[p]
        /\ row'.expires = until[p]
    BY <1>6 DEF ClaimReacquired, ReacquireMatches, TypeOK, Row
  <2>3. \A q \in Callers : ~Live(q)
    <3> SUFFICES ASSUME NEW q \in Callers, Live(q) PROVE FALSE
      OBVIOUS
    <3>1. row.expires <= clock
      BY <1>6 DEF ClaimReacquired, ReacquireMatches, ClaimsAreFresh, TypeOK, Row
    <3>2. row.expires = until[q] /\ until[q] > clock
      BY <1>6 DEF ClaimReacquired, ReacquireMatches, LiveWorkerOwnsRow, Live
    <3> QED
      BY <3>1, <3>2 DEF TypeOK
  <2>4. ClaimsAreFresh'
    BY <1>6, <2>1, <2>2 DEF ClaimReacquired, TypeOK, ClaimsAreFresh
  <2>5. TokensDiffer'
    BY <1>6 DEF ClaimReacquired, TokensDiffer
  <2>6. LiveWorkerOwnsRow'
    BY <1>6, <2>2, <2>3 DEF ClaimReacquired, TypeOK, LiveWorkerOwnsRow, Live
  <2> QED
    BY <2>4, <2>5, <2>6
<1>7. ASSUME NEW p \in Callers, ClaimLostRace(p) \/ VerbLost(p) \/ Crash(p)
      PROVE LeaseInv'
  BY <1>7, ForgetKeeps DEF ClaimLostRace, VerbLost, Crash
<1>8. ASSUME NEW p \in Callers, SaveClaimProgress(p) PROVE LeaseInv'
  <2>1. /\ row'.status = row.status /\ row'.token = row.token
        /\ row'.expires = row.expires
    BY <1>8 DEF SaveClaimProgress, TypeOK, Row
  <2> QED
    BY <1>8, <2>1 DEF SaveClaimProgress, TypeOK, ClaimsAreFresh, TokensDiffer,
       LiveWorkerOwnsRow, Live
<1>9. ASSUME NEW p \in Callers, CompleteClaim(p) \/ FailClaim(p) PROVE LeaseInv'
  <2>1. row'.status \in Terminal /\ row'.token = row.token
    BY <1>9 DEF CompleteClaim, FailClaim, Settle, TypeOK, Row, Terminal
  <2>2. /\ clock' = clock
        /\ Forget(p) \/ UNCHANGED <<pc, startedAt, token, until, known>>
    BY <1>9 DEF CompleteClaim, FailClaim, Settle
  <2>3. ClaimsAreFresh'
    BY <2>1, <2>2 DEF Forget, TypeOK, ClaimsAreFresh
  <2>4. TokensDiffer'
    BY <2>2 DEF Forget, TypeOK, TokensDiffer
  <2>5. LiveWorkerOwnsRow'
    BY <2>1, <2>2 DEF Forget, TypeOK, LiveWorkerOwnsRow, Live, Terminal
  <2> QED
    BY <2>3, <2>4, <2>5
<1>10. ASSUME NEW p \in Callers, ReleaseClaim(p) PROVE LeaseInv'
  <2>1. row' = Absent /\ Forget(p) /\ clock' = clock
    BY <1>10 DEF ReleaseClaim
  <2>2. \A q \in Callers : q # p => ~Live(q)
    BY <1>10 DEF ReleaseClaim, HoldsClaim, LiveWorkerOwnsRow, TokensDiffer,
       ClaimsAreFresh, TypeOK
  <2>3. ClaimsAreFresh'
    BY <2>1 DEF Forget, TypeOK, ClaimsAreFresh, Absent
  <2>4. TokensDiffer'
    BY <2>1 DEF Forget, TypeOK, TokensDiffer
  <2>5. LiveWorkerOwnsRow'
    BY <2>1, <2>2 DEF Forget, TypeOK, LiveWorkerOwnsRow, Live
  <2> QED
    BY <2>3, <2>4, <2>5
<1>11. ASSUME NEW p \in Callers, ExpireStart(p) PROVE LeaseInv'
  BY <1>11 DEF ExpireStart, TypeOK, ClaimsAreFresh, TokensDiffer, LiveWorkerOwnsRow, Live
<1>12. ASSUME NEW p \in Callers, ExpireClaim(p) PROVE LeaseInv'
  <2>1. CASE row' = row
    BY <1>12, <2>1, ForgetKeeps DEF ExpireClaim
  <2>2. CASE HoldsClaim(p) /\ row' = [row EXCEPT !.expires = startedAt[p]]
    <3>1. row'.status = row.status /\ row'.token = row.token
      BY <2>2 DEF TypeOK, Row
    <3>2. Forget(p) /\ clock' = clock
      BY <1>12 DEF ExpireClaim
    <3>3. \A q \in Callers : q # p => ~Live(q)
      BY <1>12, <2>2 DEF ExpireClaim, HoldsClaim, LiveWorkerOwnsRow, TokensDiffer,
         ClaimsAreFresh, TypeOK
    <3>4. ClaimsAreFresh'
      BY <3>1, <3>2 DEF Forget, TypeOK, ClaimsAreFresh
    <3>5. TokensDiffer'
      BY <3>2 DEF Forget, TypeOK, TokensDiffer
    <3>6. LiveWorkerOwnsRow'
      BY <3>2, <3>3 DEF Forget, TypeOK, LiveWorkerOwnsRow, Live
    <3> QED
      BY <3>4, <3>5, <3>6
  <2> QED
    BY <1>12, <2>1, <2>2 DEF ExpireClaim
<1>13. CASE UNCHANGED vars
  BY <1>13 DEF vars, local, ClaimsAreFresh, TokensDiffer, LiveWorkerOwnsRow, Live
<1> QED
  BY <1>1, <1>2, <1>3, <1>4, <1>5, <1>6, <1>7, <1>8, <1>9, <1>10, <1>11, <1>12, <1>13
     DEF Next, ClaimLookup, ClaimReacquire

\* The row stays tied to the live worker for ever.
THEOREM LeaseInvariant == Spec => []LeaseInv
<1>1. Init => LeaseInv
  BY StoreAssumption DEF Init, LeaseInv, ClaimsAreFresh, TokensDiffer,
     LiveWorkerOwnsRow, Live, Absent
<1> QED
  BY <1>1, LeaseInvInductive, TypeCorrect, PTL DEF Spec

\* No two callers ever work on the key inside their leases.
THEOREM LiveWorkersExclude == Spec => []OneLiveWorker
  BY LeaseInvariant, TypeCorrect, LeaseInvExcludes, PTL

-----------------------------------------------------------------------------
(***************************************************************************)
(* The holder of the row's token knows the row's progress.  This needs the *)
(* tokens apart (LeaseInv), and that a caller enters claimKey with no      *)
(* knowledge of a progress.                                                *)
(***************************************************************************)

ProgressInv ==
  /\ HolderKnowsProgress
  /\ \A p \in Callers : pc[p] \in {"idle", "claiming"} => known[p] = NoValue

LEMMA ForgetKeepsProgress ==
  ASSUME TypeOK, ProgressInv, NEW p \in Callers, Forget(p),
         row' = row \/ ~(row'.status = "in_flight")
  PROVE  ProgressInv'
  BY DEF TypeOK, ProgressInv, HolderKnowsProgress, HoldsClaim, Forget

LEMMA ProgressInductive ==
  TypeOK /\ LeaseInv /\ ProgressInv /\ [Next]_vars => ProgressInv'
<1> SUFFICES ASSUME TypeOK, LeaseInv, ProgressInv, [Next]_vars PROVE ProgressInv'
  OBVIOUS
<1> USE DEF ProgressInv, HolderKnowsProgress, HoldsClaim
<1>1. CASE Tick \/ UNCHANGED vars
  BY <1>1 DEF Tick, vars, local
<1>2. ASSUME NEW p \in Callers, ClaimStart(p) PROVE ProgressInv'
  BY <1>2 DEF ClaimStart, TypeOK
<1>3. ASSUME NEW p \in Callers, ClaimInserted(p) PROVE ProgressInv'
  <2>1. row'.progress = NoValue /\ row'.token = token[p]
    BY <1>3 DEF ClaimInserted, Absent
  <2>2. \A q \in Callers : q # p => token[q] # token[p]
    BY <1>3 DEF ClaimInserted, LeaseInv, TokensDiffer, ClaimsAreFresh
  <2> QED
    BY <1>3, <2>1, <2>2 DEF ClaimInserted, TypeOK
<1>4. ASSUME NEW p \in Callers,
             \/ ClaimReplayed(p) \/ ClaimBusy(p) \/ ClaimExhausted(p)
             \/ ClaimLostRace(p) \/ VerbLost(p) \/ Crash(p)
      PROVE ProgressInv'
  BY <1>4, ForgetKeepsProgress DEF ClaimReplayed, ClaimBusy, ClaimExhausted,
     ClaimLostRace, VerbLost, Crash
<1>5. ASSUME NEW p \in Callers, ClaimFoundExpired(p) PROVE ProgressInv'
  BY <1>5 DEF ClaimFoundExpired, TypeOK
<1>6. ASSUME NEW p \in Callers, ClaimReacquired(p) PROVE ProgressInv'
  <2>1. row'.progress = row.progress /\ row'.token = token[p]
    BY <1>6 DEF ClaimReacquired, TypeOK, Row
  <2>2. known'[p] = row.progress
    BY <1>6 DEF ClaimReacquired, ResumeFrom, TypeOK
  <2>3. \A q \in Callers : q # p => token[q] # token[p]
    BY <1>6 DEF ClaimReacquired, LeaseInv, TokensDiffer, ClaimsAreFresh
  <2> QED
    BY <1>6, <2>1, <2>2, <2>3 DEF ClaimReacquired, TypeOK
<1>7. ASSUME NEW p \in Callers, SaveClaimProgress(p) PROVE ProgressInv'
  <2>1. PICK v \in Values : /\ row' = [row EXCEPT !.progress = v]
                            /\ known' = [known EXCEPT ![p] = v]
    BY <1>7 DEF SaveClaimProgress
  <2>2. row'.progress = v /\ row'.token = token[p]
    BY <1>7, <2>1 DEF SaveClaimProgress, TypeOK, Row
  <2>3. \A q \in Callers : q # p => token[q] # token[p]
    BY <1>7 DEF SaveClaimProgress, LeaseInv, TokensDiffer, ClaimsAreFresh
  <2> QED
    BY <1>7, <2>1, <2>2, <2>3 DEF SaveClaimProgress, TypeOK
<1>8. ASSUME NEW p \in Callers, CompleteClaim(p) \/ FailClaim(p) PROVE ProgressInv'
  <2>1. row'.status # "in_flight"
    BY <1>8 DEF CompleteClaim, FailClaim, Settle, TypeOK, Row
  <2> QED
    BY <1>8, <2>1, ForgetKeepsProgress DEF CompleteClaim, FailClaim, Settle
<1>9. ASSUME NEW p \in Callers, ReleaseClaim(p) PROVE ProgressInv'
  BY <1>9, ForgetKeepsProgress DEF ReleaseClaim, Absent
<1>10. ASSUME NEW p \in Callers, ExpireStart(p) PROVE ProgressInv'
  BY <1>10 DEF ExpireStart, TypeOK
<1>11. ASSUME NEW p \in Callers, ExpireClaim(p) PROVE ProgressInv'
  <2>1. /\ row'.status = row.status /\ row'.token = row.token
        /\ row'.progress = row.progress
    BY <1>11 DEF ExpireClaim, TypeOK, Row
  <2> QED
    BY <1>11, <2>1 DEF ExpireClaim, Forget, TypeOK
<1> QED
  BY <1>1, <1>2, <1>3, <1>4, <1>5, <1>6, <1>7, <1>8, <1>9, <1>10, <1>11
     DEF Next, ClaimLookup, ClaimReacquire

\* What a crashed holder saved reaches its successor, and nobody else's save
\* ever slips under the successor.
THEOREM ProgressIsHandedOver == Spec => []HolderKnowsProgress
<1>1. Init => ProgressInv
  BY DEF Init, ProgressInv, HolderKnowsProgress
<1>2. ProgressInv => HolderKnowsProgress
  BY DEF ProgressInv
<1> QED
  BY <1>1, <1>2, ProgressInductive, TypeCorrect, LeaseInvariant, PTL DEF Spec

-----------------------------------------------------------------------------
(***************************************************************************)
(* The attempts ceiling.  It is tested on the row that was read and is not *)
(* part of the re-acquiring filter, so recoverers that passed the test at  *)
(* the same time may take the row past it one after the other.  Each of    *)
(* them does so once: the attempts and the recoverers under way together   *)
(* are bounded.                                                            *)
(***************************************************************************)

Recovering == {p \in Callers : pc[p] = "reclaiming"}

\* claimKey counts the attempts of a key; they pass maxAttempts by fewer than there are
\* callers, whatever the order in which recoverers read and write the row.
AttemptsBounded ==
  MaxAttempts > 0 => row.attempts <= MaxAttempts + Cardinality(Callers) - 1

RecoveryInv ==
  MaxAttempts > 0 =>
    row.attempts + Cardinality(Recovering) <= MaxAttempts + Cardinality(Callers) - 1

LEMMA RecoveringCounted ==
  ASSUME IsFiniteSet(Callers)
  PROVE  /\ Cardinality(Callers) \in Nat /\ Cardinality(Recovering) \in Nat
         /\ IsFiniteSet(Recovering) /\ Cardinality(Recovering) <= Cardinality(Callers)
<1>1. Recovering \subseteq Callers
  BY DEF Recovering
<1> QED
  BY <1>1, FS_Subset, FS_CardinalityType

LEMMA RecoveringCountedAfter ==
  ASSUME IsFiniteSet(Callers)
  PROVE  /\ Cardinality(Recovering') \in Nat /\ IsFiniteSet(Recovering')
         /\ Cardinality(Recovering') <= Cardinality(Callers)
<1>1. Recovering' \subseteq Callers
  BY DEF Recovering
<1> QED
  BY <1>1, FS_Subset, FS_CardinalityType

\* Fewer recoverers, and no more attempts.
LEMMA RecoveryKept ==
  ASSUME TypeOK, TypeOK', IsFiniteSet(Callers), RecoveryInv,
         \A q \in Callers : pc'[q] = "reclaiming" => pc[q] = "reclaiming",
         row'.attempts <= row.attempts
  PROVE  RecoveryInv'
<1>1. Recovering' \subseteq Recovering
  BY DEF Recovering
<1>2. Cardinality(Recovering') <= Cardinality(Recovering)
  BY <1>1, RecoveringCounted, FS_Subset
<1>3. row.attempts \in Nat /\ row'.attempts \in Nat
  BY DEF TypeOK, Row
<1> QED
  BY <1>2, <1>3, RecoveringCounted, RecoveringCountedAfter, StoreAssumption DEF RecoveryInv

LEMMA RecoveryInductive ==
  ASSUME TypeOK, TypeOK', IsFiniteSet(Callers), RecoveryInv, [Next]_vars
  PROVE  RecoveryInv'
<1>1. CASE Tick \/ UNCHANGED vars
  BY <1>1, RecoveryKept DEF Tick, vars, local, TypeOK, Row
<1>2. ASSUME NEW p \in Callers, Forget(p), row'.attempts <= row.attempts PROVE RecoveryInv'
  BY <1>2, RecoveryKept DEF Forget, TypeOK
<1>3. ASSUME NEW p \in Callers,
             ClaimReplayed(p) \/ ClaimBusy(p) \/ ClaimExhausted(p) \/ ClaimLostRace(p)
             \/ ReleaseClaim(p) \/ VerbLost(p) \/ ExpireClaim(p) \/ Crash(p)
      PROVE  RecoveryInv'
  <2>1. Forget(p)
    BY <1>3 DEF ClaimReplayed, ClaimBusy, ClaimExhausted, ClaimLostRace, ReleaseClaim, VerbLost,
       ExpireClaim, Crash
  <2>2. row'.attempts <= row.attempts
    BY <1>3 DEF ClaimReplayed, ClaimBusy, ClaimExhausted, ClaimLostRace, ReleaseClaim, VerbLost,
       ExpireClaim, Crash, Absent, TypeOK, Row
  <2> QED
    BY <1>2, <2>1, <2>2
<1>4. ASSUME NEW p \in Callers, ClaimStart(p) \/ SaveClaimProgress(p) \/ ExpireStart(p)
      PROVE  RecoveryInv'
  <2>1. row'.attempts = row.attempts /\ row.attempts \in Nat
    BY <1>4 DEF ClaimStart, SaveClaimProgress, ExpireStart, TypeOK, Row
  <2>2. \A q \in Callers : pc'[q] = "reclaiming" => pc[q] = "reclaiming"
    BY <1>4 DEF ClaimStart, SaveClaimProgress, ExpireStart, TypeOK
  <2> QED
    BY <2>1, <2>2, RecoveryKept
<1>5. ASSUME NEW p \in Callers, NEW status \in Terminal, Settle(p, status) PROVE RecoveryInv'
  <2>1. row'.attempts = row.attempts /\ row.attempts \in Nat
    BY <1>5 DEF Settle, TypeOK, Row
  <2>2. \A q \in Callers : pc'[q] = "reclaiming" => pc[q] = "reclaiming"
    BY <1>5 DEF Settle, Forget, TypeOK
  <2> QED
    BY <2>1, <2>2, RecoveryKept
<1>6. ASSUME NEW p \in Callers, ClaimInserted(p) PROVE RecoveryInv'
  <2>1. row'.attempts = 1
    BY <1>6 DEF ClaimInserted, Absent
  <2>2. Recovering' \subseteq Callers \ {p}
    BY <1>6 DEF ClaimInserted, Recovering, TypeOK
  <2>3. /\ IsFiniteSet(Callers \ {p})
        /\ Cardinality(Callers \ {p}) = Cardinality(Callers) - 1
    BY FS_RemoveElement
  <2>4. Cardinality(Recovering') <= Cardinality(Callers) - 1
    BY <2>2, <2>3, FS_Subset
  <2> QED
    BY <2>1, <2>4, RecoveringCounted, RecoveringCountedAfter, StoreAssumption DEF RecoveryInv
<1>7. ASSUME NEW p \in Callers, ClaimFoundExpired(p) PROVE RecoveryInv'
  <2>1. row' = row /\ row.attempts \in Nat /\ (MaxAttempts > 0 => row.attempts < MaxAttempts)
    BY <1>7, StoreAssumption DEF ClaimFoundExpired, AtCeiling, TypeOK, Row
  <2> QED
    BY <2>1, RecoveringCounted, RecoveringCountedAfter, StoreAssumption DEF RecoveryInv
<1>8. ASSUME NEW p \in Callers, ClaimReacquired(p) PROVE RecoveryInv'
  <2>1. row'.attempts <= row.attempts + 1 /\ row.attempts \in Nat /\ row'.attempts \in Nat
    BY <1>8, StoreAssumption DEF ClaimReacquired, Bumped, TypeOK, Row
  <2>2. p \in Recovering /\ Recovering' = Recovering \ {p}
    BY <1>8 DEF ClaimReacquired, Recovering, TypeOK
  <2>3. Cardinality(Recovering') = Cardinality(Recovering) - 1
    BY <2>2, RecoveringCounted, FS_RemoveElement
  <2> QED
    BY <2>1, <2>3, RecoveringCounted, StoreAssumption DEF RecoveryInv
<1> QED
  BY <1>1, <1>3, <1>4, <1>5, <1>6, <1>7, <1>8
     DEF Next, ClaimLookup, ClaimReacquire, CompleteClaim, FailClaim, Terminal

\* The attempts of a key exceed the ceiling by fewer than there are callers: a slow
\* recoverer may pass it (claimKey), but not again and again.
THEOREM AttemptsStayBounded == IsFiniteSet(Callers) => (Spec => []AttemptsBounded)
<1> SUFFICES ASSUME IsFiniteSet(Callers) PROVE Spec => []AttemptsBounded
  OBVIOUS
<1>1. Init => RecoveryInv
  <2> SUFFICES ASSUME Init PROVE RecoveryInv
    OBVIOUS
  <2>1. row.attempts = 0
    BY DEF Init, Absent
  <2> QED
    BY <2>1, RecoveringCounted, StoreAssumption DEF RecoveryInv
<1>2. TypeOK /\ RecoveryInv => AttemptsBounded
  BY RecoveringCounted, StoreAssumption DEF RecoveryInv, AttemptsBounded, TypeOK, Row
<1>3. TypeOK /\ TypeOK' /\ RecoveryInv /\ [Next]_vars => RecoveryInv'
  BY RecoveryInductive
<1> QED
  BY <1>1, <1>2, <1>3, TypeCorrect, PTL DEF Spec

-----------------------------------------------------------------------------
(***************************************************************************)
(* The store implements LeasedDecision.  That the mapping names one owner  *)
(* is OneLiveWorker; that only a key without an owner is taken, and that   *)
(* nobody but the owner decides while there is one, is LeaseInv.           *)
(***************************************************************************)

LEMMA OwnerIsLive ==
  ASSUME OneLiveWorker, NEW p \in Callers, Live(p) PROVE Owner = p
  BY DEF OneLiveWorker, Owner

LEMMA OwnerIsLiveAfter ==
  ASSUME OneLiveWorker', NEW p \in Callers, Live(p)' PROVE Owner' = p
  BY DEF OneLiveWorker, Owner

LEMMA NoOwner == ASSUME \A p \in Callers : ~Live(p) PROVE Owner = Nobody
  BY DEF Owner

LEMMA NoOwnerAfter == ASSUME \A p \in Callers : ~Live(p)' PROVE Owner' = Nobody
  BY DEF Owner

\* A step that makes nobody live, and does not decide, loses the owner or stutters.
LEMMA NobodyTakes ==
  ASSUME OneLiveWorker, OneLiveWorker', \A q \in Callers : Live(q)' => Live(q), Outcome' = Outcome
  PROVE  [Decision!Next]_(Decision!decision)
<1>1. CASE \E q \in Callers : Live(q)'
  <2>1. PICK q \in Callers : Live(q)'
    BY <1>1
  <2>2. Owner = q /\ Owner' = q
    BY <2>1, OwnerIsLive, OwnerIsLiveAfter
  <2> QED
    BY <2>2 DEF Decision!decision
<1>2. CASE \A q \in Callers : ~Live(q)'
  <2>1. Owner' = Nobody
    BY <1>2, NoOwnerAfter
  <2>2. Owner = Nobody \/ Decision!Lose
    BY <2>1 DEF Decision!Lose
  <2> QED
    BY <2>1, <2>2 DEF Decision!decision, Decision!Next
<1> QED
  BY <1>1, <1>2

\* A claim of a key nobody is live on takes it, unless the lease has run out on the way.
LEMMA ClaimTakes ==
  ASSUME OneLiveWorker', NEW p \in Callers, \A q \in Callers : ~Live(q),
         \A q \in Callers \ {p} : ~Live(q)', Outcome = Undecided, Outcome' = Undecided
  PROVE  [Decision!Next]_(Decision!decision)
<1>1. Owner = Nobody
  BY NoOwner
<1>2. CASE Live(p)'
  <2>1. Owner' = p
    BY <1>2, OwnerIsLiveAfter
  <2> QED
    BY <1>1, <2>1 DEF Decision!Take, Decision!Next
<1>3. CASE ~Live(p)'
  <2>1. Owner' = Nobody
    BY <1>3, NoOwnerAfter
  <2> QED
    BY <1>1, <2>1 DEF Decision!decision
<1> QED
  BY <1>2, <1>3

LEMMA ForgetTakesNothing ==
  ASSUME TypeOK, NEW p \in Callers, Forget(p), clock' = clock
  PROVE  \A q \in Callers : Live(q)' => Live(q)
  BY DEF TypeOK, Forget, Live

LEMMA SettleDecides ==
  ASSUME TypeOK, LeaseInv, OneLiveWorker, OneLiveWorker', NEW p \in Callers,
         NEW status \in Terminal, Settle(p, status)
  PROVE  [Decision!Next]_(Decision!decision)
<1>1. PICK v \in Values : row' = [row EXCEPT !.status = status, !.outcome = v]
  BY DEF Settle
<1>2. row.status = "in_flight" /\ row.token = token[p] /\ pc[p] = "working"
  BY DEF Settle, HoldsClaim
<1>3. Outcome = Undecided
  BY <1>2 DEF Outcome, Terminal
<1>4. row'.status = status /\ row'.outcome = v
  BY <1>1 DEF TypeOK, Row
<1>5. Outcome' = [status |-> status, value |-> v] /\ [status |-> status, value |-> v] \in Outcomes
  BY <1>4 DEF Outcome, Outcomes
<1>6. \A q \in Callers : Live(q)' => Live(q)
  BY ForgetTakesNothing DEF Settle, Live
<1>7. \A q \in Callers : Live(q) => q = p
  BY <1>2 DEF LeaseInv, LiveWorkerOwnsRow, TokensDiffer, ClaimsAreFresh
<1>8. Owner \in {p, Nobody}
  BY <1>7, OwnerIsLive, NoOwner
<1>9. Owner' \in {Owner, Nobody}
  <2>1. CASE \E q \in Callers : Live(q)'
    BY <1>6, <2>1, OwnerIsLive, OwnerIsLiveAfter
  <2>2. CASE \A q \in Callers : ~Live(q)'
    BY <2>2, NoOwnerAfter
  <2> QED
    BY <2>1, <2>2
<1> QED
  BY <1>3, <1>5, <1>8, <1>9 DEF Decision!Decide, Decision!Next

LEMMA StepDecides ==
  ASSUME TypeOK, LeaseInv, OneLiveWorker, OneLiveWorker', [Next]_vars
  PROVE  [Decision!Next]_(Decision!decision)
<1>1. ASSUME NEW p \in Callers, Forget(p), clock' = clock, row' = row
      PROVE  [Decision!Next]_(Decision!decision)
  BY <1>1, ForgetTakesNothing, NobodyTakes DEF Outcome
<1>2. CASE Tick \/ UNCHANGED vars
  <2>1. \A q \in Callers : Live(q)' => Live(q)
    BY <1>2 DEF Tick, vars, local, Live, TypeOK
  <2>2. Outcome' = Outcome
    BY <1>2 DEF Tick, vars, Outcome
  <2> QED
    BY <2>1, <2>2, NobodyTakes
<1>3. ASSUME NEW p \in Callers, ClaimStart(p) \/ ClaimFoundExpired(p) \/ ExpireStart(p)
      PROVE  [Decision!Next]_(Decision!decision)
  <2>1. \A q \in Callers : Live(q)' => Live(q)
    BY <1>3 DEF ClaimStart, ClaimFoundExpired, ExpireStart, Live, TypeOK
  <2>2. Outcome' = Outcome
    BY <1>3 DEF ClaimStart, ClaimFoundExpired, ExpireStart, Outcome
  <2> QED
    BY <2>1, <2>2, NobodyTakes
<1>4. ASSUME NEW p \in Callers, ClaimInserted(p) PROVE [Decision!Next]_(Decision!decision)
  <2>1. \A q \in Callers : ~Live(q)
    BY <1>4 DEF ClaimInserted, LeaseInv, LiveWorkerOwnsRow
  <2>2. \A q \in Callers \ {p} : ~Live(q)'
    BY <1>4, <2>1 DEF ClaimInserted, Live, TypeOK
  <2>3. Outcome = Undecided /\ Outcome' = Undecided
    BY <1>4 DEF ClaimInserted, Outcome, Absent, Terminal
  <2> QED
    BY <2>1, <2>2, <2>3, ClaimTakes
<1>5. ASSUME NEW p \in Callers, ClaimReacquired(p) PROVE [Decision!Next]_(Decision!decision)
  <2>1. \A q \in Callers : ~Live(q)
    <3> SUFFICES ASSUME NEW q \in Callers, Live(q) PROVE FALSE
      OBVIOUS
    <3>1. row.expires <= clock
      BY <1>5 DEF ClaimReacquired, ReacquireMatches, LeaseInv, ClaimsAreFresh, TypeOK, Row
    <3>2. row.expires = until[q] /\ until[q] > clock
      BY <1>5 DEF ClaimReacquired, ReacquireMatches, LeaseInv, LiveWorkerOwnsRow, Live
    <3> QED
      BY <3>1, <3>2 DEF TypeOK
  <2>2. \A q \in Callers \ {p} : ~Live(q)'
    BY <1>5, <2>1 DEF ClaimReacquired, Live, TypeOK
  <2>3. row.status = "in_flight" /\ row'.status = "in_flight"
    BY <1>5 DEF ClaimReacquired, ReacquireMatches, TypeOK, Row
  <2>4. Outcome = Undecided /\ Outcome' = Undecided
    BY <2>3 DEF Outcome, Terminal
  <2> QED
    BY <2>1, <2>2, <2>4, ClaimTakes
<1>6. ASSUME NEW p \in Callers, SaveClaimProgress(p) PROVE [Decision!Next]_(Decision!decision)
  <2>1. \A q \in Callers : Live(q)' => Live(q)
    BY <1>6 DEF SaveClaimProgress, Live
  <2>2. row'.status = row.status /\ row'.outcome = row.outcome
    BY <1>6 DEF SaveClaimProgress, TypeOK, Row
  <2> QED
    BY <2>1, <2>2, NobodyTakes DEF Outcome
<1>7. ASSUME NEW p \in Callers, CompleteClaim(p) \/ FailClaim(p)
      PROVE  [Decision!Next]_(Decision!decision)
  BY <1>7, SettleDecides DEF CompleteClaim, FailClaim, Terminal
<1>8. ASSUME NEW p \in Callers, ReleaseClaim(p) \/ ExpireClaim(p)
      PROVE  [Decision!Next]_(Decision!decision)
  <2>1. \A q \in Callers : Live(q)' => Live(q)
    BY <1>8, ForgetTakesNothing DEF ReleaseClaim, ExpireClaim
  <2>2. Outcome' = Outcome
    <3>1. CASE ReleaseClaim(p)
      BY <3>1 DEF ReleaseClaim, HoldsClaim, Absent, Outcome, Terminal
    <3>2. CASE ExpireClaim(p)
      <4>1. row'.status = row.status /\ row'.outcome = row.outcome
        BY <3>2 DEF ExpireClaim, TypeOK, Row
      <4> QED
        BY <4>1 DEF Outcome
    <3> QED
      BY <1>8, <3>1, <3>2
  <2> QED
    BY <2>1, <2>2, NobodyTakes
<1> QED
  BY <1>1, <1>2, <1>3, <1>4, <1>5, <1>6, <1>7, <1>8
     DEF Next, ClaimLookup, ClaimReacquire, ClaimReplayed, ClaimBusy, ClaimExhausted,
         ClaimLostRace, VerbLost, Crash

\* The six verbs together implement the leased decision.
THEOREM StoreImplementsDecision == Spec => ImplementsLeasedDecision
<1>1. Init => Decision!Init
  <2> SUFFICES ASSUME Init PROVE Owner = Nobody /\ Outcome = Undecided
    BY DEF Decision!Init
  <2>1. \A p \in Callers : ~Live(p)
    BY DEF Init, Live
  <2> QED
    BY <2>1, NoOwner DEF Init, Outcome, Absent, Terminal
<1> QED
  BY <1>1, StepDecides, TypeCorrect, LeaseInvariant, LiveWorkersExclude, PTL
     DEF Spec, ImplementsLeasedDecision, Decision!Spec
=============================================================================
