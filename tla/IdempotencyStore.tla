-------------------------- MODULE IdempotencyStore --------------------------
(***************************************************************************)
(* One key of idempotencyStorePlugin: the durable claim row and the        *)
(* callers that claim it, work under a lease and settle it.  Every filter  *)
(* of the plugin carries the key, so keys do not interact and one is       *)
(* enough.                                                                 *)
(*                                                                         *)
(* claimKey is three steps, because other callers run between them: it     *)
(* reads the client clock and draws a token, looks the row up or inserts   *)
(* it (one atomic upsert), and, when the row it READ was expired, tries to *)
(* re-acquire it with a compare-and-set that uses the clock read at the    *)
(* start.  The other verbs are one conditional write each.  A caller may   *)
(* stop at any step.                                                       *)
(***************************************************************************)
EXTENDS Naturals, FiniteSets

CONSTANTS
  Callers,      \* the processes that call the plugin
  Sweepers,     \* the callers that never crash: the host's recovery sweep
  Tokens,       \* lease tokens (random, so never equal to one in use)
  Values,       \* progress payloads, results and failure codes
  Leases,       \* lease lengths a caller may ask for, in clock ticks
  MaxAttempts,  \* the plugin's maxAttempts option; 0 is unbounded
  NoToken, NoValue,
  MaxClock,     \* bound: the clock stops here
  AttemptCap    \* bound: the attempts counter saturates here

ASSUME StoreAssumption ==
  /\ Sweepers \subseteq Callers
  /\ NoToken \notin Tokens
  /\ NoValue \notin Values
  /\ Leases \subseteq Nat \ {0}
  /\ MaxAttempts \in Nat
  /\ MaxClock \in Nat
  /\ AttemptCap \in Nat /\ AttemptCap > MaxAttempts

VARIABLES
  clock,      \* the synchronised client clocks
  row,        \* the document of the key
  pc,         \* where each caller is
  startedAt,  \* the caller's `now`
  token,      \* the caller's `leaseToken`
  until,      \* the expiry the caller computed from its `now`
  known,      \* the progress the caller knows of
  answer      \* the last IdempotencyClaim the caller received

local == <<pc, startedAt, token, until, known, answer>>
vars == <<clock, row, local>>

Terminal == {"succeeded", "failed"}

Absent == [status |-> "absent", token |-> NoToken, expires |-> 0,
           attempts |-> 0, progress |-> NoValue, outcome |-> NoValue]

Row == [status : {"absent", "in_flight"} \cup Terminal,
        token : Tokens \cup {NoToken}, expires : Nat, attempts : Nat,
        progress : Values \cup {NoValue}, outcome : Values \cup {NoValue}]

Answer == [kind : {"none", "acquired", "busy", "exhausted"} \cup Terminal,
           value : Values \cup {NoValue}]

Reply(kind, value) == [kind |-> kind, value |-> value]

TypeOK ==
  /\ clock \in Nat
  /\ row \in Row
  /\ pc \in [Callers -> {"idle", "claiming", "reclaiming", "working", "expiring"}]
  /\ startedAt \in [Callers -> Nat]
  /\ token \in [Callers -> Tokens \cup {NoToken}]
  /\ until \in [Callers -> Nat]
  /\ known \in [Callers -> Values \cup {NoValue}]
  /\ answer \in [Callers -> Answer]

Init ==
  /\ clock = 0
  /\ row = Absent
  /\ pc = [p \in Callers |-> "idle"]
  /\ startedAt = [p \in Callers |-> 0]
  /\ token = [p \in Callers |-> NoToken]
  /\ until = [p \in Callers |-> 0]
  /\ known = [p \in Callers |-> NoValue]
  /\ answer = [p \in Callers |-> Reply("none", NoValue)]

-----------------------------------------------------------------------------
(* claimKey                                                                 *)

InUse == {row.token} \cup {token[p] : p \in Callers}

\* The caller forgets its claim: it has an answer that is not `acquired`,
\* it gave up, or it crashed.
Forget(p) ==
  /\ pc' = [pc EXCEPT ![p] = "idle"]
  /\ startedAt' = [startedAt EXCEPT ![p] = 0]
  /\ token' = [token EXCEPT ![p] = NoToken]
  /\ until' = [until EXCEPT ![p] = 0]
  /\ known' = [known EXCEPT ![p] = NoValue]

\* `now` and `leaseToken` are fixed before the first await.
ClaimStart(p) ==
  /\ pc[p] = "idle"
  /\ \E t \in Tokens \ InUse, lease \in Leases :
       /\ token' = [token EXCEPT ![p] = t]
       /\ until' = [until EXCEPT ![p] = clock + lease]
  /\ pc' = [pc EXCEPT ![p] = "claiming"]
  /\ startedAt' = [startedAt EXCEPT ![p] = clock]
  /\ answer' = [answer EXCEPT ![p] = Reply("none", NoValue)]
  /\ UNCHANGED <<clock, row, known>>

\* getOrCreate inserted the row: this caller owns the first lease.
ClaimInserted(p) ==
  /\ pc[p] = "claiming"
  /\ row.status = "absent"
  /\ row' = [Absent EXCEPT !.status = "in_flight", !.token = token[p],
                           !.expires = until[p], !.attempts = 1]
  /\ pc' = [pc EXCEPT ![p] = "working"]
  /\ answer' = [answer EXCEPT ![p] = Reply("acquired", NoValue)]
  /\ UNCHANGED <<clock, startedAt, token, until, known>>

\* getOrCreate found a terminal row: replay its outcome.
ClaimReplayed(p) ==
  /\ pc[p] = "claiming"
  /\ row.status \in Terminal
  /\ answer' = [answer EXCEPT ![p] = Reply(row.status, row.outcome)]
  /\ Forget(p)
  /\ UNCHANGED <<clock, row>>

ReadExpired(p) == row.status = "in_flight" /\ row.expires <= startedAt[p]

\* getOrCreate found a lease that is live at the caller's `now`.
ClaimBusy(p) ==
  /\ pc[p] = "claiming"
  /\ row.status = "in_flight" /\ ~ReadExpired(p)
  /\ answer' = [answer EXCEPT ![p] = Reply("busy", row.progress)]
  /\ Forget(p)
  /\ UNCHANGED <<clock, row>>

AtCeiling == MaxAttempts > 0 /\ row.attempts >= MaxAttempts

\* getOrCreate found an expired lease whose attempts reached the ceiling.
ClaimExhausted(p) ==
  /\ pc[p] = "claiming"
  /\ ReadExpired(p) /\ AtCeiling
  /\ answer' = [answer EXCEPT ![p] = Reply("exhausted", row.progress)]
  /\ Forget(p)
  /\ UNCHANGED <<clock, row>>

\* getOrCreate found an expired lease below the ceiling: the caller keeps the
\* progress it read and goes on to the compare-and-set.
ClaimFoundExpired(p) ==
  /\ pc[p] = "claiming"
  /\ ReadExpired(p) /\ ~AtCeiling
  /\ pc' = [pc EXCEPT ![p] = "reclaiming"]
  /\ known' = [known EXCEPT ![p] = row.progress]
  /\ UNCHANGED <<clock, row, startedAt, token, until, answer>>

Bumped(n) == IF n < AttemptCap THEN n + 1 ELSE n

\* Mutants of ReacquireMatches: without the lease, and with the caller's own
\* new token in the filter.
ReacquireIgnoresLease(p) == row.status = "in_flight"
ReacquireByOwnToken(p) == row.status = "in_flight" /\ row.token = token[p]

\* The filter of the re-acquiring write: the key, in flight, and
\* leaseExpiresAt <= now.  Neither the attempts nor the token read before are
\* part of it.
ReacquireMatches(p) == row.status = "in_flight" /\ row.expires <= startedAt[p]

\* Mutant of ResumeFrom: the progress read before the write.
ResumeFromStaleRead(p) == known[p]

\* The progress handed over is the one of the document the write returned.
ResumeFrom(p) == row.progress

\* The write matched.
ClaimReacquired(p) ==
  /\ pc[p] = "reclaiming"
  /\ ReacquireMatches(p)
  /\ row' = [row EXCEPT !.token = token[p], !.expires = until[p],
                        !.attempts = Bumped(@)]
  /\ pc' = [pc EXCEPT ![p] = "working"]
  /\ known' = [known EXCEPT ![p] = ResumeFrom(p)]
  /\ answer' = [answer EXCEPT ![p] = Reply("acquired", ResumeFrom(p))]
  /\ UNCHANGED <<clock, startedAt, token, until>>

\* The write matched nothing: `busy`, with the progress read before.
ClaimLostRace(p) ==
  /\ pc[p] = "reclaiming"
  /\ ~ReacquireMatches(p)
  /\ answer' = [answer EXCEPT ![p] = Reply("busy", known[p])]
  /\ Forget(p)
  /\ UNCHANGED <<clock, row>>

-----------------------------------------------------------------------------
(* The verbs of a caller that holds a lease token                           *)

\* Mutant of HoldsClaim: a settled row still matches its holder's token.
HoldsClaimAnyStatus(p) == row.token = token[p]

\* The compare-and-set every verb shares: the key, in flight, and this token.
HoldsClaim(p) == row.status = "in_flight" /\ row.token = token[p]

SaveClaimProgress(p) ==
  /\ pc[p] = "working" /\ HoldsClaim(p)
  /\ \E v \in Values :
       /\ row' = [row EXCEPT !.progress = v]
       /\ known' = [known EXCEPT ![p] = v]
  /\ UNCHANGED <<clock, pc, startedAt, token, until, answer>>

\* completeClaim and failClaim.  When the reply is lost the row is settled and
\* the caller goes on believing that it works.
Settle(p, status) ==
  /\ pc[p] = "working" /\ HoldsClaim(p)
  /\ \E v \in Values : row' = [row EXCEPT !.status = status, !.outcome = v]
  /\ \/ Forget(p)
     \/ UNCHANGED <<pc, startedAt, token, until, known>>
  /\ UNCHANGED <<clock, answer>>

CompleteClaim(p) == Settle(p, "succeeded")
FailClaim(p) == Settle(p, "failed")

\* The row is deleted; the caller has given up, whether or not it hears of it.
ReleaseClaim(p) ==
  /\ pc[p] = "working" /\ HoldsClaim(p)
  /\ row' = Absent
  /\ Forget(p)
  /\ UNCHANGED <<clock, answer>>

\* A verb matched nothing and returned false: the caller drops the work.
VerbLost(p) ==
  /\ pc[p] = "working" /\ ~HoldsClaim(p)
  /\ Forget(p)
  /\ UNCHANGED <<clock, row, answer>>

\* expireClaim reads the clock, then writes.
ExpireStart(p) ==
  /\ pc[p] = "working"
  /\ pc' = [pc EXCEPT ![p] = "expiring"]
  /\ startedAt' = [startedAt EXCEPT ![p] = clock]
  /\ UNCHANGED <<clock, row, token, until, known, answer>>

ExpireClaim(p) ==
  /\ pc[p] = "expiring"
  /\ \/ HoldsClaim(p) /\ row' = [row EXCEPT !.expires = startedAt[p]]
     \/ ~HoldsClaim(p) /\ UNCHANGED row
  /\ Forget(p)
  /\ UNCHANGED <<clock, answer>>

-----------------------------------------------------------------------------
(* The environment                                                          *)

\* The process stops, or its host gives the call up without an answer.
Crash(p) ==
  /\ p \notin Sweepers
  /\ pc[p] # "idle"
  /\ Forget(p)
  /\ UNCHANGED <<clock, row, answer>>

Tick ==
  /\ clock < MaxClock
  /\ clock' = clock + 1
  /\ UNCHANGED <<row, local>>

ClaimLookup(p) ==
  \/ ClaimInserted(p) \/ ClaimReplayed(p) \/ ClaimBusy(p)
  \/ ClaimExhausted(p) \/ ClaimFoundExpired(p)

ClaimReacquire(p) == ClaimReacquired(p) \/ ClaimLostRace(p)

Finish(p) == CompleteClaim(p) \/ VerbLost(p)

Next ==
  \/ Tick
  \/ \E p \in Callers :
       \/ ClaimStart(p) \/ ClaimLookup(p) \/ ClaimReacquire(p)
       \/ SaveClaimProgress(p) \/ CompleteClaim(p) \/ FailClaim(p)
       \/ ReleaseClaim(p) \/ VerbLost(p)
       \/ ExpireStart(p) \/ ExpireClaim(p) \/ Crash(p)

Spec == Init /\ [][Next]_vars

\* A sweeper keeps claiming the key, is never stopped in the middle of a call
\* and does not hold a claim for ever.
SweepFairness ==
  \A p \in Sweepers :
    /\ WF_vars(ClaimStart(p)) /\ WF_vars(ClaimLookup(p))
    /\ WF_vars(ClaimReacquire(p)) /\ WF_vars(ExpireClaim(p))
    /\ WF_vars(Finish(p))

FairSpec == Spec /\ SweepFairness

-----------------------------------------------------------------------------
(* Properties                                                               *)

\* A terminal row is never changed or deleted: neither by a holder that lost
\* its lease, nor by a re-acquisition, nor by a second completion
\* (completeClaim, failClaim, releaseClaim and the re-acquiring write).
OutcomeIsFinal == [][row.status \in Terminal => row' = row]_vars

\* The caller works and, by its own clock and the lease it asked for, it
\* still has the time to.
Live(p) == pc[p] = "working" /\ until[p] > clock

\* At no time do two callers work on the key inside their leases: the claim
\* decision matrix makes a double execution unrepresentable, whatever stopped
\* callers, slow writes and early expiries came before.
OneLiveWorker == \A p, q \in Callers : Live(p) /\ Live(q) => p = q

\* Whatever a caller was told of the operation's outcome, the row still says:
\* a replay is never taken back.
ReplayIsTrue ==
  \A p \in Callers :
    answer[p].kind \in Terminal =>
      answer[p].kind = row.status /\ answer[p].value = row.outcome

\* The caller whose token the in-flight row carries knows the progress the row
\* carries: what a crashed predecessor saved was handed over, and no fenced-off
\* holder has overwritten it since.
HolderKnowsProgress ==
  \A p \in Callers :
    pc[p] = "working" /\ HoldsClaim(p) => known[p] = row.progress

Expired == row.status = "in_flight" /\ row.expires <= clock

\* A claim whose holder crashed does not stay expired while a sweep goes on
\* claiming the key, unless the attempts ceiling stops the sweep.
ExpiredIsRecovered == Expired ~> (~Expired \/ AtCeiling)
=============================================================================
