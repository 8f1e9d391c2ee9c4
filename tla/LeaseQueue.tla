----------------------------- MODULE LeaseQueue -----------------------------
(***************************************************************************)
(* leasePlugin: a collection of jobs and the workers that lease, extend    *)
(* and release them.  Each verb reads the client clock, passes the hooks,  *)
(* and takes effect later in one findOneAndUpdate.  Clocks are             *)
(* synchronised (MongoLock treats the skew); a clock VALUE may be old when *)
(* it is used.                                                             *)
(***************************************************************************)
EXTENDS Naturals

CONSTANTS
  Workers,
  Steady,        \* the workers that never crash and never lose a reply
  Jobs,          \* the rows, numbered in the order of createdAt
  Nobody,
  Filters,       \* Filters[w]: the filters w passes to lease()
  LeaseFor,      \* leaseFor, in clock ticks
  FinalStatuses, \* FinalStatuses[w]: the finalStatus values w passes to release()
  MaxClock       \* bound: the clock stops here

\* A caller's filter: the rows its plain conditions select, and the rows its own
\* $or selects (every row when it has none).
Filter == [plain : SUBSET Jobs, either : SUBSET Jobs]

ASSUME QueueAssumption ==
  /\ Steady \subseteq Workers
  /\ Jobs \subseteq Nat
  /\ Nobody \notin Workers
  /\ Filters \in [Workers -> SUBSET Filter]
  /\ LeaseFor \in Nat \ {0}
  /\ FinalStatuses \in [Workers -> SUBSET {"done", "failed", "pending"}]
  /\ MaxClock \in Nat

VARIABLES
  clock,
  jobs,       \* the rows
  pc,         \* what each worker does
  filter,     \* the filter of its lease() in progress
  startedAt,  \* the `now` of its call in progress
  job,        \* the row it was leased (when it works on one)
  until       \* the end of its lease, as it knows it

local == <<pc, filter, startedAt, job, until>>
vars == <<clock, jobs, local>>

Final == {"done", "failed"}

\* leasedBy is Nobody when the lease fields are unset.
Row == [status : {"pending", "processing"} \cup Final,
        leasedBy : Workers \cup {Nobody}, expires : Nat]

TypeOK ==
  /\ clock \in Nat
  /\ jobs \in [Jobs -> Row]
  /\ pc \in [Workers -> {"idle", "leasing", "working", "extending", "releasing"}]
  /\ filter \in [Workers -> Filter]
  /\ startedAt \in [Workers -> Nat]
  /\ job \in [Workers -> Jobs \cup {Nobody}]
  /\ until \in [Workers -> Nat]

Init ==
  /\ clock = 0
  /\ jobs = [j \in Jobs |-> [status |-> "pending", leasedBy |-> Nobody, expires |-> 0]]
  /\ pc = [w \in Workers |-> "idle"]
  /\ filter = [w \in Workers |-> [plain |-> Jobs, either |-> Jobs]]
  /\ startedAt = [w \in Workers |-> 0]
  /\ job = [w \in Workers |-> Nobody]
  /\ until = [w \in Workers |-> 0]

Drop(w) ==
  /\ pc' = [pc EXCEPT ![w] = "idle"]
  /\ job' = [job EXCEPT ![w] = Nobody]

-----------------------------------------------------------------------------
(* lease                                                                    *)

LeaseStart(w) ==
  /\ pc[w] = "idle"
  /\ \E f \in Filters[w] : filter' = [filter EXCEPT ![w] = f]
  /\ pc' = [pc EXCEPT ![w] = "leasing"]
  /\ startedAt' = [startedAt EXCEPT ![w] = clock]
  /\ UNCHANGED <<clock, jobs, job, until>>

\* The plugin's own $or: pending, or a lease that expired before `now`.
Available(j, now) ==
  \/ jobs[j].status = "pending"
  \/ jobs[j].leasedBy # Nobody /\ jobs[j].expires < now

\* Mutants of Matches: any row under lease, and pending rows only.
MatchesLeased(w, j) ==
  j \in filter[w].plain /\ (jobs[j].status = "pending" \/ jobs[j].leasedBy # Nobody)
MatchesPending(w, j) == j \in filter[w].plain /\ jobs[j].status = "pending"

\* claimFilter: the spread of the caller's filter, whose $or the plugin's own
\* $or replaces.
Matches(w, j) == j \in filter[w].plain /\ Available(j, startedAt[w])

\* sort { createdAt: 1 }: the oldest match.
LeaseWinner(w, j) ==
  Matches(w, j) /\ \A k \in Jobs : Matches(w, k) => j <= k

\* The claim takes effect; when its reply is lost the worker does not know.
LeaseGranted(w) ==
  /\ pc[w] = "leasing"
  /\ \E j \in Jobs :
       /\ LeaseWinner(w, j)
       /\ jobs' = [jobs EXCEPT ![j] = [status |-> "processing", leasedBy |-> w,
                                       expires |-> startedAt[w] + LeaseFor]]
       /\ \/ /\ pc' = [pc EXCEPT ![w] = "working"]
             /\ job' = [job EXCEPT ![w] = j]
             /\ until' = [until EXCEPT ![w] = startedAt[w] + LeaseFor]
          \/ w \notin Steady /\ Drop(w) /\ UNCHANGED until
  /\ UNCHANGED <<clock, filter, startedAt>>

\* No row matches: null.
LeaseEmpty(w) ==
  /\ pc[w] = "leasing"
  /\ \A j \in Jobs : ~Matches(w, j)
  /\ Drop(w)
  /\ UNCHANGED <<clock, jobs, filter, startedAt, until>>

-----------------------------------------------------------------------------
(* extend and release                                                       *)

CallStart(w, call) ==
  /\ pc[w] = "working"
  /\ pc' = [pc EXCEPT ![w] = call]
  /\ startedAt' = [startedAt EXCEPT ![w] = clock]
  /\ UNCHANGED <<clock, jobs, filter, job, until>>

ExtendStart(w) == CallStart(w, "extending")
ReleaseStart(w) == CallStart(w, "releasing")

\* Mutant of StillOurs: the lease has to be live, whoever holds it.
StillLeased(w) ==
  jobs[job[w]].leasedBy # Nobody /\ jobs[job[w]].expires > startedAt[w]

\* The compare-and-set of both: leased by this worker, and live at its `now`.
StillOurs(w) ==
  jobs[job[w]].leasedBy = w /\ jobs[job[w]].expires > startedAt[w]

\* The expiry is pushed; when the reply is lost the worker still counts on the
\* old one.
Extended(w) ==
  /\ pc[w] = "extending" /\ StillOurs(w)
  /\ jobs' = [jobs EXCEPT ![job[w]].expires = startedAt[w] + LeaseFor]
  /\ pc' = [pc EXCEPT ![w] = "working"]
  /\ \/ until' = [until EXCEPT ![w] = startedAt[w] + LeaseFor]
     \/ w \notin Steady /\ UNCHANGED until
  /\ UNCHANGED <<clock, filter, startedAt, job>>

Finalised(w, s) == [status |-> s, leasedBy |-> Nobody, expires |-> 0]

Released(w) ==
  /\ pc[w] = "releasing" /\ StillOurs(w)
  /\ \E s \in FinalStatuses[w] : jobs' = [jobs EXCEPT ![job[w]] = Finalised(w, s)]
  /\ Drop(w)
  /\ UNCHANGED <<clock, filter, startedAt, until>>

\* extend or release returned null: the worker drops the work.
LeaseLost(w) ==
  /\ pc[w] \in {"extending", "releasing"} /\ ~StillOurs(w)
  /\ Drop(w)
  /\ UNCHANGED <<clock, jobs, filter, startedAt, until>>

-----------------------------------------------------------------------------
(* The environment                                                          *)

\* The worker stops, before or after its request took effect.
Crash(w) ==
  /\ w \notin Steady /\ pc[w] # "idle"
  /\ Drop(w)
  /\ UNCHANGED <<clock, jobs, filter, startedAt, until>>

Tick ==
  /\ clock < MaxClock
  /\ clock' = clock + 1
  /\ UNCHANGED <<jobs, local>>

Next ==
  \/ Tick
  \/ \E w \in Workers :
       \/ LeaseStart(w) \/ LeaseGranted(w) \/ LeaseEmpty(w)
       \/ ExtendStart(w) \/ Extended(w)
       \/ ReleaseStart(w) \/ Released(w) \/ LeaseLost(w)
       \/ Crash(w)

Spec == Init /\ [][Next]_vars

\* A steady worker polls the queue, its calls settle, and it does not extend a
\* lease for ever.
WorkFairness ==
  \A w \in Steady :
    /\ WF_vars(LeaseStart(w)) /\ WF_vars(LeaseGranted(w) \/ LeaseEmpty(w))
    /\ WF_vars(Extended(w)) /\ SF_vars(ReleaseStart(w))
    /\ WF_vars(Released(w)) /\ WF_vars(LeaseLost(w))

FairSpec == Spec /\ WorkFairness

-----------------------------------------------------------------------------
(* Properties                                                               *)

Live(w) == pc[w] \in {"working", "extending"} /\ until[w] > clock

\* No two workers process the same row inside their leases, whatever crashes,
\* lost replies and old clock values came before (lease, extend and release).
OneWorkerPerJob ==
  \A w, v \in Workers : Live(w) /\ Live(v) /\ job[w] = job[v] => w = v

\* A row that was released as done or failed is never leased again or changed:
\* release clears the lease, so dead-lease recovery does not see the row.
FinalIsFinal ==
  [][\A j \in Jobs : jobs[j].status \in Final => jobs'[j] = jobs[j]]_vars

\* A row that may be leased, because it is pending or its lease died, does not
\* stay so while a worker that does not crash polls the queue.
AvailableIsLeased ==
  \A j \in Jobs : Available(j, clock) ~> ~Available(j, clock)
=============================================================================
