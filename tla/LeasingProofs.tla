---------------------------- MODULE LeasingProofs ----------------------------
(***************************************************************************)
(* Safety of the two components that lease a document.  The lease queue,   *)
(* for every number of workers and rows, every lease length and every set  *)
(* of filters; the lock adapter, a system of its own beside the queue, for *)
(* every number of replicas, every lease and every bound on the clock      *)
(* skew.                                                                   *)
(***************************************************************************)
EXTENDS QueueDecision, MongoLock, TLAPS

LEMMA DropTyped ==
  ASSUME TypeOK, NEW w \in Workers, Drop(w)
  PROVE  /\ pc' \in [Workers -> {"idle", "leasing", "working", "extending", "releasing"}]
         /\ job' \in [Workers -> Jobs \cup {Nobody}]
  BY DEF TypeOK, Drop

\* Every variable keeps its type.
THEOREM TypeCorrect == Spec => []TypeOK
<1>1. Init => TypeOK
  BY DEF Init, TypeOK, Row, Final, Filter
<1>2. TypeOK /\ [Next]_vars => TypeOK'
  <2> SUFFICES ASSUME TypeOK, [Next]_vars PROVE TypeOK'
    OBVIOUS
  <2>1. CASE Tick
    BY <2>1 DEF Tick, local, TypeOK
  <2>2. ASSUME NEW w \in Workers, LeaseStart(w) PROVE TypeOK'
    <3>1. Filters[w] \subseteq Filter
      BY QueueAssumption
    <3> QED
      BY <2>2, <3>1 DEF LeaseStart, TypeOK
  <2>3. ASSUME NEW w \in Workers, LeaseGranted(w) PROVE TypeOK'
    <3>1. startedAt[w] + LeaseFor \in Nat
      BY QueueAssumption DEF TypeOK
    <3>2. jobs' \in [Jobs -> Row]
      BY <2>3, <3>1 DEF LeaseGranted, TypeOK, Row
    <3> QED
      BY <2>3, <3>1, <3>2, DropTyped DEF LeaseGranted, TypeOK
  <2>4. ASSUME NEW w \in Workers, LeaseEmpty(w) \/ LeaseLost(w) \/ Crash(w) PROVE TypeOK'
    BY <2>4, DropTyped DEF LeaseEmpty, LeaseLost, Crash, TypeOK
  <2>5. ASSUME NEW w \in Workers, ExtendStart(w) \/ ReleaseStart(w) PROVE TypeOK'
    BY <2>5 DEF ExtendStart, ReleaseStart, CallStart, TypeOK
  <2>6. ASSUME NEW w \in Workers, Extended(w) PROVE TypeOK'
    <3>1. startedAt[w] + LeaseFor \in Nat
      BY QueueAssumption DEF TypeOK
    <3>2. jobs' \in [Jobs -> Row]
      BY <2>6, <3>1 DEF Extended, TypeOK, Row
    <3> QED
      BY <2>6, <3>1, <3>2 DEF Extended, TypeOK
  <2>7. ASSUME NEW w \in Workers, Released(w) PROVE TypeOK'
    <3>1. FinalStatuses[w] \subseteq {"done", "failed", "pending"}
      BY QueueAssumption
    <3>2. \A s \in FinalStatuses[w] : Finalised(w, s) \in Row
      BY <3>1 DEF Finalised, Row, Final
    <3> QED
      BY <2>7, <3>2, DropTyped DEF Released, TypeOK
  <2>8. CASE UNCHANGED vars
    BY <2>8 DEF vars, local, TypeOK
  <2> QED
    BY <2>1, <2>2, <2>3, <2>4, <2>5, <2>6, <2>7, <2>8 DEF Next
<1> QED
  BY <1>1, <1>2, PTL DEF Spec

-----------------------------------------------------------------------------
(***************************************************************************)
(* The strengthening of OneWorkerPerJob: the row of a live worker carries  *)
(* the worker's name and outlives the expiry the worker knows (an          *)
(* extension whose reply was lost makes the row's the later one).  A lease *)
(* is on rows in processing only, which is what keeps a released row out   *)
(* of recovery.                                                            *)
(***************************************************************************)

WorkersHaveJobs ==
  \A w \in Workers :
    /\ startedAt[w] <= clock
    /\ pc[w] \in {"working", "extending", "releasing"} =>
         job[w] \in Jobs /\ until[w] <= startedAt[w] + LeaseFor

LeasedIsProcessing ==
  \A j \in Jobs : jobs[j].leasedBy # Nobody => jobs[j].status = "processing"

LiveWorkerHasRow ==
  \A w \in Workers : Live(w) =>
    jobs[job[w]].leasedBy = w /\ until[w] <= jobs[job[w]].expires

QueueInv == WorkersHaveJobs /\ LeasedIsProcessing /\ LiveWorkerHasRow

LEMMA QueueInvExcludes == QueueInv => OneWorkerPerJob
  BY DEF QueueInv, LiveWorkerHasRow, OneWorkerPerJob

LEMMA DropKeeps ==
  ASSUME TypeOK, QueueInv, NEW w \in Workers, Drop(w),
         UNCHANGED <<clock, jobs, startedAt, until>>
  PROVE  QueueInv'
  BY DEF TypeOK, QueueInv, WorkersHaveJobs, LeasedIsProcessing, LiveWorkerHasRow,
     Live, Drop

LEMMA QueueInvInductive == TypeOK /\ QueueInv /\ [Next]_vars => QueueInv'
<1> SUFFICES ASSUME TypeOK, QueueInv, [Next]_vars PROVE QueueInv'
  OBVIOUS
<1> USE DEF QueueInv
<1>1. CASE Tick
  BY <1>1 DEF Tick, local, TypeOK, WorkersHaveJobs, LeasedIsProcessing,
     LiveWorkerHasRow, Live
<1>2. ASSUME NEW w \in Workers, LeaseStart(w) PROVE QueueInv'
  BY <1>2 DEF LeaseStart, TypeOK, WorkersHaveJobs, LeasedIsProcessing,
     LiveWorkerHasRow, Live
<1>3. ASSUME NEW w \in Workers, LeaseGranted(w) PROVE QueueInv'
  <2>1. PICK j \in Jobs :
          /\ LeaseWinner(w, j)
          /\ jobs' = [jobs EXCEPT ![j] = [status |-> "processing", leasedBy |-> w,
                                          expires |-> startedAt[w] + LeaseFor]]
          /\ \/ /\ pc' = [pc EXCEPT ![w] = "working"]
                /\ job' = [job EXCEPT ![w] = j]
                /\ until' = [until EXCEPT ![w] = startedAt[w] + LeaseFor]
             \/ w \notin Steady /\ Drop(w) /\ UNCHANGED until
          /\ pc[w] = "leasing" /\ UNCHANGED <<clock, startedAt>>
    BY <1>3 DEF LeaseGranted
  <2>2. \A v \in Workers : Live(v) => job[v] # j /\ v # w /\ job[v] \in Jobs
    <3> SUFFICES ASSUME NEW v \in Workers, Live(v) PROVE job[v] # j /\ v # w /\ job[v] \in Jobs
      OBVIOUS
    <3>1. v # w /\ job[v] \in Jobs
      BY <2>1 DEF Live, WorkersHaveJobs
    <3>2. CASE jobs[j].status = "pending"
      <4>1. jobs[job[v]].leasedBy = v /\ v # Nobody
        BY QueueAssumption DEF LiveWorkerHasRow
      <4>2. jobs[job[v]].status = "processing"
        BY <3>1, <4>1 DEF LeasedIsProcessing
      <4> QED
        BY <3>1, <3>2, <4>2
    <3>3. CASE jobs[j].expires < startedAt[w]
      BY <3>1, <3>3 DEF LiveWorkerHasRow, WorkersHaveJobs, Live, TypeOK, Row
    <3> QED
      BY <2>1, <3>1, <3>2, <3>3 DEF LeaseWinner, Matches, Available
  <2>3. startedAt[w] + LeaseFor \in Nat
    BY QueueAssumption DEF TypeOK
  <2>4. WorkersHaveJobs'
    BY <2>1, <2>3 DEF TypeOK, WorkersHaveJobs, Drop
  <2>5. LeasedIsProcessing'
    BY <2>1 DEF TypeOK, LeasedIsProcessing
  <2>6. LiveWorkerHasRow'
    <3>1. \A v \in Workers : v # w => (Live(v)' <=> Live(v)) /\ job'[v] = job[v]
                                      /\ until'[v] = until[v]
      BY <2>1 DEF TypeOK, Live, Drop
    <3>2. \A v \in Workers : Live(v) => jobs'[job[v]] = jobs[job[v]]
      BY <2>1, <2>2 DEF TypeOK
    <3>3. Live(w)' => /\ jobs'[job'[w]].leasedBy = w
                      /\ until'[w] <= jobs'[job'[w]].expires
      BY <2>1, <2>3 DEF TypeOK, Live, Drop
    <3> QED
      BY <3>1, <3>2, <3>3 DEF LiveWorkerHasRow
  <2> QED
    BY <2>4, <2>5, <2>6
<1>4. ASSUME NEW w \in Workers, LeaseEmpty(w) \/ LeaseLost(w) \/ Crash(w) PROVE QueueInv'
  BY <1>4, DropKeeps DEF LeaseEmpty, LeaseLost, Crash
<1>5. ASSUME NEW w \in Workers, ExtendStart(w) \/ ReleaseStart(w) PROVE QueueInv'
  BY <1>5, QueueAssumption DEF ExtendStart, ReleaseStart, CallStart, TypeOK,
     WorkersHaveJobs, LeasedIsProcessing, LiveWorkerHasRow, Live
<1>6. ASSUME NEW w \in Workers, Extended(w) PROVE QueueInv'
  <2>1. /\ job[w] \in Jobs /\ jobs[job[w]].leasedBy = w
        /\ until[w] <= startedAt[w] + LeaseFor /\ startedAt[w] + LeaseFor \in Nat
    BY <1>6, QueueAssumption DEF Extended, StillOurs, WorkersHaveJobs, TypeOK
  <2>2. \A j \in Jobs : /\ jobs'[j].leasedBy = jobs[j].leasedBy
                        /\ jobs'[j].status = jobs[j].status
                        /\ j # job[w] => jobs'[j].expires = jobs[j].expires
    BY <1>6, <2>1 DEF Extended, TypeOK, Row
  <2>3. jobs'[job[w]].expires = startedAt[w] + LeaseFor
    BY <1>6, <2>1 DEF Extended, TypeOK, Row
  <2>4. WorkersHaveJobs'
    BY <1>6, <2>1 DEF Extended, TypeOK, WorkersHaveJobs
  <2>5. LeasedIsProcessing'
    BY <2>2 DEF LeasedIsProcessing
  <2>6. LiveWorkerHasRow'
    <3> SUFFICES ASSUME NEW v \in Workers, Live(v)'
                 PROVE  jobs'[job'[v]].leasedBy = v /\ until'[v] <= jobs'[job'[v]].expires
      BY DEF LiveWorkerHasRow
    <3>1. CASE v = w
      BY <1>6, <2>1, <2>2, <2>3, <3>1 DEF Extended, TypeOK
    <3>2. CASE v # w
      <4>1. Live(v) /\ job'[v] = job[v] /\ until'[v] = until[v] /\ job[v] \in Jobs
        BY <1>6, <3>2 DEF Extended, TypeOK, Live, WorkersHaveJobs
      <4>2. job[v] # job[w]
        BY <2>1, <3>2, <4>1 DEF LiveWorkerHasRow
      <4> QED
        BY <2>2, <4>1, <4>2 DEF LiveWorkerHasRow
    <3> QED
      BY <3>1, <3>2
  <2> QED
    BY <2>4, <2>5, <2>6
<1>7. ASSUME NEW w \in Workers, Released(w) PROVE QueueInv'
  <2>1. PICK s \in FinalStatuses[w] : jobs' = [jobs EXCEPT ![job[w]] = Finalised(w, s)]
    BY <1>7 DEF Released
  <2>2. job[w] \in Jobs /\ jobs[job[w]].leasedBy = w
    BY <1>7 DEF Released, StillOurs, WorkersHaveJobs
  <2>3. /\ Drop(w) /\ UNCHANGED <<clock, startedAt, until>>
    BY <1>7 DEF Released
  <2>4. WorkersHaveJobs'
    BY <2>3 DEF TypeOK, WorkersHaveJobs, Drop
  <2>5. LeasedIsProcessing'
    BY <2>1 DEF TypeOK, LeasedIsProcessing, Finalised
  <2>6. LiveWorkerHasRow'
    <3> SUFFICES ASSUME NEW v \in Workers, Live(v)'
                 PROVE  jobs'[job'[v]].leasedBy = v /\ until'[v] <= jobs'[job'[v]].expires
      BY DEF LiveWorkerHasRow
    <3>1. v # w /\ Live(v) /\ job'[v] = job[v] /\ until'[v] = until[v]
      BY <2>3 DEF TypeOK, Live, Drop
    <3>2. job[v] # job[w] /\ job[v] \in Jobs
      BY <2>2, <3>1 DEF LiveWorkerHasRow, WorkersHaveJobs, Live
    <3>3. jobs'[job[v]] = jobs[job[v]]
      BY <2>1, <3>2 DEF TypeOK
    <3> QED
      BY <3>1, <3>3 DEF LiveWorkerHasRow
  <2> QED
    BY <2>4, <2>5, <2>6
<1>8. CASE UNCHANGED vars
  BY <1>8 DEF vars, local, WorkersHaveJobs, LeasedIsProcessing, LiveWorkerHasRow, Live
<1> QED
  BY <1>1, <1>2, <1>3, <1>4, <1>5, <1>6, <1>7, <1>8 DEF Next

THEOREM QueueInvariant == Spec => []QueueInv
<1>1. Init => QueueInv
  BY QueueAssumption DEF Init, QueueInv, WorkersHaveJobs, LeasedIsProcessing,
     LiveWorkerHasRow, Live
<1> QED
  BY <1>1, QueueInvInductive, TypeCorrect, PTL DEF Spec

\* No two workers ever process one row inside their leases.
THEOREM WorkersExclude == Spec => []OneWorkerPerJob
  BY QueueInvariant, QueueInvExcludes, PTL

\* A row released as done or failed is never touched again.
THEOREM FinalStays == Spec => FinalIsFinal
<1>1. TypeOK /\ QueueInv /\ [Next]_vars =>
        \A j \in Jobs : jobs[j].status \in Final => jobs'[j] = jobs[j]
  <2> SUFFICES ASSUME TypeOK, QueueInv, [Next]_vars, NEW j \in Jobs,
                      jobs[j].status \in Final
               PROVE  jobs'[j] = jobs[j]
    OBVIOUS
  <2>1. jobs[j].leasedBy = Nobody /\ jobs[j].status # "pending"
    BY DEF QueueInv, LeasedIsProcessing, Final
  <2>2. ASSUME NEW w \in Workers, LeaseGranted(w) PROVE jobs'[j] = jobs[j]
    BY <2>1, <2>2 DEF LeaseGranted, LeaseWinner, Matches, Available, TypeOK
  <2>3. ASSUME NEW w \in Workers, Extended(w) \/ Released(w) PROVE jobs'[j] = jobs[j]
    <3>1. job[w] # j
      BY <2>1, <2>3, QueueAssumption DEF Extended, Released, StillOurs
    <3> QED
      BY <2>3, <3>1 DEF Extended, Released, TypeOK
  <2> QED
    BY <2>2, <2>3 DEF Next, vars, Tick, LeaseStart, LeaseEmpty, ExtendStart,
       ReleaseStart, CallStart, LeaseLost, Crash
<1> QED
  BY <1>1, TypeCorrect, QueueInvariant, PTL DEF Spec, FinalIsFinal

-----------------------------------------------------------------------------
(***************************************************************************)
(* The queue implements LeasedDecision, at any row.  That the row of a     *)
(* live worker carries its name is what the refinement needs: a lease is   *)
(* granted only where nobody is live, and the compare-and-set of release   *)
(* succeeds only for the worker that the row names.                        *)
(***************************************************************************)

LEMMA OwnerWorks ==
  ASSUME OneWorkerPerJob, NEW w \in Workers, Works(w) PROVE Owner = w
<1>1. \A v \in Workers : Works(v) => v = w
  BY DEF OneWorkerPerJob, Works
<1> QED
  BY <1>1 DEF Owner

LEMMA OwnerWorksAfter ==
  ASSUME OneWorkerPerJob', NEW w \in Workers, Works(w)' PROVE Owner' = w
<1>1. \A v \in Workers : Works(v)' => v = w
  BY DEF OneWorkerPerJob, Works
<1> QED
  BY <1>1 DEF Owner

LEMMA NoOwner == ASSUME \A w \in Workers : ~Works(w) PROVE Owner = Nobody
  BY DEF Owner

LEMMA NoOwnerAfter == ASSUME \A w \in Workers : ~Works(w)' PROVE Owner' = Nobody
  BY DEF Owner

\* A step after which nobody works on the row who did not before, and which does not
\* decide, loses the owner or stutters.
LEMMA NobodyTakes ==
  ASSUME OneWorkerPerJob, OneWorkerPerJob', \A w \in Workers : Works(w)' => Works(w),
         Outcome' = Outcome
  PROVE  [Decision!Next]_(Decision!decision)
<1>1. CASE \E w \in Workers : Works(w)'
  <2>1. PICK w \in Workers : Works(w)'
    BY <1>1
  <2>2. Owner = w /\ Owner' = w
    BY <2>1, OwnerWorks, OwnerWorksAfter
  <2> QED
    BY <2>2 DEF Decision!decision
<1>2. CASE \A w \in Workers : ~Works(w)'
  <2>1. Owner' = Nobody
    BY <1>2, NoOwnerAfter
  <2>2. Owner = Nobody \/ Decision!Lose
    BY <2>1 DEF Decision!Lose
  <2> QED
    BY <2>1, <2>2 DEF Decision!decision, Decision!Next
<1> QED
  BY <1>1, <1>2

\* A step after which at most w works on a row that is open, and before which nobody
\* else did, takes it, loses it or stutters.
LEMMA OneTakes ==
  ASSUME OneWorkerPerJob, OneWorkerPerJob', NEW w \in Workers,
         \A v \in Workers \ {w} : ~Works(v) /\ ~Works(v)',
         Outcome = Undecided, Outcome' = Undecided
  PROVE  [Decision!Next]_(Decision!decision)
<1>1. CASE Works(w) \/ ~Works(w)'
  BY <1>1, NobodyTakes
<1>2. CASE ~Works(w) /\ Works(w)'
  <2>1. Owner = Nobody
    BY <1>2, NoOwner
  <2>2. Owner' = w
    BY <1>2, OwnerWorksAfter
  <2> QED
    BY <2>1, <2>2 DEF Decision!Take, Decision!Next
<1> QED
  BY <1>1, <1>2

LEMMA GrantTakes ==
  ASSUME TypeOK, QueueInv, OneWorkerPerJob, OneWorkerPerJob', NEW w \in Workers, LeaseGranted(w)
  PROVE  [Decision!Next]_(Decision!decision)
<1> USE ObservedAssumption DEF QueueInv
<1>1. PICK j \in Jobs :
        /\ LeaseWinner(w, j)
        /\ jobs' = [jobs EXCEPT ![j] = [status |-> "processing", leasedBy |-> w,
                                        expires |-> startedAt[w] + LeaseFor]]
        /\ pc[w] = "leasing" /\ UNCHANGED <<clock, startedAt>>
        /\ \/ /\ pc' = [pc EXCEPT ![w] = "working"] /\ job' = [job EXCEPT ![w] = j]
              /\ until' = [until EXCEPT ![w] = startedAt[w] + LeaseFor]
           \/ Drop(w) /\ UNCHANGED until
  BY DEF LeaseGranted
<1>2. \A v \in Workers \ {w} : Live(v)' = Live(v) /\ job'[v] = job[v]
  BY <1>1 DEF Live, TypeOK, Drop
<1>3. ~Live(w) /\ (Live(w)' => job'[w] = j)
  BY <1>1 DEF Live, TypeOK, Drop
<1>4. CASE j = Observed
  <2>1. jobs[j].status \notin Final /\ jobs'[j].status \notin Final
    BY <1>1 DEF LeaseWinner, Matches, Available, LeasedIsProcessing, Final, TypeOK
  <2>2. Outcome = Undecided /\ Outcome' = Undecided
    BY <1>4, <2>1 DEF Outcome
  <2>3. \A v \in Workers : ~Works(v)
    <3> SUFFICES ASSUME NEW v \in Workers, Live(v), job[v] = j PROVE FALSE
      BY <1>4 DEF Works
    <3>1. jobs[j].leasedBy = v /\ v # Nobody /\ until[v] <= jobs[j].expires /\ until[v] > clock
      BY QueueAssumption DEF LiveWorkerHasRow, Live
    <3>2. jobs[j].status # "pending"
      BY <3>1 DEF LeasedIsProcessing
    <3>3. jobs[j].expires < startedAt[w] /\ startedAt[w] <= clock
      BY <1>1, <3>2 DEF LeaseWinner, Matches, Available, WorkersHaveJobs
    <3> QED
      BY <3>1, <3>3 DEF TypeOK, Row
  <2>4. \A v \in Workers \ {w} : ~Works(v)'
    BY <1>2, <2>3 DEF Works
  <2> QED
    BY <2>2, <2>3, <2>4, OneTakes
<1>5. CASE j # Observed
  <2>1. jobs'[Observed] = jobs[Observed]
    BY <1>1, <1>5 DEF TypeOK
  <2>2. \A v \in Workers : Works(v)' => Works(v)
    BY <1>2, <1>3, <1>5 DEF Works
  <2> QED
    BY <2>1, <2>2, NobodyTakes DEF Outcome
<1> QED
  BY <1>4, <1>5

LEMMA ExtensionTakes ==
  ASSUME TypeOK, QueueInv, OneWorkerPerJob, OneWorkerPerJob', NEW w \in Workers, Extended(w)
  PROVE  [Decision!Next]_(Decision!decision)
<1> USE ObservedAssumption DEF QueueInv
<1>1. /\ job[w] \in Jobs /\ jobs[job[w]].leasedBy = w /\ w # Nobody
      /\ UNCHANGED <<clock, job>>
      /\ jobs' = [jobs EXCEPT ![job[w]] = [jobs[job[w]] EXCEPT !.expires = startedAt[w] + LeaseFor]]
  BY QueueAssumption DEF Extended, StillOurs, WorkersHaveJobs
<1>2. \A v \in Workers \ {w} : Live(v)' = Live(v) /\ job'[v] = job[v]
  BY <1>1 DEF Extended, Live, TypeOK
<1>3. \A j \in Jobs : jobs'[j].status = jobs[j].status
  BY <1>1 DEF TypeOK, Row
<1>4. CASE job[w] = Observed
  <2>1. jobs[Observed].status = "processing"
    BY <1>1, <1>4 DEF LeasedIsProcessing
  <2>2. Outcome = Undecided /\ Outcome' = Undecided
    BY <1>3, <2>1 DEF Outcome, Final
  <2>3. \A v \in Workers \ {w} : ~Works(v)
    BY <1>1, <1>4 DEF Works, LiveWorkerHasRow
  <2> QED
    BY <1>2, <2>2, <2>3, OneTakes DEF Works
<1>5. CASE job[w] # Observed
  <2>1. \A v \in Workers : Works(v)' => Works(v)
    BY <1>1, <1>2, <1>5 DEF Works
  <2> QED
    BY <1>3, <2>1, NobodyTakes DEF Outcome
<1> QED
  BY <1>4, <1>5

LEMMA ReleaseDecides ==
  ASSUME TypeOK, QueueInv, OneWorkerPerJob, OneWorkerPerJob', NEW w \in Workers, Released(w)
  PROVE  [Decision!Next]_(Decision!decision)
<1> USE ObservedAssumption DEF QueueInv
<1>1. PICK s \in FinalStatuses[w] : jobs' = [jobs EXCEPT ![job[w]] = Finalised(w, s)]
  BY DEF Released
<1>2. /\ pc[w] = "releasing" /\ job[w] \in Jobs /\ jobs[job[w]].leasedBy = w /\ w # Nobody
      /\ Drop(w) /\ UNCHANGED <<clock, until>>
  BY QueueAssumption DEF Released, StillOurs, WorkersHaveJobs
<1>3. \A v \in Workers : Works(v)' => Works(v)
  BY <1>2 DEF Works, Live, Drop, TypeOK
<1>4. CASE job[w] = Observed
  <2>1. \A v \in Workers : ~Works(v)
    <3> SUFFICES ASSUME NEW v \in Workers, Works(v) PROVE FALSE
      OBVIOUS
    <3>1. v = w
      BY <1>2, <1>4 DEF Works, LiveWorkerHasRow
    <3> QED
      BY <1>2, <3>1 DEF Works, Live
  <2>2. Owner = Nobody /\ Owner' = Nobody
    BY <1>3, <2>1, NoOwner, NoOwnerAfter
  <2>3. jobs[Observed].status = "processing" /\ jobs'[Observed].status = s
    BY <1>1, <1>2, <1>4 DEF LeasedIsProcessing, TypeOK, Finalised
  <2>4. Outcome = Undecided /\ Outcome' = IF s \in Final THEN s ELSE Undecided
    BY <2>3 DEF Outcome, Final
  <2>5. CASE s \in Final
    BY <2>2, <2>4, <2>5 DEF Decision!Decide, Decision!Next
  <2>6. CASE s \notin Final
    BY <2>2, <2>4, <2>6 DEF Decision!decision
  <2> QED
    BY <2>5, <2>6
<1>5. CASE job[w] # Observed
  <2>1. jobs'[Observed] = jobs[Observed]
    BY <1>1, <1>5 DEF TypeOK
  <2> QED
    BY <1>3, <2>1, NobodyTakes DEF Outcome
<1> QED
  BY <1>4, <1>5

LEMMA RowStepDecides ==
  ASSUME TypeOK, QueueInv, OneWorkerPerJob, OneWorkerPerJob', [Next]_vars
  PROVE  [Decision!Next]_(Decision!decision)
<1>1. CASE Tick
  <2>1. \A w \in Workers : Works(w)' => Works(w)
    BY <1>1 DEF Tick, local, Works, Live, TypeOK
  <2> QED
    BY <1>1, <2>1, NobodyTakes DEF Tick, Outcome
<1>2. ASSUME NEW w \in Workers,
             \/ LeaseStart(w) \/ ExtendStart(w) \/ ReleaseStart(w)
             \/ LeaseEmpty(w) \/ LeaseLost(w) \/ Crash(w)
      PROVE  [Decision!Next]_(Decision!decision)
  <2>1. UNCHANGED <<clock, jobs, until>>
    BY <1>2 DEF LeaseStart, ExtendStart, ReleaseStart, CallStart, LeaseEmpty, LeaseLost, Crash
  <2>2. \/ Drop(w)
        \/ UNCHANGED job /\ \E stage \in {"leasing", "extending", "releasing"} :
             pc' = [pc EXCEPT ![w] = stage] /\ (stage = "extending" => pc[w] = "working")
    BY <1>2 DEF LeaseStart, ExtendStart, ReleaseStart, CallStart, LeaseEmpty, LeaseLost, Crash
  <2>3. \A v \in Workers : Works(v)' => Works(v)
    BY <2>1, <2>2 DEF Drop, Works, Live, TypeOK
  <2> QED
    BY <2>1, <2>3, NobodyTakes DEF Outcome
<1>3. ASSUME NEW w \in Workers, LeaseGranted(w) \/ Extended(w) \/ Released(w)
      PROVE  [Decision!Next]_(Decision!decision)
  BY <1>3, GrantTakes, ExtensionTakes, ReleaseDecides
<1>4. CASE UNCHANGED vars
  <2>1. \A w \in Workers : Works(w)' => Works(w)
    BY <1>4 DEF vars, local, Works, Live
  <2> QED
    BY <1>4, <2>1, NobodyTakes DEF vars, Outcome
<1> QED
  BY <1>1, <1>2, <1>3, <1>4 DEF Next

\* Leasing, extending and releasing implement a decision under a lease, at every row:
\* nobody takes a row from its live worker, and its final status is decided once.
THEOREM QueueImplementsDecision == Spec => RowImplementsDecision
<1>1. Init => Decision!Init
  <2> SUFFICES ASSUME Init PROVE Owner = Nobody /\ Outcome = Undecided
    BY DEF Decision!Init
  <2>1. \A w \in Workers : ~Works(w)
    BY DEF Init, Works, Live
  <2> QED
    BY <2>1, NoOwner, ObservedAssumption DEF Init, Outcome, Final
<1> QED
  BY <1>1, RowStepDecides, TypeCorrect, QueueInvariant, WorkersExclude, PTL
     DEF Spec, RowImplementsDecision, Decision!Spec

-----------------------------------------------------------------------------
(* The lock adapter                                                         *)

LEMMA ExpiresTyped ==
  LockTypeOK => \A h \in Holders : Expires(h) \in Nat
  BY LockAssumption DEF LockTypeOK, Expires

\* Every variable keeps its type: the document names a holder or is absent.
THEOREM LockTypeCorrect == LockSpec => []LockTypeOK
<1>1. LockInit => LockTypeOK
  BY LockAssumption DEF LockInit, LockTypeOK, Free
<1>2. LockTypeOK /\ [LockNext]_lockVars => LockTypeOK'
  <2> SUFFICES ASSUME LockTypeOK, [LockNext]_lockVars PROVE LockTypeOK'
    OBVIOUS
  <2>1. ASSUME NEW ns \in SUBSET Nodes, ClocksTick(ns) PROVE LockTypeOK'
    BY <2>1 DEF ClocksTick, LockTypeOK
  <2>2. CASE Prune
    BY <2>2 DEF Prune, LockTypeOK, Free
  <2>3. ASSUME NEW h \in Holders, AcquireStart(h) PROVE LockTypeOK'
    BY <2>3 DEF AcquireStart, LockTypeOK, Nodes
  <2>4. ASSUME NEW h \in Holders, AcquireGranted(h) PROVE LockTypeOK'
    <3>1. Expires(h) \in Nat
      BY ExpiresTyped
    <3> QED
      BY <2>4, <3>1 DEF AcquireGranted, LockTypeOK
  <2>5. ASSUME NEW h \in Holders, AcquireRefused(h) \/ AcquireFailed(h) PROVE LockTypeOK'
    BY <2>5 DEF AcquireRefused, AcquireFailed, LockTypeOK
  <2>6. ASSUME NEW h \in Holders, ReleaseLockStart(h) \/ ReplicaCrash(h) PROVE LockTypeOK'
    BY <2>6 DEF ReleaseLockStart, ReplicaCrash, LockTypeOK
  <2>7. ASSUME NEW h \in Holders, ReleaseLock(h) PROVE LockTypeOK'
    BY <2>7 DEF ReleaseLock, LockTypeOK, Free
  <2>8. CASE UNCHANGED lockVars
    BY <2>8 DEF lockVars, LockTypeOK
  <2> QED
    BY <2>1, <2>2, <2>3, <2>4, <2>5, <2>6, <2>7, <2>8 DEF LockNext, Acquire
<1> QED
  BY <1>1, <1>2, PTL DEF LockSpec

-----------------------------------------------------------------------------
(***************************************************************************)
(* SafeHolderOwnsLock is not inductive: a steal compares the DOCUMENT's    *)
(* expiry with the thief's clock, and the property speaks of the holder's  *)
(* own idea of it.  The strengthening adds that the document outlives      *)
(* every safe holder's idea of its lease, that a call in progress can only *)
(* move that idea forward, and that clocks stay within MaxSkew of each     *)
(* other.                                                                  *)
(***************************************************************************)

ClocksAgree == \A n, m \in Nodes : clocks[n] <= clocks[m] + MaxSkew

CallsMoveForward ==
  \A h \in Holders :
    /\ askedAt[h] <= clocks[h]
    /\ holding[h] => leaseEnd[h] <= Expires(h)
    /\ call[h] = "releasing" => ~holding[h]

DocumentOutlivesSafeHolder ==
  \A h \in Holders :
    Safe(h) => lock.holder = h /\ leaseEnd[h] <= lock.expiresAt

LockInv == ClocksAgree /\ CallsMoveForward /\ DocumentOutlivesSafeHolder

\* Whatever a replica or the server takes for expired by a clock that it has
\* read, no safe holder has.
LEMMA ExpiredMeansUnsafe ==
  ASSUME LockTypeOK, LockInv, NEW n \in Nodes, NEW t \in Nat, t <= clocks[n],
         lock.expiresAt <= t, NEW h \in Holders
  PROVE  ~Safe(h)
  BY LockAssumption DEF LockTypeOK, LockInv, ClocksAgree, DocumentOutlivesSafeHolder,
     Safe, Nodes

\* A step that stops a holder, or nobody, and leaves the document alone.
LEMMA StoppingKeeps ==
  ASSUME LockInv, UNCHANGED <<clocks, lock, askedAt, leaseEnd>>,
         \A h \in Holders : holding'[h] => holding[h],
         \A h \in Holders : call'[h] = "releasing" => call[h] = "releasing" \/ ~holding'[h]
  PROVE  LockInv'
  BY DEF LockInv, ClocksAgree, CallsMoveForward, DocumentOutlivesSafeHolder, Safe, Expires

LEMMA LockInvInductive ==
  LockTypeOK /\ LockInv /\ [LockNext]_lockVars => LockInv'
<1> SUFFICES ASSUME LockTypeOK, LockInv, [LockNext]_lockVars PROVE LockInv'
  OBVIOUS
<1>1. ASSUME NEW ns \in SUBSET Nodes, ClocksTick(ns) PROVE LockInv'
  <2>1. ClocksAgree'
    BY <1>1, LockAssumption DEF ClocksTick, LockTypeOK, LockInv, ClocksAgree
  <2>2. CallsMoveForward'
    BY <1>1 DEF ClocksTick, LockTypeOK, LockInv, CallsMoveForward, Expires, Nodes
  <2>3. DocumentOutlivesSafeHolder'
    BY <1>1, LockAssumption DEF ClocksTick, LockTypeOK, LockInv, DocumentOutlivesSafeHolder,
       Safe, Nodes
  <2> QED
    BY <2>1, <2>2, <2>3 DEF LockInv
<1>2. CASE Prune
  <2>1. \A h \in Holders : ~Safe(h)
    BY <1>2, ExpiredMeansUnsafe DEF Prune, LockTypeOK, Nodes
  <2> QED
    BY <1>2, <2>1 DEF Prune, LockInv, ClocksAgree, CallsMoveForward,
       DocumentOutlivesSafeHolder, Safe, Expires
<1>3. ASSUME NEW h \in Holders, AcquireStart(h) PROVE LockInv'
  <2>1. ClocksAgree'
    BY <1>3 DEF AcquireStart, LockInv, ClocksAgree
  <2>2. CallsMoveForward'
    BY <1>3, LockAssumption DEF AcquireStart, LockTypeOK, LockInv, CallsMoveForward,
       Expires, Nodes
  <2>3. DocumentOutlivesSafeHolder'
    BY <1>3 DEF AcquireStart, LockInv, DocumentOutlivesSafeHolder, Safe
  <2> QED
    BY <2>1, <2>2, <2>3 DEF LockInv
<1>4. ASSUME NEW h \in Holders, AcquireGranted(h) PROVE LockInv'
  <2>1. /\ lock'.holder = h /\ lock'.expiresAt = Expires(h)
        /\ Expires(h) \in Nat
        /\ UNCHANGED <<clocks, askedAt>>
    BY <1>4, ExpiresTyped DEF AcquireGranted
  <2>2. \A q \in Holders \ {h} : ~Safe(q)
    <3>1. CASE lock.holder \in {NoHolder, h}
      BY <3>1, LockAssumption DEF LockInv, DocumentOutlivesSafeHolder
    <3>2. CASE lock.expiresAt < askedAt[h]
      <4>1. askedAt[h] \in Nat /\ askedAt[h] <= clocks[h] /\ h \in Nodes
        BY DEF LockTypeOK, LockInv, CallsMoveForward, Nodes
      <4>2. lock.expiresAt <= askedAt[h]
        BY <3>2, <4>1 DEF LockTypeOK
      <4> QED
        BY <4>1, <4>2, ExpiredMeansUnsafe
    <3> QED
      BY <1>4, <3>1, <3>2 DEF AcquireGranted, AcquireMatches
  <2>3. \A q \in Holders : q # h => leaseEnd'[q] = leaseEnd[q] /\ holding'[q] = holding[q]
    BY <1>4 DEF AcquireGranted, LockTypeOK
  <2>4. holding'[h] => leaseEnd'[h] <= Expires(h)
    BY <1>4, <2>1 DEF AcquireGranted, LockTypeOK, LockInv, CallsMoveForward
  <2>5. ClocksAgree'
    BY <2>1 DEF LockInv, ClocksAgree
  <2>6. CallsMoveForward'
    BY <1>4, <2>1, <2>3, <2>4
       DEF AcquireGranted, LockTypeOK, LockInv, CallsMoveForward, Expires
  <2>7. DocumentOutlivesSafeHolder'
    BY <2>1, <2>2, <2>3, <2>4 DEF DocumentOutlivesSafeHolder, Safe
  <2> QED
    BY <2>5, <2>6, <2>7 DEF LockInv
<1>5. ASSUME NEW h \in Holders, AcquireRefused(h) \/ AcquireFailed(h) PROVE LockInv'
  BY <1>5, StoppingKeeps DEF AcquireRefused, AcquireFailed, LockTypeOK
<1>6. ASSUME NEW h \in Holders, ReleaseLockStart(h) \/ ReplicaCrash(h) PROVE LockInv'
  BY <1>6, StoppingKeeps DEF ReleaseLockStart, ReplicaCrash, LockTypeOK
<1>7. ASSUME NEW h \in Holders, ReleaseLock(h) PROVE LockInv'
  <2>1. CASE UNCHANGED lock
    BY <1>7, <2>1, StoppingKeeps DEF ReleaseLock, LockTypeOK
  <2>2. CASE lock.holder = h /\ lock' = Free
    <3>1. \A q \in Holders : ~Safe(q)
      BY <1>7, <2>2 DEF ReleaseLock, LockInv, CallsMoveForward,
         DocumentOutlivesSafeHolder, Safe
    <3> QED
      BY <1>7, <2>2, <3>1 DEF ReleaseLock, LockTypeOK, LockInv, ClocksAgree,
         CallsMoveForward, DocumentOutlivesSafeHolder, Safe, Expires
  <2> QED
    BY <1>7, <2>1, <2>2 DEF ReleaseLock, ReleaseMatches
<1>8. CASE UNCHANGED lockVars
  BY <1>8, StoppingKeeps DEF lockVars
<1> QED
  BY <1>1, <1>2, <1>3, <1>4, <1>5, <1>6, <1>7, <1>8 DEF LockNext, Acquire

\* A safe holder owns the document, and the document says so to everybody.
LEMMA LockInvImplies ==
  LockTypeOK /\ LockInv
    => SafeHolderOwnsLock /\ InspectNamesSafeHolder
<1> SUFFICES ASSUME LockTypeOK, LockInv,
                    NEW h \in Holders, Safe(h), NEW q \in Holders
             PROVE  lock.holder = h /\ Inspect(q) = h
  BY DEF SafeHolderOwnsLock, InspectNamesSafeHolder
<1>1. lock.holder = h /\ leaseEnd[h] <= lock.expiresAt
  BY DEF LockInv, DocumentOutlivesSafeHolder
<1>2. clocks[q] < lock.expiresAt
  BY <1>1, LockAssumption DEF LockTypeOK, LockInv, ClocksAgree, Safe, Nodes
<1>3. lock.holder # NoHolder /\ ~(lock.expiresAt <= clocks[q])
  BY <1>1, <1>2, LockAssumption DEF LockTypeOK, Nodes
<1> QED
  BY <1>1, <1>3 DEF Inspect

THEOREM LockInvariant == LockSpec => []LockInv
<1>1. LockInit => LockInv
  BY LockAssumption DEF LockInit, LockInv, ClocksAgree, CallsMoveForward,
     DocumentOutlivesSafeHolder, Safe, Expires, Nodes
<1> QED
  BY <1>1, LockInvInductive, LockTypeCorrect, PTL DEF LockSpec

\* With clocks within MaxSkew of each other, a holder that stops MaxSkew early
\* is never overtaken.
THEOREM SafeHolderExcludes == LockSpec => []SafeHolderOwnsLock
<1> QED
  BY LockInvariant, LockTypeCorrect, LockInvImplies, PTL

\* inspect never reports a safely held lock as free or as somebody else's.
THEOREM InspectIsRight == LockSpec => []InspectNamesSafeHolder
<1> QED
  BY LockInvariant, LockTypeCorrect, LockInvImplies, PTL
=============================================================================
