----------------------------- MODULE MongoLock -----------------------------
(***************************************************************************)
(* createMongoLockAdapter: one lock document, the replicas that acquire,   *)
(* extend and release it, and the server's TTL monitor.  Every replica     *)
(* compares and stamps with its OWN clock, read before the request is      *)
(* sent; the request takes effect later, in one atomic step, and its reply *)
(* may be lost.  A replica waits for a call to settle before it makes the  *)
(* next.                                                                   *)
(***************************************************************************)
EXTENDS Integers

CONSTANTS
  Holders,    \* holder ids: one per process life (getInstanceId)
  Server,     \* the database server, whose clock the TTL monitor uses
  NoHolder,
  Lease,      \* leaseMs, in clock ticks
  MaxSkew,    \* how far apart two clocks may be at any moment
  MaxClocks   \* bound: a clock stops here

ASSUME LockAssumption ==
  /\ Server \notin Holders /\ NoHolder \notin Holders
  /\ Lease \in Nat \ {0}
  /\ MaxSkew \in Nat
  /\ MaxClocks \in Nat

Nodes == Holders \cup {Server}

VARIABLES
  clocks,     \* clocks[n]: the clock of replica or server n
  lock,       \* the document of the lock name
  call,       \* what each replica waits for
  askedAt,    \* the `now` of its last tryAcquire
  leaseEnd,   \* the end of the last lease it was told it has
  holding     \* it believes it holds the lock

lockVars == <<clocks, lock, call, askedAt, leaseEnd, holding>>

Free == [holder |-> NoHolder, expiresAt |-> 0, acquiredAt |-> 0]

LockTypeOK ==
  /\ clocks \in [Nodes -> Nat]
  /\ lock \in [holder : Holders \cup {NoHolder}, expiresAt : Nat, acquiredAt : Nat]
  /\ call \in [Holders -> {"ready", "acquiring", "releasing", "crashed"}]
  /\ askedAt \in [Holders -> Nat]
  /\ leaseEnd \in [Holders -> Nat]
  /\ holding \in [Holders -> BOOLEAN]

LockInit ==
  /\ clocks = [n \in Nodes |-> 0]
  /\ lock = Free
  /\ call = [h \in Holders |-> "ready"]
  /\ askedAt = [h \in Holders |-> 0]
  /\ leaseEnd = [h \in Holders |-> 0]
  /\ holding = [h \in Holders |-> FALSE]

-----------------------------------------------------------------------------
(* tryAcquire: first acquisition, extension and steal are one call          *)

AcquireStart(h) ==
  /\ call[h] = "ready"
  /\ call' = [call EXCEPT ![h] = "acquiring"]
  /\ askedAt' = [askedAt EXCEPT ![h] = clocks[h]]
  /\ UNCHANGED <<clocks, lock, leaseEnd, holding>>

Expires(h) == askedAt[h] + Lease

\* Mutant of AcquireMatches: the lease of the document is not looked at.
AcquireAnyLock(h) == TRUE
\* Mutant of AcquireMatches: an expired lock of another holder does not match.
AcquireOwnOnly(h) == lock.holder \in {h, NoHolder}

\* The filter: the document is absent (upsert), expired by this clock, or ours.
\* A document that does not match makes the upsert fail with E11000.
AcquireMatches(h) ==
  \/ lock.holder = NoHolder
  \/ lock.expiresAt < askedAt[h]
  \/ lock.holder = h

\* The write: acquiredAt is set on insert only.
AcquireGranted(h) ==
  /\ call[h] = "acquiring" /\ AcquireMatches(h)
  /\ lock' = [holder |-> h, expiresAt |-> Expires(h),
              acquiredAt |-> IF lock.holder = NoHolder THEN askedAt[h]
                             ELSE lock.acquiredAt]
  /\ call' = [call EXCEPT ![h] = "ready"]
  /\ \/ /\ leaseEnd' = [leaseEnd EXCEPT ![h] = Expires(h)]
        /\ holding' = [holding EXCEPT ![h] = TRUE]
     \/ UNCHANGED <<leaseEnd, holding>>           \* the reply is lost
  /\ UNCHANGED <<clocks, askedAt>>

\* E11000: false.  A holder whose extension fails no longer holds the lock.
AcquireRefused(h) ==
  /\ call[h] = "acquiring" /\ ~AcquireMatches(h)
  /\ call' = [call EXCEPT ![h] = "ready"]
  /\ holding' = [holding EXCEPT ![h] = FALSE]
  /\ UNCHANGED <<clocks, lock, askedAt, leaseEnd>>

\* The request never reaches the server; the call throws.
AcquireFailed(h) ==
  /\ call[h] = "acquiring"
  /\ call' = [call EXCEPT ![h] = "ready"]
  /\ UNCHANGED <<clocks, lock, askedAt, leaseEnd, holding>>

-----------------------------------------------------------------------------
(* release                                                                  *)

\* The holder stops working before it releases; a process may release a lock
\* it lost, or never had (the `finally` of the documented usage).
ReleaseLockStart(h) ==
  /\ call[h] = "ready"
  /\ call' = [call EXCEPT ![h] = "releasing"]
  /\ holding' = [holding EXCEPT ![h] = FALSE]
  /\ UNCHANGED <<clocks, lock, askedAt, leaseEnd>>

ReleaseMatches(h) == lock.holder = h

\* Compare-and-set delete on the holder, or the request is lost.
ReleaseLock(h) ==
  /\ call[h] = "releasing"
  /\ call' = [call EXCEPT ![h] = "ready"]
  /\ \/ ReleaseMatches(h) /\ lock' = Free
     \/ UNCHANGED lock
  /\ UNCHANGED <<clocks, askedAt, leaseEnd, holding>>

\* inspect: the holder a replica is told of.
Inspect(h) ==
  IF lock.holder = NoHolder \/ lock.expiresAt <= clocks[h] THEN NoHolder ELSE lock.holder

-----------------------------------------------------------------------------
(* The environment                                                          *)

ReplicaCrash(h) ==
  /\ call[h] # "crashed"
  /\ call' = [call EXCEPT ![h] = "crashed"]
  /\ holding' = [holding EXCEPT ![h] = FALSE]
  /\ UNCHANGED <<clocks, lock, askedAt, leaseEnd>>

\* The TTL index: the server deletes an expired document when its monitor runs.
Prune ==
  /\ lock.holder # NoHolder /\ lock.expiresAt <= clocks[Server]
  /\ lock' = Free
  /\ UNCHANGED <<clocks, call, askedAt, leaseEnd, holding>>

\* Some of the clocks advance; they are kept synchronised within MaxSkew.
ClocksTick(ns) ==
  /\ \A n \in ns : clocks[n] < MaxClocks
  /\ clocks' = [n \in Nodes |-> IF n \in ns THEN clocks[n] + 1 ELSE clocks[n]]
  /\ \A m, n \in Nodes : clocks'[m] <= clocks'[n] + MaxSkew
  /\ UNCHANGED <<lock, call, askedAt, leaseEnd, holding>>

Acquire(h) == AcquireGranted(h) \/ AcquireRefused(h) \/ AcquireFailed(h)

LockNext ==
  \/ \E ns \in SUBSET Nodes : ClocksTick(ns)
  \/ Prune
  \/ \E h \in Holders : AcquireStart(h) \/ Acquire(h) \/ ReleaseLockStart(h)
                        \/ ReleaseLock(h) \/ ReplicaCrash(h)

LockSpec == LockInit /\ [][LockNext]_lockVars

\* A process that has not crashed polls the lock: it goes on calling tryAcquire,
\* its calls settle, and not every request is lost.
TryFairness ==
  \A h \in Holders :
    /\ SF_lockVars(AcquireStart(h)) /\ SF_lockVars(AcquireGranted(h))
    /\ WF_lockVars(Acquire(h)) /\ WF_lockVars(ReleaseLock(h))

LockFairSpec == LockSpec /\ TryFairness

-----------------------------------------------------------------------------
(* Properties                                                               *)

\* The holder's own clock leaves it more of its lease than clocks can differ.
Safe(h) == holding[h] /\ leaseEnd[h] > clocks[h] + MaxSkew

\* A holder that stops MaxSkew before the end of its lease is the only one: no
\* steal, extension, late release or TTL sweep takes the lock from under it,
\* also when replies were lost on the way.  With synchronised clocks
\* (MaxSkew = 0) this is mutual exclusion for the whole lease.
SafeHolderOwnsLock == \A h \in Holders : Safe(h) => lock.holder = h

\* inspect, asked by any replica, names a safe holder: the `<=` of inspect and
\* the `<` of tryAcquire never disagree about it, whatever the skew.
InspectNamesSafeHolder ==
  \A h, q \in Holders : Safe(h) => Inspect(q) = h

\* A document of a crashed holder does not block the lock name: somebody who
\* goes on trying gets it after the lease, without waiting for the TTL monitor.
OrphanIsRecovered ==
  \A h \in Holders :
    (/\ call[h] = "crashed" /\ lock.holder = h
     /\ \E q \in Holders : call[q] # "crashed" /\ clocks[q] > lock.expiresAt)
      ~> (lock.holder # h \/ \A q \in Holders : call[q] = "crashed")
=============================================================================
