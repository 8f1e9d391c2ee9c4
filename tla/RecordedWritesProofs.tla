------------------------ MODULE RecordedWritesProofs ------------------------
(***************************************************************************)
(* What the plugins and a watcher may tell of a document's writes, for     *)
(* every number of callers and calls, every amount and ceiling and every   *)
(* set of configurations: the change log and the audit trail, the          *)
(* counters, and the change stream.  The properties count entries, so the  *)
(* invariants relate how often something was written, recorded and         *)
(* answered to the callers that are in between.                            *)
(***************************************************************************)
EXTENDS WatchedWrites, TLAPS, FiniteSetTheorems, SequenceTheorems

-----------------------------------------------------------------------------
(* Types                                                                    *)

LEMMA ValuesTyped == 0 \in Value /\ Absent \in Value /\ Int \subseteq Value
  BY DEF Value

LEMMA RecordedTyped ==
  /\ Idle \in Work
  /\ \A v \in Verbs, by \in Nat : Begin(v, by) \in Work
<1>1. "update" \in Verbs
  BY DEF Verbs, Captured, Updating
<1>2. \A S : <<>> \in Seq(S)
  OBVIOUS
<1>3. Idle \in Work
  BY <1>1, <1>2, ValuesTyped DEF Idle, Work
<1>4. ASSUME NEW v \in Verbs, NEW by \in Nat PROVE Begin(v, by) \in Work
  BY <1>3 DEF Begin, FirstStage, Work
<1> QED
  BY <1>3, <1>4

\* What a write puts under the key is a number, or absent.
LEMMA WrittenTyped ==
  ASSUME TypeOK, NEW c \in Callers, Matches(c)
  PROVE  Written(c) \in Value
<1>1. work[c].by \in Nat /\ work[c].verb \in Verbs /\ doc \in Value
  BY DEF TypeOK, Work
<1>2. work[c].verb = "create" \/ doc \in Int
  BY <1>1, RecordedAssumption DEF Matches, Value
<1>3. \A m, n \in Int : m * n \in Int
  OBVIOUS
<1>4. \A m, n \in Int : Min({m, n}) \in Int 
  BY DEF Min
<1>5. \A m, n \in Int : Max({m, n}) \in Int
  BY DEF Max
<1> QED
  BY <1>1, <1>2, <1>3, <1>4, <1>5, ValuesTyped
     DEF Written, Verbs, Captured, Updating, Operators, Upserts

LEMMA ChangeTyped ==
  ASSUME TypeOK, NEW c \in Callers, NEW n \in Value
  PROVE  [verb |-> work[c].verb, from |-> doc, to |-> n] \in Change
  BY DEF TypeOK, Work, Change

LEMMA ApplyTyped ==
  ASSUME TypeOK, NEW c \in Callers, NEW n \in Value, NEW next \in {"log", "return"},
         Apply(c, n, next)
  PROVE  /\ work' \in [Callers -> Work] /\ writer' \in Callers \cup {None}
         /\ doc' \in Value /\ history' \in Seq(Change)
<1> DEFINE change == [verb |-> work[c].verb, from |-> doc, to |-> n]
<1>1. change \in Change
  BY ChangeTyped
<1> HIDE DEF change
<1>2. <<change>> \in Seq(Change)
  BY <1>1
<1>3. /\ work' = [work EXCEPT ![c].stage = next, ![c].made = <<change>>]
      /\ IF setup.bound
         THEN writer' = c /\ UNCHANGED <<doc, history>>
         ELSE doc' = n /\ history' = Append(history, change) /\ UNCHANGED writer
  BY DEF Apply, change
<1>4. work' \in [Callers -> Work]
  <2>1. [work[c] EXCEPT !.stage = next, !.made = <<change>>] \in Work
    BY <1>2 DEF TypeOK, Work
  <2>2. work' = [work EXCEPT ![c] = [work[c] EXCEPT !.stage = next, !.made = <<change>>]]
    BY <1>3
  <2> QED
    BY <2>1, <2>2 DEF TypeOK
<1>5. doc \in Value /\ history \in Seq(Change) /\ writer \in Callers \cup {None}
  BY DEF TypeOK
<1>6. Append(history, change) \in Seq(Change)
  BY <1>1, <1>5, AppendProperties
<1> QED
  BY <1>3, <1>4, <1>5, <1>6

\* An entry of the audit trail, and an image, are made of what the caller knows.
LEMMA EntriesTyped ==
  ASSUME TypeOK, NEW c \in Callers
  PROVE  /\ Diff(c) \in Entry /\ Entries(c) \in Seq(Entry)
         /\ Images(c) \in Seq(Value)
<1>1. work[c] \in Work
  BY DEF TypeOK
<1>2. Diff(c) \in Entry
  <2>1. work[c].verb \in Verbs /\ work[c].by \in Value /\ work[c].prev \in Value
    BY <1>1, ValuesTyped DEF Work
  <2>2. "update" \in Verbs
    BY DEF Verbs, Captured, Updating
  <2> QED
    BY <2>1, <2>2 DEF Diff, Entry
<1>3. Entries(c) \in Seq(Entry)
  BY <1>2 DEF Entries
<1>4. Images(c) \in Seq(Value)
  <2>1. work[c].made \in Seq(Change)
    BY <1>1 DEF Work
  <2>2. /\ Len(work[c].made) \in Nat
        /\ DOMAIN work[c].made = 1 .. Len(work[c].made)
        /\ \A i \in 1 .. Len(work[c].made) : work[c].made[i] \in Change
    BY <2>1, LenProperties, ElementOfSeq
  <2>3. [i \in DOMAIN work[c].made |-> work[c].made[i].to] \in [1 .. Len(work[c].made) -> Value]
    BY <2>2 DEF Change
  <2> QED
    BY <2>2, <2>3, SeqDef, EmptySeq DEF Images
<1> QED
  BY <1>2, <1>3, <1>4

\* Every variable keeps its type: what is recorded of the document is a number or
\* its absence, and what is written down of a call names one of the verbs.
THEOREM TypeCorrect == Spec => []TypeOK
<1>1. Init => TypeOK
  BY RecordedTyped, ValuesTyped, RecordedAssumption DEF Init, TypeOK
<1>2. TypeOK /\ [Next]_vars => TypeOK'
  <2> SUFFICES ASSUME TypeOK, [Next]_vars PROVE TypeOK'
    OBVIOUS
  <2>1. ASSUME NEW c \in Callers, Call(c) PROVE TypeOK'
    <3>1. PICK v \in setup.verbs, by \in Amounts :
            /\ work' = [work EXCEPT ![c] = Begin(v, by)]
            /\ holding' = IF v = "give" THEN holding \ {c} ELSE holding
      BY <2>1 DEF Call
    <3>2. v \in Verbs /\ by \in Nat
      BY RecordedAssumption DEF TypeOK, Setup
    <3>3. started' \in 0 .. MaxCalls
      BY <2>1, RecordedAssumption DEF Call, TypeOK
    <3> QED
      BY <2>1, <3>1, <3>2, <3>3, RecordedTyped DEF Call, TypeOK
  <2>2. ASSUME NEW c \in Callers, Before(c) PROVE TypeOK'
    <3>1. [work[c] EXCEPT !.stage = "write", !.prev = doc, !.begun = SnapshotAt] \in Work
      <4>1. SnapshotAt \in Int /\ doc \in Value
        BY LenProperties DEF TypeOK, SnapshotAt
      <4> QED
        BY <4>1 DEF TypeOK, Work
    <3>2. work' = [work EXCEPT ![c] =
             [work[c] EXCEPT !.stage = "write", !.prev = doc, !.begun = SnapshotAt]]
      BY <2>2 DEF Before
    <3> QED
      BY <2>2, <3>1, <3>2 DEF Before, TypeOK
  <2>3. ASSUME NEW c \in Callers, Conflict(c) PROVE TypeOK'
    <3>1. work[c].verb \in Verbs /\ work[c].by \in Nat
      BY DEF TypeOK, Work
    <3> QED
      BY <2>3, <3>1, RecordedTyped DEF Conflict, TypeOK
  <2>4. ASSUME NEW c \in Callers, Write(c) PROVE TypeOK'
    <3>1. CASE Matches(c)
      <4>1. Apply(c, Written(c), "log")
        BY <2>4, <3>1 DEF Write
      <4> QED
        BY <2>4, <3>1, <4>1, WrittenTyped, ApplyTyped DEF Write, TypeOK
    <3>2. CASE ~Matches(c)
      <4>1. [work[c] EXCEPT !.stage = "log"] \in Work
        BY DEF TypeOK, Work
      <4>2. /\ \/ work' = [work EXCEPT ![c] = Idle]
               \/ work' = [work EXCEPT ![c] = [work[c] EXCEPT !.stage = "log"]]
            /\ UNCHANGED <<setup, doc, feed, trail, writer, loose, holding, started, history, acked>>
        BY <2>4, <3>2 DEF Write
      <4> QED
        BY <4>1, <4>2, RecordedTyped DEF TypeOK
    <3> QED
      BY <3>1, <3>2
  <2>5. ASSUME NEW c \in Callers, Upsert(c) PROVE TypeOK'
    <3>1. CASE doc # Absent
      <4>1. Apply(c, Written(c), "return") /\ Matches(c)
        BY <2>5, <3>1 DEF Upsert, Matches, Upserts
      <4> QED
        BY <2>5, <4>1, WrittenTyped, ApplyTyped DEF Upsert, TypeOK
    <3>2. CASE doc = Absent
      <4>1. [work[c] EXCEPT !.stage = "insert"] \in Work
        BY DEF TypeOK, Work
      <4> QED
        BY <2>5, <3>2, <4>1 DEF Upsert, TypeOK
    <3> QED
      BY <3>1, <3>2
  <2>6. ASSUME NEW c \in Callers, UpsertInserts(c) PROVE TypeOK'
    <3>1. Inserted(c) \in Value
      BY ValuesTyped DEF Inserted, TypeOK, Work
    <3> QED
      BY <2>6, <3>1, ApplyTyped DEF UpsertInserts, TypeOK
  <2>7. ASSUME NEW c \in Callers, UpsertCollides(c) PROVE TypeOK'
    <3>1. PICK next \in {"write", "idle"} : work' = [work EXCEPT ![c].stage = next]
      BY <2>7 DEF UpsertCollides, AfterCollision
    <3>2. [work[c] EXCEPT !.stage = next] \in Work
      BY DEF TypeOK, Work
    <3> QED
      BY <2>7, <3>1, <3>2 DEF UpsertCollides, TypeOK
  <2>8. ASSUME NEW c \in Callers, Log(c) PROVE TypeOK'
    <3>1. Images(c) \in Seq(Value) /\ feed \o Images(c) \in Seq(Value)
      BY EntriesTyped, ConcatProperties DEF TypeOK
    <3>2. /\ [work[c] EXCEPT !.stage = "audit"] \in Work
          /\ [work[c] EXCEPT !.stage = "audit", !.image = Images(c)] \in Work
      BY <3>1 DEF TypeOK, Work
    <3>3. /\ \/ work' = [work EXCEPT ![c] = [work[c] EXCEPT !.stage = "audit"]]
             \/ work' = [work EXCEPT ![c] = [work[c] EXCEPT !.stage = "audit", !.image = Images(c)]]
          /\ feed' \in {feed, feed \o Images(c)}
      BY <2>8 DEF Log
    <3> QED
      BY <2>8, <3>1, <3>2, <3>3 DEF Log, TypeOK
  <2>9. ASSUME NEW c \in Callers, Audit(c) PROVE TypeOK'
    <3>1. /\ Entries(c) \in Seq(Entry) /\ trail \o Entries(c) \in Seq(Entry)
          /\ loose[c] \o Entries(c) \in Seq(Entry)
      BY EntriesTyped, ConcatProperties DEF TypeOK
    <3>2. PICK entry \in Seq(Entry) :
            work' = [work EXCEPT ![c] = [work[c] EXCEPT !.stage = "return", !.entry = entry]]
      BY <2>9, <3>1, EmptySeq DEF Audit
    <3>3. [work[c] EXCEPT !.stage = "return", !.entry = entry] \in Work
      BY DEF TypeOK, Work
    <3>4. /\ trail' \in {trail, trail \o Entries(c)}
          /\ loose' \in {loose, [loose EXCEPT ![c] = loose[c] \o Entries(c)]}
      BY <2>9 DEF Audit
    <3> QED
      BY <2>9, <3>1, <3>2, <3>3, <3>4 DEF Audit, TypeOK
  <2>10. ASSUME NEW c \in Callers, Deliver(c) PROVE TypeOK'
    <3>1. loose[c] \in Seq(Entry) /\ loose[c] # <<>> /\ trail \in Seq(Entry)
      BY <2>10 DEF Deliver, TypeOK
    <3>2. Head(loose[c]) \in Entry /\ Tail(loose[c]) \in Seq(Entry)
      BY <3>1, HeadTailProperties
    <3>3. Append(trail, Head(loose[c])) \in Seq(Entry)
      BY <3>1, <3>2, AppendProperties
    <3> QED
      BY <2>10, <3>1, <3>2, <3>3 DEF Deliver, TypeOK
  <2>11. ASSUME NEW c \in Callers, Return(c) PROVE TypeOK'
    <3>1. /\ work[c].verb \in Verbs /\ work[c].by \in Nat /\ work[c].made \in Seq(Change)
          /\ work[c].image \in Seq(Value) /\ work[c].entry \in Seq(Entry)
      BY DEF TypeOK, Work
    <3>2. /\ feed \o work[c].image \in Seq(Value) /\ trail \o work[c].entry \in Seq(Entry)
          /\ history \o work[c].made \in Seq(Change)
      BY <3>1, ConcatProperties DEF TypeOK
    <3>3. [verb |-> work[c].verb, by |-> work[c].by, made |-> work[c].made] \in Answer
      BY <3>1 DEF Answer
    <3>4. Append(acked, [verb |-> work[c].verb, by |-> work[c].by, made |-> work[c].made]) \in Seq(Answer)
      BY <3>3, AppendProperties DEF TypeOK
    <3>5. work[c].made # <<>> => work[c].made[1].to \in Value
      <4>1. work[c].made # <<>> => Len(work[c].made) \in Nat \ {0}
        BY <3>1, EmptySeq
      <4>2. work[c].made # <<>> => work[c].made[1] \in Change
        BY <3>1, <4>1, ElementOfSeq
      <4> QED
        BY <4>2 DEF Change
    <3>6. doc' \in Value /\ history' \in Seq(Change) /\ writer' \in Callers \cup {None}
      BY <2>11, <3>2, <3>5 DEF Return, TypeOK
    <3>7. work' \in [Callers -> Work]
      BY <2>11, RecordedTyped DEF Return, TypeOK
    <3> QED
      BY <2>11, <3>2, <3>4, <3>6, <3>7 DEF Return, TypeOK
  <2>12. ASSUME NEW c \in Callers, Reject(c) PROVE TypeOK'
    BY <2>12, RecordedTyped DEF Reject, RolledBack, TypeOK
  <2>13. ASSUME NEW c \in Callers, Crash(c) PROVE TypeOK'
    <3>1. [Idle EXCEPT !.stage = "dead"] \in Work
      BY RecordedTyped DEF Work
    <3> QED
      BY <2>13, <3>1, EmptySeq DEF Crash, RolledBack, TypeOK
  <2>14. CASE UNCHANGED vars
    BY <2>14 DEF vars, TypeOK
  <2> QED
    BY <2>1, <2>2, <2>3, <2>4, <2>5, <2>6, <2>7, <2>8, <2>9, <2>10, <2>11, <2>12, <2>13, <2>14 DEF Next
<1> QED
  BY <1>1, <1>2, PTL DEF Spec

-----------------------------------------------------------------------------
(* Counting in sequences                                                    *)

\* How many elements of the sequence s are in the set P.
Count(s, P) == Cardinality({i \in DOMAIN s : s[i] \in P})

LEMMA CountTyped ==
  ASSUME NEW S, NEW s \in Seq(S), NEW P
  PROVE  Count(s, P) \in Nat
<1>1. DOMAIN s = 1 .. Len(s) /\ Len(s) \in Nat
  BY LenProperties
<1>2. IsFiniteSet(1 .. Len(s)) /\ {i \in DOMAIN s : s[i] \in P} \in SUBSET (1 .. Len(s))
  BY <1>1, FS_Interval
<1> QED
  BY <1>2, FS_Subset, FS_CardinalityType DEF Count

\* One more element counts for one if it is in the set.
LEMMA CountAppend ==
  ASSUME NEW S, NEW s \in Seq(S), NEW e \in S, NEW P
  PROVE  Count(Append(s, e), P) = Count(s, P) + (IF e \in P THEN 1 ELSE 0)
<1> DEFINE at(t) == {i \in DOMAIN t : t[i] \in P}
<1>1. /\ Len(s) \in Nat /\ DOMAIN s = 1 .. Len(s)
      /\ DOMAIN Append(s, e) = 1 .. Len(s) + 1
      /\ \A i \in 1 .. Len(s) : Append(s, e)[i] = s[i]
      /\ Append(s, e)[Len(s) + 1] = e
  BY LenProperties, AppendProperties
<1>2. at(Append(s, e)) = at(s) \cup (IF e \in P THEN {Len(s) + 1} ELSE {})
  BY <1>1
<1>3. IsFiniteSet(at(s)) /\ Cardinality(at(s)) \in Nat
  <2>1. IsFiniteSet(1 .. Len(s)) /\ at(s) \in SUBSET (1 .. Len(s))
    BY <1>1, FS_Interval
  <2> QED
    BY <2>1, FS_Subset, FS_CardinalityType
<1>4. Len(s) + 1 \notin at(s)
  BY <1>1
<1>7. Count(s, P) = Cardinality(at(s)) /\ Count(Append(s, e), P) = Cardinality(at(Append(s, e)))
  BY DEF Count
<1> HIDE DEF at
<1>5. CASE e \in P
  <2>1. at(Append(s, e)) = at(s) \cup {Len(s) + 1}
    BY <1>2, <1>5
  <2>2. Cardinality(at(s) \cup {Len(s) + 1}) = Cardinality(at(s)) + 1
    BY <1>3, <1>4, FS_AddElement
  <2> QED
    BY <1>5, <1>7, <2>1, <2>2
<1>6. CASE e \notin P
  BY <1>2, <1>3, <1>6, <1>7
<1> QED
  BY <1>5, <1>6

\* A sequence of at most one element.
LEMMA OneAtMost ==
  ASSUME NEW S, NEW t \in Seq(S), Len(t) <= 1
  PROVE  t = <<>> \/ (Len(t) = 1 /\ DOMAIN t = 1 .. 1 /\ t[1] \in S /\ t = <<t[1]>>)
<1> SUFFICES ASSUME t # <<>> PROVE Len(t) = 1 /\ DOMAIN t = 1 .. 1 /\ t[1] \in S /\ t = <<t[1]>>
  OBVIOUS
<1>1. Len(t) = 1
  <2>1. Len(t) \in Nat \ {0}
    BY EmptySeq
  <2> QED
    BY <2>1
<1>2. DOMAIN t = 1 .. 1 /\ t[1] \in S
  BY <1>1, LenProperties, ElementOfSeq
<1>3. t = <<t[1]>>
  BY <1>1, <1>2, SeqEqual
<1> QED
  BY <1>1, <1>2, <1>3

\* The same for the concatenation of at most one element.
LEMMA CountConcat ==
  ASSUME NEW S, NEW s \in Seq(S), NEW t \in Seq(S), Len(t) <= 1, NEW P
  PROVE  Count(s \o t, P) = Count(s, P) + (IF t # <<>> /\ t[1] \in P THEN 1 ELSE 0)
<1>1. CASE t = <<>>
  BY <1>1, ConcatEmptySeq, CountTyped
<1>2. CASE t # <<>>
  <2>1. t[1] \in S /\ t = <<t[1]>>
    BY <1>2, OneAtMost
  <2>2. s \o t = Append(s, t[1])
    BY <2>1, AppendIsConcat
  <2> QED
    BY <1>2, <2>1, <2>2, CountAppend
<1> QED
  BY <1>1, <1>2

-----------------------------------------------------------------------------
(***************************************************************************)
(* What every other invariant rests on: a caller's record says what it has *)
(* written, which hooks ran, and, in transactions, that nobody else has    *)
(* written the document since.                                             *)
(***************************************************************************)

Hooks == {"log", "audit", "return"}

CallerInv(c) ==
  LET w == work[c] IN
  /\ w.stage \notin {"idle", "dead"} => w.verb \in setup.verbs /\ w.by \in Amounts
  /\ w.stage \in {"log", "audit"} => w.verb \notin Upserts
  /\ w.stage = "insert" => w.verb \in Upserts
  /\ Len(w.made) <= 1
  /\ w.made # <<>> => w.stage \in Hooks /\ w.made[1].verb = w.verb
  /\ setup.bound => (w.made # <<>> <=> writer = c)
  /\ setup.bound /\ w.made # <<>> => w.made[1].from = doc
  /\ w.image = IF setup.bound /\ w.stage \in {"audit", "return"} THEN Images(c) ELSE <<>>
  /\ w.entry = IF setup.bound /\ Awaited /\ w.stage = "return" THEN Entries(c) ELSE <<>>

WorkInv == \A c \in Callers : CallerInv(c)

\* In transactions every verb is a captured one.
LEMMA BoundVerbs ==
  ASSUME TypeOK, setup.bound, NEW v \in setup.verbs
  PROVE  v \in Captured /\ v \notin Upserts /\ v # "take" /\ v # "give"
  BY RecordedAssumption DEF TypeOK, Captured, Updating, Operators, Upserts

\* A caller that a step leaves alone.
LEMMA CallerKept ==
  ASSUME NEW d \in Callers, CallerInv(d), setup' = setup, work'[d] = work[d],
         setup.bound => (writer' = d <=> writer = d) /\ (writer = d => doc' = doc)
  PROVE  CallerInv(d)'
<1>1. Images(d)' = Images(d) /\ Entries(d)' = Entries(d) /\ Awaited' = Awaited
  BY DEF Images, Entries, Diff, Awaited
<1> QED
  BY <1>1 DEF CallerInv

\* A caller that has not written, or has forgotten that it did.
LEMMA FreshCaller ==
  ASSUME NEW c \in Callers, setup' = setup, work'[c].stage \notin Hooks,
         work'[c].stage \notin {"idle", "dead"} =>
           work'[c].verb \in setup.verbs /\ work'[c].by \in Amounts,
         work'[c].stage = "insert" => work'[c].verb \in Upserts,
         work'[c].made = <<>>, work'[c].image = <<>>, work'[c].entry = <<>>,
         setup.bound => writer' # c
  PROVE  CallerInv(c)'
  BY EmptySeq DEF CallerInv, Hooks

\* What the images of a call are, written out.
LEMMA ImagesAre ==
  ASSUME TypeOK, NEW c \in Callers, Len(work[c].made) <= 1
  PROVE  Images(c) = IF work[c].verb \in Captured /\ work[c].made # <<>>
                     THEN <<work[c].made[1].to>> ELSE <<>>
<1>1. work[c].made \in Seq(Change)
  BY DEF TypeOK, Work
<1>2. CASE work[c].made = <<>>
  BY <1>2 DEF Images
<1>3. CASE work[c].made # <<>> /\ work[c].verb \in Captured
  <2>1. DOMAIN work[c].made = 1 .. 1 /\ work[c].made[1] \in Change
    BY <1>1, <1>3, OneAtMost
  <2>2. Images(c) \in Seq(Value) /\ Images(c) = [i \in 1 .. 1 |-> work[c].made[i].to]
    BY <2>1, <1>3, EntriesTyped DEF Images
  <2>3. Len(Images(c)) = 1 /\ Images(c)[1] = work[c].made[1].to
    BY <2>2, LenProperties
  <2>4. work[c].made[1].to \in Value
    BY <2>1 DEF Change
  <2> QED
    BY <1>3, <2>2, <2>3, <2>4, SeqEqual
<1> QED
  BY <1>2, <1>3 DEF Images

\* A statement that wrote: its caller has its change, and the document with it.
LEMMA ApplyKeepsWork ==
  ASSUME TypeOK, WorkInv, NEW c \in Callers, NEW n, NEW next \in {"log", "return"},
         Apply(c, n, next), setup' = setup,
         work[c].stage \in {"write", "insert"},
         next = "log" <=> work[c].verb \notin Upserts,
         ~Conflicting(c)
  PROVE  WorkInv'
<1> DEFINE change == [verb |-> work[c].verb, from |-> doc, to |-> n]
<1>1. work'[c] = [work[c] EXCEPT !.stage = next, !.made = <<change>>]
  BY DEF Apply, TypeOK
<1>2. \A d \in Callers \ {c} : work'[d] = work[d]
  BY DEF Apply, TypeOK
<1>3. /\ work'[c].stage = next /\ work'[c].made = <<change>> /\ work'[c].verb = work[c].verb
      /\ work'[c].by = work[c].by /\ work'[c].image = work[c].image /\ work'[c].entry = work[c].entry
  BY <1>1 DEF TypeOK, Work
<1>4. /\ work[c].image = <<>> /\ work[c].entry = <<>>
      /\ work[c].verb \in setup.verbs /\ work[c].by \in Amounts
  BY DEF WorkInv, CallerInv
<1>5. setup.bound => writer = None /\ writer' = c /\ doc' = doc /\ next = "log"
  BY <1>4, BoundVerbs DEF Apply, Conflicting
<1>6. CallerInv(c)'
  <2>1. Len(<<change>>) = 1 /\ <<change>> # <<>> /\ <<change>>[1] = change
    OBVIOUS
  <2> HIDE DEF change
  <2>2. change.verb = work[c].verb /\ change.from = doc
    BY DEF change
  <2>3. next \in Hooks /\ next # "audit" /\ (setup.bound => next # "return")
    BY <1>5 DEF Hooks
  <2> QED
    BY <1>3, <1>4, <1>5, <2>1, <2>2, <2>3 DEF CallerInv
<1>7. ASSUME NEW d \in Callers \ {c} PROVE CallerInv(d)'
  <2>1. setup.bound => writer # d /\ writer' # d
    BY <1>5, RecordedAssumption
  <2> QED
    BY <1>2, <2>1, CallerKept DEF WorkInv
<1> QED
  BY <1>6, <1>7 DEF WorkInv

\* A step of c that makes it a fresh caller and leaves the other transactions alone.
LEMMA FreshKeepsWork ==
  ASSUME TypeOK, WorkInv, NEW c \in Callers, setup' = setup,
         NEW w, work' = [work EXCEPT ![c] = w],
         w.stage \notin Hooks,
         w.stage \notin {"idle", "dead"} => w.verb \in setup.verbs /\ w.by \in Amounts,
         w.stage = "insert" => w.verb \in Upserts,
         w.made = <<>>, w.image = <<>>, w.entry = <<>>,
         setup.bound => writer' # c,
         \A d \in Callers \ {c} :
            setup.bound => (writer' = d <=> writer = d) /\ (writer = d => doc' = doc)
  PROVE  WorkInv'
<1>1. work'[c] = w /\ \A d \in Callers \ {c} : work'[d] = work[d]
  BY DEF TypeOK
<1>2. CallerInv(c)'
  BY <1>1, FreshCaller
<1>3. \A d \in Callers \ {c} : CallerInv(d)'
  BY <1>1, CallerKept DEF WorkInv
<1> QED
  BY <1>2, <1>3 DEF WorkInv

LEMMA WorkInvInductive == TypeOK /\ WorkInv /\ [Next]_vars => WorkInv'
<1> SUFFICES ASSUME TypeOK, WorkInv, [Next]_vars PROVE WorkInv'
  OBVIOUS
<1>0. ASSUME NEW c \in Callers
      PROVE  /\ work[c] \in Work /\ CallerInv(c) /\ c # None
             /\ work[c].stage \notin Hooks =>
                  /\ work[c].made = <<>> /\ work[c].image = <<>> /\ work[c].entry = <<>>
                  /\ setup.bound => writer # c
  BY RecordedAssumption DEF TypeOK, WorkInv, CallerInv, Hooks
<1>1. ASSUME NEW c \in Callers, Call(c) PROVE WorkInv'
  <2>1. PICK v \in setup.verbs, by \in Amounts : work' = [work EXCEPT ![c] = Begin(v, by)]
    BY <1>1 DEF Call
  <2>2. /\ Begin(v, by).stage \in {"before", "write"} /\ Begin(v, by).verb = v
        /\ Begin(v, by).by = by /\ Begin(v, by).made = <<>>
        /\ Begin(v, by).image = <<>> /\ Begin(v, by).entry = <<>>
    BY DEF Begin, Idle, FirstStage
  <2>3. work[c].stage = "idle" /\ UNCHANGED <<setup, writer, doc>>
    BY <1>1 DEF Call
  <2> QED
    BY <1>0, <2>1, <2>2, <2>3, FreshKeepsWork DEF Hooks
<1>2. ASSUME NEW c \in Callers, Before(c) PROVE WorkInv'
  <2> DEFINE w == [work[c] EXCEPT !.stage = "write", !.prev = doc, !.begun = SnapshotAt]
  <2>1. /\ work' = [work EXCEPT ![c] = w] /\ work[c].stage = "before"
        /\ UNCHANGED <<setup, writer, doc>>
    BY <1>2 DEF Before
  <2>2. /\ w.stage = "write" /\ w.verb = work[c].verb /\ w.by = work[c].by
        /\ w.made = work[c].made /\ w.image = work[c].image /\ w.entry = work[c].entry
    BY <1>0 DEF Work
  <2> HIDE DEF w
  <2>3. w.verb \in setup.verbs /\ w.by \in Amounts
    BY <1>0, <2>1, <2>2 DEF CallerInv
  <2> QED
    BY <1>0, <2>1, <2>2, <2>3, FreshKeepsWork DEF Hooks
<1>3. ASSUME NEW c \in Callers, Conflict(c) PROVE WorkInv'
  <2> DEFINE w == Begin(work[c].verb, work[c].by)
  <2>1. /\ work' = [work EXCEPT ![c] = w] /\ work[c].stage = "write"
        /\ UNCHANGED <<setup, writer, doc>>
    BY <1>3 DEF Conflict
  <2>2. /\ w.stage \in {"before", "write"} /\ w.verb = work[c].verb /\ w.by = work[c].by
        /\ w.made = <<>> /\ w.image = <<>> /\ w.entry = <<>>
    BY DEF Begin, Idle, FirstStage
  <2> HIDE DEF w
  <2>3. w.verb \in setup.verbs /\ w.by \in Amounts
    BY <1>0, <2>1, <2>2 DEF CallerInv
  <2> QED
    BY <1>0, <2>1, <2>2, <2>3, FreshKeepsWork DEF Hooks
<1>4. ASSUME NEW c \in Callers, Write(c) PROVE WorkInv'
  <2>1. CASE Matches(c)
    BY <1>4, <2>1, ApplyKeepsWork DEF Write
  <2>2. CASE ~Matches(c) /\ work[c].verb = "create"
    <3>1. work' = [work EXCEPT ![c] = Idle] /\ work[c].stage = "write" /\ UNCHANGED <<setup, writer, doc>>
      BY <1>4, <2>2 DEF Write
    <3>2. /\ Idle.stage = "idle" /\ Idle.made = <<>>
          /\ Idle.image = <<>> /\ Idle.entry = <<>>
      BY DEF Idle
    <3> QED
      BY <1>0, <3>1, <3>2, FreshKeepsWork DEF Hooks
  <2>3. CASE ~Matches(c) /\ work[c].verb # "create"
    <3>1. /\ work' = [work EXCEPT ![c] = [work[c] EXCEPT !.stage = "log"]]
          /\ work[c].stage = "write" /\ work[c].verb \notin Upserts
          /\ UNCHANGED <<setup, writer, doc>>
      BY <1>4, <2>3 DEF Write
    <3>2. CallerInv(c)'
      <4>1. /\ work'[c].stage = "log" /\ work'[c].verb = work[c].verb /\ work'[c].by = work[c].by
            /\ work'[c].made = <<>> /\ work'[c].image = <<>> /\ work'[c].entry = <<>>
        BY <1>0, <3>1 DEF TypeOK, Work, Hooks
      <4>2. work[c].verb \in setup.verbs /\ work[c].by \in Amounts /\ (setup.bound => writer # c)
        BY <1>0, <3>1 DEF CallerInv, Hooks
      <4> QED
        BY <3>1, <4>1, <4>2, EmptySeq DEF CallerInv
    <3>3. \A d \in Callers \ {c} : CallerInv(d)'
      BY <1>0, <3>1, CallerKept DEF TypeOK
    <3> QED
      BY <3>2, <3>3 DEF WorkInv
  <2> QED
    BY <2>1, <2>2, <2>3
<1>5. ASSUME NEW c \in Callers, Upsert(c) \/ UpsertInserts(c) PROVE WorkInv'
  <2>1. work[c].stage \in {"write", "insert"} /\ work[c].verb \in setup.verbs /\ work[c].by \in Amounts
    BY <1>0, <1>5 DEF Upsert, UpsertInserts, CallerInv
  <2>2. work[c].verb \in Upserts
    BY <1>0, <1>5, <2>1, BoundVerbs DEF Upsert, UpsertInserts, CallerInv
  <2>3. ~setup.bound
    BY <2>1, <2>2, BoundVerbs
  <2>4. CASE \E n : Apply(c, n, "return")
    BY <1>5, <2>1, <2>2, <2>3, <2>4, ApplyKeepsWork DEF Upsert, UpsertInserts, Conflicting
  <2>5. CASE work' = [work EXCEPT ![c].stage = "insert"]
    <3> DEFINE w == [work[c] EXCEPT !.stage = "insert"]
    <3>1. work' = [work EXCEPT ![c] = w] /\ setup' = setup
      BY <1>5, <2>5 DEF Upsert, UpsertInserts
    <3>2. /\ w.stage = "insert" /\ w.verb = work[c].verb /\ w.by = work[c].by
          /\ w.made = <<>> /\ w.image = <<>> /\ w.entry = <<>>
      BY <1>0, <2>1 DEF Work, Hooks
    <3> HIDE DEF w
    <3> QED
      BY <2>1, <2>2, <2>3, <3>1, <3>2, FreshKeepsWork DEF Hooks
  <2> QED
    BY <1>5, <2>4, <2>5 DEF Upsert, UpsertInserts
<1>6. ASSUME NEW c \in Callers, UpsertCollides(c) PROVE WorkInv'
  <2>1. PICK next \in {"write", "idle"} : work' = [work EXCEPT ![c].stage = next]
    BY <1>6 DEF UpsertCollides, AfterCollision
  <2> DEFINE w == [work[c] EXCEPT !.stage = next]
  <2>2. work' = [work EXCEPT ![c] = w] /\ work[c].stage = "insert" /\ UNCHANGED <<setup, writer, doc>>
    BY <1>6, <2>1 DEF UpsertCollides
  <2>3. /\ w.stage = next /\ w.verb = work[c].verb /\ w.by = work[c].by
        /\ w.made = <<>> /\ w.image = <<>> /\ w.entry = <<>>
    BY <1>0, <2>2 DEF Work, Hooks
  <2> HIDE DEF w
  <2>4. w.verb \in setup.verbs /\ w.by \in Amounts
    BY <1>0, <2>2, <2>3 DEF CallerInv
  <2> QED
    BY <1>0, <2>2, <2>3, <2>4, FreshKeepsWork DEF Hooks
<1>7. ASSUME NEW c \in Callers, Log(c) PROVE WorkInv'
  <2>1. /\ work[c].stage = "log" /\ UNCHANGED <<setup, writer, doc>>
        /\ work' = [work EXCEPT ![c] = IF setup.bound
             THEN [work[c] EXCEPT !.stage = "audit", !.image = Images(c)]
             ELSE [work[c] EXCEPT !.stage = "audit"]]
    BY <1>7 DEF Log, Joins
  <2>2. /\ work'[c].stage = "audit" /\ work'[c].verb = work[c].verb /\ work'[c].by = work[c].by
        /\ work'[c].made = work[c].made /\ work'[c].entry = work[c].entry
        /\ work'[c].image = IF setup.bound THEN Images(c) ELSE work[c].image
    BY <2>1, <1>0 DEF TypeOK, Work
  <2>3. Images(c)' = Images(c)
    BY <2>2 DEF Images
  <2>4. CallerInv(c)'
    BY <1>0, <2>1, <2>2, <2>3 DEF CallerInv, Hooks
  <2>5. \A d \in Callers \ {c} : CallerInv(d)'
    BY <1>0, <2>1, CallerKept DEF TypeOK
  <2> QED
    BY <2>4, <2>5 DEF WorkInv
<1>8. ASSUME NEW c \in Callers, Audit(c) PROVE WorkInv'
  <2>1. /\ work[c].stage = "audit" /\ UNCHANGED <<setup, writer, doc>>
        /\ work' = [work EXCEPT ![c] = [work[c] EXCEPT !.stage = "return",
             !.entry = IF Awaited /\ setup.bound THEN Entries(c) ELSE <<>>]]
    BY <1>8 DEF Audit
  <2>2. /\ work'[c].stage = "return" /\ work'[c].verb = work[c].verb /\ work'[c].by = work[c].by
        /\ work'[c].made = work[c].made /\ work'[c].image = work[c].image
        /\ work'[c].entry = IF Awaited /\ setup.bound THEN Entries(c) ELSE <<>>
        /\ work'[c].prev = work[c].prev
    BY <2>1, <1>0 DEF TypeOK, Work
  <2>3. Images(c)' = Images(c) /\ Entries(c)' = Entries(c) /\ Awaited' = Awaited
    BY <2>1, <2>2 DEF Images, Entries, Diff, Awaited
  <2>4. CallerInv(c)'
    BY <1>0, <2>1, <2>2, <2>3 DEF CallerInv, Hooks
  <2>5. \A d \in Callers \ {c} : CallerInv(d)'
    BY <1>0, <2>1, CallerKept DEF TypeOK
  <2> QED
    BY <2>4, <2>5 DEF WorkInv
<1>9. ASSUME NEW c \in Callers, Deliver(c) \/ UNCHANGED vars PROVE WorkInv'
  BY <1>0, <1>9, CallerKept DEF Deliver, vars, WorkInv
<1>10. ASSUME NEW c \in Callers, Return(c) \/ Reject(c) \/ Crash(c) PROVE WorkInv'
  <2>1. PICK w \in {Idle, [Idle EXCEPT !.stage = "dead"]} :
          work' = [work EXCEPT ![c] = w] /\ setup' = setup
    BY <1>10 DEF Return, Reject, Crash
  <2>2. /\ w.stage \in {"idle", "dead"}
        /\ w.made = <<>> /\ w.image = <<>> /\ w.entry = <<>>
    BY DEF Idle
  <2>3. setup.bound => writer' # c
    <3>1. CASE Return(c)
      BY <1>0, <3>1 DEF Return, CallerInv
    <3>2. CASE Reject(c) \/ Crash(c)
      BY <1>0, <3>2 DEF Reject, Crash, RolledBack
    <3> QED
      BY <1>10, <3>1, <3>2
  <2>4. ASSUME NEW d \in Callers \ {c}, setup.bound
        PROVE  (writer' = d <=> writer = d) /\ (writer = d => doc' = doc)
    <3>1. CASE Return(c) /\ work[c].made # <<>>
      BY <1>0, <2>4, <3>1 DEF Return, CallerInv
    <3>2. CASE Return(c) /\ work[c].made = <<>>
      BY <3>2 DEF Return
    <3>3. CASE Reject(c) \/ Crash(c)
      BY <1>0, <3>3 DEF Reject, Crash, RolledBack
    <3> QED
      BY <1>10, <3>1, <3>2, <3>3
  <2> QED
    BY <2>1, <2>2, <2>3, <2>4, FreshKeepsWork DEF Hooks
<1>11. CASE UNCHANGED vars
  BY <1>0, <1>11, CallerKept DEF vars, WorkInv
<1> QED
  BY <1>1, <1>2, <1>3, <1>4, <1>5, <1>6, <1>7, <1>8, <1>9, <1>10, <1>11 DEF Next

\* The record of a caller agrees with what it has written, whatever the others did.
THEOREM WorkInvariant == Spec => []WorkInv
<1>1. Init => WorkInv
  BY EmptySeq, RecordedAssumption DEF Init, WorkInv, CallerInv, Idle
<1> QED
  BY <1>1, WorkInvInductive, TypeCorrect, PTL DEF Spec

-----------------------------------------------------------------------------
(* The change log in transactions                                           *)

\* In transactions only the return of a call touches the collections, and what it
\* commits is one change with its image, or nothing.
LEMMA BoundStep ==
  ASSUME TypeOK, WorkInv, setup.bound, [Next]_vars
  PROVE  \/ UNCHANGED <<setup, doc, feed, history, acked>>
         \/ \E c \in Callers :
              /\ Return(c) /\ work[c].made = <<>> /\ work[c].image = <<>>
              /\ UNCHANGED <<setup, doc, feed, history>>
         \/ \E c \in Callers :
              /\ Return(c) /\ work[c].made = <<work[c].made[1]>>
              /\ work[c].made[1] \in Change /\ work[c].made[1].from = doc
              /\ work[c].made[1].verb = work[c].verb /\ work[c].verb \in Captured
              /\ UNCHANGED setup
              /\ doc' = work[c].made[1].to
              /\ history' = Append(history, work[c].made[1])
              /\ feed' = Append(feed, work[c].made[1].to)
<1>1. ASSUME NEW c \in Callers, Call(c) \/ Before(c) \/ Conflict(c) \/ UpsertCollides(c)
                                \/ Audit(c) \/ Deliver(c) \/ Reject(c) \/ Crash(c)
      PROVE  UNCHANGED <<setup, doc, feed, history, acked>>
  BY <1>1 DEF Call, Before, Conflict, UpsertCollides, Audit, Deliver, Reject, Crash
<1>2. ASSUME NEW c \in Callers, Write(c) \/ Log(c)
      PROVE  UNCHANGED <<setup, doc, feed, history, acked>>
  BY <1>2 DEF Write, Apply, Log, Joins
<1>3. ASSUME NEW c \in Callers, Upsert(c) \/ UpsertInserts(c) PROVE FALSE
  <2>1. work[c].verb \in setup.verbs /\ work[c].verb \in Upserts
    BY <1>3 DEF Upsert, UpsertInserts, WorkInv, CallerInv
  <2> QED
    BY <2>1, BoundVerbs
<1>4. ASSUME NEW c \in Callers, Return(c)
      PROVE  \/ /\ work[c].made = <<>> /\ work[c].image = <<>>
                /\ UNCHANGED <<setup, doc, feed, history>>
             \/ /\ work[c].made = <<work[c].made[1]>>
                /\ work[c].made[1] \in Change /\ work[c].made[1].from = doc
                /\ work[c].made[1].verb = work[c].verb /\ work[c].verb \in Captured
                /\ UNCHANGED setup
                /\ doc' = work[c].made[1].to
                /\ history' = Append(history, work[c].made[1])
                /\ feed' = Append(feed, work[c].made[1].to)
  <2>1. /\ work[c].stage = "return" /\ work[c].made \in Seq(Change) /\ CallerInv(c)
        /\ feed \in Seq(Value) /\ history \in Seq(Change)
    BY <1>4 DEF Return, TypeOK, Work, WorkInv
  <2>2. /\ Len(work[c].made) <= 1 /\ work[c].verb \in setup.verbs
        /\ work[c].image = Images(c)
        /\ work[c].made # <<>> => work[c].made[1].from = doc /\ work[c].made[1].verb = work[c].verb
    BY <2>1 DEF CallerInv
  <2>3. work[c].verb \in Captured
    BY <2>2, BoundVerbs
  <2>4. /\ setup' = setup /\ feed' = feed \o work[c].image
        /\ IF work[c].made # <<>>
           THEN doc' = work[c].made[1].to /\ history' = history \o work[c].made
           ELSE doc' = doc /\ history' = history
    BY <1>4 DEF Return
  <2>5. CASE work[c].made = <<>>
    <3>1. work[c].image = <<>>
      BY <2>2, <2>5, ImagesAre
    <3> QED
      BY <2>1, <2>4, <2>5, <3>1, ConcatEmptySeq
  <2>6. CASE work[c].made # <<>>
    <3>1. work[c].made[1] \in Change /\ work[c].made = <<work[c].made[1]>>
      BY <2>1, <2>2, <2>6, OneAtMost
    <3>2. work[c].image = <<work[c].made[1].to>> /\ work[c].made[1].to \in Value
      BY <2>2, <2>3, <2>6, <3>1, ImagesAre DEF Change
    <3>3. feed' = Append(feed, work[c].made[1].to)
      BY <2>1, <2>4, <3>2, AppendIsConcat
    <3>4. history' = Append(history, work[c].made[1])
      BY <2>1, <2>4, <2>6, <3>1, AppendIsConcat
    <3> QED
      BY <2>2, <2>3, <2>4, <2>6, <3>1, <3>3, <3>4
  <2> QED
    BY <2>5, <2>6
<1>5. CASE UNCHANGED vars
  BY <1>5 DEF vars
<1> QED
  BY <1>1, <1>2, <1>3, <1>4, <1>5 DEF Next

\* A replica that has applied the change log holds the document: the image of a write
\* is committed with the write, and writers of the document exclude one another.
THEOREM ReplicasAreCurrent == Spec => []ReplicaIsCurrent
<1>1. Init => ReplicaIsCurrent
  BY RecordedAssumption DEF Init, ReplicaIsCurrent, Setup, Upserts, Captured, Updating, Operators
<1>2. TypeOK /\ WorkInv /\ ReplicaIsCurrent /\ [Next]_vars => ReplicaIsCurrent'
  <2> SUFFICES ASSUME TypeOK, WorkInv, ReplicaIsCurrent, [Next]_vars, setup.bound, setup' = setup
               PROVE  ReplicaIsCurrent'
    BY DEF ReplicaIsCurrent, Next, vars, Call, Before, Conflict, Write, Upsert, UpsertInserts,
       UpsertCollides, Log, Audit, Deliver, Return, Reject, Crash
  <2>1. CASE UNCHANGED <<doc, feed>>
    BY <2>1 DEF ReplicaIsCurrent
  <2>2. ASSUME NEW n \in Value, doc' = n, feed' = Append(feed, n) PROVE ReplicaIsCurrent'
    <3>1. feed' # <<>> /\ feed'[Len(feed')] = n
      BY <2>2, AppendProperties DEF TypeOK
    <3> QED
      BY <2>2, <3>1 DEF ReplicaIsCurrent, Last
  <2> QED
    BY BoundStep, <2>1, <2>2 DEF Change
<1> QED
  BY <1>1, <1>2, TypeCorrect, WorkInvariant, PTL DEF Spec

-----------------------------------------------------------------------------
(***************************************************************************)
(* Updates is a recursive function of the length of a sequence.  That such *)
(* a function exists, and what it is of a sequence with one more element,  *)
(* is shown by the smallest length for which it is not so.                 *)
(***************************************************************************)

LEMMA LeastNat ==
  ASSUME NEW T \in SUBSET Nat, T # {}
  PROVE  \E m \in T : \A k \in T : m <= k
<1> DEFINE less == OpToRel(<, Nat)
<1>1. IsWellFoundedOn(less, Nat)
  BY NatLessThanWellFounded
<1>2. \A i, j \in Nat : i < j => <<i, j>> \in less
  BY DEF OpToRel
<1> HIDE DEF less
<1>3. PICK m \in T : \A k \in T : ~ (<<k, m>> \in less)
  BY <1>1, WFMin
<1>4. ASSUME NEW k \in T PROVE m <= k
  <2>1. ~(k < m)
    BY <1>2, <1>3
  <2> QED
    BY <2>1
<1> QED
  BY <1>4

\* One step of Updates, from the function f of the shorter lengths.
UpdatesStep(f, s, i) ==
  IF i = 0 THEN <<>> ELSE IF IsUpdate(s[i]) THEN Append(f[i - 1], s[i]) ELSE f[i - 1]

AreUpdates(f, s, n) == f = [i \in 0 .. n |-> UpdatesStep(f, s, i)]

LEMMA UpdatesExist ==
  ASSUME NEW s, NEW n \in Nat
  PROVE  \E f : AreUpdates(f, s, n)
<1> DEFINE T == {k \in Nat : ~ \E f : AreUpdates(f, s, k)}
<1> SUFFICES ASSUME T # {} PROVE FALSE
  OBVIOUS
<1>1. PICK m \in T : \A k \in T : m <= k
  BY LeastNat
<1>2. CASE m = 0
  <2>1. AreUpdates([i \in 0 .. 0 |-> <<>>], s, 0)
    BY DEF AreUpdates, UpdatesStep
  <2> QED
    BY <1>2, <2>1
<1>3. CASE m # 0
  <2>1. m - 1 \in Nat /\ m - 1 \notin T
    BY <1>1, <1>3
  <2>2. PICK f : AreUpdates(f, s, m - 1)
    BY <2>1
  <2> DEFINE g == [i \in 0 .. m |-> IF i = m THEN UpdatesStep(f, s, m) ELSE f[i]]
  <2>3. \A i \in 0 .. m - 1 : f[i] = UpdatesStep(f, s, i)
    BY <2>2 DEF AreUpdates
  <2>4. ASSUME NEW i \in 0 .. m PROVE g[i] = UpdatesStep(g, s, i)
    <3>1. CASE i = 0
      BY <3>1, <2>3, <1>3 DEF UpdatesStep
    <3>2. CASE i # 0
      <4>1. i - 1 \in 0 .. m /\ i - 1 # m /\ g[i - 1] = f[i - 1]
        BY <3>2, <1>1
      <4>2. UpdatesStep(g, s, i) = UpdatesStep(f, s, i)
        BY <3>2, <4>1 DEF UpdatesStep
      <4>3. g[i] = UpdatesStep(f, s, i)
        BY <2>3, <1>1
      <4> QED
        BY <4>2, <4>3
    <3> QED
      BY <3>1, <3>2
  <2>5. AreUpdates(g, s, m)
    BY <2>4 DEF AreUpdates
  <2> QED
    BY <2>5
<1> QED
  BY <1>2, <1>3

LEMMA UpdatesAre ==
  ASSUME NEW s, Len(s) \in Nat
  PROVE  \E f : AreUpdates(f, s, Len(s)) /\ Updates(s) = f[Len(s)]
<1> DEFINE f == CHOOSE f : AreUpdates(f, s, Len(s))
<1>1. AreUpdates(f, s, Len(s))
  BY UpdatesExist
<1>2. Updates(s) = f[Len(s)]
  BY DEF Updates, AreUpdates, UpdatesStep
<1> QED
  BY <1>1, <1>2

\* An entry at the end of a sequence is the last of its updates, if it is one.
LEMMA UpdatesAppend ==
  ASSUME NEW S, NEW s \in Seq(S), NEW e \in S
  PROVE  Updates(Append(s, e)) = IF IsUpdate(e) THEN Append(Updates(s), e) ELSE Updates(s)
<1> DEFINE n == Len(s)
<1> DEFINE t == Append(s, e)
<1>1. n \in Nat /\ Len(t) = n + 1 /\ (\A i \in 1 .. n : t[i] = s[i]) /\ t[n + 1] = e
  BY LenProperties, AppendProperties
<1> HIDE DEF n, t
<1>2. PICK f : AreUpdates(f, s, n) /\ Updates(s) = f[n]
  BY <1>1, UpdatesAre DEF n
<1>3. PICK g : AreUpdates(g, t, n + 1) /\ Updates(t) = g[n + 1]
  BY <1>1, UpdatesAre
<1>4. /\ \A i \in 0 .. n : f[i] = UpdatesStep(f, s, i)
      /\ \A i \in 0 .. n + 1 : g[i] = UpdatesStep(g, t, i)
  BY <1>2, <1>3 DEF AreUpdates
<1>5. \A i \in 0 .. n : f[i] = g[i]
  <2> DEFINE T == {i \in 0 .. n : f[i] # g[i]}
  <2> SUFFICES ASSUME T # {} PROVE FALSE
    OBVIOUS
  <2>1. PICK m \in T : \A k \in T : m <= k
    <3>1. T \in SUBSET Nat
      BY <1>1
    <3> QED
      BY <3>1, LeastNat
  <2>2. m # 0
    BY <1>1, <1>4, <2>1 DEF UpdatesStep
  <2>3. m - 1 \in 0 .. n /\ m \in 1 .. n /\ m - 1 \notin T
    BY <1>1, <2>1, <2>2
  <2>4. f[m - 1] = g[m - 1] /\ s[m] = t[m]
    BY <1>1, <2>3
  <2>5. f[m] = UpdatesStep(f, s, m) /\ g[m] = UpdatesStep(g, t, m)
    BY <1>1, <1>4, <2>3
  <2>6. f[m] = g[m]
    BY <2>2, <2>4, <2>5 DEF UpdatesStep
  <2> QED
    BY <2>1, <2>6
<1>6. g[n + 1] = IF IsUpdate(e) THEN Append(g[n], e) ELSE g[n]
  <2>1. g[n + 1] = UpdatesStep(g, t, n + 1) /\ n + 1 # 0 /\ (n + 1) - 1 = n
    BY <1>1, <1>4
  <2> QED
    BY <1>1, <2>1 DEF UpdatesStep
<1>7. f[n] = g[n]
  BY <1>1, <1>5
<1> QED
  BY <1>2, <1>3, <1>6, <1>7 DEF t

-----------------------------------------------------------------------------
(***************************************************************************)
(* The audit trail in transactions.  The value an update replaces was read *)
(* before the write, so that it is the right one needs an argument: the    *)
(* read took the transaction's snapshot, and a write since then conflicts. *)
(***************************************************************************)

SnapshotInv(c) ==
  LET w == work[c] IN
  w.verb = "update" =>
    /\ w.stage = "write" =>
         w.begun \in 0 .. Len(history) /\ (w.begun = Len(history) => w.prev = doc)
    /\ w.stage \in Hooks =>
         IF w.made = <<>> THEN w.prev = Absent
         ELSE w.prev = w.made[1].from /\ w.prev # Absent /\ w.made[1].to = w.by

SnapshotsInv == setup.bound => \A c \in Callers : SnapshotInv(c)

LooseInv == Awaited => \A c \in Callers : loose[c] = <<>>

LEMMA SetupFixed == [Next]_vars => setup' = setup
  BY DEF Next, vars, Call, Before, Conflict, Write, Upsert, UpsertInserts, UpsertCollides,
     Log, Audit, Deliver, Return, Reject, Crash

LEMMA LooseInductive == TypeOK /\ LooseInv /\ [Next]_vars => LooseInv'
<1> SUFFICES ASSUME TypeOK, LooseInv, [Next]_vars, Awaited, Awaited' PROVE LooseInv'
  BY SetupFixed DEF LooseInv, Awaited
<1>1. ASSUME NEW c \in Callers, Deliver(c) PROVE FALSE
  BY <1>1 DEF Deliver, LooseInv
<1>2. ASSUME NEW c \in Callers, Crash(c) PROVE LooseInv'
  BY <1>2 DEF Crash, LooseInv, TypeOK
<1>3. UNCHANGED loose => LooseInv'
  BY DEF LooseInv
<1>4. ASSUME NEW c \in Callers,
             Call(c) \/ Before(c) \/ Conflict(c) \/ Write(c) \/ Upsert(c) \/ UpsertInserts(c)
               \/ UpsertCollides(c) \/ Log(c) \/ Audit(c) \/ Return(c) \/ Reject(c)
      PROVE  UNCHANGED loose
  BY <1>4 DEF Call, Before, Conflict, Write, Upsert, UpsertInserts, UpsertCollides,
     Log, Audit, Return, Reject
<1>5. UNCHANGED vars => UNCHANGED loose
  BY DEF vars
<1> QED
  BY <1>1, <1>2, <1>3, <1>4, <1>5 DEF Next

\* A caller that a step leaves alone, whether or not it changes the document: then it
\* also adds to the history, and the snapshot is an old one.
LEMMA SnapshotKept ==
  ASSUME TypeOK, NEW d \in Callers, SnapshotInv(d), work'[d] = work[d],
         UNCHANGED <<doc, history>> \/ Len(history') = Len(history) + 1
  PROVE  SnapshotInv(d)'
<1>1. Len(history) \in Nat
  BY LenProperties DEF TypeOK
<1> QED
  BY <1>1 DEF SnapshotInv

LEMMA SnapshotsInductive == TypeOK /\ WorkInv /\ SnapshotsInv /\ [Next]_vars => SnapshotsInv'
<1> SUFFICES ASSUME TypeOK, WorkInv, SnapshotsInv, [Next]_vars, setup.bound, setup' = setup,
                    NEW d \in Callers
             PROVE  SnapshotInv(d)'
  BY SetupFixed DEF SnapshotsInv
<1>0. /\ SnapshotInv(d) /\ Len(history) \in Nat /\ work[d] \in Work /\ CallerInv(d)
      /\ UNCHANGED <<doc, history>> \/ Len(history') = Len(history) + 1
  <2>1. \A m \in Change : Len(Append(history, m)) = Len(history) + 1
    BY AppendProperties DEF TypeOK
  <2> QED
    BY <2>1, BoundStep, LenProperties DEF SnapshotsInv, TypeOK, WorkInv
<1>1. CASE work'[d] = work[d]
  BY <1>0, <1>1, SnapshotKept
<1>2. CASE Call(d) \/ Conflict(d)
  <2>1. PICK v \in Verbs, by \in Nat : work'[d] = Begin(v, by)
    BY <1>0, <1>2, RecordedAssumption DEF Call, Conflict, TypeOK, Setup, Work
  <2>2. Begin(v, by).verb = v /\ Begin(v, by).stage = FirstStage(v)
    BY DEF Begin, Idle
  <2> QED
    BY <2>1, <2>2 DEF SnapshotInv, FirstStage, Updating, Hooks
<1>3. CASE Before(d)
  <2>1. /\ work'[d] = [work[d] EXCEPT !.stage = "write", !.prev = doc, !.begun = SnapshotAt]
        /\ UNCHANGED <<doc, history>>
    BY <1>3 DEF Before, TypeOK
  <2>2. work'[d].stage = "write" /\ work'[d].prev = doc /\ work'[d].begun = Len(history)
    BY <1>0, <2>1 DEF Work, SnapshotAt
  <2> QED
    BY <1>0, <2>1, <2>2 DEF SnapshotInv, Hooks
<1>4. CASE Write(d)
  <2>1. work[d].stage = "write" /\ work[d].made = <<>> /\ ~Conflicting(d)
    BY <1>0, <1>4 DEF Write, CallerInv, Hooks
  <2>2. work[d].verb = "update" => work[d].prev = doc
    BY <1>0, <2>1 DEF SnapshotInv, Conflicting
  <2>3. CASE Matches(d)
    <3>1. Apply(d, Written(d), "log")
      BY <1>4, <2>3 DEF Write
    <3> DEFINE change == [verb |-> work[d].verb, from |-> doc, to |-> Written(d)]
    <3>2. work'[d] = [work[d] EXCEPT !.stage = "log", !.made = <<change>>]
      BY <3>1 DEF Apply, TypeOK
    <3>3. change.from = doc /\ change.to = Written(d)
      OBVIOUS
    <3> HIDE DEF change
    <3>4. /\ work'[d].stage = "log" /\ work'[d].verb = work[d].verb /\ work'[d].by = work[d].by
          /\ work'[d].prev = work[d].prev /\ work'[d].made = <<change>>
      BY <1>0, <3>2 DEF Work
    <3>5. work[d].verb = "update" => Written(d) = work[d].by /\ doc # Absent
      BY <2>3 DEF Written, Matches
    <3> QED
      BY <2>2, <3>3, <3>4, <3>5 DEF SnapshotInv
  <2>4. CASE ~Matches(d) /\ work[d].verb # "create"
    <3>1. work'[d] = [work[d] EXCEPT !.stage = "log"]
      BY <1>4, <2>4 DEF Write, TypeOK
    <3>2. /\ work'[d].stage = "log" /\ work'[d].verb = work[d].verb
          /\ work'[d].prev = work[d].prev /\ work'[d].made = <<>>
      BY <1>0, <2>1, <3>1 DEF Work
    <3>3. work[d].verb = "update" => doc = Absent
      BY <2>4 DEF Matches
    <3> QED
      BY <2>2, <3>2, <3>3 DEF SnapshotInv
  <2>5. CASE ~Matches(d) /\ work[d].verb = "create"
    BY <1>4, <2>5 DEF Write, TypeOK, Idle, SnapshotInv, Hooks
  <2> QED
    BY <2>3, <2>4, <2>5
<1>5. CASE Log(d) \/ Audit(d)
  <2>1. CASE Log(d)
    <3>1. work'[d] = IF setup.bound THEN [work[d] EXCEPT !.stage = "audit", !.image = Images(d)]
                     ELSE [work[d] EXCEPT !.stage = "audit"]
      BY <2>1 DEF Log, Joins, TypeOK
    <3>2. /\ work'[d].verb = work[d].verb /\ work'[d].prev = work[d].prev
          /\ work'[d].made = work[d].made /\ work'[d].by = work[d].by
          /\ work'[d].stage = "audit" /\ work[d].stage = "log"
      BY <1>0, <2>1, <3>1 DEF Work, Log
    <3>3. SnapshotInv(d) /\ work[d].stage \in Hooks /\ work'[d].stage \in Hooks
      BY <1>0, <3>2 DEF Hooks
    <3> QED
      BY <3>2, <3>3 DEF SnapshotInv
  <2>2. CASE Audit(d)
    <3>1. PICK entry : work'[d] = [work[d] EXCEPT !.stage = "return", !.entry = entry]
      BY <2>2 DEF Audit, TypeOK
    <3> QED
      <4>1. /\ work'[d].verb = work[d].verb /\ work'[d].prev = work[d].prev
            /\ work'[d].made = work[d].made /\ work'[d].by = work[d].by
            /\ work'[d].stage = "return"
        BY <1>0, <3>1 DEF Work
      <4>2. SnapshotInv(d) /\ work[d].stage \in Hooks /\ work'[d].stage \in Hooks
        BY <1>0, <2>2, <4>1 DEF Audit, Hooks
      <4> QED
        BY <4>1, <4>2 DEF SnapshotInv
  <2> QED
    BY <1>5, <2>1, <2>2
<1>6. CASE Return(d) \/ Reject(d) \/ Crash(d)
  BY <1>6 DEF Return, Reject, Crash, TypeOK, Idle, SnapshotInv, Hooks
<1>7. CASE Upsert(d) \/ UpsertInserts(d) \/ UpsertCollides(d)
  <2>1. work[d].verb \in setup.verbs /\ work[d].verb \in Upserts
    BY <1>0, <1>7 DEF Upsert, UpsertInserts, UpsertCollides, CallerInv
  <2> QED
    BY <2>1, BoundVerbs
<1>8. ASSUME NEW c \in Callers \ {d}, \/ Call(c) \/ Before(c) \/ Conflict(c) \/ Write(c)
             \/ Upsert(c) \/ UpsertInserts(c) \/ UpsertCollides(c)
             \/ Log(c) \/ Audit(c) \/ Return(c) \/ Reject(c) \/ Crash(c)
      PROVE  work'[d] = work[d]
  BY <1>8 DEF TypeOK, Call, Before, Conflict, Write, Apply, Upsert, UpsertInserts, UpsertCollides,
     Log, Audit, Return, Reject, Crash
<1>9. ASSUME NEW c \in Callers, Deliver(c) \/ UNCHANGED vars PROVE work'[d] = work[d]
  BY <1>9 DEF Deliver, vars
<1> QED
  BY <1>1, <1>2, <1>3, <1>4, <1>5, <1>6, <1>7, <1>8, <1>9 DEF Next

\* An entry and the change it is about are the same update, or neither is one.
LEMMA DiffIsChange ==
  ASSUME TypeOK, NEW c \in Callers, SnapshotInv(c), work[c].stage = "return",
         work[c].made = <<>> \/ (work[c].made[1] \in Change /\ work[c].made[1].verb = work[c].verb)
  PROVE  IF work[c].made = <<>> THEN ~IsUpdate(Diff(c))
         ELSE /\ IsUpdate(Diff(c)) <=> IsUpdate(work[c].made[1])
              /\ IsUpdate(Diff(c)) => Diff(c) = work[c].made[1]
<1>1. CASE work[c].verb # "update"
  BY <1>1 DEF Diff, IsUpdate
<1>2. CASE work[c].verb = "update" /\ work[c].made = <<>>
  BY <1>2 DEF SnapshotInv, Hooks, Diff, IsUpdate
<1>3. CASE work[c].verb = "update" /\ work[c].made # <<>>
  <2> DEFINE m == work[c].made[1]
  <2>1. /\ m \in Change /\ m.verb = "update" /\ m.from = work[c].prev /\ m.to = work[c].by
        /\ work[c].prev # Absent
    BY <1>3 DEF SnapshotInv, Hooks
  <2>2. m = [verb |-> "update", from |-> work[c].prev, to |-> work[c].by]
    BY <2>1 DEF Change
  <2>3. m.from # NoDiff
    BY <2>1, RecordedAssumption DEF Change, Value
  <2> HIDE DEF m
  <2>4. CASE work[c].prev = work[c].by
    BY <1>3, <2>1, <2>4 DEF Diff, IsUpdate, m
  <2>5. CASE work[c].prev # work[c].by
    BY <1>3, <2>1, <2>2, <2>5 DEF Diff, m
  <2> QED
    BY <2>4, <2>5
<1> QED
  BY <1>1, <1>2, <1>3

\* What the trail says of the updates is what happened to the document.
LEMMA AuditStep ==
  TypeOK /\ WorkInv /\ SnapshotsInv /\ LooseInv /\ AuditIsExact /\ [Next]_vars => AuditIsExact'
<1> SUFFICES ASSUME TypeOK, WorkInv, SnapshotsInv, LooseInv, [Next]_vars, setup.bound, Awaited,
                    Updates(trail) = Updates(history)
             PROVE  Updates(trail') = Updates(history')
  BY SetupFixed DEF AuditIsExact, Awaited, Updates
<1>1. ASSUME UNCHANGED <<trail, history>> PROVE Updates(trail') = Updates(history')
  BY <1>1
<1>2. ASSUME NEW c \in Callers, Return(c) PROVE Updates(trail') = Updates(history')
  <2>1. /\ work[c].stage = "return" /\ CallerInv(c) /\ SnapshotInv(c) /\ work[c].made \in Seq(Change)
        /\ trail \in Seq(Entry) /\ history \in Seq(Change)
    BY <1>2 DEF Return, WorkInv, SnapshotsInv, TypeOK, Work
  <2>2. work[c].verb \in Captured /\ work[c].verb # "take"
    BY <2>1, BoundVerbs DEF CallerInv
  <2>3. work[c].entry = <<Diff(c)>>
    BY <2>1, <2>2 DEF CallerInv, Entries
  <2>4. Diff(c) \in Entry
    BY EntriesTyped
  <2>5. trail' = Append(trail, Diff(c))
    BY <1>2, <2>1, <2>3, <2>4, AppendIsConcat DEF Return
  <2>6. Updates(trail') = IF IsUpdate(Diff(c)) THEN Append(Updates(trail), Diff(c)) ELSE Updates(trail)
    BY <2>1, <2>4, <2>5, UpdatesAppend
  <2>7. CASE work[c].made = <<>>
    <3>1. ~IsUpdate(Diff(c))
      BY <2>1, <2>7, DiffIsChange
    <3>2. history' = history
      BY <1>2, <2>7 DEF Return
    <3> QED
      BY <2>6, <3>1, <3>2
  <2>8. CASE work[c].made # <<>>
    <3>1. /\ work[c].made = <<work[c].made[1]>> /\ work[c].made[1] \in Change
          /\ work[c].made[1].verb = work[c].verb
      BY <2>1, <2>8, OneAtMost DEF CallerInv
    <3>2. history' = Append(history, work[c].made[1])
      BY <1>2, <2>1, <2>8, <3>1, AppendIsConcat DEF Return
    <3>3. Updates(history') = IF IsUpdate(work[c].made[1])
            THEN Append(Updates(history), work[c].made[1]) ELSE Updates(history)
      BY <2>1, <3>1, <3>2, UpdatesAppend
    <3>4. /\ IsUpdate(Diff(c)) <=> IsUpdate(work[c].made[1])
          /\ IsUpdate(Diff(c)) => Diff(c) = work[c].made[1]
      BY <2>1, <2>8, <3>1, DiffIsChange
    <3> QED
      BY <2>6, <3>3, <3>4
  <2> QED
    BY <2>7, <2>8
<1>3. ASSUME NEW c \in Callers, Upsert(c) \/ UpsertInserts(c) PROVE FALSE
  <2>1. work[c].verb \in setup.verbs /\ work[c].verb \in Upserts
    BY <1>3 DEF Upsert, UpsertInserts, WorkInv, CallerInv
  <2> QED
    BY <2>1, BoundVerbs
<1>4. ASSUME NEW c \in Callers, Deliver(c) PROVE FALSE
  BY <1>4 DEF Deliver, LooseInv
<1>5. ASSUME NEW c \in Callers, \/ Call(c) \/ Before(c) \/ Conflict(c) \/ Write(c)
             \/ UpsertCollides(c) \/ Log(c) \/ Audit(c) \/ Reject(c) \/ Crash(c)
      PROVE  UNCHANGED <<trail, history>>
  BY <1>5 DEF Call, Before, Conflict, Write, Apply, UpsertCollides, Log, Audit, Reject, Crash
<1>6. CASE UNCHANGED vars
  BY <1>6 DEF vars
<1> QED
  BY <1>1, <1>2, <1>3, <1>4, <1>5, <1>6 DEF Next

\* The before and after values of the audit trail are those of the committed updates.
THEOREM TrailIsExact == Spec => []AuditIsExact
<1>1. Init => SnapshotsInv /\ LooseInv /\ AuditIsExact
  BY DEF Init, SnapshotsInv, SnapshotInv, LooseInv, AuditIsExact, Idle, Hooks
<1>2. Spec => [](SnapshotsInv /\ LooseInv /\ AuditIsExact)
  BY <1>1, SnapshotsInductive, LooseInductive, AuditStep, TypeCorrect, WorkInvariant, PTL DEF Spec
<1> QED
  BY <1>2, PTL

-----------------------------------------------------------------------------
(***************************************************************************)
(* The change log and the trail, also outside a transaction.  Between a    *)
(* write and the answer to its call the entry is on its way: the callers   *)
(* that have written and not yet logged, and those that have logged and    *)
(* not yet returned, make up the differences between the three counts.     *)
(***************************************************************************)

\* What a step of c does to a set of callers that the others do not leave or join.
LEMMA CardChange ==
  ASSUME NEW S, NEW T, IsFiniteSet(S), IsFiniteSet(T), NEW c, S \ {c} = T \ {c}
  PROVE  /\ Cardinality(S) \in Nat /\ Cardinality(T) \in Nat
         /\ Cardinality(T) + (IF c \in S THEN 1 ELSE 0) = Cardinality(S) + (IF c \in T THEN 1 ELSE 0)
<1>1. Cardinality(S) \in Nat /\ Cardinality(T) \in Nat
  BY FS_CardinalityType
<1>2. Cardinality(S \ {c}) = IF c \in S THEN Cardinality(S) - 1 ELSE Cardinality(S)
  BY FS_RemoveElement
<1>3. Cardinality(T \ {c}) = IF c \in T THEN Cardinality(T) - 1 ELSE Cardinality(T)
  BY FS_RemoveElement
<1> QED
  BY <1>1, <1>2, <1>3

Wrote(c, n) ==
  work[c].verb \in Captured /\ work[c].made # <<>> /\ work[c].made[1].to = n

ToLog(n) == {c \in Callers : ~setup.bound /\ work[c].stage = "log" /\ Wrote(c, n)}

Logged(n) == {c \in Callers : ~setup.bound /\ work[c].stage \in {"audit", "return"} /\ Wrote(c, n)}

FeedInv(n) ==
  /\ Cardinality(AnnouncedAs(n)) + Cardinality(Logged(n)) <= Times(n, feed)
  /\ Times(n, feed) + Cardinality(ToLog(n)) <= Times(n, Values)

\* The three counts, as counts of elements.
AnswersOf(n) == {a \in Answer : a.verb \in Captured /\ a.made # <<>> /\ a.made[1].to = n}
ChangesTo(n) == {m \in Change : m.to = n}

LEMMA CountsOf ==
  ASSUME NEW a \in Seq(Answer), NEW f \in Seq(Value), NEW h \in Seq(Change), NEW n
  PROVE  /\ Cardinality({i \in {j \in DOMAIN a : a[j].verb \in Captured /\ a[j].made # <<>>} :
                         a[i].made[1].to = n}) = Count(a, AnswersOf(n))
         /\ Times(n, f) = Count(f, {n})
         /\ Times(n, [i \in DOMAIN h |-> h[i].to]) = Count(h, ChangesTo(n))
<1>1. /\ \A i \in DOMAIN a : a[i] \in Answer
      /\ \A i \in DOMAIN h : h[i] \in Change
  BY LenProperties, ElementOfSeq
<1>2. {i \in {j \in DOMAIN a : a[j].verb \in Captured /\ a[j].made # <<>>} : a[i].made[1].to = n}
        = {i \in DOMAIN a : a[i] \in AnswersOf(n)}
  BY <1>1 DEF AnswersOf
<1>3. {i \in DOMAIN f : f[i] = n} = {i \in DOMAIN f : f[i] \in {n}}
  OBVIOUS
<1>4. {i \in DOMAIN [j \in DOMAIN h |-> h[j].to] : [j \in DOMAIN h |-> h[j].to][i] = n}
        = {i \in DOMAIN h : h[i] \in ChangesTo(n)}
  BY <1>1 DEF ChangesTo
<1> QED
  BY <1>2, <1>3, <1>4 DEF Count, Times

LEMMA CountsAre ==
  ASSUME TypeOK, NEW n
  PROVE  /\ Cardinality(AnnouncedAs(n)) = Count(acked, AnswersOf(n)) /\ Count(acked, AnswersOf(n)) \in Nat
         /\ Times(n, feed) = Count(feed, {n}) /\ Count(feed, {n}) \in Nat
         /\ Times(n, Values) = Count(history, ChangesTo(n)) /\ Count(history, ChangesTo(n)) \in Nat
<1>1. /\ acked \in Seq(Answer) /\ feed \in Seq(Value) /\ history \in Seq(Change)
  BY DEF TypeOK
<1>2. /\ Count(acked, AnswersOf(n)) \in Nat /\ Count(feed, {n}) \in Nat
      /\ Count(history, ChangesTo(n)) \in Nat
  BY <1>1, CountTyped
<1> QED
  BY <1>1, <1>2, CountsOf DEF AnnouncedAs, Announced, Values

LEMMA CallerSetsFinite ==
  ASSUME NEW S \in SUBSET Callers
  PROVE  IsFiniteSet(S)
  BY RecordedAssumption, FS_Subset

\* A step of c, by what it adds to the three counts and where it leaves c.
LEMMA FeedStep ==
  ASSUME TypeOK, TypeOK', NEW n, FeedInv(n), setup' = setup,
         NEW c \in Callers, \A d \in Callers \ {c} : work'[d] = work[d],
         NEW da \in Nat, NEW df \in Nat, NEW dv \in Nat,
         Count(acked', AnswersOf(n)) = Count(acked, AnswersOf(n)) + da,
         Count(feed', {n}) = Count(feed, {n}) + df,
         Count(history', ChangesTo(n)) = Count(history, ChangesTo(n)) + dv,
         da + (IF c \in Logged(n)' THEN 1 ELSE 0) <= df + (IF c \in Logged(n) THEN 1 ELSE 0),
         df + (IF c \in ToLog(n)' THEN 1 ELSE 0) <= dv + (IF c \in ToLog(n) THEN 1 ELSE 0)
  PROVE  FeedInv(n)'
<1>1. /\ AnswersOf(n)' = AnswersOf(n) /\ ChangesTo(n)' = ChangesTo(n)
  BY DEF AnswersOf, ChangesTo
<1>2. /\ Logged(n) \ {c} = Logged(n)' \ {c}
      /\ ToLog(n) \ {c} = ToLog(n)' \ {c}
  BY DEF Logged, ToLog, Wrote
<1>3. /\ IsFiniteSet(Logged(n)) /\ IsFiniteSet(Logged(n)')
      /\ IsFiniteSet(ToLog(n)) /\ IsFiniteSet(ToLog(n)')
  BY CallerSetsFinite DEF Logged, ToLog
<1>4. /\ Cardinality(Logged(n)) \in Nat /\ Cardinality(Logged(n)') \in Nat
      /\ Cardinality(Logged(n)') + (IF c \in Logged(n) THEN 1 ELSE 0)
           = Cardinality(Logged(n)) + (IF c \in Logged(n)' THEN 1 ELSE 0)
  BY <1>2, <1>3, CardChange
<1>5. /\ Cardinality(ToLog(n)) \in Nat /\ Cardinality(ToLog(n)') \in Nat
      /\ Cardinality(ToLog(n)') + (IF c \in ToLog(n) THEN 1 ELSE 0)
           = Cardinality(ToLog(n)) + (IF c \in ToLog(n)' THEN 1 ELSE 0)
  BY <1>2, <1>3, CardChange
<1>6. /\ Cardinality(AnnouncedAs(n)) = Count(acked, AnswersOf(n)) /\ Count(acked, AnswersOf(n)) \in Nat
      /\ Times(n, feed) = Count(feed, {n}) /\ Count(feed, {n}) \in Nat
      /\ Times(n, Values) = Count(history, ChangesTo(n)) /\ Count(history, ChangesTo(n)) \in Nat
  BY CountsAre
<1>7. /\ Cardinality(AnnouncedAs(n)') = Count(acked', AnswersOf(n))
      /\ Times(n, feed') = Count(feed', {n})
      /\ Times(n, Values') = Count(history', ChangesTo(n))
  <2>1. /\ acked' \in Seq(Answer) /\ feed' \in Seq(Value) /\ history' \in Seq(Change)
    BY DEF TypeOK
  <2> QED
    BY <2>1, CountsOf DEF AnnouncedAs, Announced, Values
<1>8. /\ Count(acked, AnswersOf(n)) + Cardinality(Logged(n)) <= Count(feed, {n})
      /\ Count(feed, {n}) + Cardinality(ToLog(n)) <= Count(history, ChangesTo(n))
  BY <1>6 DEF FeedInv
<1>9. /\ Count(acked', AnswersOf(n)) + Cardinality(Logged(n)') <= Count(feed', {n})
      /\ Count(feed', {n}) + Cardinality(ToLog(n)') <= Count(history', ChangesTo(n))
  BY <1>4, <1>5, <1>6, <1>8
<1> QED
  BY <1>7, <1>9 DEF FeedInv

\* One change at the end of the history, and nothing else written down.
LEMMA ChangeCounted ==
  ASSUME TypeOK, NEW m \in Change, NEW n, history' = Append(history, m)
  PROVE  Count(history', ChangesTo(n)) = Count(history, ChangesTo(n)) + (IF m.to = n THEN 1 ELSE 0)
<1>1. m \in ChangesTo(n) <=> m.to = n
  BY DEF ChangesTo
<1> QED
  BY <1>1, CountAppend DEF TypeOK

\* The answer to a call of c.
LEMMA AnswerCounted ==
  ASSUME TypeOK, NEW c \in Callers, Return(c), NEW n
  PROVE  Count(acked', AnswersOf(n)) = Count(acked, AnswersOf(n)) + (IF Wrote(c, n) THEN 1 ELSE 0)
<1> DEFINE a == [verb |-> work[c].verb, by |-> work[c].by, made |-> work[c].made]
<1>1. a \in Answer
  BY DEF Answer, TypeOK, Work
<1>2. a \in AnswersOf(n) <=> Wrote(c, n)
  BY <1>1 DEF AnswersOf, Wrote
<1>3. acked' = Append(acked, a) /\ acked \in Seq(Answer)
  BY DEF Return, TypeOK
<1> HIDE DEF a
<1> QED
  BY <1>1, <1>2, <1>3, CountAppend

LEMMA FeedInductive ==
  ASSUME TypeOK, TypeOK', WorkInv, [Next]_vars, NEW n, FeedInv(n)
  PROVE  FeedInv(n)'
<1>0. /\ setup' = setup /\ Count(acked, AnswersOf(n)) \in Nat /\ Count(feed, {n}) \in Nat
      /\ Count(history, ChangesTo(n)) \in Nat
  BY SetupFixed, CountsAre
<1>1. CASE setup.bound
  <2>1. ASSUME NEW c \in Callers PROVE c \notin ToLog(n) /\ c \notin Logged(n) /\ c \notin ToLog(n)' /\ c \notin Logged(n)'
    BY <1>0, <1>1 DEF ToLog, Logged
  <2>2. ToLog(n) = {} /\ Logged(n) = {} /\ ToLog(n)' = {} /\ Logged(n)' = {}
    BY <1>0, <1>1 DEF ToLog, Logged
  <2>3. CASE UNCHANGED <<setup, doc, feed, history, acked>>
    <3>1. /\ AnnouncedAs(n)' = AnnouncedAs(n) /\ Times(n, feed') = Times(n, feed)
          /\ Times(n, Values') = Times(n, Values)
      BY <2>3 DEF AnnouncedAs, Announced, Times, Values
    <3> QED
      BY <2>2, <3>1 DEF FeedInv
  <2>4. ASSUME NEW c \in Callers, Return(c)
        PROVE  \A d \in Callers \ {c} : work'[d] = work[d]
    BY <2>4 DEF Return, TypeOK
  <2>5. ASSUME NEW c \in Callers, Return(c), work[c].made = <<>>, UNCHANGED <<setup, doc, feed, history>>
        PROVE  FeedInv(n)'
    <3>1. Count(acked', AnswersOf(n)) = Count(acked, AnswersOf(n)) + 0
      BY <1>0, <2>5, AnswerCounted DEF Wrote
    <3>2. Count(feed', {n}) = Count(feed, {n}) + 0 /\ Count(history', ChangesTo(n)) = Count(history, ChangesTo(n)) + 0
      BY <1>0, <2>5
    <3>3. /\ 0 + (IF c \in Logged(n)' THEN 1 ELSE 0) <= 0 + (IF c \in Logged(n) THEN 1 ELSE 0)
          /\ 0 + (IF c \in ToLog(n)' THEN 1 ELSE 0) <= 0 + (IF c \in ToLog(n) THEN 1 ELSE 0)
      BY <2>1, <2>5
    <3> QED
      BY <1>0, <2>4, <2>5, <3>1, <3>2, <3>3, FeedStep
  <2>6. ASSUME NEW c \in Callers, Return(c), work[c].made = <<work[c].made[1]>>,
               work[c].made[1] \in Change, work[c].verb \in Captured,
               history' = Append(history, work[c].made[1]),
               feed' = Append(feed, work[c].made[1].to)
        PROVE  FeedInv(n)'
    <3> DEFINE one == IF work[c].made[1].to = n THEN 1 ELSE 0
    <3>1. Count(acked', AnswersOf(n)) = Count(acked, AnswersOf(n)) + one
      BY <2>6, AnswerCounted DEF Wrote
    <3>2. Count(history', ChangesTo(n)) = Count(history, ChangesTo(n)) + one
      BY <2>6, ChangeCounted
    <3>3. Count(feed', {n}) = Count(feed, {n}) + one
      <4>1. work[c].made[1].to \in Value /\ feed \in Seq(Value)
        BY <2>6 DEF Change, TypeOK
      <4> QED
        BY <2>6, <4>1, CountAppend
    <3>4. one \in Nat
      OBVIOUS
    <3> HIDE DEF one
    <3>5. /\ one + (IF c \in Logged(n)' THEN 1 ELSE 0) <= one + (IF c \in Logged(n) THEN 1 ELSE 0)
          /\ one + (IF c \in ToLog(n)' THEN 1 ELSE 0) <= one + (IF c \in ToLog(n) THEN 1 ELSE 0)
      BY <2>1, <2>6, <3>4
    <3>6. \A d \in Callers \ {c} : work'[d] = work[d]
      BY <2>4, <2>6
    <3> QED
      BY <1>0, <3>1, <3>2, <3>3, <3>4, <3>5, <3>6, FeedStep
  <2> QED
    BY <1>1, BoundStep, <2>3, <2>5, <2>6
<1>2. CASE ~setup.bound
  <2>0. ASSUME NEW c \in Callers
        PROVE  /\ CallerInv(c) /\ work[c] \in Work /\ work[c].image = <<>>
               /\ c \in ToLog(n) <=> work[c].stage = "log" /\ Wrote(c, n)
               /\ c \in Logged(n) <=> work[c].stage \in {"audit", "return"} /\ Wrote(c, n)
               /\ c \in ToLog(n)' <=> work'[c].stage = "log" /\ Wrote(c, n)'
               /\ c \in Logged(n)' <=> work'[c].stage \in {"audit", "return"} /\ Wrote(c, n)'
    BY <1>0, <1>2 DEF WorkInv, CallerInv, TypeOK, ToLog, Logged
  \* a step of c that writes nothing down, after which it has not written
  <2>1. ASSUME NEW c \in Callers, \A d \in Callers \ {c} : work'[d] = work[d],
               UNCHANGED <<feed, history, acked>>, ~Wrote(c, n)'
        PROVE  FeedInv(n)'
    <3>1. c \notin ToLog(n)' /\ c \notin Logged(n)'
      BY <2>0, <2>1
    <3>2. /\ Count(acked', AnswersOf(n)) = Count(acked, AnswersOf(n)) + 0
          /\ Count(feed', {n}) = Count(feed, {n}) + 0
          /\ Count(history', ChangesTo(n)) = Count(history, ChangesTo(n)) + 0
      BY <1>0, <2>1
    <3>3. /\ 0 + (IF c \in Logged(n)' THEN 1 ELSE 0) <= 0 + (IF c \in Logged(n) THEN 1 ELSE 0)
          /\ 0 + (IF c \in ToLog(n)' THEN 1 ELSE 0) <= 0 + (IF c \in ToLog(n) THEN 1 ELSE 0)
      BY <3>1
    <3> QED
      BY <1>0, <2>1, <3>2, <3>3, FeedStep
  \* a statement that wrote
  <2>2. ASSUME NEW c \in Callers, NEW v \in Value, NEW next \in {"log", "return"}, Apply(c, v, next),
               work[c].stage \in {"write", "insert"}, next = "return" => work[c].verb \notin Captured,
               UNCHANGED <<feed, acked>>
        PROVE  FeedInv(n)'
    <3> DEFINE change == [verb |-> work[c].verb, from |-> doc, to |-> v]
    <3>1. /\ change \in Change /\ change.to = v
          /\ work' = [work EXCEPT ![c] = [work[c] EXCEPT !.stage = next, !.made = <<change>>]]
          /\ history' = Append(history, change)
      BY <1>2, <2>2, ChangeTyped DEF Apply
    <3> HIDE DEF change
    <3>2. /\ work'[c].stage = next /\ work'[c].made = <<change>> /\ work'[c].verb = work[c].verb
          /\ \A d \in Callers \ {c} : work'[d] = work[d]
      BY <2>0, <3>1 DEF Work, TypeOK
    <3>3. Wrote(c, n)' <=> work[c].verb \in Captured /\ v = n
      <4>1. work'[c].made # <<>> /\ work'[c].made[1] = change
        BY <3>2
      <4> QED
        BY <3>1, <3>2, <4>1 DEF Wrote
    <3>4. c \notin ToLog(n) /\ c \notin Logged(n) /\ c \notin Logged(n)'
      BY <2>0, <2>2, <3>2, <3>3
    <3>5. Count(history', ChangesTo(n)) = Count(history, ChangesTo(n)) + (IF v = n THEN 1 ELSE 0)
      BY <3>1, ChangeCounted
    <3>6. /\ Count(acked', AnswersOf(n)) = Count(acked, AnswersOf(n)) + 0
          /\ Count(feed', {n}) = Count(feed, {n}) + 0
      BY <1>0, <2>2
    <3>7. (IF c \in ToLog(n)' THEN 1 ELSE 0) <= IF v = n THEN 1 ELSE 0
      BY <2>0, <3>3
    <3>8. (IF v = n THEN 1 ELSE 0) \in Nat
      OBVIOUS
    <3> QED
      BY <1>0, <3>2, <3>4, <3>5, <3>6, <3>7, <3>8, FeedStep
  <2>3. ASSUME NEW c \in Callers, Write(c) PROVE FeedInv(n)'
    <3>1. CASE Matches(c)
      BY <2>2, <2>3, <3>1, WrittenTyped DEF Write
    <3>2. CASE ~Matches(c)
      <4>1. /\ work[c].made = <<>> /\ UNCHANGED <<feed, history, acked>>
            /\ \/ work' = [work EXCEPT ![c] = Idle]
               \/ work' = [work EXCEPT ![c] = [work[c] EXCEPT !.stage = "log"]]
        BY <2>0, <2>3, <3>2 DEF Write, CallerInv, Hooks
      <4>2. work'[c].made = <<>> /\ \A d \in Callers \ {c} : work'[d] = work[d]
        <5>1. Idle.made = <<>> /\ [work[c] EXCEPT !.stage = "log"].made = <<>>
          BY <2>0, <4>1 DEF Idle, Work
        <5> QED
          BY <4>1, <5>1 DEF TypeOK
      <4> QED
        BY <2>1, <4>1, <4>2 DEF Wrote
    <3> QED
      BY <3>1, <3>2
  <2>4. ASSUME NEW c \in Callers, Upsert(c) \/ UpsertInserts(c) PROVE FeedInv(n)'
    <3>1. /\ work[c].stage \in {"write", "insert"} /\ work[c].verb \in Upserts /\ work[c].made = <<>>
          /\ UNCHANGED <<feed, acked>>
      BY <2>0, <2>4 DEF Upsert, UpsertInserts, CallerInv, Hooks
    <3>2. work[c].verb \notin Captured
      BY <3>1 DEF Upserts, Captured, Updating, Operators
    <3>3. CASE \E v \in Value : Apply(c, v, "return")
      BY <2>2, <3>1, <3>2, <3>3
    <3>4. CASE work' = [work EXCEPT ![c].stage = "insert"] /\ history' = history
      <4>1. work'[c].made = <<>> /\ \A d \in Callers \ {c} : work'[d] = work[d]
        BY <2>0, <3>1, <3>4 DEF TypeOK, Work
      <4> QED
        BY <2>1, <3>1, <3>4, <4>1 DEF Wrote
    <3>5. Inserted(c) \in Value /\ (Matches(c) => Written(c) \in Value)
      <4>1. work[c].by \in Value /\ 0 \in Value
        BY <2>0, ValuesTyped DEF Work
      <4> QED
        BY <4>1, WrittenTyped DEF Inserted
    <3>6. doc # Absent => Matches(c)
      BY <3>1 DEF Matches, Upserts
    <3> QED
      BY <2>4, <3>3, <3>4, <3>5, <3>6 DEF Upsert, UpsertInserts
  <2>5. ASSUME NEW c \in Callers, Log(c) PROVE FeedInv(n)'
    <3>1. /\ work[c].stage = "log" /\ feed' = feed \o Images(c) /\ UNCHANGED <<history, acked>>
          /\ work' = [work EXCEPT ![c].stage = "audit"]
      BY <1>2, <2>5 DEF Log, Joins
    <3>2. /\ work'[c].stage = "audit" /\ work'[c].made = work[c].made /\ work'[c].verb = work[c].verb
          /\ \A d \in Callers \ {c} : work'[d] = work[d]
      BY <2>0, <3>1 DEF TypeOK, Work
    <3>3. Wrote(c, n)' <=> Wrote(c, n)
      BY <3>2 DEF Wrote
    <3>4. Count(feed', {n}) = Count(feed, {n}) + (IF Wrote(c, n) THEN 1 ELSE 0)
      <4>1. Len(work[c].made) <= 1
        BY <2>0 DEF CallerInv
      <4>2. Images(c) = IF work[c].verb \in Captured /\ work[c].made # <<>>
                        THEN <<work[c].made[1].to>> ELSE <<>>
        BY <4>1, ImagesAre
      <4>3. Images(c) \in Seq(Value) /\ feed \in Seq(Value) /\ Len(Images(c)) <= 1
        <5>1. Len(Images(c)) <= 1
          BY <4>2
        <5>2. Images(c) \in Seq(Value)
          BY EntriesTyped
        <5> QED
          BY <5>1, <5>2 DEF TypeOK
      <4>4. Images(c) # <<>> /\ Images(c)[1] \in {n} <=> Wrote(c, n)
        BY <4>2 DEF Wrote
      <4>5. Count(feed', {n}) = Count(feed, {n}) + (IF Images(c) # <<>> /\ Images(c)[1] \in {n} THEN 1 ELSE 0)
        BY <3>1, <4>3, CountConcat
      <4> QED
        BY <4>4, <4>5
    <3>5. /\ Count(acked', AnswersOf(n)) = Count(acked, AnswersOf(n)) + 0
          /\ Count(history', ChangesTo(n)) = Count(history, ChangesTo(n)) + 0
      BY <1>0, <3>1
    <3>6. /\ c \in ToLog(n) <=> Wrote(c, n)
          /\ c \in Logged(n)' <=> Wrote(c, n)
          /\ c \notin Logged(n) /\ c \notin ToLog(n)'
      BY <2>0, <3>1, <3>2, <3>3
    <3>7. (IF Wrote(c, n) THEN 1 ELSE 0) \in Nat
      OBVIOUS
    <3> QED
      BY <1>0, <3>2, <3>4, <3>5, <3>6, <3>7, FeedStep
  <2>6. ASSUME NEW c \in Callers, Audit(c) PROVE FeedInv(n)'
    <3>1. /\ work[c].stage = "audit" /\ UNCHANGED <<feed, history, acked>>
          /\ work' = [work EXCEPT ![c] = [work[c] EXCEPT !.stage = "return", !.entry = <<>>]]
      BY <1>2, <2>6 DEF Audit
    <3>2. /\ work'[c].stage = "return" /\ work'[c].made = work[c].made /\ work'[c].verb = work[c].verb
          /\ \A d \in Callers \ {c} : work'[d] = work[d]
      BY <2>0, <3>1 DEF TypeOK, Work
    <3>3. c \in Logged(n)' <=> c \in Logged(n)
      BY <2>0, <3>1, <3>2 DEF Wrote
    <3>4. c \notin ToLog(n) /\ c \notin ToLog(n)'
      BY <2>0, <3>1, <3>2
    <3>5. /\ Count(acked', AnswersOf(n)) = Count(acked, AnswersOf(n)) + 0
          /\ Count(feed', {n}) = Count(feed, {n}) + 0
          /\ Count(history', ChangesTo(n)) = Count(history, ChangesTo(n)) + 0
      BY <1>0, <3>1
    <3> QED
      BY <1>0, <3>2, <3>3, <3>4, <3>5, FeedStep
  <2>7. ASSUME NEW c \in Callers, Return(c) PROVE FeedInv(n)'
    <3>1. /\ work[c].stage = "return" /\ work' = [work EXCEPT ![c] = Idle]
          /\ feed' = feed \o <<>> /\ history' = history
      BY <1>2, <2>0, <2>7 DEF Return
    <3>2. feed' = feed
      BY <3>1, ConcatEmptySeq DEF TypeOK
    <3>3. /\ work'[c].made = <<>> /\ work'[c].stage = "idle"
          /\ \A d \in Callers \ {c} : work'[d] = work[d]
      BY <3>1 DEF TypeOK, Idle
    <3>4. /\ c \in Logged(n) <=> Wrote(c, n)
          /\ c \notin ToLog(n) /\ c \notin ToLog(n)' /\ c \notin Logged(n)'
      BY <2>0, <3>1, <3>3
    <3>5. Count(acked', AnswersOf(n)) = Count(acked, AnswersOf(n)) + (IF Wrote(c, n) THEN 1 ELSE 0)
      BY <2>7, AnswerCounted
    <3>6. /\ Count(feed', {n}) = Count(feed, {n}) + 0
          /\ Count(history', ChangesTo(n)) = Count(history, ChangesTo(n)) + 0
      BY <1>0, <3>1, <3>2
    <3>7. (IF Wrote(c, n) THEN 1 ELSE 0) \in Nat
      OBVIOUS
    <3> QED
      BY <1>0, <3>3, <3>4, <3>5, <3>6, <3>7, FeedStep
  <2>8. ASSUME NEW c \in Callers, \/ Call(c) \/ Before(c) \/ Conflict(c) \/ UpsertCollides(c)
                                  \/ Reject(c) \/ Crash(c)
        PROVE  FeedInv(n)'
    <3>1. UNCHANGED <<feed, history, acked>> /\ \A d \in Callers \ {c} : work'[d] = work[d]
      BY <2>8 DEF Call, Before, Conflict, UpsertCollides, Reject, Crash, TypeOK
    <3>2. work'[c].made = <<>>
      <4>1. \A v, by : Begin(v, by).made = <<>>
        BY DEF Begin, Idle
      <4>2. Idle.made = <<>> /\ [Idle EXCEPT !.stage = "dead"].made = <<>>
        BY DEF Idle
      <4>3. CASE Call(c) \/ Conflict(c)
        <5>1. PICK v, by : work' = [work EXCEPT ![c] = Begin(v, by)]
          BY <4>3 DEF Call, Conflict
        <5> QED
          BY <4>1, <5>1 DEF TypeOK
      <4>5. CASE Reject(c) \/ Crash(c)
        BY <4>2, <4>5 DEF Reject, Crash, TypeOK
      <4>4. CASE Before(c) \/ UpsertCollides(c)
        <5>1. work[c].made = <<>>
          BY <2>0, <4>4 DEF Before, UpsertCollides, CallerInv, Hooks
        <5>2. work'[c].made = work[c].made
          BY <2>0, <4>4 DEF Before, UpsertCollides, TypeOK, Work
        <5> QED
          BY <5>1, <5>2
      <4> QED
        BY <2>8, <4>3, <4>4, <4>5
    <3> QED
      BY <2>1, <3>1, <3>2 DEF Wrote
  <2>9. CASE UNCHANGED <<setup, work, feed, history, acked>>
    BY <2>9 DEF FeedInv, AnnouncedAs, Announced, Times, Values, ToLog, Logged, Wrote
  <2>10. ASSUME NEW c \in Callers, Deliver(c) PROVE FeedInv(n)'
    BY <2>9, <2>10 DEF Deliver
  <2> QED
    BY <2>3, <2>4, <2>5, <2>6, <2>7, <2>8, <2>9, <2>10 DEF Next, vars
<1> QED
  BY <1>1, <1>2

FeedAllInv == \A n : FeedInv(n)

\* A captured write whose call has returned is in the change log, and nothing is in it
\* that no write has made, whichever hooks ran and whichever calls failed in between.
THEOREM FeedIsComplete == Spec => []FeedMatchesWrites
<1>1. Init => FeedAllInv
  <2> SUFFICES ASSUME Init, NEW n PROVE FeedInv(n)
    BY DEF FeedAllInv
  <2>1. DOMAIN acked = {} /\ DOMAIN feed = {} /\ DOMAIN Values = {}
    BY DEF Init, Values
  <2>2. AnnouncedAs(n) = {} /\ Logged(n) = {} /\ ToLog(n) = {}
    BY <2>1 DEF AnnouncedAs, Announced, Logged, ToLog, Init, Idle
  <2>3. Times(n, feed) = 0 /\ Times(n, Values) = 0
    BY <2>1, FS_EmptySet DEF Times
  <2> QED
    BY <2>2, <2>3, FS_EmptySet DEF FeedInv
<1>2. TypeOK /\ TypeOK' /\ WorkInv /\ FeedAllInv /\ [Next]_vars => FeedAllInv'
  BY FeedInductive DEF FeedAllInv
<1>3. TypeOK /\ FeedAllInv => FeedMatchesWrites
  <2> SUFFICES ASSUME TypeOK, FeedAllInv, NEW n
               PROVE  Cardinality(AnnouncedAs(n)) <= Times(n, feed) /\ Times(n, feed) <= Times(n, Values)
    BY DEF FeedMatchesWrites
  <2>1. FeedInv(n)
    BY DEF FeedAllInv
  <2>2. Cardinality(Logged(n)) \in Nat /\ Cardinality(ToLog(n)) \in Nat
    BY CallerSetsFinite, FS_CardinalityType DEF Logged, ToLog
  <2>3. /\ Cardinality(AnnouncedAs(n)) \in Nat /\ Times(n, feed) \in Nat /\ Times(n, Values) \in Nat
    BY CountsAre
  <2> QED
    BY <2>1, <2>2, <2>3 DEF FeedInv
<1> QED
  BY <1>1, <1>2, <1>3, TypeCorrect, WorkInvariant, PTL DEF Spec

-----------------------------------------------------------------------------
(* The steps of a caller                                                    *)

\* What a step leaves in its caller's record.
Kept(c) == work'[c].verb = work[c].verb /\ work'[c].by = work[c].by /\ work'[c].made = work[c].made

Fresh(c, stages) == work'[c].stage \in stages /\ work'[c].made = <<>>

Again(c) == Fresh(c, {"before", "write"}) /\ work'[c].verb = work[c].verb

LEMMA CallerAfter ==
  ASSUME TypeOK, NEW c \in Callers
  PROVE  /\ Reject(c) \/ Return(c) \/ Crash(c) => Fresh(c, {"idle", "dead"})
         /\ Conflict(c) => Again(c)
         /\ Before(c) => Kept(c) /\ work'[c].stage = "write"
         /\ Log(c) => Kept(c) /\ work'[c].stage = "audit"
         /\ Audit(c) => Kept(c) /\ work'[c].stage = "return"
         /\ UpsertCollides(c) => Kept(c) /\ work'[c].stage \in {"write", "idle"}
         /\ Write(c) /\ ~Matches(c) =>
              Fresh(c, {"idle", "dead"}) \/ (Kept(c) /\ work'[c].stage = "log")
         /\ Upsert(c) /\ doc = Absent => Kept(c) /\ work'[c].stage = "insert"
         /\ \A n, next : Apply(c, n, next) =>
              /\ work'[c].verb = work[c].verb /\ work'[c].by = work[c].by
              /\ work'[c].made # <<>> /\ work'[c].stage = next
<1>1. work \in [Callers -> Work] /\ work[c] \in Work
  BY DEF TypeOK
<1>2. ASSUME Reject(c) \/ Return(c) \/ Crash(c) PROVE Fresh(c, {"idle", "dead"})
  BY <1>1, <1>2 DEF Reject, Return, Crash, Idle, Fresh
<1>3. ASSUME Conflict(c) PROVE Again(c)
  BY <1>1, <1>3 DEF Conflict, Begin, FirstStage, Idle, Again, Fresh
<1>4. ASSUME Before(c) PROVE Kept(c) /\ work'[c].stage = "write"
  <2>1. \E prev, begun : work'[c] = [work[c] EXCEPT !.stage = "write", !.prev = prev, !.begun = begun]
    BY <1>1, <1>4 DEF Before
  <2> QED
    BY <1>1, <2>1 DEF Work, Kept
<1>5. ASSUME Log(c) PROVE Kept(c) /\ work'[c].stage = "audit"
  <2>1. \E image : \/ work'[c] = [work[c] EXCEPT !.stage = "audit", !.image = image]
                   \/ work'[c] = [work[c] EXCEPT !.stage = "audit"]
    BY <1>1, <1>5 DEF Log
  <2> QED
    BY <1>1, <2>1 DEF Work, Kept
<1>6. ASSUME Audit(c) PROVE Kept(c) /\ work'[c].stage = "return"
  <2>1. \E entry : work'[c] = [work[c] EXCEPT !.stage = "return", !.entry = entry]
    BY <1>1, <1>6 DEF Audit
  <2> QED
    BY <1>1, <2>1 DEF Work, Kept
<1>7. ASSUME UpsertCollides(c) PROVE Kept(c) /\ work'[c].stage \in {"write", "idle"}
  <2>1. \E next \in {"write", "idle"} : work'[c] = [work[c] EXCEPT !.stage = next]
    BY <1>1, <1>7 DEF UpsertCollides, AfterCollision
  <2> QED
    BY <1>1, <2>1 DEF Work, Kept
<1>8. ASSUME Write(c), ~Matches(c)
      PROVE  Fresh(c, {"idle", "dead"}) \/ (Kept(c) /\ work'[c].stage = "log")
  <2>1. work'[c] = Idle \/ work'[c] = [work[c] EXCEPT !.stage = "log"]
    BY <1>1, <1>8 DEF Write
  <2>2. work'[c] = Idle => Fresh(c, {"idle", "dead"})
    BY DEF Fresh, Idle
  <2>3. work'[c] = [work[c] EXCEPT !.stage = "log"] => Kept(c) /\ work'[c].stage = "log"
    BY <1>1 DEF Work, Kept
  <2> QED
    BY <2>1, <2>2, <2>3
<1>9. ASSUME Upsert(c), doc = Absent PROVE Kept(c) /\ work'[c].stage = "insert"
  <2>1. work'[c] = [work[c] EXCEPT !.stage = "insert"]
    BY <1>1, <1>9 DEF Upsert
  <2> QED
    BY <1>1, <2>1 DEF Work, Kept
<1>10. ASSUME NEW n, NEW next, Apply(c, n, next)
       PROVE  /\ work'[c].verb = work[c].verb /\ work'[c].by = work[c].by
              /\ work'[c].made # <<>> /\ work'[c].stage = next
  <2>1. PICK change : work'[c] = [work[c] EXCEPT !.stage = next, !.made = <<change>>]
    BY <1>1, <1>10 DEF Apply
  <2> QED
    BY <1>1, <2>1 DEF Work
<1> QED
  BY <1>2, <1>3, <1>4, <1>5, <1>6, <1>7, <1>8, <1>9, <1>10

\* A step of c leaves what the others do alone.
LEMMA OthersKept ==
  ASSUME TypeOK, NEW c \in Callers,
         \/ Call(c) \/ Before(c) \/ Conflict(c) \/ Write(c) \/ Upsert(c) \/ UpsertInserts(c)
         \/ UpsertCollides(c) \/ Log(c) \/ Audit(c) \/ Deliver(c) \/ Return(c) \/ Reject(c) \/ Crash(c)
  PROVE  \A d \in Callers \ {c} : work'[d] = work[d]
<1>1. work \in [Callers -> Work]
  BY DEF TypeOK
<1> QED
  BY <1>1 DEF Call, Before, Conflict, Write, Upsert, Apply, UpsertInserts, UpsertCollides, Log, Audit,
     Deliver, Return, Reject, Crash

-----------------------------------------------------------------------------
(* The audit trail in transactional mode                                    *)

Audited(v) == {c \in Callers : ~setup.bound /\ work[c].stage = "return" /\ work[c].verb = v}

TrailInv(v) ==
  Awaited =>
    Cardinality({i \in DOMAIN acked : acked[i].verb = v}) + Cardinality(Audited(v))
      <= Cardinality({i \in DOMAIN trail : trail[i].verb = v})

AnswersTo(v) == {a \in Answer : a.verb = v}
EntriesOf(v) == {e \in Entry : e.verb = v}

LEMMA VerbsCounted ==
  ASSUME NEW a \in Seq(Answer), NEW t \in Seq(Entry), NEW v
  PROVE  /\ Cardinality({i \in DOMAIN a : a[i].verb = v}) = Count(a, AnswersTo(v))
         /\ Cardinality({i \in DOMAIN t : t[i].verb = v}) = Count(t, EntriesOf(v))
         /\ Count(a, AnswersTo(v)) \in Nat /\ Count(t, EntriesOf(v)) \in Nat
<1>1. /\ \A i \in DOMAIN a : a[i] \in Answer
      /\ \A i \in DOMAIN t : t[i] \in Entry
  BY LenProperties, ElementOfSeq
<1>2. {i \in DOMAIN a : a[i].verb = v} = {i \in DOMAIN a : a[i] \in AnswersTo(v)}
  BY <1>1 DEF AnswersTo
<1>3. {i \in DOMAIN t : t[i].verb = v} = {i \in DOMAIN t : t[i] \in EntriesOf(v)}
  BY <1>1 DEF EntriesOf
<1>4. Count(a, AnswersTo(v)) \in Nat /\ Count(t, EntriesOf(v)) \in Nat
  BY CountTyped
<1>5. /\ Cardinality({i \in DOMAIN a : a[i].verb = v}) = Count(a, AnswersTo(v))
      /\ Cardinality({i \in DOMAIN t : t[i].verb = v}) = Count(t, EntriesOf(v))
  BY <1>2, <1>3 DEF Count
<1> QED
  BY <1>4, <1>5

LEMMA TrailStep ==
  ASSUME TypeOK, TypeOK', NEW v, TrailInv(v), Awaited, setup' = setup,
         NEW c \in Callers, \A d \in Callers \ {c} : work'[d] = work[d],
         NEW da \in Nat, NEW dt \in Nat,
         Count(acked', AnswersTo(v)) = Count(acked, AnswersTo(v)) + da,
         Count(trail', EntriesOf(v)) = Count(trail, EntriesOf(v)) + dt,
         da + (IF c \in Audited(v)' THEN 1 ELSE 0) <= dt + (IF c \in Audited(v) THEN 1 ELSE 0)
  PROVE  TrailInv(v)'
<1>1. Audited(v) \ {c} = Audited(v)' \ {c}
  BY DEF Audited
<1>2. IsFiniteSet(Audited(v)) /\ IsFiniteSet(Audited(v)')
  BY CallerSetsFinite DEF Audited
<1>3. /\ Cardinality(Audited(v)) \in Nat /\ Cardinality(Audited(v)') \in Nat
      /\ Cardinality(Audited(v)') + (IF c \in Audited(v) THEN 1 ELSE 0)
           = Cardinality(Audited(v)) + (IF c \in Audited(v)' THEN 1 ELSE 0)
  BY <1>1, <1>2, CardChange
<1>4. /\ acked \in Seq(Answer) /\ acked' \in Seq(Answer)
      /\ trail \in Seq(Entry) /\ trail' \in Seq(Entry)
  BY DEF TypeOK
<1>5. /\ Count(acked, AnswersTo(v)) \in Nat /\ Count(trail, EntriesOf(v)) \in Nat
      /\ Count(acked, AnswersTo(v)) + Cardinality(Audited(v)) <= Count(trail, EntriesOf(v))
  BY <1>4, VerbsCounted DEF TrailInv
<1>6. Count(acked', AnswersTo(v)) + Cardinality(Audited(v)') <= Count(trail', EntriesOf(v))
  BY <1>3, <1>5
<1>7. /\ Cardinality({i \in DOMAIN acked' : acked'[i].verb = v}) = Count(acked', AnswersTo(v))
      /\ Cardinality({i \in DOMAIN trail' : trail'[i].verb = v}) = Count(trail', EntriesOf(v))
  BY <1>4, VerbsCounted
<1> QED
  BY <1>6, <1>7 DEF TrailInv

LEMMA TrailInductive ==
  ASSUME TypeOK, TypeOK', WorkInv, LooseInv, [Next]_vars, NEW v \in Captured, TrailInv(v)
  PROVE  TrailInv(v)'
<1> SUFFICES ASSUME Awaited PROVE TrailInv(v)'
  BY SetupFixed DEF TrailInv, Awaited
<1>0. /\ setup' = setup /\ Count(acked, AnswersTo(v)) \in Nat /\ Count(trail, EntriesOf(v)) \in Nat
      /\ v # "take" /\ v \notin Upserts
  BY SetupFixed, VerbsCounted DEF TypeOK, Captured, Updating, Operators, Upserts
<1>1. ASSUME NEW c \in Callers
      PROVE  /\ CallerInv(c) /\ work[c] \in Work
             /\ c \in Audited(v) <=> ~setup.bound /\ work[c].stage = "return" /\ work[c].verb = v
             /\ c \in Audited(v)' <=> ~setup.bound /\ work'[c].stage = "return" /\ work'[c].verb = v
  BY <1>0 DEF WorkInv, TypeOK, Audited
\* a step of c that writes nothing down, and after which c is not about to return
<1>2. ASSUME NEW c \in Callers, \A d \in Callers \ {c} : work'[d] = work[d],
             UNCHANGED <<trail, acked>>, c \notin Audited(v)'
      PROVE  TrailInv(v)'
  <2>1. /\ Count(acked', AnswersTo(v)) = Count(acked, AnswersTo(v)) + 0
        /\ Count(trail', EntriesOf(v)) = Count(trail, EntriesOf(v)) + 0
    BY <1>0, <1>2
  <2>2. 0 + (IF c \in Audited(v)' THEN 1 ELSE 0) <= 0 + (IF c \in Audited(v) THEN 1 ELSE 0)
    BY <1>2
  <2> QED
    BY <1>0, <1>2, <2>1, <2>2, TrailStep
\* the entry of a call is about its verb
<1>3. ASSUME NEW c \in Callers, trail' = trail \o Entries(c)
      PROVE  Count(trail', EntriesOf(v)) =
               Count(trail, EntriesOf(v)) + (IF work[c].verb = v THEN 1 ELSE 0)
  <2>1. trail \in Seq(Entry) /\ Entries(c) \in Seq(Entry) /\ Diff(c) \in Entry
    BY EntriesTyped DEF TypeOK
  <2>2. Diff(c).verb = work[c].verb
    BY DEF Diff
  <2>3. Entries(c) = IF work[c].verb = "take" THEN <<>> ELSE <<Diff(c)>>
    BY DEF Entries
  <2>4. Len(Entries(c)) <= 1
    BY <2>3
  <2>5. Entries(c) # <<>> /\ Entries(c)[1] \in EntriesOf(v) <=> work[c].verb = v
    BY <1>0, <2>1, <2>2, <2>3 DEF EntriesOf
  <2>6. Count(trail', EntriesOf(v)) = Count(trail, EntriesOf(v))
          + (IF Entries(c) # <<>> /\ Entries(c)[1] \in EntriesOf(v) THEN 1 ELSE 0)
    BY <1>3, <2>1, <2>4, CountConcat
  <2> QED
    BY <2>5, <2>6
<1>4. ASSUME NEW c \in Callers, Audit(c) PROVE TrailInv(v)'
  <2>1. /\ work[c].stage = "audit" /\ acked' = acked
        /\ work'[c].stage = "return" /\ work'[c].verb = work[c].verb
        /\ \A d \in Callers \ {c} : work'[d] = work[d]
    <3>1. PICK entry : work' = [work EXCEPT ![c] = [work[c] EXCEPT !.stage = "return", !.entry = entry]]
      BY <1>4 DEF Audit
    <3>2. work'[c].stage = "return" /\ work'[c].verb = work[c].verb
      BY <1>1, <3>1 DEF TypeOK, Work
    <3> QED
      BY <1>4, <3>1, <3>2 DEF Audit, TypeOK
  <2>2. CASE setup.bound
    <3>1. trail' = trail
      BY <1>4, <2>2 DEF Audit
    <3> QED
      BY <1>1, <1>2, <2>1, <2>2, <3>1
  <2>3. CASE ~setup.bound
    <3>1. trail' = trail \o Entries(c)
      BY <1>4, <2>3 DEF Audit
    <3>2. Count(acked', AnswersTo(v)) = Count(acked, AnswersTo(v)) + 0
      BY <1>0, <2>1
    <3>3. 0 + (IF c \in Audited(v)' THEN 1 ELSE 0)
            <= (IF work[c].verb = v THEN 1 ELSE 0) + (IF c \in Audited(v) THEN 1 ELSE 0)
      BY <1>1, <2>1
    <3>4. (IF work[c].verb = v THEN 1 ELSE 0) \in Nat
      OBVIOUS
    <3> QED
      BY <1>0, <1>3, <2>1, <3>1, <3>2, <3>3, <3>4, TrailStep
  <2> QED
    BY <2>2, <2>3
<1>5. ASSUME NEW c \in Callers, Return(c) PROVE TrailInv(v)'
  <2> DEFINE a == [verb |-> work[c].verb, by |-> work[c].by, made |-> work[c].made]
  <2> DEFINE one == IF work[c].verb = v THEN 1 ELSE 0
  <2>1. /\ work[c].stage = "return" /\ acked' = Append(acked, a) /\ trail' = trail \o work[c].entry
        /\ work' = [work EXCEPT ![c] = Idle]
    BY <1>5 DEF Return
  <2>2. work'[c].stage = "idle" /\ \A d \in Callers \ {c} : work'[d] = work[d]
    BY <2>1 DEF TypeOK, Idle
  <2>3. a \in Answer /\ acked \in Seq(Answer) /\ (a \in AnswersTo(v) <=> work[c].verb = v)
    BY <1>1 DEF Answer, Work, TypeOK, AnswersTo
  <2> HIDE DEF a
  <2>4. Count(acked', AnswersTo(v)) = Count(acked, AnswersTo(v)) + one
    BY <2>1, <2>3, CountAppend
  <2>5. one \in Nat
    OBVIOUS
  <2>6. CASE setup.bound
    <3>1. trail' = trail \o Entries(c)
      BY <1>1, <2>1, <2>6 DEF CallerInv
    <3>2. Count(trail', EntriesOf(v)) = Count(trail, EntriesOf(v)) + one
      BY <1>3, <3>1
    <3>3. one + (IF c \in Audited(v)' THEN 1 ELSE 0) <= one + (IF c \in Audited(v) THEN 1 ELSE 0)
      BY <1>1, <2>5, <2>6
    <3> HIDE DEF one
    <3> QED
      BY <1>0, <2>2, <2>4, <2>5, <3>2, <3>3, TrailStep
  <2>7. CASE ~setup.bound
    <3>1. trail' = trail
      BY <1>1, <2>1, <2>7, ConcatEmptySeq DEF CallerInv, TypeOK
    <3>2. Count(trail', EntriesOf(v)) = Count(trail, EntriesOf(v)) + 0
      BY <1>0, <3>1
    <3>3. one + (IF c \in Audited(v)' THEN 1 ELSE 0) <= 0 + (IF c \in Audited(v) THEN 1 ELSE 0)
      BY <1>1, <2>1, <2>2, <2>7
    <3> HIDE DEF one
    <3> QED
      BY <1>0, <2>2, <2>4, <2>5, <3>2, <3>3, TrailStep
  <2> QED
    BY <2>6, <2>7
<1>6. ASSUME NEW c \in Callers, Upsert(c) \/ UpsertInserts(c) PROVE TrailInv(v)'
  <2>1. work[c].verb # v /\ UNCHANGED <<trail, acked>>
    BY <1>0, <1>1, <1>6 DEF Upsert, UpsertInserts, CallerInv
  <2>2. work'[c].verb = work[c].verb /\ \A d \in Callers \ {c} : work'[d] = work[d]
    BY <1>6, CallerAfter, OthersKept DEF Upsert, UpsertInserts, Kept
  <2> QED
    BY <1>1, <1>2, <2>1, <2>2
<1>7. ASSUME NEW c \in Callers, \/ Call(c) \/ Before(c) \/ Conflict(c) \/ Write(c) \/ UpsertCollides(c)
                                \/ Log(c) \/ Reject(c) \/ Crash(c)
      PROVE  TrailInv(v)'
  <2>1. UNCHANGED <<trail, acked>> /\ \A d \in Callers \ {c} : work'[d] = work[d]
    BY <1>7, OthersKept DEF Call, Before, Conflict, Write, UpsertCollides, Log, Reject, Crash
  <2>2. CASE Call(c)
    <3>1. work'[c].stage # "return"
      BY <2>2 DEF Call, Begin, FirstStage, Idle, TypeOK
    <3> QED
      BY <1>1, <1>2, <2>1, <3>1
  <2>3. CASE Write(c)
    <3>1. work'[c].stage # "return"
      <4>1. Matches(c) => Apply(c, Written(c), "log")
        BY <2>3 DEF Write
      <4> QED
        BY <2>3, <4>1, CallerAfter DEF Fresh
    <3> QED
      BY <1>1, <1>2, <2>1, <3>1
  <2>4. CASE Before(c) \/ Conflict(c) \/ UpsertCollides(c) \/ Log(c) \/ Reject(c) \/ Crash(c)
    <3>1. work'[c].stage # "return"
      BY <2>4, CallerAfter DEF Again, Fresh
    <3> QED
      BY <1>1, <1>2, <2>1, <3>1
  <2> QED
    BY <1>7, <2>2, <2>3, <2>4
<1>8. ASSUME NEW c \in Callers, Deliver(c) PROVE FALSE
  BY <1>8 DEF Deliver, LooseInv
<1>9. CASE UNCHANGED vars
  BY <1>9 DEF vars, TrailInv, Audited, Awaited
<1> QED
  BY <1>4, <1>5, <1>6, <1>7, <1>8, <1>9 DEF Next

TrailAllInv == \A v \in Captured : TrailInv(v)

\* In transactional mode a captured call that returned has left its audit entry.
THEOREM AnswersAreAudited == Spec => []AckedIsAudited
<1>1. Init => TrailAllInv /\ LooseInv
  <2> SUFFICES ASSUME Init PROVE TrailAllInv /\ LooseInv
    OBVIOUS
  <2>1. ASSUME NEW v \in Captured PROVE TrailInv(v)
    <3>1. DOMAIN acked = {} /\ DOMAIN trail = {} /\ Audited(v) = {}
      BY DEF Init, Audited, Idle
    <3> QED
      BY <3>1, FS_EmptySet DEF TrailInv
  <2> QED
    BY <2>1 DEF TrailAllInv, LooseInv, Init
<1>2. TypeOK /\ TypeOK' /\ WorkInv /\ LooseInv /\ TrailAllInv /\ [Next]_vars => TrailAllInv'
  BY TrailInductive DEF TrailAllInv
<1>3. TypeOK /\ TrailAllInv => AckedIsAudited
  <2> SUFFICES ASSUME TypeOK, TrailAllInv, Awaited, NEW v \in Captured
               PROVE  Cardinality({i \in DOMAIN acked : acked[i].verb = v})
                        <= Cardinality({i \in DOMAIN trail : trail[i].verb = v})
    BY DEF AckedIsAudited, Awaited
  <2>1. TrailInv(v) /\ Cardinality(Audited(v)) \in Nat
    BY CallerSetsFinite, FS_CardinalityType DEF TrailAllInv, Audited
  <2>2. /\ Cardinality({i \in DOMAIN acked : acked[i].verb = v}) \in Nat
        /\ Cardinality({i \in DOMAIN trail : trail[i].verb = v}) \in Nat
    <3>1. acked \in Seq(Answer) /\ trail \in Seq(Entry)
      BY DEF TypeOK
    <3>2. /\ Cardinality({i \in DOMAIN acked : acked[i].verb = v}) = Count(acked, AnswersTo(v))
          /\ Cardinality({i \in DOMAIN trail : trail[i].verb = v}) = Count(trail, EntriesOf(v))
          /\ Count(acked, AnswersTo(v)) \in Nat /\ Count(trail, EntriesOf(v)) \in Nat
      BY <3>1, VerbsCounted
    <3> QED
      BY <3>2
  <2> QED
    BY <2>1, <2>2 DEF TrailInv
<1> QED
  BY <1>1, <1>2, <1>3, LooseInductive, TypeCorrect, WorkInvariant, PTL DEF Spec

-----------------------------------------------------------------------------
(***************************************************************************)
(* The counters.  A slot of the quota is counted in the document from the  *)
(* write that takes it to the write that gives it back, which is longer    *)
(* than its caller may use it: the caller holds it only after its call has *)
(* returned, and no longer once it has begun to give it back.  A usage     *)
(* increment is counted as soon as it is written, before it is             *)
(* acknowledged.                                                           *)
(***************************************************************************)

Giving == {c \in Callers : work[c].verb = "give" /\ work[c].stage \in {"before", "write"}}
Taken  == {c \in Callers : work[c].verb = "take" /\ work[c].made # <<>>}
Slots  == holding \cup Taken \cup Giving

HoldingInv ==
  /\ holding # {} => "take" \in setup.verbs
  /\ \A c \in holding : c \notin Giving

QuotaHolds ==
  /\ Cardinality(Slots) <= Ceiling
  /\ Slots # {} => doc # Absent
  /\ doc # Absent => Cardinality(Slots) <= doc

QuotaInv == ~setup.bound /\ setup.verbs \cap Lowering = {} => QuotaHolds

\* Slots are freed, or none is taken, and the number does not fall.
LEMMA QuotaKept ==
  ASSUME TypeOK, TypeOK', QuotaHolds, Slots' \subseteq Slots,
         doc' = doc \/ (doc' \in Nat /\ (doc # Absent => doc' >= doc))
  PROVE  QuotaHolds'
<1>1. Slots \in SUBSET Callers
  BY DEF Slots, Taken, Giving, TypeOK
<1>2. /\ IsFiniteSet(Slots) /\ IsFiniteSet(Slots') /\ Cardinality(Slots') <= Cardinality(Slots)
      /\ Cardinality(Slots) \in Nat /\ Cardinality(Slots') \in Nat
  BY <1>1, CallerSetsFinite, FS_Subset, FS_CardinalityType
<1>3. doc \in Int \cup {Absent} /\ doc' \in Int \cup {Absent} /\ Ceiling \in Nat /\ Absent \notin Int
  BY RecordedAssumption DEF TypeOK, Value
<1>4. doc = Absent => Cardinality(Slots') = 0
  BY FS_EmptySet DEF QuotaHolds
<1> QED
  BY <1>2, <1>3, <1>4 DEF QuotaHolds

\* The slots after a step of c: its own, and those of the others as they were.
LEMMA SlotsFewer ==
  ASSUME TypeOK, NEW c \in Callers, \A d \in Callers \ {c} : work'[d] = work[d],
         holding' \ {c} \subseteq holding, c \in Slots' => c \in Slots
  PROVE  Slots' \subseteq Slots
  BY DEF Slots, Taken, Giving, TypeOK

LEMMA QuotaInductive ==
  ASSUME TypeOK, TypeOK', WorkInv, HoldingInv, QuotaInv, [Next]_vars
  PROVE  HoldingInv' /\ QuotaInv'
<1>0. setup' = setup
  BY SetupFixed
<1> DEFINE Quota == ~setup.bound /\ setup.verbs \cap Lowering = {}
<1>a. Quota => QuotaHolds
  BY DEF QuotaInv
<1>b. ASSUME Quota => QuotaHolds' PROVE QuotaInv'
  BY <1>0, <1>b DEF QuotaInv
<1>1. ASSUME NEW c \in Callers
      PROVE  /\ work[c] \in Work /\ CallerInv(c)
             /\ c \in Taken <=> work[c].verb = "take" /\ work[c].made # <<>>
             /\ c \in Giving <=> work[c].verb = "give" /\ work[c].stage \in {"before", "write"}
             /\ c \in Taken' <=> work'[c].verb = "take" /\ work'[c].made # <<>>
             /\ c \in Giving' <=> work'[c].verb = "give" /\ work'[c].stage \in {"before", "write"}
  BY DEF WorkInv, TypeOK, Taken, Giving
\* a step after which c has no slot it did not have, and which does not lower the number
<1>2. ASSUME NEW c \in Callers, \A d \in Callers \ {c} : work'[d] = work[d],
             holding' \subseteq holding, c \in Taken' => c \in Taken,
             c \in Giving' => c \in Giving \/ (c \in holding /\ c \notin holding'),
             Quota => doc' = doc \/ (doc' \in Nat /\ (doc # Absent => doc' >= doc))
      PROVE  HoldingInv' /\ QuotaInv'
  <2>1. Slots' \subseteq Slots
    BY <1>2, SlotsFewer DEF Slots
  <2>2. QuotaInv'
    BY <1>a, <1>b, <1>2, <2>1, QuotaKept
  <2>3. \A d \in holding' : d \notin Giving'
    BY <1>2 DEF HoldingInv, Giving
  <2> QED
    BY <1>0, <1>2, <2>2, <2>3 DEF HoldingInv
<1>3. ASSUME NEW c \in Callers, Call(c) PROVE HoldingInv' /\ QuotaInv'
  <2>1. PICK v \in setup.verbs, by \in Amounts :
          /\ v = "give" => c \in holding
          /\ work' = [work EXCEPT ![c] = Begin(v, by)]
          /\ holding' = IF v = "give" THEN holding \ {c} ELSE holding
    BY <1>3 DEF Call
  <2>2. work'[c].verb = v /\ work'[c].made = <<>> /\ doc' = doc
    BY <1>3, <2>1 DEF Call, TypeOK, Begin, Idle
  <2> QED
    BY <1>1, <1>2, <1>3, <2>1, <2>2, OthersKept
<1>4. ASSUME NEW c \in Callers, \/ Before(c) \/ Conflict(c) \/ UpsertCollides(c) \/ Log(c) \/ Audit(c)
                                \/ Deliver(c) \/ Reject(c) \/ Crash(c)
      PROVE  HoldingInv' /\ QuotaInv'
  <2>1. doc' = doc /\ holding' \subseteq holding
    BY <1>4 DEF Before, Conflict, UpsertCollides, Log, Audit, Deliver, Reject, Crash
  <2>2. CASE Before(c)
    <3>1. work[c].stage = "before" /\ Kept(c)
      BY <2>2, CallerAfter DEF Before
    <3> QED
      BY <1>1, <1>2, <1>4, <2>1, <3>1, OthersKept DEF Kept
  <2>3. CASE Conflict(c)
    <3>1. work[c].stage = "write" /\ work'[c].verb = work[c].verb /\ work'[c].made = <<>>
      BY <2>3, CallerAfter DEF Conflict, Again, Fresh
    <3> QED
      BY <1>1, <1>2, <1>4, <2>1, <3>1, OthersKept
  <2>4. CASE UpsertCollides(c)
    <3>1. work[c].verb \in Upserts /\ Kept(c)
      BY <1>1, <2>4, CallerAfter DEF UpsertCollides, CallerInv
    <3>2. "give" \notin Upserts
      BY DEF Upserts
    <3> QED
      BY <1>1, <1>2, <1>4, <2>1, <3>1, <3>2, OthersKept DEF Kept
  <2>5. CASE Log(c) \/ Audit(c)
    <3>1. Kept(c) /\ work'[c].stage \notin {"before", "write"}
      BY <2>5, CallerAfter
    <3> QED
      BY <1>1, <1>2, <1>4, <2>1, <3>1, OthersKept DEF Kept
  <2>6. CASE Deliver(c)
    <3>1. work' = work
      BY <2>6 DEF Deliver
    <3> QED
      BY <1>1, <1>2, <2>1, <3>1
  <2>7. CASE Reject(c) \/ Crash(c)
    <3>1. work'[c].made = <<>> /\ work'[c].stage \in {"idle", "dead"}
      BY <2>7, CallerAfter DEF Fresh
    <3> QED
      BY <1>1, <1>2, <1>4, <2>1, <3>1, OthersKept
  <2> QED
    BY <1>4, <2>2, <2>3, <2>4, <2>5, <2>6, <2>7
\* the slot is held, or was not taken
<1>5. ASSUME NEW c \in Callers, Return(c) PROVE HoldingInv' /\ QuotaInv'
  <2>1. /\ work[c].stage = "return" /\ work'[c].made = <<>> /\ work'[c].stage \in {"idle", "dead"}
        /\ \A d \in Callers \ {c} : work'[d] = work[d]
    BY <1>5, CallerAfter, OthersKept DEF Return, Fresh
  <2>2. holding' = IF c \in Taken THEN holding \cup {c} ELSE holding
    BY <1>1, <1>5 DEF Return
  <2>3. Slots' \subseteq Slots
    BY <1>1, <2>1, <2>2, SlotsFewer DEF Slots
  <2>4. Quota => doc' = doc
    BY <1>5 DEF Return
  <2>5. QuotaInv'
    BY <1>a, <1>b, <2>3, <2>4, QuotaKept
  <2>6. c \in Taken => "take" \in setup.verbs
    BY <1>1, <2>1 DEF CallerInv
  <2>7. \A d \in holding' : d \notin Giving'
    BY <1>1, <2>1, <2>2 DEF HoldingInv, Giving
  <2> QED
    BY <1>0, <2>2, <2>5, <2>6, <2>7 DEF HoldingInv
<1>6. ASSUME NEW c \in Callers, Write(c) PROVE HoldingInv' /\ QuotaInv'
  <2>1. /\ holding' = holding /\ work[c].stage = "write" /\ work[c].verb \in setup.verbs
        /\ work[c].by \in Nat \ {0} /\ work[c].verb \in Verbs /\ work[c].verb \notin Upserts
        /\ \A d \in Callers \ {c} : work'[d] = work[d]
    BY <1>1, <1>6, OthersKept, RecordedAssumption DEF Write, CallerInv, Work
  <2>2. CASE ~Matches(c)
    <3>1. doc' = doc
      BY <1>6, <2>2 DEF Write
    <3>2. \/ work'[c].made = <<>> /\ work'[c].stage \in {"idle", "dead"}
          \/ Kept(c) /\ work'[c].stage = "log"
      BY <1>6, <2>2, CallerAfter DEF Fresh
    <3> QED
      BY <1>1, <1>2, <2>1, <3>1, <3>2 DEF Kept
  <2>3. CASE Matches(c)
    <3>1. Apply(c, Written(c), "log")
      BY <1>6, <2>3 DEF Write
    <3>2. work'[c].verb = work[c].verb /\ work'[c].made # <<>> /\ work'[c].stage = "log"
      BY <3>1, CallerAfter
    <3>3. c \notin Giving' /\ (c \in Taken' <=> work[c].verb = "take")
      BY <1>1, <3>2
    <3>4. HoldingInv'
      BY <1>0, <2>1, <3>3 DEF HoldingInv, Giving
    <3>5. SUFFICES ASSUME Quota PROVE QuotaHolds'
      BY <1>b, <3>4
    <3>6. doc' = Written(c) /\ work[c].verb \notin Lowering
      BY <2>1, <3>1, <3>5 DEF Apply
    <3>7. doc \in Int \cup {Absent} /\ Absent \notin Int /\ (work[c].verb = "create" \/ doc \in Int)
      BY <2>3, RecordedAssumption DEF TypeOK, Value, Matches
    <3>8. /\ Slots \in SUBSET Callers /\ IsFiniteSet(Slots) /\ Cardinality(Slots) \in Nat
          /\ Slots' \in SUBSET Callers /\ IsFiniteSet(Slots') /\ Cardinality(Slots') \in Nat
      <4>1. Slots \in SUBSET Callers /\ Slots' \in SUBSET Callers
        BY DEF Slots, Taken, Giving, TypeOK
      <4> QED
        BY <4>1, CallerSetsFinite, FS_CardinalityType
    <3>9. CASE work[c].verb = "take"
      <4>1. doc' = doc + 1 /\ doc \in Int /\ doc < Ceiling
        BY <2>3, <3>6, <3>7, <3>9 DEF Written, Matches, Below
      <4>2. Slots' \subseteq Slots \cup {c}
        BY <2>1 DEF Slots, Taken, Giving
      <4>3. IsFiniteSet(Slots \cup {c}) /\ Cardinality(Slots \cup {c}) <= Cardinality(Slots) + 1
        <5>1. /\ IsFiniteSet(Slots \cup {c})
              /\ \/ Cardinality(Slots \cup {c}) = Cardinality(Slots)
                 \/ Cardinality(Slots \cup {c}) = Cardinality(Slots) + 1
          BY <3>8, FS_AddElement
        <5> QED
          BY <3>8, <5>1
      <4>4. Cardinality(Slots') <= Cardinality(Slots) + 1
        <5>1. Cardinality(Slots') <= Cardinality(Slots \cup {c})
          BY <4>2, <4>3, FS_Subset
        <5>2. Cardinality(Slots \cup {c}) \in Nat
          BY <4>3, FS_CardinalityType
        <5> QED
          BY <3>8, <4>3, <5>1, <5>2
      <4>5. Cardinality(Slots) <= doc
        BY <1>a, <3>5, <3>7, <4>1 DEF QuotaHolds
      <4> QED
        BY <3>7, <3>8, <4>1, <4>4, <4>5, RecordedAssumption DEF QuotaHolds
    <3>10. CASE work[c].verb = "give"
      <4>1. doc' = doc - 1 /\ doc \in Int
        BY <3>6, <3>7, <3>10 DEF Written
      <4>2. c \in Slots /\ c \notin Slots' /\ Slots' = Slots \ {c}
        <5>1. c \in Giving /\ c \notin holding
          BY <1>1, <2>1, <3>10 DEF HoldingInv
        <5>2. c \notin Slots'
          BY <2>1, <3>3, <3>10, <5>1 DEF Slots
        <5>3. Slots' \ {c} = Slots \ {c}
          BY <2>1 DEF Slots, Taken, Giving
        <5> QED
          BY <5>1, <5>2, <5>3 DEF Slots
      <4>3. Cardinality(Slots') = Cardinality(Slots) - 1
        BY <3>8, <4>2, FS_RemoveElement
      <4>4. Cardinality(Slots) <= doc /\ Cardinality(Slots) <= Ceiling
        BY <1>a, <3>5, <3>7, <4>1 DEF QuotaHolds
      <4> QED
        BY <3>7, <3>8, <4>1, <4>3, <4>4, RecordedAssumption DEF QuotaHolds
    <3>11. CASE work[c].verb \notin {"take", "give"}
      <4>1. Slots' \subseteq Slots
        <5>1. c \in Slots' => c \in Slots
          BY <2>1, <3>3, <3>11 DEF Slots
        <5> QED
          BY <2>1, <5>1, SlotsFewer
      <4>2. doc # Absent => doc \in Nat
        BY <1>a, <3>5, <3>7, <3>8 DEF QuotaHolds
      <4>3. work[c].verb \in {"create", "increment", "multiply", "setMax"}
        BY <2>1, <3>6, <3>11 DEF Verbs, Captured, Updating, Operators, Lowering
      <4>4. CASE work[c].verb = "create"
        <5>1. doc' = work[c].by /\ doc = Absent
          BY <2>3, <3>6, <4>4 DEF Written, Matches
        <5> QED
          BY <1>a, <2>1, <3>5, <4>1, <5>1, QuotaKept
      <4>5. CASE work[c].verb = "increment"
        <5>1. doc' = doc + work[c].by
          BY <3>6, <4>5 DEF Written
        <5> QED
          BY <1>a, <2>1, <3>5, <3>7, <4>1, <4>2, <4>5, <5>1, QuotaKept
      <4>6. CASE work[c].verb = "multiply"
        <5>1. doc' = doc * work[c].by
          BY <3>6, <4>6 DEF Written
        <5>2. \A m \in Nat, n \in Nat \ {0} : m * n \in Nat /\ m * n >= m
          OBVIOUS
        <5> QED
          BY <1>a, <2>1, <3>5, <3>7, <4>1, <4>2, <4>6, <5>1, <5>2, QuotaKept
      <4>7. CASE work[c].verb = "setMax"
        <5>1. doc' = Max({doc, work[c].by})
          BY <3>6, <4>7 DEF Written
        <5>2. \A m, n \in Nat : Max({m, n}) \in Nat /\ Max({m, n}) >= m
          BY DEF Max
        <5> QED
          BY <1>a, <2>1, <3>5, <3>7, <4>1, <4>2, <4>7, <5>1, <5>2, QuotaKept
      <4> QED
        BY <4>3, <4>4, <4>5, <4>6, <4>7
    <3> QED
      BY <3>9, <3>10, <3>11
  <2> QED
    BY <2>2, <2>3
<1>7. ASSUME NEW c \in Callers, Upsert(c) \/ UpsertInserts(c) PROVE HoldingInv' /\ QuotaInv'
  <2>1. /\ holding' = holding /\ work[c].verb \in Upserts /\ work[c].by \in Nat
        /\ \A d \in Callers \ {c} : work'[d] = work[d]
    BY <1>1, <1>7, OthersKept DEF Upsert, UpsertInserts, CallerInv, Work
  <2>2. work'[c].verb = work[c].verb
    BY <1>7, CallerAfter DEF Upsert, UpsertInserts, Kept
  <2>3. c \notin Taken' /\ c \notin Giving'
    BY <1>1, <2>1, <2>2 DEF Upserts
  <2>4. Quota => doc' = doc \/ (doc' \in Nat /\ (doc # Absent => doc' >= doc))
    <3> SUFFICES ASSUME Quota PROVE doc' = doc \/ (doc' \in Nat /\ (doc # Absent => doc' >= doc))
      OBVIOUS
    <3>1. doc # Absent => doc \in Nat
      <4>1. Cardinality(Slots) \in Nat /\ (doc # Absent => doc \in Int /\ Cardinality(Slots) <= doc)
        <5>1. Slots \in SUBSET Callers
          BY DEF Slots, Taken, Giving, TypeOK
        <5> QED
          BY <1>a, <5>1, CallerSetsFinite, FS_CardinalityType DEF QuotaHolds, TypeOK, Value
      <4> QED
        BY <4>1
    <3>2. CASE Upsert(c) /\ doc # Absent
      <4>1. doc' = Written(c)
        BY <3>2 DEF Upsert, Apply
      <4>2. Written(c) = doc \/ Written(c) = doc + work[c].by
        BY <2>1 DEF Written, Upserts
      <4> QED
        BY <2>1, <3>1, <3>2, <4>1, <4>2
    <3>3. CASE Upsert(c) /\ doc = Absent
      BY <3>3 DEF Upsert
    <3>4. CASE UpsertInserts(c)
      <4>1. doc' = Inserted(c) /\ doc = Absent
        BY <3>4 DEF UpsertInserts, Apply
      <4> QED
        BY <2>1, <4>1 DEF Inserted
    <3> QED
      BY <1>7, <3>2, <3>3, <3>4
  <2> QED
    BY <1>2, <2>1, <2>3, <2>4
<1>8. CASE UNCHANGED vars
  <2>1. Slots' = Slots /\ Giving' = Giving /\ doc' = doc /\ holding' = holding
    BY <1>8 DEF vars, Slots, Taken, Giving
  <2> QED
    BY <1>0, <2>1 DEF HoldingInv, QuotaInv, QuotaHolds
<1> QED
  BY <1>3, <1>4, <1>5, <1>6, <1>7, <1>8 DEF Next

\* The units of an increment: as many as it is large.
Units(x, n) == {x} \X (1 .. n)

LEMMA UnitsAre ==
  ASSUME NEW x, NEW n \in Nat
  PROVE  IsFiniteSet(Units(x, n)) /\ Cardinality(Units(x, n)) = n
<1>1. IsFiniteSet({x}) /\ Cardinality({x}) = 1
  BY FS_Singleton
<1>2. IsFiniteSet(1 .. n) /\ Cardinality(1 .. n) = n
  BY FS_Interval
<1>3. IsFiniteSet({x} \X (1 .. n)) /\ Cardinality({x} \X (1 .. n)) = Cardinality({x}) * Cardinality(1 .. n)
  BY <1>1, <1>2, FS_Product
<1> QED
  BY <1>1, <1>2, <1>3 DEF Units

\* Units that are added to a finite set, and units that are taken from it.
LEMMA UnitsAdded ==
  ASSUME NEW S, IsFiniteSet(S), NEW x, NEW n \in Nat, S \cap Units(x, n) = {}
  PROVE  /\ IsFiniteSet(S \cup Units(x, n)) /\ Cardinality(S) \in Nat
         /\ Cardinality(S \cup Units(x, n)) = Cardinality(S) + n
<1> DEFINE T == Units(x, n)
<1>1. IsFiniteSet(T) /\ Cardinality(T) = n
  BY UnitsAre
<1> HIDE DEF T
<1>2. /\ IsFiniteSet(S \cup T)
      /\ Cardinality(S \cup T) = Cardinality(S) + Cardinality(T) - Cardinality(S \cap T)
  BY <1>1, FS_Union
<1>3. S \cap T = {}
  BY DEF T
<1>4. Cardinality(S \cap T) = 0 /\ Cardinality(S) \in Nat
  BY <1>3, FS_EmptySet, FS_CardinalityType
<1>5. Cardinality(S \cup T) = Cardinality(S) + n
  BY <1>1, <1>2, <1>4
<1> QED
  BY <1>2, <1>4, <1>5 DEF T

LEMMA UnitsRemoved ==
  ASSUME NEW S, IsFiniteSet(S), NEW x, NEW n \in Nat, Units(x, n) \subseteq S
  PROVE  /\ IsFiniteSet(S \ Units(x, n)) /\ Cardinality(S \ Units(x, n)) \in Nat
         /\ Cardinality(S \ Units(x, n)) + n = Cardinality(S)
<1>1. S \ Units(x, n) \in SUBSET S /\ IsFiniteSet(S \ Units(x, n))
  <2>1. S \ Units(x, n) \in SUBSET S
    OBVIOUS
  <2> QED
    BY <2>1, FS_Subset
<1>2. (S \ Units(x, n)) \cap Units(x, n) = {} /\ S = (S \ Units(x, n)) \cup Units(x, n)
  OBVIOUS
<1> QED
  BY <1>1, <1>2, UnitsAdded

\* Increments that are written and not yet acknowledged.
Returning == {c \in Callers : work[c].verb = "usage" /\ work[c].stage = "return"}
Counted == UNION {Units(c, work[c].by) : c \in Returning}

UsageHolds ==
  /\ IsFiniteSet(Acknowledged) /\ IsFiniteSet(Counted)
  /\ Cardinality(Acknowledged) + Cardinality(Counted) <= IF doc = Absent THEN 0 ELSE doc
  /\ doc # Absent => doc >= 0

UsageInv == setup.verbs \subseteq Upserts => UsageHolds

LEMMA UsageKept ==
  ASSUME TypeOK, UsageHolds, UNCHANGED <<doc, acked>>, Counted' \subseteq Counted
  PROVE  UsageHolds'
<1>1. Acknowledged' = Acknowledged
  BY DEF Acknowledged
<1>2. /\ IsFiniteSet(Counted') /\ Cardinality(Counted') <= Cardinality(Counted)
      /\ Cardinality(Counted') \in Nat /\ Cardinality(Counted) \in Nat
      /\ Cardinality(Acknowledged) \in Nat
  BY FS_Subset, FS_CardinalityType DEF UsageHolds
<1>3. CASE doc = Absent
  <2>1. Cardinality(Acknowledged) + Cardinality(Counted) <= 0
    BY <1>3 DEF UsageHolds
  <2>2. Cardinality(Acknowledged) + Cardinality(Counted') <= 0
    BY <1>2, <2>1
  <2> QED
    BY <1>1, <1>2, <1>3, <2>2 DEF UsageHolds
<1>4. CASE doc # Absent
  <2>1. doc \in Int /\ Cardinality(Acknowledged) + Cardinality(Counted) <= doc /\ doc >= 0
    BY <1>4 DEF UsageHolds, TypeOK, Value
  <2>2. SUFFICES Cardinality(Acknowledged) + Cardinality(Counted') <= doc
    BY <1>1, <1>2, <1>4, <2>1 DEF UsageHolds
  <2> QED
    BY <1>2, <2>1
<1> QED
  BY <1>3, <1>4

\* What a step of c does to the increments that wait for their acknowledgement.
LEMMA CountedChange ==
  ASSUME TypeOK, TypeOK', NEW c \in Callers, \A d \in Callers \ {c} : work'[d] = work[d]
  PROVE  /\ c \notin Returning' => Counted' = IF c \in Returning
                                              THEN Counted \ Units(c, work[c].by) ELSE Counted
         /\ c \in Returning => Units(c, work[c].by) \subseteq Counted
         /\ c \in Returning' /\ c \notin Returning =>
              /\ Counted' = Counted \cup Units(c, work'[c].by)
              /\ Counted \cap Units(c, work'[c].by) = {}
<1>1. Returning' \ {c} = Returning \ {c} /\ \A d \in Returning \ {c} : work'[d].by = work[d].by
  BY DEF Returning
<1> DEFINE Rest == UNION {Units(d, work[d].by) : d \in Returning \ {c}}
<1>2. Rest = UNION {Units(d, work'[d].by) : d \in Returning' \ {c}}
  BY <1>1
<1>3. \A n : Rest \cap Units(c, n) = {}
  BY DEF Units
<1>4. /\ Counted = IF c \in Returning THEN Rest \cup Units(c, work[c].by) ELSE Rest
      /\ Counted' = IF c \in Returning' THEN Rest \cup Units(c, work'[c].by) ELSE Rest
  <2>1. Counted = IF c \in Returning THEN Rest \cup Units(c, work[c].by) ELSE Rest
    BY DEF Counted
  <2>2. Counted' = IF c \in Returning' THEN Rest \cup Units(c, work'[c].by) ELSE Rest
    BY <1>2 DEF Counted
  <2> QED
    BY <2>1, <2>2
<1> HIDE DEF Rest
<1> QED
  BY <1>3, <1>4

\* One more answer.
LEMMA AcknowledgedAppend ==
  ASSUME TypeOK, NEW a \in Answer, acked' = Append(acked, a)
  PROVE  /\ Acknowledged' = IF a.verb = "usage" THEN Acknowledged \cup Units(Len(acked) + 1, a.by)
                            ELSE Acknowledged
         /\ Acknowledged \cap Units(Len(acked) + 1, a.by) = {}
<1>1. acked \in Seq(Answer)
  BY DEF TypeOK
<1>2. /\ Len(acked) \in Nat /\ DOMAIN acked = 1 .. Len(acked)
      /\ DOMAIN acked' = 1 .. Len(acked) + 1
      /\ \A i \in 1 .. Len(acked) : acked'[i] = acked[i]
      /\ acked'[Len(acked) + 1] = a
  BY <1>1, AppendProperties, LenProperties
<1> DEFINE Usages == {j \in DOMAIN acked : acked[j].verb = "usage"}
<1>3. /\ Acknowledged = UNION {Units(i, acked[i].by) : i \in Usages}
      /\ Acknowledged' = UNION {Units(i, acked'[i].by) : i \in {j \in DOMAIN acked' : acked'[j].verb = "usage"}}
  BY DEF Acknowledged, Units
<1>4. {j \in DOMAIN acked' : acked'[j].verb = "usage"}
        = IF a.verb = "usage" THEN Usages \cup {Len(acked) + 1} ELSE Usages
  BY <1>2
<1>5. \A i \in Usages : acked'[i].by = acked[i].by
  BY <1>2
<1>6. Len(acked) + 1 \notin Usages
  BY <1>2
<1> HIDE DEF Usages
<1>7. Acknowledged' = IF a.verb = "usage" THEN Acknowledged \cup Units(Len(acked) + 1, a.by)
                      ELSE Acknowledged
  BY <1>2, <1>3, <1>4, <1>5
<1>8. Acknowledged \cap Units(Len(acked) + 1, a.by) = {}
  BY <1>3, <1>6 DEF Units
<1> QED
  BY <1>7, <1>8

LEMMA UsageInductive ==
  ASSUME TypeOK, TypeOK', WorkInv, UsageInv, [Next]_vars
  PROVE  UsageInv'
<1>0. setup' = setup
  BY SetupFixed
<1> SUFFICES ASSUME setup.verbs \subseteq Upserts PROVE UsageHolds'
  BY <1>0 DEF UsageInv
<1>1. UsageHolds
  BY DEF UsageInv
<1>2. ASSUME NEW c \in Callers
      PROVE  /\ work[c] \in Work /\ CallerInv(c) /\ work[c].by \in Nat
             /\ work[c].stage \notin {"idle", "dead"} => work[c].verb \in Upserts /\ ~setup.bound
             /\ c \in Returning <=> work[c].verb = "usage" /\ work[c].stage = "return"
             /\ c \in Returning' <=> work'[c].verb = "usage" /\ work'[c].stage = "return"
  <2>1. work[c] \in Work /\ CallerInv(c)
    BY DEF TypeOK, WorkInv
  <2>2. work[c].stage \notin {"idle", "dead"} => work[c].verb \in setup.verbs
    BY <2>1 DEF CallerInv
  <2> QED
    BY <2>1, <2>2, BoundVerbs DEF Returning, Work
<1>3. doc \in Int \cup {Absent} /\ doc' \in Int \cup {Absent} /\ Absent \notin Int
  BY RecordedAssumption DEF TypeOK, Value
<1>4. /\ IsFiniteSet(Acknowledged) /\ IsFiniteSet(Counted)
      /\ Cardinality(Acknowledged) \in Nat /\ Cardinality(Counted) \in Nat
  BY <1>1, FS_CardinalityType DEF UsageHolds
\* a step of c after which no increment of it waits, and which writes nothing
<1>5. ASSUME NEW c \in Callers, \A d \in Callers \ {c} : work'[d] = work[d],
             UNCHANGED <<doc, acked>>, work'[c].stage # "return"
      PROVE  UsageHolds'
  <2>1. Counted' \subseteq Counted
    BY <1>2, <1>5, CountedChange
  <2> QED
    BY <1>1, <1>5, <2>1, UsageKept
<1>6. ASSUME NEW c \in Callers, Call(c) PROVE UsageHolds'
  <2>1. work'[c].stage # "return"
    BY <1>6 DEF Call, Begin, FirstStage, Idle, TypeOK
  <2> QED
    BY <1>5, <1>6, <2>1, OthersKept DEF Call
<1>7. ASSUME NEW c \in Callers, Before(c) \/ Conflict(c) \/ UpsertCollides(c) \/ Reject(c) \/ Crash(c)
      PROVE  UsageHolds'
  <2>1. work'[c].stage # "return"
    BY <1>7, CallerAfter DEF Again, Fresh
  <2>2. UNCHANGED <<doc, acked>>
    BY <1>7 DEF Before, Conflict, UpsertCollides, Reject, Crash
  <2> QED
    BY <1>5, <1>7, <2>1, <2>2, OthersKept
<1>8. ASSUME NEW c \in Callers, Write(c) \/ Log(c) \/ Audit(c) PROVE FALSE
  BY <1>2, <1>8 DEF Write, Log, Audit, CallerInv
<1>9. ASSUME NEW c \in Callers, Deliver(c) PROVE UsageHolds'
  <2>1. Counted' = Counted /\ UNCHANGED <<doc, acked>>
    BY <1>9 DEF Deliver, Counted, Returning
  <2> QED
    BY <1>1, <2>1, UsageKept
\* the increment is counted, and its caller does not know yet
<1>10. ASSUME NEW c \in Callers, NEW n, Apply(c, n, "return"), work[c].stage \in {"write", "insert"},
              \A d \in Callers \ {c} : work'[d] = work[d], acked' = acked,
              n = (IF doc = Absent THEN 0 ELSE doc) + (IF work[c].verb = "usage" THEN work[c].by ELSE 0)
       PROVE  UsageHolds'
  <2>1. /\ work'[c].verb = work[c].verb /\ work'[c].by = work[c].by /\ work'[c].stage = "return"
        /\ doc' = n
    <3>1. ~setup.bound
      BY <1>2, <1>10
    <3>2. doc' = n
      BY <1>10, <3>1 DEF Apply
    <3> QED
      BY <1>10, <3>2, CallerAfter
  <2>2. Acknowledged' = Acknowledged
    BY <1>10 DEF Acknowledged
  <2>3. c \notin Returning /\ (c \in Returning' <=> work[c].verb = "usage")
    BY <1>2, <1>10, <2>1
  <2>4. /\ IsFiniteSet(Counted') /\ Cardinality(Counted')
             = Cardinality(Counted) + (IF work[c].verb = "usage" THEN work[c].by ELSE 0)
    <3>1. CASE work[c].verb = "usage"
      <4>1. Counted' = Counted \cup Units(c, work[c].by) /\ Counted \cap Units(c, work[c].by) = {}
        BY <1>10, <2>1, <2>3, <3>1, CountedChange
      <4> QED
        BY <1>2, <1>4, <3>1, <4>1, UnitsAdded
    <3>2. CASE work[c].verb # "usage"
      <4>1. Counted' = Counted
        BY <1>10, <2>3, <3>2, CountedChange
      <4> QED
        BY <1>4, <3>2, <4>1
    <3> QED
      BY <3>1, <3>2
  <2>5. n \in Nat /\ (IF doc = Absent THEN 0 ELSE doc) \in Nat
    <3>1. (IF doc = Absent THEN 0 ELSE doc) \in Nat
      BY <1>1, <1>3 DEF UsageHolds
    <3>2. (IF work[c].verb = "usage" THEN work[c].by ELSE 0) \in Nat
      BY <1>2
    <3>3. \A i, j \in Nat : i + j \in Nat
      OBVIOUS
    <3> QED
      BY <1>10, <3>1, <3>2, <3>3
  <2>6. Cardinality(Acknowledged') + Cardinality(Counted') <= n
    BY <1>1, <1>2, <1>4, <1>10, <2>2, <2>4, <2>5 DEF UsageHolds
  <2> QED
    BY <1>3, <1>4, <2>1, <2>2, <2>4, <2>5, <2>6 DEF UsageHolds
<1>11. ASSUME NEW c \in Callers, Upsert(c) PROVE UsageHolds'
  <2>1. \A d \in Callers \ {c} : work'[d] = work[d]
    BY <1>11, OthersKept
  <2>2. CASE doc = Absent
    <3>1. UNCHANGED <<doc, acked>> /\ work'[c].stage = "insert"
      BY <1>11, <2>2, CallerAfter DEF Upsert
    <3> QED
      BY <1>5, <2>1, <3>1
  <2>3. CASE doc # Absent
    <3>1. /\ Apply(c, Written(c), "return") /\ work[c].stage = "write" /\ work[c].verb \in Upserts
          /\ acked' = acked
      BY <1>11, <2>3 DEF Upsert
    <3>2. Written(c) = doc + (IF work[c].verb = "usage" THEN work[c].by ELSE 0)
      BY <1>3, <2>3, <3>1 DEF Written, Upserts
    <3> QED
      BY <1>10, <2>1, <2>3, <3>1, <3>2
  <2> QED
    BY <2>2, <2>3
<1>12. ASSUME NEW c \in Callers, UpsertInserts(c) PROVE UsageHolds'
  <2>1. /\ Apply(c, Inserted(c), "return") /\ work[c].stage = "insert" /\ doc = Absent
        /\ acked' = acked /\ \A d \in Callers \ {c} : work'[d] = work[d]
    BY <1>12, OthersKept DEF UpsertInserts
  <2>2. Inserted(c) = 0 + (IF work[c].verb = "usage" THEN work[c].by ELSE 0)
    BY <1>2 DEF Inserted
  <2> QED
    BY <1>10, <2>1, <2>2
\* the increment is acknowledged
<1>13. ASSUME NEW c \in Callers, Return(c) PROVE UsageHolds'
  <2> DEFINE a == [verb |-> work[c].verb, by |-> work[c].by, made |-> work[c].made]
  <2>1. /\ acked' = Append(acked, a) /\ work[c].stage = "return" /\ doc' = doc
        /\ work'[c].stage # "return" /\ \A d \in Callers \ {c} : work'[d] = work[d]
    BY <1>2, <1>13, CallerAfter, OthersKept DEF Return, Fresh
  <2>2. a \in Answer /\ a.verb = work[c].verb /\ a.by = work[c].by
    BY <1>2 DEF Answer, Work
  <2> HIDE DEF a
  <2>3. c \notin Returning' /\ (c \in Returning <=> work[c].verb = "usage")
    BY <1>2, <2>1
  <2>4. CASE work[c].verb # "usage"
    <3>1. Acknowledged' = Acknowledged /\ Counted' = Counted
      BY <2>1, <2>2, <2>3, <2>4, AcknowledgedAppend, CountedChange
    <3> QED
      BY <1>1, <2>1, <3>1 DEF UsageHolds
  <2>5. CASE work[c].verb = "usage"
    <3>1. /\ Acknowledged' = Acknowledged \cup Units(Len(acked) + 1, work[c].by)
          /\ Acknowledged \cap Units(Len(acked) + 1, work[c].by) = {}
      BY <2>1, <2>2, <2>5, AcknowledgedAppend
    <3>2. Counted' = Counted \ Units(c, work[c].by) /\ Units(c, work[c].by) \subseteq Counted
      BY <2>1, <2>3, <2>5, CountedChange
    <3>3. /\ IsFiniteSet(Acknowledged')
          /\ Cardinality(Acknowledged') = Cardinality(Acknowledged) + work[c].by
      BY <1>2, <1>4, <3>1, UnitsAdded
    <3>4. /\ IsFiniteSet(Counted') /\ Cardinality(Counted') \in Nat
          /\ Cardinality(Counted') + work[c].by = Cardinality(Counted)
      BY <1>2, <1>4, <3>2, UnitsRemoved
    <3>5. Cardinality(Acknowledged') + Cardinality(Counted') = Cardinality(Acknowledged) + Cardinality(Counted)
      BY <1>2, <1>4, <3>3, <3>4
    <3> QED
      BY <1>1, <2>1, <3>3, <3>4, <3>5 DEF UsageHolds
  <2> QED
    BY <2>4, <2>5
<1>14. CASE UNCHANGED vars
  <2>1. Counted' = Counted /\ UNCHANGED <<doc, acked>>
    BY <1>14 DEF vars, Counted, Returning
  <2> QED
    BY <1>1, <2>1, UsageKept
<1> QED
  BY <1>6, <1>7, <1>8, <1>9, <1>11, <1>12, <1>13, <1>14 DEF Next

\* The counters hold what their callers were told.  A quota that nothing else lowers
\* is held by at most Ceiling callers, whichever calls reject and callers stop between
\* the write and the answer; and every usage increment that was acknowledged is counted,
\* also when two callers insert the cell at once.
THEOREM CountersRight == Spec => []CountersAreRight
<1>1. Init => HoldingInv /\ QuotaInv /\ UsageInv
  <2> SUFFICES ASSUME Init PROVE HoldingInv /\ QuotaInv /\ UsageInv
    OBVIOUS
  <2>1. Slots = {} /\ holding = {} /\ Returning = {}
    BY DEF Init, Slots, Taken, Giving, Returning, Idle
  <2>2. Cardinality(Slots) = 0
    BY <2>1, FS_EmptySet
  <2>3. HoldingInv
    BY <2>1 DEF HoldingInv
  <2>4. doc = Absent \/ doc = 0
    BY DEF Init
  <2>5. QuotaInv
    BY <2>1, <2>2, <2>4, RecordedAssumption DEF QuotaInv, QuotaHolds
  <2>6. Counted = {}
    BY <2>1 DEF Counted
  <2>7. Acknowledged = {}
    <3>1. DOMAIN acked = {}
      BY DEF Init
    <3> QED
      BY <3>1 DEF Acknowledged
  <2>8. UsageInv
    BY <2>4, <2>6, <2>7, FS_EmptySet DEF UsageInv, UsageHolds
  <2> QED
    BY <2>3, <2>5, <2>8
<1>2. TypeOK /\ TypeOK' /\ WorkInv /\ HoldingInv /\ QuotaInv /\ UsageInv /\ [Next]_vars
        => HoldingInv' /\ QuotaInv' /\ UsageInv'
  BY QuotaInductive, UsageInductive
<1>3. TypeOK /\ HoldingInv /\ QuotaInv /\ UsageInv => CountersAreRight
  <2> SUFFICES ASSUME TypeOK, HoldingInv, QuotaInv, UsageInv PROVE CountersAreRight
    OBVIOUS
  <2>1. ASSUME setup.verbs \cap Lowering = {} PROVE Cardinality(holding) <= Ceiling
    <3>1. CASE setup.bound
      <4>1. "take" \notin setup.verbs
        BY <3>1, BoundVerbs
      <4>2. holding = {}
        BY <4>1 DEF HoldingInv
      <4> QED
        BY <4>2, FS_EmptySet, RecordedAssumption
    <3>2. CASE ~setup.bound
      <4>1. Slots \in SUBSET Callers /\ holding \in SUBSET Slots
        BY DEF Slots, Taken, Giving, TypeOK
      <4>2. /\ Cardinality(holding) <= Cardinality(Slots)
            /\ Cardinality(holding) \in Nat /\ Cardinality(Slots) \in Nat
        BY <4>1, CallerSetsFinite, FS_Subset, FS_CardinalityType
      <4>3. Cardinality(Slots) <= Ceiling
        BY <2>1, <3>2 DEF QuotaInv, QuotaHolds
      <4> QED
        BY <4>2, <4>3, RecordedAssumption
    <3> QED
      BY <3>1, <3>2
  <2>2. ASSUME setup.verbs \subseteq Upserts
        PROVE  Cardinality(Acknowledged) <= IF doc = Absent THEN 0 ELSE doc
    <3>1. UsageHolds
      BY <2>2 DEF UsageInv
    <3>2. Cardinality(Acknowledged) \in Nat /\ Cardinality(Counted) \in Nat
      BY <3>1, FS_CardinalityType DEF UsageHolds
    <3>3. (IF doc = Absent THEN 0 ELSE doc) \in Int
      BY DEF TypeOK, Value
    <3> QED
      BY <3>1, <3>2, <3>3 DEF UsageHolds
  <2> QED
    BY <2>1, <2>2 DEF CountersAreRight
<1> QED
  BY <1>1, <1>2, <1>3, TypeCorrect, WorkInvariant, PTL DEF Spec

-----------------------------------------------------------------------------
(***************************************************************************)
(* The watcher.  The writes that its stream has not read yet either change *)
(* the document or do not; when none of them does, the image of the last   *)
(* change it has read is the document as it is, in the queue or shown.     *)
(***************************************************************************)

\* No write of history from i to j changed the document.
NoOps(i, j) == \A k \in i .. j : history[k].from = history[k].to

HistoryInv == \A k \in 1 .. Len(history) : NoOps(k + 1, Len(history)) => history[k].to = doc

\* Every committed write turns the document as it is into the next one.
LEMMA HistoryStep ==
  ASSUME TypeOK, WorkInv, [Next]_vars
  PROVE  \/ UNCHANGED <<doc, history>>
         \/ \E change \in Change :
              change.from = doc /\ doc' = change.to /\ history' = Append(history, change)
<1>1. CASE setup.bound
  BY <1>1, BoundStep
<1>2. CASE ~setup.bound
  <2>1. ASSUME NEW c \in Callers, NEW n \in Value, NEW next \in {"log", "return"}, Apply(c, n, next)
        PROVE  \E change \in Change :
                 change.from = doc /\ doc' = change.to /\ history' = Append(history, change)
    <3> DEFINE change == [verb |-> work[c].verb, from |-> doc, to |-> n]
    <3>1. doc' = n /\ history' = Append(history, change)
      BY <1>2, <2>1 DEF Apply
    <3>2. change \in Change /\ change.from = doc /\ change.to = n
      BY <2>1, ChangeTyped
    <3> HIDE DEF change
    <3> QED
      BY <3>1, <3>2
  <2>2. ASSUME NEW c \in Callers, Write(c)
        PROVE  UNCHANGED <<doc, history>> \/ \E n \in Value, next \in {"log", "return"} : Apply(c, n, next)
    BY <2>2, WrittenTyped DEF Write
  <2>3. ASSUME NEW c \in Callers, Upsert(c)
        PROVE  UNCHANGED <<doc, history>> \/ \E n \in Value, next \in {"log", "return"} : Apply(c, n, next)
    <3>1. doc # Absent => Matches(c)
      BY <2>3 DEF Upsert, Matches, Upserts
    <3> QED
      BY <2>3, <3>1, WrittenTyped DEF Upsert
  <2>4. ASSUME NEW c \in Callers, UpsertInserts(c) PROVE \E n \in Value, next \in {"log", "return"} : Apply(c, n, next)
    <3>1. Inserted(c) \in Value
      BY ValuesTyped DEF Inserted, TypeOK, Work
    <3> QED
      BY <2>4, <3>1 DEF UpsertInserts
  <2>5. ASSUME NEW c \in Callers, \/ Call(c) \/ Before(c) \/ Conflict(c) \/ UpsertCollides(c) \/ Log(c)
                                  \/ Audit(c) \/ Deliver(c) \/ Return(c) \/ Reject(c) \/ Crash(c)
        PROVE  UNCHANGED <<doc, history>>
    BY <1>2, <2>5 DEF Call, Before, Conflict, UpsertCollides, Log, Audit, Deliver, Return, Reject, Crash
  <2>6. CASE UNCHANGED vars
    BY <2>6 DEF vars
  <2> QED
    BY <2>1, <2>2, <2>3, <2>4, <2>5, <2>6 DEF Next
<1> QED
  BY <1>1, <1>2

LEMMA HistoryInductive ==
  ASSUME TypeOK, TypeOK', WorkInv, HistoryInv, [Next]_vars
  PROVE  HistoryInv'
<1>1. CASE UNCHANGED <<doc, history>>
  BY <1>1 DEF HistoryInv, NoOps
<1>2. ASSUME NEW change \in Change,
             change.from = doc, doc' = change.to, history' = Append(history, change)
      PROVE  HistoryInv'
  <2>1. history \in Seq(Change)
    BY DEF TypeOK
  <2>2. /\ Len(history) \in Nat /\ Len(history') = Len(history) + 1
        /\ \A k \in 1 .. Len(history) : history'[k] = history[k]
        /\ history'[Len(history) + 1] = change
    BY <1>2, <2>1, LenProperties, AppendProperties
  <2> SUFFICES ASSUME NEW k \in 1 .. Len(history'), NoOps(k + 1, Len(history))'
               PROVE  history'[k].to = doc'
    BY DEF HistoryInv, NoOps
  <2>3. CASE k = Len(history) + 1
    BY <1>2, <2>2, <2>3
  <2>4. CASE k \in 1 .. Len(history)
    <3>1. \A i \in k + 1 .. Len(history) + 1 : history'[i].from = history'[i].to
      BY <2>2 DEF NoOps
    <3>2. change.from = change.to
      BY <2>2, <2>4, <3>1
    <3>3. NoOps(k + 1, Len(history))
      BY <2>2, <2>4, <3>1 DEF NoOps
    <3> QED
      BY <1>2, <2>2, <2>4, <3>2, <3>3 DEF HistoryInv
  <2> QED
    BY <2>2, <2>3, <2>4
<1> QED
  BY <1>1, <1>2, HistoryStep

\* What the watcher's own variables are.
LEMMA WatchTyped ==
  ASSUME TypeOK, TypeOK', WatchTypeOK, [WatchedNext]_<<vars, watchVars>>
  PROVE  WatchTypeOK'
<1>1. CASE UNCHANGED watchVars
  BY <1>1 DEF WatchTypeOK, watchVars
<1>2. stream \in [state : {"unopened", "opening", "open", "closed"}, from : Nat, at : Nat]
      /\ queue \in Seq(Value) /\ shown \in Seq(Value) /\ Len(shown) <= 1
  BY DEF WatchTypeOK
<1>3. CASE Watch
  <2>1. stream' \in {stream, [stream EXCEPT !.state = "opening"]}
    BY <1>3 DEF Watch
  <2> QED
    BY <1>2, <1>3, <2>1 DEF Watch, WatchTypeOK
<1>4. CASE StreamOpens
  <2>1. PICK token \in 0 .. Len(history) : stream' = [state |-> "open", from |-> token, at |-> token]
    BY <1>4 DEF StreamOpens
  <2>2. token \in Nat
    BY LenProperties DEF TypeOK
  <2> QED
    BY <1>4, <2>1, <2>2 DEF StreamOpens, WatchTypeOK
<1>5. CASE EventRead
  <2>1. stream' = [stream EXCEPT !.at = stream.at + 1]
    BY <1>5 DEF EventRead
  <2>2. FullDocument(history[stream.at + 1]) \in Value
    <3>1. stream.at + 1 \in 1 .. Len(history) /\ history \in Seq(Change)
      <4>1. history \in Seq(Change) /\ stream.at \in Nat /\ stream.at < Len(history)
        BY <1>2, <1>5 DEF EventRead, TypeOK
      <4>2. Len(history) \in Nat
        BY <4>1, LenProperties
      <4> QED
        BY <4>1, <4>2
    <3>2. history[stream.at + 1] \in Change
      BY <3>1, ElementOfSeq
    <3> QED
      BY <3>2, ValuesTyped DEF FullDocument, Change, TypeOK
  <2>3. Append(queue, FullDocument(history[stream.at + 1])) \in Seq(Value)
    BY <1>2, <2>2, AppendProperties
  <2>4. /\ queue' \in {queue, Append(queue, FullDocument(history[stream.at + 1]))}
        /\ reader' \in {reader, "running"}
    BY <1>5 DEF EventRead, Woken
  <2>5. stream' \in [state : {"unopened", "opening", "open", "closed"}, from : Nat, at : Nat]
    BY <1>2, <2>1
  <2>6. aborted' \in BOOLEAN /\ failed' \in BOOLEAN /\ ended' \in BOOLEAN
    BY <1>5 DEF EventRead, WatchTypeOK
  <2>7. filter' = filter /\ shown' = shown
    BY <1>5 DEF EventRead
  <2> QED
    BY <1>2, <2>3, <2>4, <2>5, <2>6, <2>7 DEF WatchTypeOK
<1>6. CASE StreamFails \/ StreamCloses \/ Abort
  <2>1. /\ stream' \in {stream, [stream EXCEPT !.state = "closed"]} /\ UNCHANGED <<filter, queue, shown>>
        /\ reader' \in {reader, "running"}
    <3>1. reader' = Woken /\ UNCHANGED <<filter, queue, shown>>
      BY <1>6 DEF StreamFails, StreamCloses, Abort
    <3>2. stream' = stream \/ stream' = [stream EXCEPT !.state = "closed"]
      BY <1>6 DEF StreamFails, StreamCloses, Abort
    <3> QED
      BY <3>1, <3>2 DEF Woken
  <2>2. failed' \in BOOLEAN /\ ended' \in BOOLEAN /\ aborted' \in BOOLEAN
    BY <1>6 DEF StreamFails, StreamCloses, Abort, WatchTypeOK
  <2> QED
    BY <1>2, <2>1, <2>2 DEF WatchTypeOK
<1>7. ASSUME Leave, UNCHANGED <<filter, aborted>> PROVE WatchTypeOK'
  <2>1. /\ stream' = [state |-> "closed", from |-> 0, at |-> 0] /\ reader' = "over"
        /\ queue' = <<>> /\ shown' = <<>> /\ failed' = FALSE /\ ended' = FALSE
    BY <1>7 DEF Leave, Closed
  <2>2. <<>> \in Seq(Value) /\ Len(<<>>) = 0
    BY EmptySeq
  <2>3. stream' \in [state : {"unopened", "opening", "open", "closed"}, from : Nat, at : Nat]
    BY <2>1
  <2>4. aborted' \in BOOLEAN /\ failed' \in BOOLEAN /\ ended' \in BOOLEAN
    BY <1>7, <2>1 DEF WatchTypeOK
  <2>5. filter' \in Filters \cup {{}}
    BY <1>7 DEF WatchTypeOK
  <2>6. queue' \in Seq(Value) /\ shown' \in Seq(Value) /\ Len(shown') <= 1
    BY <2>1, <2>2
  <2> QED
    BY <2>1, <2>3, <2>4, <2>5, <2>6 DEF WatchTypeOK
<1>8. CASE Turn \/ Consumed
  <2>1. CASE queue # <<>> /\ shown' = <<Head(queue)>> /\ queue' = Tail(queue) /\ reader' = "yielded"
               /\ UNCHANGED <<filter, aborted, stream, failed, ended>>
    <3>1. Head(queue) \in Value /\ Tail(queue) \in Seq(Value)
      BY <1>2, <2>1, HeadTailProperties
    <3>2. shown' \in Seq(Value) /\ Len(shown') = 1
      BY <2>1, <3>1
    <3> QED
      BY <2>1, <3>1, <3>2 DEF WatchTypeOK
  <2>2. CASE reader' \in {"asleep", "running"} /\ UNCHANGED <<filter, aborted, stream, queue, failed, ended, shown>>
    BY <2>2 DEF WatchTypeOK
  <2> QED
    BY <1>7, <1>8, <2>1, <2>2 DEF Turn, Consumed
<1> QED
  BY <1>1, <1>3, <1>4, <1>5, <1>6, <1>8 DEF WatchedNext, Watcher, watchVars

\* Beside a watcher the writers behave as they do without one: what is proved of them
\* holds of the watched system.
THEOREM WatchedIsRecorded == WatchedSpec => Spec
<1>1. WatchInit => Init
  BY DEF WatchInit
<1>2. [WatchedNext]_<<vars, watchVars>> => [Next]_vars
  BY DEF WatchedNext
<1> QED
  BY <1>1, <1>2, PTL DEF WatchedSpec, Spec

\* A generator that sleeps has nothing left to hand on.
SleepInv == reader = "asleep" => queue = <<>> /\ ~failed /\ ~ended /\ ~aborted

LEMMA SleepInductive ==
  ASSUME SleepInv, [WatchedNext]_<<vars, watchVars>>
  PROVE  SleepInv'
<1>1. CASE UNCHANGED watchVars
  BY <1>1 DEF watchVars, SleepInv
<1>2. CASE Watch \/ StreamOpens \/ EventRead \/ StreamFails \/ StreamCloses \/ Abort
  BY <1>2 DEF Watch, StreamOpens, EventRead, StreamFails, StreamCloses, Abort, Woken, SleepInv
<1>3. CASE Turn \/ Consumed
  BY <1>3 DEF Turn, Consumed, Leave, SleepInv
<1> QED
  BY <1>1, <1>2, <1>3 DEF WatchedNext, Watcher, watchVars

\* The stream has read a change since it began.
Seen == \E i \in stream.from + 1 .. stream.at : history[i].from # history[i].to

StreamInv ==
  stream.state = "open" =>
    /\ stream.from <= stream.at /\ stream.at <= Len(history)
    /\ NoOps(stream.at + 1, Len(history)) /\ Seen /\ Passes(doc) =>
         IF queue = <<>> THEN shown = <<doc>> ELSE queue[Len(queue)] = doc

\* What a turn hands on is the last of the queue if it is the only one.
LEMMA QueueMoves ==
  ASSUME NEW q \in Seq(Value), q # <<>>
  PROVE  /\ Tail(q) = <<>> => Head(q) = q[Len(q)]
         /\ Tail(q) # <<>> => Tail(q)[Len(Tail(q))] = q[Len(q)]
<1> DEFINE t == Tail(q)
<1>1. Len(q) \in Nat \ {0} /\ Head(q) = q[1]
  BY EmptySeq
<1>2. t \in Seq(Value) /\ Len(t) = Len(q) - 1 /\ \A i \in 1 .. Len(t) : t[i] = q[i + 1]
  BY HeadTailProperties
<1> HIDE DEF t
<1>3. CASE t = <<>>
  <2>1. Len(t) = 0
    BY <1>3
  <2>2. Len(q) = 1
    BY <1>1, <1>2, <2>1
  <2> QED
    BY <1>1, <1>3, <2>2 DEF t
<1>4. CASE t # <<>>
  <2>1. Len(t) \in Nat \ {0}
    BY <1>2, <1>4, EmptySeq
  <2>2. t[Len(t)] = q[Len(t) + 1] /\ Len(t) + 1 = Len(q)
    BY <1>1, <1>2, <2>1
  <2> QED
    BY <1>4, <2>2 DEF t
<1> QED
  BY <1>3, <1>4

LEMMA StreamInductive ==
  ASSUME TypeOK, TypeOK', WatchTypeOK, WatchTypeOK', WorkInv, HistoryInv, StreamInv,
         [WatchedNext]_<<vars, watchVars>>
  PROVE  StreamInv'
<1>1. /\ stream.from \in Nat /\ stream.at \in Nat /\ queue \in Seq(Value)
      /\ history \in Seq(Change) /\ Len(history) \in Nat
  BY LenProperties DEF WatchTypeOK, TypeOK
\* a write of the document
<1>2. ASSUME NEW change \in Change, change.from = doc, doc' = change.to,
             history' = Append(history, change), UNCHANGED watchVars
      PROVE  StreamInv'
  <2>1. /\ Len(history') = Len(history) + 1 /\ history'[Len(history) + 1] = change
        /\ \A k \in 1 .. Len(history) : history'[k] = history[k]
    BY <1>1, <1>2, AppendProperties
  <2>2. UNCHANGED <<stream, queue, shown, filter>>
    BY <1>2 DEF watchVars
  <2> SUFFICES ASSUME stream.state = "open"
               PROVE  /\ stream.at <= Len(history) + 1
                      /\ NoOps(stream.at + 1, Len(history))' /\ Seen' /\ Passes(doc)' =>
                           IF queue = <<>> THEN shown = <<doc'>> ELSE queue[Len(queue)] = doc'
    BY <2>1, <2>2 DEF StreamInv
  <2>3. stream.at <= Len(history)
    BY DEF StreamInv
  <2>4. ASSUME NoOps(stream.at + 1, Len(history))', Seen', Passes(doc)'
        PROVE  IF queue = <<>> THEN shown = <<doc'>> ELSE queue[Len(queue)] = doc'
    <3>1. \A k \in stream.at + 1 .. Len(history) + 1 : history'[k].from = history'[k].to
      BY <2>1, <2>2, <2>4 DEF NoOps
    <3>2. doc' = doc
      BY <1>1, <1>2, <2>1, <2>3, <3>1
    <3>3. NoOps(stream.at + 1, Len(history))
      BY <1>1, <2>1, <3>1 DEF NoOps
    <3>4. Seen
      <4>1. PICK i \in stream.from + 1 .. stream.at : history'[i].from # history'[i].to
        BY <2>2, <2>4 DEF Seen
      <4>2. i \in 1 .. Len(history)
        BY <1>1, <2>3, <4>1
      <4> QED
        BY <2>1, <4>1, <4>2 DEF Seen
    <3>5. Passes(doc)
      BY <2>2, <2>4, <3>2 DEF Passes
    <3> QED
      BY <3>2, <3>3, <3>4, <3>5 DEF StreamInv
  <2> QED
    BY <1>1, <2>3, <2>4
<1>3. CASE Next /\ UNCHANGED watchVars
  <2>1. CASE UNCHANGED <<doc, history>>
    BY <1>3, <2>1 DEF watchVars, StreamInv, NoOps, Seen, Passes
  <2> QED
    BY <1>2, <1>3, <2>1, HistoryStep
\* the stream begins: it has seen nothing
<1>4. CASE StreamOpens /\ UNCHANGED vars
  <2>1. PICK token \in 0 .. Len(history) : stream' = [state |-> "open", from |-> token, at |-> token]
    BY <1>4 DEF StreamOpens
  <2>2. stream'.from = token /\ stream'.at = token /\ history' = history
    BY <1>4, <2>1 DEF vars
  <2>3. ~Seen'
    BY <1>1, <2>2 DEF Seen
  <2> QED
    BY <1>1, <2>2, <2>3 DEF StreamInv
\* an event: when nothing after it changes the document, its image is the document
<1>5. CASE EventRead /\ UNCHANGED vars
  <2> DEFINE change == history[stream.at + 1]
  <2>1. /\ stream.state = "open" /\ stream.at < Len(history) /\ UNCHANGED <<doc, history, filter, shown>>
        /\ stream' = [stream EXCEPT !.at = stream.at + 1]
    BY <1>5 DEF EventRead, vars
  <2>2. /\ stream'.state = "open" /\ stream'.from = stream.from /\ stream'.at = stream.at + 1
    BY <2>1 DEF WatchTypeOK
  <2>3. stream.at + 1 \in 1 .. Len(history)
    BY <1>1, <2>1
  <2>4. SUFFICES ASSUME NoOps(stream.at + 2, Len(history)), Seen', Passes(doc)
                 PROVE  IF queue' = <<>> THEN shown = <<doc>> ELSE queue'[Len(queue')] = doc
    <3>1. stream'.from <= stream'.at /\ stream'.at <= Len(history)
      BY <1>1, <2>1, <2>2 DEF StreamInv
    <3>2. NoOps(stream.at + 1, Len(history))' => NoOps(stream.at + 2, Len(history))
      <4>1. stream'.at + 1 = stream.at + 2
        BY <1>1, <2>2
      <4> QED
        BY <2>1, <4>1 DEF NoOps
    <3>3. Passes(doc)' = Passes(doc)
      BY <2>1 DEF Passes
    <3> QED
      BY <2>1, <2>2, <2>4, <3>1, <3>2, <3>3 DEF StreamInv
  <2>5. change.to = doc
    <3>1. NoOps((stream.at + 1) + 1, Len(history))
      BY <1>1, <2>4 DEF NoOps
    <3> QED
      BY <2>3, <3>1 DEF HistoryInv
  <2>6. FullDocument(change) = doc /\ Passes(FullDocument(change))
    BY <2>4, <2>5 DEF FullDocument
  <2>7. CASE queue' = Append(queue, doc)
    <3>1. doc \in Value
      BY DEF TypeOK
    <3>2. /\ Len(queue) \in Nat /\ queue' # <<>> /\ Len(queue') = Len(queue) + 1
          /\ queue'[Len(queue) + 1] = doc
      BY <1>1, <2>7, <3>1, AppendProperties, LenProperties
    <3> QED
      BY <3>2
  <2>8. CASE change.from = change.to /\ queue' = queue
    <3>1. NoOps(stream.at + 1, Len(history))
      BY <1>1, <2>4, <2>8 DEF NoOps
    <3>2. Seen
      <4>1. PICK i \in stream.from + 1 .. stream.at + 1 : history[i].from # history[i].to
        BY <2>1, <2>2, <2>4 DEF Seen
      <4>2. i # stream.at + 1
        BY <2>8, <4>1
      <4>3. i \in stream.from + 1 .. stream.at
        BY <1>1, <4>1, <4>2
      <4> QED
        BY <4>1, <4>3 DEF Seen
    <3> QED
      BY <2>1, <2>4, <2>8, <3>1, <3>2 DEF StreamInv
  <2> QED
    BY <1>5, <2>6, <2>7, <2>8 DEF EventRead
\* the stream is not open after these, or nothing it has read is handed on
<1>6. CASE (Watch \/ StreamCloses \/ StreamFails \/ Abort) /\ UNCHANGED vars
  <2>1. UNCHANGED <<doc, history, filter, queue, shown>>
    BY <1>6 DEF Watch, StreamCloses, StreamFails, Abort, vars
  <2>2. stream' = stream \/ stream'.state # "open"
    BY <1>6 DEF Watch, StreamCloses, StreamFails, Abort, WatchTypeOK
  <2> QED
    BY <2>1, <2>2 DEF StreamInv, NoOps, Seen, Passes
<1>7. CASE Leave
  BY <1>7 DEF Leave, Closed, StreamInv
<1>8. CASE (Turn \/ Consumed) /\ UNCHANGED vars
  <2>1. UNCHANGED <<doc, history, filter>>
    BY <1>8 DEF Turn, Consumed, vars
  <2>2. CASE queue # <<>> /\ shown' = <<Head(queue)>> /\ queue' = Tail(queue) /\ UNCHANGED stream
    <3>1. /\ Tail(queue) = <<>> => Head(queue) = queue[Len(queue)]
          /\ Tail(queue) # <<>> => Tail(queue)[Len(Tail(queue))] = queue[Len(queue)]
      BY <1>1, <2>2, QueueMoves
    <3>2. NoOps(stream.at + 1, Len(history))' = NoOps(stream.at + 1, Len(history))
          /\ Seen' = Seen /\ Passes(doc)' = Passes(doc)
      BY <2>1, <2>2 DEF NoOps, Seen, Passes
    <3> QED
      BY <2>1, <2>2, <3>1, <3>2 DEF StreamInv
  <2>3. CASE UNCHANGED <<stream, queue, shown>>
    BY <2>1, <2>3 DEF StreamInv, NoOps, Seen, Passes
  <2> QED
    BY <1>7, <1>8, <2>2, <2>3 DEF Turn, Consumed
<1>9. CASE UNCHANGED <<vars, watchVars>>
  BY <1>9 DEF vars, watchVars, StreamInv, NoOps, Seen, Passes
<1> QED
  BY <1>3, <1>4, <1>5, <1>6, <1>8, <1>9 DEF WatchedNext, Watcher

\* A watcher that waits has missed nothing: whatever was read, dropped as a write
\* without effect, or filtered, once its stream has read every write the last image
\* it was shown is the document as it is.
THEOREM WatchersAreCurrent == WatchedSpec => []WatcherIsCurrent
<1>1. WatchInit => WatchTypeOK /\ HistoryInv /\ SleepInv /\ StreamInv
  <2> SUFFICES ASSUME WatchInit PROVE WatchTypeOK /\ HistoryInv /\ SleepInv /\ StreamInv
    OBVIOUS
  <2>1. WatchTypeOK
    <3>1. stream \in [state : {"unopened", "opening", "open", "closed"}, from : Nat, at : Nat]
      BY DEF WatchInit, Closed
    <3>2. aborted \in BOOLEAN /\ failed \in BOOLEAN /\ ended \in BOOLEAN
      BY DEF WatchInit
    <3>3. queue \in Seq(Value) /\ shown \in Seq(Value) /\ Len(shown) <= 1
      BY EmptySeq DEF WatchInit
    <3>4. filter \in Filters \cup {{}} /\ reader = "before"
      BY DEF WatchInit
    <3> QED
      BY <3>1, <3>2, <3>3, <3>4 DEF WatchTypeOK
  <2>2. HistoryInv
    BY EmptySeq DEF WatchInit, Init, HistoryInv
  <2>3. SleepInv /\ StreamInv
    BY DEF WatchInit, Closed, SleepInv, StreamInv
  <2> QED
    BY <2>1, <2>2, <2>3
<1>2. [WatchedNext]_<<vars, watchVars>> => [Next]_vars
  BY DEF WatchedNext
<1>3. TypeOK /\ TypeOK' /\ WorkInv /\ WatchTypeOK /\ HistoryInv /\ SleepInv /\ StreamInv
        /\ [WatchedNext]_<<vars, watchVars>>
        => WatchTypeOK' /\ HistoryInv' /\ SleepInv' /\ StreamInv'
  BY <1>2, WatchTyped, HistoryInductive, SleepInductive, StreamInductive
<1>4. TypeOK /\ WatchTypeOK /\ SleepInv /\ StreamInv => WatcherIsCurrent
  <2> SUFFICES ASSUME TypeOK, SleepInv, StreamInv, WatchTypeOK, reader = "asleep",
                      stream.state = "open", stream.at = Len(history), Changes # {}, Passes(doc)
               PROVE  shown = <<doc>>
    BY DEF WatcherIsCurrent, SleepInv
  <2>1. queue = <<>> /\ Len(history) \in Nat
    BY LenProperties DEF SleepInv, TypeOK
  <2>2. NoOps(stream.at + 1, Len(history))
    BY <2>1 DEF NoOps
  <2>3. Seen
    BY DEF Changes, Seen
  <2> QED
    BY <2>1, <2>2, <2>3 DEF StreamInv
<1>5. WatchedSpec => [](TypeOK /\ WorkInv)
  BY WatchedIsRecorded, TypeCorrect, WorkInvariant, PTL
<1> QED
  BY <1>1, <1>3, <1>4, <1>5, PTL DEF WatchedSpec
=============================================================================
