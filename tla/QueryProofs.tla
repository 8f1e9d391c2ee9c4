----------------------------- MODULE QueryProofs -----------------------------
(***************************************************************************)
(* What a query answers.  Keyset pagination, for every collection, page    *)
(* size and set of sorts, values and deployments; pages by number and of   *)
(* groups, for all rows and limits; the index advice, for all indexes and  *)
(* sorts; and the filters, for trees of any depth: what is compiled from   *)
(* them, cast of them, split off them and left of them by the sanitizers   *)
(* means what they mean.                                                   *)
(***************************************************************************)
EXTENDS KeysetPages, OffsetPages, IndexAdvice, FilterParts,
        FiniteSetTheorems, SequenceTheorems, WellFoundedInduction, TLAPS

-----------------------------------------------------------------------------
(* The order                                                                *)

LEMMA OrderIsStrict ==
  ASSUME NEW s \in Sort, NEW d, NEW e, NEW i \in Nat, NEW j \in Nat,
         d.a \in Nat, d.b \in Nat, e.a \in Nat, e.b \in Nat
  PROVE  After(d, i, e, j, s) => ~After(e, j, d, i, s)
  BY DEF After, Follows, FirstKey, SecondKey, Sort

LEMMA OrderIsTransitive ==
  ASSUME NEW s \in Sort, NEW d, NEW e, NEW f, NEW i \in Nat, NEW j \in Nat, NEW k \in Nat,
         d.a \in Nat, d.b \in Nat, e.a \in Nat, e.b \in Nat, f.a \in Nat, f.b \in Nat,
         After(d, i, e, j, s), After(e, j, f, k, s)
  PROVE  After(d, i, f, k, s)
<1>1. CASE s.asc
  BY <1>1 DEF After, Follows, FirstKey, SecondKey
<1>2. CASE ~s.asc
  BY <1>2 DEF After, Follows, FirstKey, SecondKey
<1> QED
  BY <1>1, <1>2

-----------------------------------------------------------------------------
(* The filter                                                               *)

LEMMA CursorTyped ==
  ASSUME NEW c \in Cursor
  PROVE  c.a \in Nat /\ c.b \in Nat /\ c.id \in Nat /\ c.sort \in Sort
<1>1. c.a \in Values /\ c.b \in Values /\ c.id \in Ids /\ c.sort \in Sort
  BY DEF Cursor
<1> QED
  BY <1>1, KeysetAssumption

AfterCursor(d, i, c) == After(d, i, c, c.id, c.sort)

\* $gt and $lt can see both the document and the cursor.
Comparable(d, c) ==
  \/ c.sort.fields = 0
  \/ c.sort.fields = 1 /\ (c.sort.asc \/ d.a # 0)
  \/ d.a # 0 /\ d.b # 0 /\ (c.sort.fields >= 1 => c.a # 0) /\ (c.sort.fields = 2 => c.b # 0)

\* buildKeysetFilter selects only documents that follow the cursor's.
THEOREM FilterOnlyForward ==
  ASSUME NEW c \in Cursor, NEW d \in Doc, NEW i \in Ids, KeysetFilter(d, i, c)
  PROVE  AfterCursor(d, i, c)
<1> /\ c.a \in Nat /\ c.b \in Nat /\ c.id \in Nat /\ c.sort \in Sort
  BY CursorTyped
<1> /\ d.a \in Nat /\ d.b \in Nat /\ i \in Nat
  BY KeysetAssumption DEF Doc
<1> c.sort.fields \in 0..2 /\ c.sort.asc \in BOOLEAN
  BY DEF Sort
<1>0. CASE c.sort.fields = 0
  BY <1>0 DEF KeysetFilter, IdBeyond, AfterCursor, After, Follows, FirstKey, SecondKey
<1>1. CASE c.sort.fields = 1
  BY <1>1 DEF KeysetFilter, OneField, Beyond, IdBeyond, AfterCursor, After, Follows, FirstKey,
     SecondKey
<1>2. CASE c.sort.fields = 2
  BY <1>2 DEF KeysetFilter, TwoFields, Beyond, IdBeyond, AfterCursor, After, Follows, FirstKey,
     SecondKey
<1> QED
  BY <1>0, <1>1, <1>2

\* It selects every such document that its operators can compare with the cursor.
THEOREM FilterReachesAll ==
  ASSUME NEW c \in Cursor, NEW d \in Doc, NEW i \in Ids,
         AfterCursor(d, i, c), Comparable(d, c)
  PROVE  KeysetFilter(d, i, c)
<1> /\ c.a \in Nat /\ c.b \in Nat /\ c.id \in Nat /\ c.sort \in Sort
  BY CursorTyped
<1> /\ d.a \in Nat /\ d.b \in Nat /\ i \in Nat
  BY KeysetAssumption DEF Doc
<1> c.sort.fields \in 0..2 /\ c.sort.asc \in BOOLEAN
  BY DEF Sort
<1>0. CASE c.sort.fields = 0
  BY <1>0 DEF KeysetFilter, IdBeyond, AfterCursor, After, Follows, FirstKey, SecondKey
<1>1. CASE c.sort.fields = 1
  BY <1>1 DEF KeysetFilter, OneField, Beyond, IdBeyond, AfterCursor, After, Follows, FirstKey,
     SecondKey, Comparable
<1>2. CASE c.sort.fields = 2
  BY <1>2 DEF KeysetFilter, TwoFields, Beyond, IdBeyond, AfterCursor, After, Follows, FirstKey,
     SecondKey, Comparable
<1> QED
  BY <1>0, <1>1, <1>2

-----------------------------------------------------------------------------
(* Types                                                                    *)

LEMMA CursorOfTyped ==
  ASSUME TypeOK, NEW i \in Ids
  PROVE  CursorOf(i) \in Cursor
<1>1. docs[i] \in Doc /\ sort \in Sort /\ server.version \in Nat
  BY KeysetAssumption DEF TypeOK
<1>2. FirstKey(docs[i], sort) \in Values /\ SecondKey(docs[i], sort) \in Values
  BY <1>1, KeysetAssumption DEF FirstKey, SecondKey, Doc
<1> QED
  BY <1>1, <1>2 DEF CursorOf, Cursor

LEMMA PutTyped ==
  ASSUME TypeOK, NEW i \in Ids, Put(i) \/ Leave(i)
  PROVE  \E d \in Doc : Write(i, d) /\ (d.in => d.a \in domain /\ d.b \in domain)
<1>1. CASE Put(i)
  <2>1. PICK x \in domain, y \in domain : Write(i, [in |-> TRUE, a |-> x, b |-> y])
    BY <1>1 DEF Put
  <2> DEFINE d == [in |-> TRUE, a |-> x, b |-> y]
  <2>2. d \in Doc /\ d.a \in domain /\ d.b \in domain
    BY KeysetAssumption DEF TypeOK, Doc
  <2> QED
    BY <2>1, <2>2
<1>2. CASE Leave(i)
  <2>1. NoDoc \in Doc /\ ~NoDoc.in
    BY KeysetAssumption DEF NoDoc, Doc
  <2>2. Write(i, NoDoc)
    BY <1>2 DEF Leave
  <2> QED
    BY <2>1, <2>2
<1> QED
  BY <1>1, <1>2

\* Every variable keeps its type.
THEOREM TypeCorrect == Spec => []TypeOK
<1>1. Init => TypeOK
  BY KeysetAssumption DEF Init, TypeOK, Doc, NoDoc
<1>2. TypeOK /\ [Next]_vars => TypeOK'
  <2> SUFFICES ASSUME TypeOK, [Next]_vars PROVE TypeOK'
    OBVIOUS
  <2>1. CASE Start
    <3>1. still' \subseteq Ids
      BY <2>1, KeysetAssumption DEF Start
    <3>2. shown' \in [Ids -> 0..2]
      BY <2>1 DEF Start
    <3> QED
      BY <2>1, <3>1, <3>2 DEF Start, TypeOK
  <2>2. CASE Page
    <3>1. PICK p \in SUBSET Selected :
            /\ shown' = [i \in Ids |-> IF i \in p \cap still THEN Counted(i) ELSE shown[i]]
            /\ \/ pc' = "done" /\ cursor' = None
               \/ UNCHANGED pc /\ \E i \in p : cursor' = CursorOf(i)
      BY <2>2 DEF Page
    <3>2. shown' \in [Ids -> 0..2]
      BY <3>1 DEF Counted, TypeOK
    <3>3. \A i \in p : CursorOf(i) \in Cursor
      BY CursorOfTyped, KeysetAssumption DEF Selected
    <3>4. cursor' \in Cursor \cup {None} /\ pc' \in {"idle", "walking", "done", "rejected"}
      BY <3>1, <3>3 DEF TypeOK
    <3> QED
      BY <2>2, <3>2, <3>4 DEF Page, TypeOK
  <2>3. CASE Rejected
    BY <2>3 DEF Rejected, TypeOK
  <2>4. CASE ChangeSort
    BY <2>4 DEF ChangeSort, TypeOK
  <2>5. CASE Deploy
    BY <2>5, KeysetAssumption DEF Deploy, TypeOK
  <2>6. ASSUME NEW i \in Ids, Put(i) \/ Leave(i) PROVE TypeOK'
    <3>1. PICK d \in Doc : Write(i, d)
      BY <2>6, PutTyped
    <3> QED
      BY <3>1 DEF Write, TypeOK
  <2>7. CASE UNCHANGED vars
    BY <2>7 DEF vars, TypeOK
  <2> QED
    BY <2>1, <2>2, <2>3, <2>4, <2>5, <2>6, <2>7 DEF Next
<1> QED
  BY <1>1, <1>2, PTL DEF Spec

-----------------------------------------------------------------------------
(***************************************************************************)
(* The walk.  What stays and has been shown does not follow the cursor;    *)
(* what stays, has not been shown and can be reached does follow it.  The  *)
(* cursor carries values that the schema allows, also when its document    *)
(* has gone.                                                               *)
(***************************************************************************)

ValuesAllowed ==
  /\ \A i \in Ids : docs[i].in => docs[i].a \in domain /\ docs[i].b \in domain
  /\ cursor # None => /\ cursor.sort.fields >= 1 => cursor.a \in domain
                      /\ cursor.sort.fields = 2 => cursor.b \in domain

StillMatches == \A i \in still : docs[i].in /\ i \in Either

\* Reachable(i) for the sort s.
ReachableBy(i, s) ==
  \/ 0 \notin domain \/ s.fields = 0
  \/ s.fields = 1 /\ (s.asc \/ docs[i].a # 0)

Sweep ==
  pc = "walking" =>
    \A i \in still :
      IF cursor = None THEN shown[i] = 0
      ELSE /\ shown[i] = 1 => ~AfterCursor(docs[i], i, cursor)
           /\ shown[i] = 0 /\ ReachableBy(i, cursor.sort) => AfterCursor(docs[i], i, cursor)

CursorOnlyWalking == pc # "walking" => cursor = None

WalkInv ==
  /\ ValuesAllowed /\ StillMatches /\ Sweep /\ CursorOnlyWalking
  /\ ShownOnce /\ ShownAtEnd

\* What a page is taken from: documents that match and follow the cursor, and among
\* them all that stay, can be reached and have not been shown.
LEMMA SelectedIsAhead ==
  ASSUME TypeOK, WalkInv, pc = "walking", Accepted(cursor), NEW i \in still
  PROVE  /\ i \in Selected => shown[i] = 0
         /\ shown[i] = 0 /\ Reachable(i) => i \in Selected
<1>1. i \in Ids /\ docs[i] \in Doc /\ docs[i].in /\ i \in Either /\ shown[i] \in {0, 1}
  BY DEF TypeOK, WalkInv, StillMatches, ShownOnce
<1>2. CASE cursor = None
  BY <1>1, <1>2 DEF WalkInv, Sweep, Selected
<1>3. CASE cursor # None
  <2>1. cursor \in Cursor /\ cursor.sort = sort
    BY <1>3 DEF TypeOK, Accepted
  <2>2. i \in Selected <=> KeysetFilter(docs[i], i, cursor)
    BY <1>1, <1>3 DEF Selected
  <2>3. i \in Selected => AfterCursor(docs[i], i, cursor)
    BY <1>1, <2>1, <2>2, FilterOnlyForward
  <2>4. i \in Selected => shown[i] = 0
    BY <1>1, <1>3, <2>3 DEF WalkInv, Sweep
  <2>5. shown[i] = 0 /\ Reachable(i) => AfterCursor(docs[i], i, cursor)
    BY <1>3, <2>1 DEF WalkInv, Sweep, Reachable, ReachableBy
  <2>6. Reachable(i) => Comparable(docs[i], cursor)
    BY <1>1, <1>3, <2>1 DEF Reachable, Comparable, WalkInv, ValuesAllowed
  <2> QED
    BY <1>1, <2>1, <2>2, <2>4, <2>5, <2>6, FilterReachesAll
<1> QED
  BY <1>2, <1>3

\* The documents of a page follow its cursor's predecessor; those left behind by
\* an earlier page do not follow the new cursor.
LEMMA CursorMovesOn ==
  ASSUME TypeOK, pc = "walking", Accepted(cursor), cursor # None,
         NEW j \in Selected, NEW i \in Ids, AfterCursor(docs[i], i, CursorOf(j))
  PROVE  AfterCursor(docs[i], i, cursor)
<1>1. /\ cursor \in Cursor /\ cursor.sort = sort /\ sort \in Sort
      /\ j \in Ids /\ docs[j] \in Doc /\ docs[i] \in Doc /\ KeysetFilter(docs[j], j, cursor)
  BY KeysetAssumption DEF TypeOK, Accepted, Selected
<1>2. After(docs[j], j, cursor, cursor.id, sort)
  BY <1>1, FilterOnlyForward DEF AfterCursor
<1>3. After(docs[i], i, docs[j], j, sort)
  BY <1>1 DEF AfterCursor, CursorOf, After, FirstKey, SecondKey
<1>4. /\ docs[i].a \in Nat /\ docs[i].b \in Nat /\ docs[j].a \in Nat /\ docs[j].b \in Nat
      /\ i \in Nat /\ j \in Nat
  BY <1>1, KeysetAssumption DEF Doc
<1>5. cursor.a \in Nat /\ cursor.b \in Nat /\ cursor.id \in Nat
  BY <1>1, CursorTyped
<1> QED
  BY <1>1, <1>2, <1>3, <1>4, <1>5, OrderIsTransitive DEF AfterCursor

\* Other writers: what they write no longer stays.
LEMMA WriteKeepsWalk ==
  ASSUME TypeOK, WalkInv, NEW i \in Ids, Put(i) \/ Leave(i)
  PROVE  WalkInv'
<1>1. PICK d \in Doc : Write(i, d) /\ (d.in => d.a \in domain /\ d.b \in domain)
  BY PutTyped
<1>2. /\ UNCHANGED <<domain, server, sort, pc, cursor>> /\ still' = still \ {i}
      /\ docs' = [docs EXCEPT ![i] = d] /\ shown' = [shown EXCEPT ![i] = 0]
  BY <1>1 DEF Write
<1>3. \A j \in still' : /\ j \in Ids /\ j \in still
                        /\ docs'[j] = docs[j] /\ shown'[j] = shown[j]
  BY <1>2 DEF TypeOK
<1>4. ValuesAllowed'
  BY <1>1, <1>2 DEF WalkInv, ValuesAllowed, TypeOK
<1>5. StillMatches' /\ ShownOnce'
  BY <1>3 DEF WalkInv, StillMatches, ShownOnce
<1>6. Sweep'
  BY <1>2, <1>3 DEF WalkInv, Sweep, AfterCursor, ReachableBy
<1>7. ShownAtEnd'
  BY <1>2, <1>3 DEF WalkInv, ShownAtEnd, Reachable
<1> QED
  BY <1>2, <1>4, <1>5, <1>6, <1>7 DEF WalkInv, CursorOnlyWalking

\* A page that is not the last.
LEMMA NextPageKeepsSweep ==
  ASSUME TypeOK, WalkInv, pc = "walking", Accepted(cursor),
         NEW p \in SUBSET Selected, PageOf(p, Selected),
         NEW l \in p, IsLast(l, p), NEW i \in still
  PROVE  /\ i \in p => ~AfterCursor(docs[i], i, CursorOf(l))
         /\ i \notin p /\ shown[i] = 1 => ~AfterCursor(docs[i], i, CursorOf(l))
         /\ i \notin p /\ shown[i] = 0 /\ Reachable(i) => AfterCursor(docs[i], i, CursorOf(l))
<1>1. /\ i \in Ids /\ l \in Ids /\ l \in Selected /\ sort \in Sort
      /\ docs[i] \in Doc /\ docs[l] \in Doc
  BY KeysetAssumption DEF TypeOK, Selected
<1>2. /\ docs[i].a \in Nat /\ docs[i].b \in Nat /\ docs[l].a \in Nat /\ docs[l].b \in Nat
      /\ i \in Nat /\ l \in Nat
  BY <1>1, KeysetAssumption DEF Doc
<1>3. AfterCursor(docs[i], i, CursorOf(l)) <=> After(docs[i], i, docs[l], l, sort)
  BY <1>1 DEF AfterCursor, CursorOf, After, FirstKey, SecondKey
<1>4. i \in p => ~AfterCursor(docs[i], i, CursorOf(l))
  <2>1. CASE i = l
    BY <1>1, <1>2, <1>3, <2>1, OrderIsStrict
  <2>2. CASE i # l /\ i \in p
    BY <1>1, <1>2, <1>3, <2>2, OrderIsStrict DEF IsLast
  <2> QED
    BY <2>1, <2>2
<1>5. i \notin p /\ shown[i] = 1 => ~AfterCursor(docs[i], i, CursorOf(l))
  <2> SUFFICES ASSUME shown[i] = 1, AfterCursor(docs[i], i, CursorOf(l)) PROVE FALSE
    OBVIOUS
  <2>1. cursor # None /\ ~AfterCursor(docs[i], i, cursor)
    BY DEF WalkInv, Sweep
  <2> QED
    BY <1>1, <2>1, CursorMovesOn
<1>6. i \notin p /\ shown[i] = 0 /\ Reachable(i) => AfterCursor(docs[i], i, CursorOf(l))
  BY <1>3, SelectedIsAhead DEF PageOf
<1> QED
  BY <1>4, <1>5, <1>6

LEMMA PageKeepsWalk ==
  ASSUME TypeOK, WalkInv, Page
  PROVE  WalkInv'
<1>1. /\ pc = "walking" /\ Accepted(cursor)
      /\ UNCHANGED <<docs, domain, server, sort, still>>
  BY DEF Page
<1>2. PICK p \in SUBSET Selected :
        /\ PageOf(p, Selected)
        /\ shown' = [i \in Ids |-> IF i \in p \cap still THEN Counted(i) ELSE shown[i]]
        /\ \/ p = Selected /\ pc' = "done" /\ cursor' = None
           \/ UNCHANGED pc /\ \E i \in p : IsLast(i, p) /\ cursor' = CursorOf(i)
  BY DEF Page
<1>3. \A i \in still : /\ i \in Ids /\ shown[i] \in {0, 1}
                       /\ i \in p => shown[i] = 0 /\ shown'[i] = 1
                       /\ i \notin p => shown'[i] = shown[i]
  <2> SUFFICES ASSUME NEW i \in still
               PROVE  /\ i \in Ids /\ shown[i] \in {0, 1}
                      /\ i \in p => shown[i] = 0 /\ shown'[i] = 1
                      /\ i \notin p => shown'[i] = shown[i]
    OBVIOUS
  <2>1. i \in Ids /\ shown[i] \in {0, 1}
    BY DEF TypeOK, WalkInv, ShownOnce
  <2>2. i \in p => shown[i] = 0
    BY <1>1, SelectedIsAhead
  <2> QED
    BY <1>2, <2>1, <2>2 DEF Counted
<1>4. ShownOnce' /\ StillMatches'
  BY <1>1, <1>3 DEF ShownOnce, StillMatches, WalkInv
<1>5. CASE p = Selected /\ pc' = "done" /\ cursor' = None
  <2>1. ShownAtEnd'
    BY <1>1, <1>3, <1>5, SelectedIsAhead DEF ShownAtEnd, Reachable
  <2> QED
    BY <1>1, <1>4, <1>5, <2>1 DEF WalkInv, ValuesAllowed, Sweep, CursorOnlyWalking
<1>6. CASE UNCHANGED pc /\ \E i \in p : IsLast(i, p) /\ cursor' = CursorOf(i)
  <2>1. PICK l \in p : IsLast(l, p) /\ cursor' = CursorOf(l)
    BY <1>6
  <2>2. l \in Ids /\ docs[l].in /\ CursorOf(l) \in Cursor
    BY CursorOfTyped, KeysetAssumption DEF Selected
  <2>3. cursor' # None /\ cursor'.sort = sort
    BY <2>1, <2>2, KeysetAssumption DEF CursorOf
  <2>4. ValuesAllowed'
    BY <1>1, <2>1, <2>2 DEF WalkInv, ValuesAllowed, CursorOf, FirstKey, SecondKey
  <2>5. Sweep'
    <3> SUFFICES ASSUME NEW i \in still
                 PROVE  /\ shown'[i] = 1 => ~AfterCursor(docs[i], i, cursor')
                        /\ shown'[i] = 0 /\ Reachable(i) => AfterCursor(docs[i], i, cursor')
      BY <1>1, <2>3 DEF Sweep, AfterCursor, Reachable, ReachableBy
    <3> QED
      BY <1>1, <1>2, <1>3, <2>1, NextPageKeepsSweep
  <2> QED
    BY <1>1, <1>4, <1>6, <2>4, <2>5 DEF WalkInv, CursorOnlyWalking, ShownAtEnd
<1> QED
  BY <1>2, <1>5, <1>6

LEMMA WalkInductive ==
  ASSUME TypeOK, WalkInv, [Next]_vars
  PROVE  WalkInv'
<1>1. CASE Start
  <2>1. /\ UNCHANGED <<docs, domain>> /\ pc' = "walking" /\ cursor' = None
        /\ \A i \in still' : i \in Ids /\ i \in Either /\ docs[i].in
        /\ shown' = [i \in Ids |-> 0]
    BY <1>1, KeysetAssumption DEF Start
  <2>2. \A i \in still' : shown'[i] = 0
    BY <2>1
  <2> QED
    BY <2>1, <2>2 DEF WalkInv, ValuesAllowed, StillMatches, Sweep, CursorOnlyWalking, ShownOnce,
       ShownAtEnd
<1>2. CASE Page
  BY <1>2, PageKeepsWalk
<1>3. CASE Rejected
  BY <1>3 DEF Rejected, WalkInv, ValuesAllowed, StillMatches, Sweep, CursorOnlyWalking, ShownOnce,
     ShownAtEnd
<1>4. CASE ChangeSort
  BY <1>4 DEF ChangeSort, WalkInv, ValuesAllowed, StillMatches, Sweep, CursorOnlyWalking,
     ShownOnce, ShownAtEnd, AfterCursor, ReachableBy
<1>5. CASE Deploy
  BY <1>5 DEF Deploy, WalkInv, ValuesAllowed, StillMatches, Sweep, CursorOnlyWalking, ShownOnce,
     ShownAtEnd, Reachable, AfterCursor, ReachableBy
<1>6. ASSUME NEW i \in Ids, Put(i) \/ Leave(i) PROVE WalkInv'
  BY <1>6, WriteKeepsWalk
<1>7. CASE UNCHANGED vars
  BY <1>7 DEF vars, WalkInv, ValuesAllowed, StillMatches, Sweep, CursorOnlyWalking, ShownOnce,
     ShownAtEnd, Reachable, AfterCursor, ReachableBy
<1> QED
  BY <1>1, <1>2, <1>3, <1>4, <1>5, <1>6, <1>7 DEF Next

LEMMA WalkInvariant == Spec => []WalkInv
<1>1. Init => WalkInv
  BY DEF Init, NoDoc, WalkInv, ValuesAllowed, StillMatches, Sweep, CursorOnlyWalking, ShownOnce,
     ShownAtEnd
<1>2. TypeOK /\ WalkInv /\ [Next]_vars => WalkInv'
  BY WalkInductive
<1> QED
  BY <1>1, <1>2, TypeCorrect, PTL DEF Spec

\* No walk shows a document twice that has stayed where it was.
THEOREM NeverTwice == Spec => []ShownOnce
<1>1. WalkInv => ShownOnce
  BY DEF WalkInv
<1> QED
  BY <1>1, WalkInvariant, PTL

\* A walk that has come to its end has shown every document that stayed where it
\* was, as far as null does not hide it from the filter.
THEOREM NoneIsMissed == Spec => []ShownAtEnd
<1>1. WalkInv => ShownAtEnd
  BY DEF WalkInv
<1> QED
  BY <1>1, WalkInvariant, PTL

-----------------------------------------------------------------------------
(* Pages by number                                                          *)

LEMMA MinOfTwo ==
  ASSUME NEW m \in Int, NEW n \in Int
  PROVE  Min({m, n}) = IF m <= n THEN m ELSE n
<1>1. \E x \in {m, n} : \A y \in {m, n} : x <= y
  OBVIOUS
<1>2. Min({m, n}) \in {m, n} /\ \A y \in {m, n} : Min({m, n}) <= y
  BY <1>1 DEF Min
<1> QED
  BY <1>2

\* Later pages begin where the earlier ones have ended.
LEMMA PagesFollow ==
  ASSUME NEW p \in Int, NEW q \in Int, NEW limit \in Nat \ {0}, p < q
  PROVE  p * limit + limit <= q * limit
<1>1. PICK k \in Nat : q = p + 1 + k
  <2>1. q - p - 1 \in Nat /\ q = p + 1 + (q - p - 1)
    OBVIOUS
  <2> QED
    BY <2>1
<1>2. q * limit = p * limit + limit + k * limit
  BY <1>1
<1>3. k * limit >= 0
  OBVIOUS
<1> QED
  BY <1>2, <1>3

LEMMA Division ==
  ASSUME NEW n \in Nat, NEW limit \in Nat \ {0}
  PROVE  /\ n \div limit \in Nat
         /\ (n \div limit) * limit <= n /\ n < (n \div limit) * limit + limit
<1>1. n = limit * (n \div limit) + (n % limit) /\ n % limit \in 0 .. limit - 1
  BY SMTT(20)
<1>2. n \div limit \in Nat
  BY SMTT(20)
<1>3. limit * (n \div limit) = (n \div limit) * limit
  BY <1>2
<1> QED
  BY <1>1, <1>2, <1>3

\* A page is not the last by the number of pages when rows lie beyond it.
LEMMA PagesCounted ==
  ASSUME NEW total \in Nat, NEW limit \in Nat \ {0}, NEW page \in Nat \ {0}
  PROVE  page < TotalPages(total, limit) <=> page * limit < total
<1> DEFINE pages == (total + limit - 1) \div limit
<1>1. /\ pages \in Nat
      /\ pages * limit <= total + limit - 1 /\ total + limit - 1 < pages * limit + limit
  <2>1. total + limit - 1 \in Nat
    OBVIOUS
  <2> QED
    BY <2>1, Division
<1>2. TotalPages(total, limit) = pages
  BY DEF TotalPages
<1>3. page * limit \in Nat /\ pages * limit \in Nat
  BY <1>1
<1> HIDE DEF pages
<1>4. page < pages => page * limit + limit <= pages * limit
  BY <1>1, PagesFollow
<1>5. pages < page => pages * limit + limit <= page * limit
  BY <1>1, PagesFollow
<1>6. pages = page => pages * limit = page * limit
  OBVIOUS
<1> QED
  BY <1>1, <1>2, <1>3, <1>4, <1>5, <1>6

LEMMA Taken ==
  ASSUME NEW S, NEW s \in Seq(S), NEW n \in Nat
  PROVE  /\ Take(s, n) \in Seq(S) /\ Len(Take(s, n)) = IF n <= Len(s) THEN n ELSE Len(s)
         /\ \A i \in 1 .. Len(Take(s, n)) : Take(s, n)[i] = s[i]
<1> DEFINE m == IF n <= Len(s) THEN n ELSE Len(s)
<1>1. m \in 0 .. Len(s) /\ Take(s, n) = SubSeq(s, 1, m)
  BY MinOfTwo DEF Take
<1> HIDE DEF m
<1>2. /\ SubSeq(s, 1, m) \in Seq(S) /\ Len(SubSeq(s, 1, m)) = m
      /\ \A i \in 1 .. m : SubSeq(s, 1, m)[i] = s[i]
  BY <1>1, SubSeqProperties
<1> QED
  BY <1>1, <1>2 DEF m

LEMMA Dropped ==
  ASSUME NEW S, NEW s \in Seq(S), NEW n \in Nat
  PROVE  /\ Drop(s, n) \in Seq(S) /\ Len(Drop(s, n)) = IF n <= Len(s) THEN Len(s) - n ELSE 0
         /\ \A i \in 1 .. Len(Drop(s, n)) : Drop(s, n)[i] = s[n + i]
<1>1. Drop(s, n) = SubSeq(s, n + 1, Len(s))
  BY DEF Drop
<1> QED
  BY <1>1, SubSeqProperties

\* What a page shows, and when it is said to be followed by another, with the count of
\* the rows it is cut from.
LEMMA PageCut ==
  ASSUME NEW S, NEW rows \in Seq(S), NEW limit \in Nat \ {0}, NEW page \in Nat \ {0}, NEW strategy
  PROVE  LET answer == OffsetPage(rows, Len(rows), page, limit, strategy)
         IN /\ answer.data \in Seq(S)
            /\ Len(answer.data) = IF page * limit <= Len(rows) THEN limit
                                  ELSE IF Skip(page, limit) <= Len(rows)
                                       THEN Len(rows) - Skip(page, limit) ELSE 0
            /\ \A i \in 1 .. Len(answer.data) : answer.data[i] = rows[Skip(page, limit) + i]
            /\ answer.more <=> page * limit < Len(rows)
<1> DEFINE rest == Drop(rows, Skip(page, limit))
           data == Take(rest, Fetched(limit, strategy))
           answer == OffsetPage(rows, Len(rows), page, limit, strategy)
<1>1. Skip(page, limit) \in Nat /\ Skip(page, limit) + limit = page * limit
  <2>1. page - 1 \in Nat /\ (page - 1) * limit \in Nat
    OBVIOUS
  <2>2. (page - 1) * limit + limit = page * limit
    OBVIOUS
  <2> QED
    BY <2>1, <2>2 DEF Skip
<1>2. Fetched(limit, strategy) \in Nat /\ Fetched(limit, strategy) = limit + (IF strategy = "none" THEN 1 ELSE 0)
  BY DEF Fetched
<1>3. /\ rest \in Seq(S) /\ Len(rest) = IF Skip(page, limit) <= Len(rows) THEN Len(rows) - Skip(page, limit) ELSE 0
      /\ \A i \in 1 .. Len(rest) : rest[i] = rows[Skip(page, limit) + i]
  BY <1>1, Dropped
<1>4. /\ data \in Seq(S)
      /\ Len(data) = IF Fetched(limit, strategy) <= Len(rest) THEN Fetched(limit, strategy) ELSE Len(rest)
      /\ \A i \in 1 .. Len(data) : data[i] = rest[i]
  BY <1>2, <1>3, Taken
<1>5. /\ Take(data, limit) \in Seq(S)
      /\ Len(Take(data, limit)) = IF limit <= Len(data) THEN limit ELSE Len(data)
      /\ \A i \in 1 .. Len(Take(data, limit)) : Take(data, limit)[i] = data[i]
  BY <1>4, Taken
<1>6. /\ answer.data = Take(data, limit)
      /\ strategy = "none" => answer.more = (Len(data) > limit)
      /\ strategy # "none" => answer.more = (page < TotalPages(Len(rows), limit))
  BY DEF OffsetPage, PageBy
<1>7. Len(rows) \in Nat /\ Len(rest) \in Nat /\ Len(data) \in Nat /\ Len(Take(data, limit)) \in Nat
  BY <1>3, <1>4, <1>5
<1>8. page * limit \in Nat
  OBVIOUS
<1> HIDE DEF rest, data, answer
<1>9. Len(Take(data, limit)) = IF page * limit <= Len(rows) THEN limit
                               ELSE IF Skip(page, limit) <= Len(rows)
                                    THEN Len(rows) - Skip(page, limit) ELSE 0
  BY <1>1, <1>2, <1>3, <1>4, <1>5, <1>7, <1>8
<1>10. \A i \in 1 .. Len(Take(data, limit)) : Take(data, limit)[i] = rows[Skip(page, limit) + i]
  BY <1>3, <1>4, <1>5, <1>7
<1>11. answer.more <=> page * limit < Len(rows)
  <2>1. CASE strategy = "none"
    <3>1. (Len(data) > limit) <=> page * limit < Len(rows)
      BY <2>1, <1>1, <1>2, <1>3, <1>4, <1>7, <1>8
    <3> QED
      BY <2>1, <3>1, <1>6
  <2>2. CASE strategy # "none"
    BY <2>2, <1>6, <1>7, PagesCounted
  <2> QED
    BY <2>1, <2>2
<1> QED
  BY <1>5, <1>6, <1>9, <1>10, <1>11 DEF answer

-----------------------------------------------------------------------------
(* The theorems about pages by number                                       *)

\* Row n is on the page, in its place.
OnPage(n, rows, page, limit, strategy) ==
  LET answer == OffsetPage(rows, Len(rows), page, limit, strategy)
  IN \E i \in DOMAIN answer.data : Skip(page, limit) + i = n /\ answer.data[i] = rows[n]

\* Whatever the limit and the strategy, every row is on one page, at its place, and
\* every page before that one says that there are more: a client that follows them is
\* shown all rows, each once (PaginationEngine.paginate).
THEOREM PagesAreExact ==
  ASSUME NEW S, NEW rows \in Seq(S), NEW limit \in Nat \ {0}, NEW strategy,
         NEW n \in 1 .. Len(rows)
  PROVE  \E page \in Nat \ {0} :
           /\ OnPage(n, rows, page, limit, strategy)
           /\ \A other \in Nat \ {0} : OnPage(n, rows, other, limit, strategy) => other = page
           /\ \A other \in 1 .. page - 1 :
                OffsetPage(rows, Len(rows), other, limit, strategy).more
<1> DEFINE page == ((n - 1) \div limit) + 1
           start(p) == Skip(p, limit)
           end(p) == p * limit
           answer(p) == OffsetPage(rows, Len(rows), p, limit, strategy)
<1>0. Len(rows) \in Nat /\ n \in Nat /\ n <= Len(rows)
  OBVIOUS
<1>1. \A p \in Nat \ {0} : start(p) \in Nat /\ end(p) = start(p) + limit
  <2> TAKE p \in Nat \ {0}
  <2>1. p - 1 \in Nat /\ (p - 1) * limit \in Nat /\ (p - 1) * limit + limit = p * limit
    OBVIOUS
  <2> QED
    BY <2>1 DEF Skip
<1>2. \A p, q \in Nat \ {0} : p < q => end(p) <= start(q)
  <2> SUFFICES ASSUME NEW p \in Nat \ {0}, NEW q \in Nat \ {0}, p < q PROVE end(p) <= start(q)
    OBVIOUS
  <2>1. end(p) + limit <= end(q) /\ end(p) \in Nat
    BY PagesFollow
  <2>2. start(q) \in Nat /\ end(q) = start(q) + limit
    BY <1>1
  <2> HIDE DEF start, end
  <2> QED
    BY <2>1, <2>2
<1>3. page \in Nat \ {0} /\ start(page) < n /\ n <= end(page)
  <2>1. /\ (n - 1) \div limit \in Nat
        /\ ((n - 1) \div limit) * limit <= n - 1 /\ n - 1 < ((n - 1) \div limit) * limit + limit
    BY Division
  <2>2. page \in Nat \ {0} /\ page - 1 = (n - 1) \div limit
    BY <2>1
  <2>3. start(page) = ((n - 1) \div limit) * limit
    BY <2>2 DEF Skip
  <2>4. start(page) \in Nat /\ end(page) = start(page) + limit
    BY <1>1, <2>2
  <2>5. start(page) <= n - 1 /\ n - 1 < start(page) + limit
    BY <2>1, <2>3
  <2> HIDE DEF page, start, end
  <2> QED
    BY <2>2, <2>4, <2>5
<1>4. \A p \in Nat \ {0} :
        /\ answer(p).data \in Seq(S)
        /\ Len(answer(p).data) = IF end(p) <= Len(rows) THEN limit
                                 ELSE IF start(p) <= Len(rows) THEN Len(rows) - start(p) ELSE 0
        /\ \A i \in 1 .. Len(answer(p).data) : answer(p).data[i] = rows[start(p) + i]
        /\ answer(p).more <=> end(p) < Len(rows)
  BY PageCut
<1>5. \A p \in Nat \ {0} :
        OnPage(n, rows, p, limit, strategy)
        <=> \E i \in DOMAIN answer(p).data : start(p) + i = n /\ answer(p).data[i] = rows[n]
  BY DEF OnPage
<1> HIDE DEF page, start, end, answer
<1>6. \A p \in Nat \ {0} : OnPage(n, rows, p, limit, strategy) <=> start(p) < n /\ n <= end(p)
  <2> TAKE p \in Nat \ {0}
  <2> DEFINE size == Len(answer(p).data)
  <2>0. start(p) \in Nat /\ end(p) = start(p) + limit /\ limit \in Nat
    BY <1>1
  <2>1. DOMAIN answer(p).data = 1 .. size /\ size \in Nat
    BY <1>4
  <2>2. size = IF end(p) <= Len(rows) THEN limit
               ELSE IF start(p) <= Len(rows) THEN Len(rows) - start(p) ELSE 0
    BY <1>4
  <2>3. \A i \in 1 .. size : answer(p).data[i] = rows[start(p) + i]
    BY <1>4
  <2> HIDE DEF size
  <2>4. ASSUME OnPage(n, rows, p, limit, strategy) PROVE start(p) < n /\ n <= end(p)
    <3>1. PICK i \in 1 .. size : start(p) + i = n
      BY <1>5, <2>1, <2>4
    <3> QED
      BY <1>0, <2>0, <2>1, <2>2, <3>1
  <2>5. ASSUME start(p) < n, n <= end(p) PROVE OnPage(n, rows, p, limit, strategy)
    <3>1. n - start(p) \in 1 .. size /\ start(p) + (n - start(p)) = n
      BY <1>0, <2>0, <2>1, <2>2, <2>5
    <3>2. answer(p).data[n - start(p)] = rows[n]
      BY <2>3, <3>1
    <3> QED
      BY <1>5, <2>1, <3>1, <3>2
  <2> QED
    BY <2>4, <2>5
<1>7. \A other \in Nat \ {0} : OnPage(n, rows, other, limit, strategy) => other = page
  <2> TAKE other \in Nat \ {0}
  <2> HAVE OnPage(n, rows, other, limit, strategy)
  <2>1. start(other) < n /\ n <= end(other)
    BY <1>6
  <2>2. start(other) \in Nat /\ start(page) \in Nat
    BY <1>1, <1>3
  <2>3. end(other) = start(other) + limit /\ end(page) = start(page) + limit
    BY <1>1, <1>3
  <2>4. (other < page => end(other) <= start(page)) /\ (page < other => end(page) <= start(other))
    BY <1>2, <1>3
  <2> QED
    BY <1>0, <1>3, <2>1, <2>2, <2>3, <2>4
<1>8. \A other \in 1 .. page - 1 : answer(other).more
  <2> TAKE other \in 1 .. page - 1
  <2>1. other \in Nat \ {0} /\ other < page
    BY <1>3
  <2>2. end(other) < Len(rows)
    BY <1>1, <1>2, <1>3, <2>1
  <2> QED
    BY <1>4, <2>1, <2>2
<1> QED
  BY <1>3, <1>6, <1>7, <1>8 DEF answer

\* Pages of groups are the same pages: the engine compares the page with the number of
\* pages, aggregatePaginate the rows up to it with the number of groups.
THEOREM GroupPagesAgree ==
  ASSUME NEW S, NEW rows \in Seq(S), NEW limit \in Nat \ {0}, NEW page \in Nat, NEW strategy
  PROVE  GroupsPage(rows, Len(rows), page, limit, strategy)
         = FacetPage(rows, ValidPage(page), limit, strategy)
<1> DEFINE p == ValidPage(page)
<1>1. p \in Nat \ {0}
  BY DEF ValidPage
<1>2. (p < TotalPages(Len(rows), limit)) = (p * limit < Len(rows))
  BY <1>1, PagesCounted
<1> QED
  BY <1>2 DEF GroupsPage, FacetPage, OffsetPage

-----------------------------------------------------------------------------
(* Pages of groups by their sort tuple                                      *)

LEMMA LeastNatural ==
  ASSUME NEW T \in SUBSET Nat, T # {}
  PROVE  \E m \in T : \A k \in T : m <= k
<1> DEFINE less == OpToRel(<, Nat)
<1>1. IsWellFoundedOn(less, Nat)
  BY NatLessThanWellFounded
<1>2. \A i, j \in Nat : i < j => <<i, j>> \in less
  BY DEF OpToRel
<1> HIDE DEF less
<1>3. PICK m \in T : \A k \in T : ~ (<<k, m>> \in less)
  BY <1>1, WFMin
<1>4. ASSUME NEW k \in T PROVE m <= k
  <2>1. ~(k < m)
    BY <1>2, <1>3
  <2> QED
    BY <2>1
<1> QED
  BY <1>4

\* Whatever directions a client sorts by: of two sort tuples that differ one comes after
\* the other, and the order is strict.  So the page after a cursor begins where the page
\* before it has ended (buildKeysetPredicate).
THEOREM TuplesAreOrdered ==
  ASSUME NEW dirs \in Seq({1, -1}),
         NEW x \in [DOMAIN dirs -> Int], NEW y \in [DOMAIN dirs -> Int], NEW z \in [DOMAIN dirs -> Int]
  PROVE  /\ x # y => AfterTuple(dirs, x, y) \/ AfterTuple(dirs, y, x)
         /\ AfterTuple(dirs, x, y) => ~AfterTuple(dirs, y, x)
         /\ AfterTuple(dirs, x, y) /\ AfterTuple(dirs, y, z) => AfterTuple(dirs, x, z)
<1>0. DOMAIN dirs \subseteq Nat \ {0} /\ \A i \in DOMAIN dirs : 1 .. i \subseteq DOMAIN dirs
  <2>1. Len(dirs) \in Nat /\ DOMAIN dirs = 1 .. Len(dirs)
    OBVIOUS
  <2> QED
    BY <2>1
<1>1. ASSUME x # y PROVE AfterTuple(dirs, x, y) \/ AfterTuple(dirs, y, x)
  <2> DEFINE T == {i \in DOMAIN dirs : x[i] # y[i]}
  <2>1. T \in SUBSET Nat /\ T # {}
    BY <1>0, <1>1
  <2>2. PICK m \in T : \A k \in T : m <= k
    BY <2>1, LeastNatural
  <2>3. m \in DOMAIN dirs /\ m \in Nat /\ x[m] \in Int /\ y[m] \in Int /\ x[m] # y[m]
    BY <1>0
  <2>4. \A j \in 1 .. m - 1 : x[j] = y[j]
    BY <1>0, <2>2, <2>3
  <2>5. KeyBeyond(dirs[m], x[m], y[m]) \/ KeyBeyond(dirs[m], y[m], x[m])
    BY <2>3 DEF KeyBeyond
  <2> QED
    BY <2>3, <2>4, <2>5 DEF AfterTuple
<1>2. ASSUME AfterTuple(dirs, x, y), AfterTuple(dirs, y, x) PROVE FALSE
  <2>1. PICK i \in DOMAIN dirs : KeyBeyond(dirs[i], x[i], y[i]) /\ \A j \in 1 .. i - 1 : x[j] = y[j]
    BY <1>2 DEF AfterTuple
  <2>2. PICK k \in DOMAIN dirs : KeyBeyond(dirs[k], y[k], x[k]) /\ \A j \in 1 .. k - 1 : y[j] = x[j]
    BY <1>2 DEF AfterTuple
  <2>3. /\ i \in Nat /\ k \in Nat /\ i > 0 /\ k > 0
        /\ x[i] \in Int /\ y[i] \in Int /\ x[k] \in Int /\ y[k] \in Int
    BY <1>0
  <2>4. x[i] # y[i] /\ x[k] # y[k]
    BY <2>1, <2>2, <2>3 DEF KeyBeyond
  <2>5. i = k
    BY <2>1, <2>2, <2>3, <2>4
  <2> QED
    BY <2>1, <2>2, <2>3, <2>5 DEF KeyBeyond
<1>3. ASSUME AfterTuple(dirs, x, y), AfterTuple(dirs, y, z) PROVE AfterTuple(dirs, x, z)
  <2>1. PICK i \in DOMAIN dirs : KeyBeyond(dirs[i], x[i], y[i]) /\ \A j \in 1 .. i - 1 : x[j] = y[j]
    BY <1>3 DEF AfterTuple
  <2>2. PICK k \in DOMAIN dirs : KeyBeyond(dirs[k], y[k], z[k]) /\ \A j \in 1 .. k - 1 : y[j] = z[j]
    BY <1>3 DEF AfterTuple
  <2>3. /\ i \in Nat /\ k \in Nat /\ i > 0 /\ k > 0
        /\ x[i] \in Int /\ y[i] \in Int /\ x[k] \in Int /\ y[k] \in Int /\ z[i] \in Int /\ z[k] \in Int
    BY <1>0
  <2>4. CASE i < k
    <3>1. y[i] = z[i] /\ \A j \in 1 .. i - 1 : x[j] = z[j]
      BY <2>1, <2>2, <2>3, <2>4
    <3> QED
      BY <2>1, <3>1 DEF AfterTuple
  <2>5. CASE k < i
    <3>1. x[k] = y[k] /\ \A j \in 1 .. k - 1 : x[j] = z[j]
      BY <2>1, <2>2, <2>3, <2>5
    <3> QED
      BY <2>2, <3>1 DEF AfterTuple
  <2>6. CASE i = k
    <3>1. KeyBeyond(dirs[i], x[i], z[i])
      BY <2>1, <2>2, <2>3, <2>6 DEF KeyBeyond
    <3>2. \A j \in 1 .. i - 1 : x[j] = z[j]
      BY <2>1, <2>2, <2>6
    <3> QED
      BY <3>1, <3>2 DEF AfterTuple
  <2> QED
    BY <2>3, <2>4, <2>5, <2>6
<1> QED
  BY <1>1, <1>2, <1>3

-----------------------------------------------------------------------------
(* The index advice                                                         *)

\* An index that is content for a filter and a sort of any length serves it: a walk of the
\* index, in one of its two directions, meets the documents the filter selects in the order
\* of the sort, so stream rightly asks for no other (hasCompatibleKeysetIndex).
THEOREM CompatibleServes ==
  ASSUME NEW Fields, NEW rows \in SUBSET [Fields -> Int],
         NEW filtered \in SUBSET Fields, IsFiniteSet(filtered),
         NEW index \in Seq([field : Fields, dir : {-1, 0, 1}]),
         NEW keys \in Seq([field : Fields, dir : {-1, 1}]),
         Compatible(index, filtered, keys)
  PROVE  Serves(index, filtered, keys, rows)
<1> DEFINE n == Cardinality(filtered)
           suffix == SubSeq(index, n + 1, n + Len(keys))
           prefix == SubSeq(index, 1, n)
<1>1. n \in Nat
  BY FS_CardinalityType
<1>2. /\ Len(index) \in Nat /\ DOMAIN index = 1 .. Len(index) /\ Len(keys) \in Nat
      /\ DOMAIN keys = 1 .. Len(keys)
  OBVIOUS
<1>3. /\ n + Len(keys) <= Len(index) /\ \A i \in DOMAIN index : index[i].dir # 0
      /\ FieldsOf(prefix) = filtered
      /\ \A i \in DOMAIN keys : suffix[i].field = keys[i].field
      /\ SameDirection(suffix, keys)
  BY <1>1, <1>2 DEF Compatible
<1>4. \A i \in DOMAIN keys : n + i \in DOMAIN index /\ suffix[i] = index[n + i]
  BY <1>1, <1>2, <1>3, SubSeqProperties
<1>5. \A j \in 1 .. n : index[j].field \in filtered
  <2> TAKE j \in 1 .. n
  <2>1. j \in DOMAIN prefix /\ prefix[j] = index[j]
    BY <1>1, <1>2, <1>3, SubSeqProperties
  <2> QED
    BY <1>3, <2>1 DEF FieldsOf
<1>6. \A i \in DOMAIN keys : /\ keys[i].field \in Fields /\ keys[i].dir \in {-1, 1}
                           /\ index[n + i].field = keys[i].field
  <2> TAKE i \in DOMAIN keys
  <2>1. keys[i] \in [field : Fields, dir : {-1, 1}]
    <3>1. i \in 1 .. Len(keys)
      BY <1>2
    <3> QED
      BY <3>1, ElementOfSeq
  <2>2. suffix[i] = index[n + i] /\ suffix[i].field = keys[i].field
    BY <1>3, <1>4
  <2> HIDE DEF n, suffix
  <2> QED
    BY <2>1, <2>2
<1> HIDE DEF n, suffix, prefix
\* What precedes key i of the sort is alike in two documents.
<1>7. ASSUME NEW d \in rows, NEW e \in rows, \A f \in filtered : d[f] = e[f],
             NEW i \in DOMAIN keys, \A j \in 1 .. i - 1 : d[keys[j].field] = e[keys[j].field]
      PROVE  \A j \in 1 .. (n + i) - 1 : d[index[j].field] = e[index[j].field]
  <2> TAKE j \in 1 .. (n + i) - 1
  <2>1. CASE j <= n
    <3>1. index[j].field \in filtered
      BY <1>1, <1>2, <1>5, <2>1
    <3> QED
      BY <1>7, <3>1
  <2>2. CASE n < j
    <3>1. j - n \in 1 .. i - 1 /\ j - n \in DOMAIN keys /\ n + (j - n) = j
      BY <1>1, <1>2, <2>2
    <3>2. index[j].field = keys[j - n].field
      BY <1>6, <3>1
    <3>3. d[keys[j - n].field] = e[keys[j - n].field]
      BY <1>7, <3>1
    <3> QED
      BY <3>2, <3>3
  <2> QED
    BY <1>1, <1>2, <2>1, <2>2
<1>8. \A d \in rows, f \in Fields : d[f] \in Int
  OBVIOUS
<1>9. CASE \A i \in DOMAIN keys : suffix[i].dir = keys[i].dir
  <2>1. ASSUME NEW d \in rows, NEW e \in rows, \A f \in filtered : d[f] = e[f], Before(keys, d, e)
        PROVE  Before(index, d, e)
    <3>1. PICK i \in DOMAIN keys :
            /\ IF keys[i].dir = 1 THEN d[keys[i].field] < e[keys[i].field]
                                  ELSE d[keys[i].field] > e[keys[i].field]
            /\ \A j \in 1 .. i - 1 : d[keys[j].field] = e[keys[j].field]
      BY <2>1 DEF Before
    <3>2. n + i \in DOMAIN index /\ index[n + i].dir = keys[i].dir
      BY <1>4, <1>9
    <3>3. \A j \in 1 .. (n + i) - 1 : d[index[j].field] = e[index[j].field]
      BY <1>7, <2>1, <3>1
    <3>4. IF index[n + i].dir = 1 THEN d[index[n + i].field] < e[index[n + i].field]
                                  ELSE d[index[n + i].field] > e[index[n + i].field]
      <4>1. index[n + i].field = keys[i].field
        BY <1>6
      <4> QED
        BY <3>1, <3>2, <4>1
    <3> QED
      BY <3>2, <3>3, <3>4 DEF Before
  <2> QED
    BY <2>1 DEF Serves
<1>10. CASE \A i \in DOMAIN keys : suffix[i].dir = -keys[i].dir
  <2>1. ASSUME NEW d \in rows, NEW e \in rows, \A f \in filtered : d[f] = e[f], Before(keys, d, e)
        PROVE  Before(index, e, d)
    <3>1. PICK i \in DOMAIN keys :
            /\ IF keys[i].dir = 1 THEN d[keys[i].field] < e[keys[i].field]
                                  ELSE d[keys[i].field] > e[keys[i].field]
            /\ \A j \in 1 .. i - 1 : d[keys[j].field] = e[keys[j].field]
      BY <2>1 DEF Before
    <3>2. n + i \in DOMAIN index /\ index[n + i].dir = -keys[i].dir
      BY <1>4, <1>10
    <3>3. \A j \in 1 .. (n + i) - 1 : d[index[j].field] = e[index[j].field]
      BY <1>7, <2>1, <3>1
    <3>4. IF index[n + i].dir = 1 THEN e[index[n + i].field] < d[index[n + i].field]
                                  ELSE e[index[n + i].field] > d[index[n + i].field]
      <4>1. d[keys[i].field] \in Int /\ e[keys[i].field] \in Int
        BY <1>6, <1>8
      <4>2. index[n + i].field = keys[i].field
        BY <1>6
      <4>3. CASE keys[i].dir = 1
        <5>1. index[n + i].dir = -1 /\ d[keys[i].field] < e[keys[i].field]
          BY <3>1, <3>2, <4>3
        <5>2. e[keys[i].field] > d[keys[i].field]
          BY <4>1, <5>1
        <5> QED
          BY <4>2, <5>1, <5>2
      <4>4. CASE keys[i].dir = -1
        <5>1. index[n + i].dir = 1 /\ d[keys[i].field] > e[keys[i].field]
          <6>1. \A x \in Int : -x = 0 - x
            OBVIOUS
          <6>2. keys[i].dir \in Int /\ 0 - keys[i].dir = 1 /\ keys[i].dir # 1
            BY <4>4
          <6>3. index[n + i].dir = 1
            BY <3>2, <6>1, <6>2
          <6> QED
            BY <3>1, <6>2, <6>3
        <5>2. e[keys[i].field] < d[keys[i].field]
          BY <4>1, <5>1
        <5> QED
          BY <4>2, <5>1, <5>2
      <4> QED
        BY <1>6, <4>3, <4>4
    <3> QED
      BY <3>2, <3>3, <3>4 DEF Before
  <2> QED
    BY <2>1 DEF Serves
<1> QED
  BY <1>3, <1>9, <1>10 DEF SameDirection

-----------------------------------------------------------------------------
(* Filters compiled to queries                                              *)

\* The operators of the portable language.
TreeOps == {"true", "false", "eq", "ne", "in", "nin", "notNull", "isNull", "like",
            "and", "or", "not"} \cup Comparisons

\* A set of trees, closed under children; a child is smaller than its parent.
Grounded(trees, size) ==
  \A f \in trees : /\ f.parts \in Seq(trees)
                   /\ \A i \in DOMAIN f.parts : size[f.parts[i]] < size[f]

\* Filters of the portable language: a comparison has one operand, a negation one child.
WellFormed(trees) ==
  \A f \in trees :
    /\ f.op \in TreeOps
    /\ f.op \in {"eq", "ne"} \cup Comparisons => DOMAIN f.vs = {1}
    /\ f.op = "not" => Len(f.parts) = 1

\* What Selects, Compile and Matches are, as functions on such a set: the recursion
\* equations that define them.
IsSelects(selects, trees, d) ==
  \A f \in trees : f.op # "like" =>
    (selects[f] <=> SelectsNode(f, d, [i \in DOMAIN f.parts |-> selects[f.parts[i]]]))
IsCompile(compile, trees) ==
  \A f \in trees : f.op # "like" =>
    compile[f] = CompileNode(f, [i \in DOMAIN f.parts |-> compile[f.parts[i]]])
IsMatches(matches, queries, d) ==
  \A q \in queries :
    /\ q.parts \in Seq(queries)
    /\ q.op # "$regex" =>
         (matches[q] <=> MatchesNode(q, d, [i \in DOMAIN q.parts |-> matches[q.parts[i]]]))

\* Induction over trees: what holds of a node when it holds of its children holds of all.
LEMMA TreeInduction ==
  ASSUME NEW trees, NEW size \in [trees -> Nat], Grounded(trees, size), NEW good,
         \A f \in trees : (\A i \in DOMAIN f.parts : f.parts[i] \in good) => f \in good
  PROVE  \A f \in trees : f \in good
<1> DEFINE wrong == {f \in trees : f \notin good}
           sizes == {size[f] : f \in wrong}
<1>1. SUFFICES ASSUME wrong # {} PROVE FALSE
  OBVIOUS
<1>2. PICK n \in sizes : \A m \in sizes : n <= m
  <2>1. sizes \in SUBSET Nat /\ sizes # {}
    BY <1>1
  <2> QED
    BY <2>1, LeastNatural
<1>3. PICK f \in wrong : size[f] = n
  OBVIOUS
<1>4. ASSUME NEW i \in DOMAIN f.parts PROVE f.parts[i] \in good
  <2>1. f.parts[i] \in trees /\ size[f.parts[i]] < size[f]
    BY DEF Grounded
  <2>2. size[f.parts[i]] \in Nat /\ size[f] \in Nat
    BY <2>1
  <2>3. ASSUME f.parts[i] \in wrong PROVE FALSE
    <3>1. size[f.parts[i]] \in sizes
      BY <2>3
    <3> HIDE DEF sizes, wrong
    <3> QED
      BY <1>2, <1>3, <2>1, <2>2, <3>1
  <2> QED
    BY <2>1, <2>3
<1> QED
  BY <1>4

\* What an operation makes of the branches is a sequence again.
LEMMA Mapped ==
  ASSUME NEW S, NEW T, NEW s \in Seq(S), NEW g \in [S -> T]
  PROVE  [i \in DOMAIN s |-> g[s[i]]] \in Seq(T)
<1>1. Len(s) \in Nat /\ DOMAIN s = 1 .. Len(s) /\ \A i \in DOMAIN s : g[s[i]] \in T
  OBVIOUS
<1>2. [i \in 1 .. Len(s) |-> g[s[i]]] \in [1 .. Len(s) -> T]
  BY <1>1
<1> QED
  BY <1>1, <1>2, SeqDef

\* An operation on trees, given as what it makes of a node and of what it has made of the
\* children: right on the trees smaller than n.
AreRight(g, step, trees, size, n) ==
  \A f \in trees : size[f] < n => g[f] = step[<<f, [i \in DOMAIN f.parts |-> g[f.parts[i]]]>>]

LEMMA RightExtends ==
  ASSUME NEW trees, NEW size \in [trees -> Nat], Grounded(trees, size),
         NEW T, NEW step \in [trees \X Seq(T) -> T],
         NEW n \in Nat, NEW g \in [trees -> T], AreRight(g, step, trees, size, n)
  PROVE  \E h \in [trees -> T] : AreRight(h, step, trees, size, n + 1)
<1> DEFINE Kids(k, f) == [i \in DOMAIN f.parts |-> k[f.parts[i]]]
           h == [f \in trees |-> IF size[f] = n THEN step[<<f, Kids(g, f)>>] ELSE g[f]]
<1>1. ASSUME NEW f \in trees PROVE f.parts \in Seq(trees) /\ Kids(g, f) \in Seq(T)
  <2>1. f.parts \in Seq(trees)
    BY DEF Grounded
  <2> QED
    BY <2>1, Mapped
<1>2. h \in [trees -> T]
  BY <1>1
<1>3. ASSUME NEW f \in trees, size[f] < n + 1 PROVE h[f] = step[<<f, Kids(h, f)>>]
  <2>1. ASSUME NEW i \in DOMAIN f.parts PROVE h[f.parts[i]] = g[f.parts[i]]
    <3>1. f.parts[i] \in trees /\ size[f.parts[i]] < size[f]
      BY <1>1 DEF Grounded
    <3>2. size[f.parts[i]] \in Nat /\ size[f] \in Nat /\ size[f.parts[i]] # n
      BY <1>3, <3>1
    <3> QED
      BY <3>1, <3>2
  <2>2. Kids(h, f) = Kids(g, f)
    BY <2>1
  <2>3. CASE size[f] = n
    BY <2>2, <2>3
  <2>4. CASE size[f] # n
    <3>1. size[f] < n
      BY <1>3, <2>4
    <3>2. g[f] = step[<<f, Kids(g, f)>>]
      BY <3>1 DEF AreRight
    <3>3. h[f] = g[f]
      BY <2>4
    <3> QED
      BY <2>2, <3>2, <3>3
  <2> QED
    BY <2>3, <2>4
<1> QED
  BY <1>2, <1>3 DEF AreRight

LEMMA RightExist ==
  ASSUME NEW trees, NEW size \in [trees -> Nat], Grounded(trees, size),
         NEW T, NEW t \in T, NEW step \in [trees \X Seq(T) -> T], NEW n \in Nat
  PROVE  \E g \in [trees -> T] : AreRight(g, step, trees, size, n)
<1> DEFINE Z == {k \in Nat : ~ \E g \in [trees -> T] : AreRight(g, step, trees, size, k)}
<1> SUFFICES ASSUME Z # {} PROVE FALSE
  OBVIOUS
<1>1. PICK m \in Z : \A k \in Z : m <= k
  BY LeastNatural
<1>2. CASE m = 0
  <2>1. [f \in trees |-> t] \in [trees -> T]
    OBVIOUS
  <2>2. \A f \in trees : ~(size[f] < 0)
    OBVIOUS
  <2>3. AreRight([f \in trees |-> t], step, trees, size, 0)
    BY <2>2 DEF AreRight
  <2> QED
    BY <1>2, <2>1, <2>3
<1>3. CASE m # 0
  <2>1. m - 1 \in Nat /\ m - 1 \notin Z /\ (m - 1) + 1 = m
    BY <1>1, <1>3
  <2>2. PICK g \in [trees -> T] : AreRight(g, step, trees, size, m - 1)
    BY <2>1
  <2>3. \E h \in [trees -> T] : AreRight(h, step, trees, size, (m - 1) + 1)
    BY <2>1, <2>2, RightExtends
  <2> QED
    BY <2>1, <2>3
<1> QED
  BY <1>2, <1>3

LEMMA RightAgree ==
  ASSUME NEW trees, NEW size \in [trees -> Nat], Grounded(trees, size), NEW step,
         NEW n \in Nat, NEW g, AreRight(g, step, trees, size, n),
         NEW m \in Nat, NEW h, AreRight(h, step, trees, size, m)
  PROVE  \A f \in trees : size[f] < n /\ size[f] < m => g[f] = h[f]
<1> DEFINE good == {f \in trees : size[f] < n /\ size[f] < m => g[f] = h[f]}
<1>1. ASSUME NEW f \in trees, \A i \in DOMAIN f.parts : f.parts[i] \in good
      PROVE  f \in good
  <2> SUFFICES ASSUME size[f] < n, size[f] < m PROVE g[f] = h[f]
    OBVIOUS
  <2>1. ASSUME NEW i \in DOMAIN f.parts PROVE g[f.parts[i]] = h[f.parts[i]]
    <3>1. f.parts[i] \in trees /\ size[f.parts[i]] < size[f]
      BY DEF Grounded
    <3>2. size[f.parts[i]] \in Nat /\ size[f] \in Nat
      BY <3>1
    <3> QED
      BY <1>1, <3>1, <3>2
  <2>2. [i \in DOMAIN f.parts |-> g[f.parts[i]]] = [i \in DOMAIN f.parts |-> h[f.parts[i]]]
    BY <2>1
  <2> QED
    BY <2>2 DEF AreRight
<1> HIDE DEF good
<1>2. \A f \in trees : f \in good
  BY <1>1, TreeInduction
<1> QED
  BY <1>2 DEF good

Recurses(g, step, trees) ==
  \A f \in trees : g[f] = step[<<f, [i \in DOMAIN f.parts |-> g[f.parts[i]]]>>]

\* Recursion over trees: every step has one operation that does it all over, and no other.
\* So the equations below do not ask for functions that are not there, and what a theorem
\* says of one that fulfils them it says of the operator that is defined by them.
THEOREM TreeRecursion ==
  ASSUME NEW trees, NEW size \in [trees -> Nat], Grounded(trees, size),
         NEW T, T # {}, NEW step \in [trees \X Seq(T) -> T]
  PROVE  \E g \in [trees -> T] : \A h \in [trees -> T] : (h = g) <=> Recurses(h, step, trees)
<1> DEFINE Right(h, n) == AreRight(h, step, trees, size, n)
           at(n) == CHOOSE h \in [trees -> T] : Right(h, n)
           g == [f \in trees |-> at(size[f] + 1)[f]]
<1>1. \A n \in Nat : at(n) \in [trees -> T] /\ Right(at(n), n)
  <2>1. PICK t : t \in T
    OBVIOUS
  <2>2. \A n \in Nat : \E h \in [trees -> T] : Right(h, n)
    BY <2>1, RightExist
  <2> HIDE DEF Right
  <2> QED
    BY <2>2
<1> HIDE DEF at, Right
<1>2. g \in [trees -> T]
  <2>1. \A f \in trees : at(size[f] + 1) \in [trees -> T]
    BY <1>1
  <2> QED
    BY <2>1
<1>3. ASSUME NEW f \in trees, NEW n \in Nat, size[f] < n PROVE g[f] = at(n)[f]
  <2>1. size[f] + 1 \in Nat /\ size[f] < size[f] + 1
    OBVIOUS
  <2>2. Right(at(size[f] + 1), size[f] + 1) /\ Right(at(n), n)
    BY <1>1, <2>1
  <2>3. at(size[f] + 1)[f] = at(n)[f]
    BY <1>3, <2>1, <2>2, RightAgree DEF Right
  <2> QED
    BY <2>3
<1>4. ASSUME NEW f \in trees PROVE g[f] = step[<<f, [i \in DOMAIN f.parts |-> g[f.parts[i]]]>>]
  <2> DEFINE n == size[f] + 1
  <2>1. n \in Nat /\ size[f] < n
    OBVIOUS
  <2>2. at(n)[f] = step[<<f, [i \in DOMAIN f.parts |-> at(n)[f.parts[i]]]>>]
    BY <1>1, <2>1 DEF Right, AreRight
  <2>3. ASSUME NEW i \in DOMAIN f.parts PROVE g[f.parts[i]] = at(n)[f.parts[i]]
    <3>1. f.parts[i] \in trees /\ size[f.parts[i]] < size[f]
      BY DEF Grounded
    <3>2. size[f.parts[i]] < n
      BY <2>1, <3>1
    <3> QED
      BY <1>3, <2>1, <3>1, <3>2
  <2>4. [i \in DOMAIN f.parts |-> g[f.parts[i]]] = [i \in DOMAIN f.parts |-> at(n)[f.parts[i]]]
    BY <2>3
  <2>5. g[f] = at(n)[f]
    BY <1>3, <2>1
  <2> QED
    BY <2>2, <2>4, <2>5
<1> HIDE DEF g
<1>5. ASSUME NEW h \in [trees -> T], Recurses(h, step, trees) PROVE h = g
  <2>1. ASSUME NEW f \in trees PROVE h[f] = g[f]
    <3> DEFINE n == size[f] + 1
    <3>1. n \in Nat /\ size[f] < n
      OBVIOUS
    <3> HIDE DEF n
    <3>2. Right(h, n) /\ Right(g, n)
      BY <1>4, <1>5 DEF Right, AreRight, Recurses
    <3> QED
      BY <3>1, <3>2, RightAgree DEF Right
  <2> QED
    BY <1>2, <2>1
<1> QED
  BY <1>2, <1>4, <1>5 DEF Recurses

\* For one: whatever the document, trees have a meaning.
LEMMA SelectsExist ==
  ASSUME NEW trees, NEW size \in [trees -> Nat], Grounded(trees, size), NEW d
  PROVE  \E selects \in [trees -> BOOLEAN] : IsSelects(selects, trees, d)
<1> DEFINE T == BOOLEAN
           step == [x \in trees \X Seq(T) |->
                      IF SelectsNode(x[1], d, x[2]) THEN TRUE ELSE FALSE]
<1>1. step \in [trees \X Seq(T) -> T] /\ T # {}
  OBVIOUS
<1> HIDE DEF step, T
<1>2. PICK g \in [trees -> T] : Recurses(g, step, trees)
  BY <1>1, TreeRecursion
<1>3. ASSUME NEW f \in trees
      PROVE  g[f] <=> SelectsNode(f, d, [i \in DOMAIN f.parts |-> g[f.parts[i]]])
  <2> DEFINE kids == [i \in DOMAIN f.parts |-> g[f.parts[i]]]
  <2>1. f.parts \in Seq(trees)
    BY DEF Grounded
  <2>2. kids \in Seq(T)
    BY <2>1, Mapped
  <2>3. g[f] = step[<<f, kids>>]
    BY <1>2 DEF Recurses
  <2> HIDE DEF kids
  <2>4. step[<<f, kids>>] <=> SelectsNode(f, d, kids)
    BY <2>2 DEF step, T
  <2> QED
    BY <2>3, <2>4 DEF kids
<1> QED
  BY <1>2, <1>3 DEF IsSelects, T

LEMMA ListedOne ==
  ASSUME NEW vs, NEW x, DOMAIN vs = {1}
  PROVE  Listed(x, vs) <=> Same(x, vs[1])
<1>1. CASE IsNull(vs[1])
  BY <1>1 DEF Listed, Same
<1>2. CASE ~IsNull(vs[1])
  BY <1>2 DEF Listed, Same
<1> QED
  BY <1>1, <1>2

\* Listed and the server's comparison are the same test.
LEMMA ListedSame ==
  ASSUME NEW vs, NEW x
  PROVE  Listed(x, vs) <=> \E i \in DOMAIN vs : Same(x, vs[i])
<1>1. ASSUME NEW i \in DOMAIN vs
      PROVE  (IF IsNull(vs[i]) THEN IsNull(x) ELSE x = vs[i]) <=> Same(x, vs[i])
  BY DEF Same
<1> QED
  BY <1>1 DEF Listed

\* What the server makes of a leaf: one operand, or several.
LEMMA MatchesLeaf ==
  ASSUME NEW queries, NEW d, NEW matches, IsMatches(matches, queries, d),
         NEW op, NEW f, NEW vs, Node(op, f, vs, <<>>) \in queries
  PROVE  /\ op = "$eq" => (matches[Node(op, f, vs, <<>>)] <=> \E i \in DOMAIN vs : Same(d[f], vs[i]))
         /\ op = "$in" => (matches[Node(op, f, vs, <<>>)] <=> \E i \in DOMAIN vs : Same(d[f], vs[i]))
         /\ op \in {"$ne", "$nin"} =>
              (matches[Node(op, f, vs, <<>>)] <=> \A i \in DOMAIN vs : ~Same(d[f], vs[i]))
         /\ op \in {"$gt", "$gte", "$lt", "$lte"} =>
              (matches[Node(op, f, vs, <<>>)] <=> Ordered(Bare(op), d[f], vs[1]))
<1> DEFINE q == Node(op, f, vs, <<>>)
           kids == [i \in DOMAIN q.parts |-> matches[q.parts[i]]]
<1>1. q.op = op /\ q.f = f /\ q.vs = vs
  BY DEF Node
<1>2. q.op # "$regex" => (matches[q] <=> MatchesNode(q, d, kids))
  BY DEF IsMatches
<1> HIDE DEF q, kids
<1>3. op = "$eq" => (MatchesNode(q, d, kids) <=> \E i \in DOMAIN vs : Same(d[f], vs[i]))
  BY <1>1 DEF MatchesNode
<1>4. op = "$in" => (MatchesNode(q, d, kids) <=> \E i \in DOMAIN vs : Same(d[f], vs[i]))
  BY <1>1 DEF MatchesNode
<1>5. op \in {"$ne", "$nin"} => (MatchesNode(q, d, kids) <=> \A i \in DOMAIN vs : ~Same(d[f], vs[i]))
  BY <1>1 DEF MatchesNode
<1>6. op \in {"$gt", "$gte", "$lt", "$lte"} => (MatchesNode(q, d, kids) <=> Ordered(Bare(op), d[f], vs[1]))
  BY <1>1 DEF MatchesNode
<1> QED
  BY <1>1, <1>2, <1>3, <1>4, <1>5, <1>6 DEF q

LEMMA MatchesTree ==
  ASSUME NEW queries, NEW d, NEW matches, IsMatches(matches, queries, d),
         NEW op, NEW parts, Tree(op, parts) \in queries
  PROVE  /\ op = "$and" => (matches[Tree(op, parts)] <=> \A i \in DOMAIN parts : matches[parts[i]])
         /\ op = "$or"  => (matches[Tree(op, parts)] <=> \E i \in DOMAIN parts : matches[parts[i]])
         /\ op = "$nor" => (matches[Tree(op, parts)] <=> \A i \in DOMAIN parts : ~matches[parts[i]])
<1> DEFINE q == Tree(op, parts)
           kids == [i \in DOMAIN q.parts |-> matches[q.parts[i]]]
<1>1. q.op = op /\ q.parts = parts
  BY DEF Tree, Node
<1>2. q.op # "$regex" => (matches[q] <=> MatchesNode(q, d, kids))
  BY DEF IsMatches
<1>k. \A i \in DOMAIN parts : kids[i] = matches[parts[i]]
  BY <1>1
<1> HIDE DEF q, kids
<1>3. op = "$and" => (MatchesNode(q, d, kids) <=> \A i \in DOMAIN parts : kids[i])
  BY <1>1 DEF MatchesNode
<1>4. op = "$or" => (MatchesNode(q, d, kids) <=> \E i \in DOMAIN parts : kids[i])
  BY <1>1 DEF MatchesNode
<1>5. op = "$nor" => (MatchesNode(q, d, kids) <=> \A i \in DOMAIN parts : ~kids[i])
  BY <1>1 DEF MatchesNode
<1> QED
  BY <1>1, <1>2, <1>k, <1>3, <1>4, <1>5 DEF q

LEMMA MatchesOne ==
  ASSUME NEW queries, NEW d, NEW matches, IsMatches(matches, queries, d),
         NEW op, NEW f, NEW v, Node(op, f, <<v>>, <<>>) \in queries
  PROVE  /\ op = "$eq" => (matches[Node(op, f, <<v>>, <<>>)] <=> Same(d[f], v))
         /\ op = "$ne" => (matches[Node(op, f, <<v>>, <<>>)] <=> ~Same(d[f], v))
         /\ op \in {"$gt", "$gte", "$lt", "$lte"} =>
              (matches[Node(op, f, <<v>>, <<>>)] <=> Ordered(Bare(op), d[f], v))
<1> DEFINE vs == <<v>>
           q == Node(op, f, vs, <<>>)
<1>1. DOMAIN vs = {1} /\ vs[1] = v
  OBVIOUS
<1> HIDE DEF vs
<1>2. op = "$eq" => (matches[q] <=> \E i \in DOMAIN vs : Same(d[f], vs[i]))
  BY MatchesLeaf DEF vs
<1>3. op = "$ne" => (matches[q] <=> \A i \in DOMAIN vs : ~Same(d[f], vs[i]))
  BY MatchesLeaf DEF vs
<1>4. op \in {"$gt", "$gte", "$lt", "$lte"} => (matches[q] <=> Ordered(Bare(op), d[f], vs[1]))
  BY MatchesLeaf DEF vs
<1> HIDE DEF q
<1>5. /\ op = "$eq" => (matches[q] <=> Same(d[f], v))
      /\ op = "$ne" => (matches[q] <=> ~Same(d[f], v))
      /\ op \in {"$gt", "$gte", "$lt", "$lte"} => (matches[q] <=> Ordered(Bare(op), d[f], v))
  BY <1>1, <1>2, <1>3, <1>4
<1> QED
  BY <1>5 DEF q, vs

LEMMA MatchesRows ==
  ASSUME NEW queries, NEW d, NEW matches, IsMatches(matches, queries, d)
  PROVE  /\ AllRows \in queries => matches[AllRows]
         /\ NoRows \in queries => ~matches[NoRows]
<1>1. ASSUME NEW q \in queries, q.op = "all" PROVE matches[q]
  BY <1>1 DEF IsMatches, MatchesNode
<1>2. ASSUME NEW q \in queries, q.op = "none" PROVE ~matches[q]
  BY <1>2 DEF IsMatches, MatchesNode
<1>3. AllRows.op = "all" /\ NoRows.op = "none"
  BY DEF AllRows, NoRows, Tree, Node
<1> QED
  BY <1>1, <1>2, <1>3

\* What a node of the filter tree means, operator by operator.
LEMMA SelectsLeaf ==
  ASSUME NEW f, NEW d, NEW parts
  PROVE  /\ f.op = "true" => SelectsNode(f, d, parts)
         /\ f.op = "false" => ~SelectsNode(f, d, parts)
         /\ f.op = "eq" => (SelectsNode(f, d, parts) <=> Listed(d[f.f], f.vs))
         /\ f.op = "in" => (SelectsNode(f, d, parts) <=> Listed(d[f.f], f.vs))
         /\ f.op = "ne" => (SelectsNode(f, d, parts) <=> (~Listed(d[f.f], f.vs) /\ ~IsNull(d[f.f])))
         /\ f.op = "nin" => (SelectsNode(f, d, parts) <=> ~Listed(d[f.f], f.vs))
         /\ f.op = "notNull" => (SelectsNode(f, d, parts) <=> ~IsNull(d[f.f]))
         /\ f.op = "isNull" => (SelectsNode(f, d, parts) <=> IsNull(d[f.f]))
<1>1. ASSUME f.op = "true" PROVE SelectsNode(f, d, parts)
  BY <1>1 DEF SelectsNode, Comparisons
<1>2. ASSUME f.op = "false" PROVE ~SelectsNode(f, d, parts)
  BY <1>2 DEF SelectsNode, Comparisons
<1>3. ASSUME f.op = "eq" PROVE SelectsNode(f, d, parts) <=> Listed(d[f.f], f.vs)
  BY <1>3 DEF SelectsNode, Comparisons
<1>4. ASSUME f.op = "in" PROVE SelectsNode(f, d, parts) <=> Listed(d[f.f], f.vs)
  BY <1>4 DEF SelectsNode, Comparisons
<1>5. ASSUME f.op = "ne" PROVE SelectsNode(f, d, parts) <=> (~Listed(d[f.f], f.vs) /\ ~IsNull(d[f.f]))
  BY <1>5 DEF SelectsNode, Comparisons
<1>6. ASSUME f.op = "nin" PROVE SelectsNode(f, d, parts) <=> ~Listed(d[f.f], f.vs)
  BY <1>6 DEF SelectsNode, Comparisons
<1>7. ASSUME f.op = "notNull" PROVE SelectsNode(f, d, parts) <=> ~IsNull(d[f.f])
  BY <1>7 DEF SelectsNode, Comparisons
<1>8. ASSUME f.op = "isNull" PROVE SelectsNode(f, d, parts) <=> IsNull(d[f.f])
  BY <1>8 DEF SelectsNode, Comparisons
<1> QED
  BY <1>1, <1>2, <1>3, <1>4, <1>5, <1>6, <1>7, <1>8

LEMMA SelectsComparison ==
  ASSUME NEW f, NEW d, NEW parts, f.op \in {"gt", "gte", "lt", "lte"}
  PROVE  SelectsNode(f, d, parts) <=> Ordered(f.op, d[f.f], f.vs[1])
  BY DEF SelectsNode, Comparisons

LEMMA SelectsTree ==
  ASSUME NEW f, NEW d, NEW parts
  PROVE  /\ f.op = "and" => (SelectsNode(f, d, parts) <=> \A i \in DOMAIN f.parts : parts[i])
         /\ f.op = "or"  => (SelectsNode(f, d, parts) <=> \E i \in DOMAIN f.parts : parts[i])
         /\ f.op = "not" => (SelectsNode(f, d, parts) <=> ~parts[1])
<1>1. ASSUME f.op = "and" PROVE SelectsNode(f, d, parts) <=> \A i \in DOMAIN f.parts : parts[i]
  BY <1>1 DEF SelectsNode, Comparisons
<1>2. ASSUME f.op = "or" PROVE SelectsNode(f, d, parts) <=> \E i \in DOMAIN f.parts : parts[i]
  BY <1>2 DEF SelectsNode, Comparisons
<1>3. ASSUME f.op = "not" PROVE SelectsNode(f, d, parts) <=> ~parts[1]
  BY <1>3 DEF SelectsNode, Comparisons
<1> QED
  BY <1>1, <1>2, <1>3

LeafOps == TreeOps \ {"like", "and", "or", "not"}

LEMMA CompiledLeaf ==
  ASSUME NEW queries, NEW d, NEW matches, IsMatches(matches, queries, d),
         NEW f, NEW parts, f.op \in LeafOps,
         f.op \in {"eq", "ne"} \cup Comparisons => DOMAIN f.vs = {1},
         CompileNode(f, parts) \in queries
  PROVE  matches[CompileNode(f, parts)] <=> SelectsNode(f, d, parts)
<1> DEFINE q == CompileNode(f, parts)
<1> f.op \in {"true", "false", "eq", "ne", "in", "nin", "notNull", "isNull", "gt", "gte", "lt", "lte"}
  BY DEF LeafOps, TreeOps, Comparisons
<1>1. CASE f.op = "true"
  <2>1. q = AllRows
    BY <1>1 DEF CompileNode, Comparisons
  <2>2. matches[q]
    BY <2>1, MatchesRows
  <2>3. SelectsNode(f, d, parts)
    BY <1>1, SelectsLeaf
  <2> QED
    BY <2>2, <2>3
<1>2. CASE f.op = "false"
  <2>1. q = NoRows
    BY <1>2 DEF CompileNode, Comparisons
  <2>2. ~matches[q]
    BY <2>1, MatchesRows
  <2>3. ~SelectsNode(f, d, parts)
    BY <1>2, SelectsLeaf
  <2> QED
    BY <2>2, <2>3
<1>3. CASE f.op = "eq"
  <2>1. q = Node("$eq", f.f, <<f.vs[1]>>, <<>>)
    BY <1>3 DEF CompileNode, Comparisons, Leaf, Dollar
  <2> HIDE DEF q
  <2>2. matches[q] <=> Same(d[f.f], f.vs[1])
    BY <2>1, MatchesOne DEF q
  <2>3. SelectsNode(f, d, parts) <=> Listed(d[f.f], f.vs)
    BY <1>3, SelectsLeaf
  <2> QED
    BY <1>3, <2>2, <2>3, ListedOne DEF q
<1>4. CASE f.op = "ne"
  <2> DEFINE v == f.vs[1]
             x == d[f.f]
  <2>1. SelectsNode(f, d, parts) <=> (~Same(x, v) /\ ~IsNull(x))
    <3>1. SelectsNode(f, d, parts) <=> (~Listed(x, f.vs) /\ ~IsNull(x))
      BY <1>4, SelectsLeaf
    <3> QED
      BY <1>4, <3>1, ListedOne
  <2>0. Same(x, Null) <=> IsNull(x)
    BY DEF Same, Null, Val, IsNull
  <2>2. CASE IsNull(v)
    <3>1. q = Node("$ne", f.f, <<Null>>, <<>>)
      BY <1>4, <2>2 DEF CompileNode, CompileNe, Leaf, Comparisons
    <3> HIDE DEF q, x, v
    <3>2. matches[q] <=> ~Same(d[f.f], Null)
      BY <3>1, MatchesOne DEF q
    <3>3. Same(x, v) <=> IsNull(x)
      BY <2>2 DEF Same
    <3> QED
      BY <2>0, <2>1, <3>2, <3>3 DEF q, x
  <2>3. CASE ~IsNull(v)
    <3> DEFINE l == Node("$ne", f.f, <<v>>, <<>>)
               r == Node("$ne", f.f, <<Null>>, <<>>)
    <3>1. q = Tree("$and", <<l, r>>)
      BY <1>4, <2>3 DEF CompileNode, CompileNe, Leaf, Comparisons
    <3>2. l \in queries /\ r \in queries
      <4>1. q.parts = <<l, r>>
        <5> HIDE DEF q, l, r
        <5> QED
          BY <3>1 DEF Tree, Node
      <4>2. q.parts \in Seq(queries)
        BY DEF IsMatches
      <4> HIDE DEF q, l, r
      <4>3. DOMAIN <<l, r>> = 1 .. 2
        OBVIOUS
      <4> QED
        BY <4>1, <4>2
    <3>3. matches[l] <=> ~Same(d[f.f], v)
      BY <3>2, MatchesOne
    <3>4. matches[r] <=> ~Same(d[f.f], Null)
      BY <3>2, MatchesOne
    <3> HIDE DEF q, l, r, v
    <3>5. matches[q] <=> (matches[l] /\ matches[r])
      <4> DEFINE pair == <<l, r>>
      <4>1. matches[Tree("$and", pair)] <=> \A i \in DOMAIN pair : matches[pair[i]]
        BY <3>1, MatchesTree DEF q
      <4>2. DOMAIN pair = {1, 2} /\ pair[1] = l /\ pair[2] = r
        OBVIOUS
      <4> HIDE DEF pair
      <4> QED
        BY <3>1, <4>1, <4>2 DEF pair
    <3> QED
      BY <2>0, <2>1, <3>3, <3>4, <3>5 DEF q
  <2> QED
    BY <2>2, <2>3
<1>5. CASE f.op \in Comparisons
  <2>0. f.op \in {"gt", "gte", "lt", "lte"}
    BY <1>5 DEF Comparisons
  <2>1. q = Node(Dollar[f.op], f.f, <<f.vs[1]>>, <<>>)
    BY <2>0 DEF CompileNode, Comparisons, Leaf
  <2>2. Dollar[f.op] \in {"$gt", "$gte", "$lt", "$lte"} /\ Bare(Dollar[f.op]) = f.op
    BY <2>0 DEF Dollar, Bare
  <2>3. SelectsNode(f, d, parts) <=> Ordered(f.op, d[f.f], f.vs[1])
    BY <2>0, SelectsComparison
  <2> HIDE DEF q
  <2>4. matches[q] <=> Ordered(Bare(Dollar[f.op]), d[f.f], f.vs[1])
    BY <2>1, <2>2, MatchesOne DEF q
  <2> QED
    BY <2>2, <2>3, <2>4 DEF q
<1>6. CASE f.op = "in"
  <2>1. SelectsNode(f, d, parts) <=> \E i \in DOMAIN f.vs : Same(d[f.f], f.vs[i])
    <3>1. SelectsNode(f, d, parts) <=> Listed(d[f.f], f.vs)
      BY <1>6, SelectsLeaf
    <3> QED
      BY <3>1, ListedSame
  <2>2. CASE f.vs = <<>>
    <3>1. q = NoRows
      BY <1>6, <2>2 DEF CompileNode, Comparisons
    <3>2. ~matches[q]
      BY <3>1, MatchesRows
    <3>3. DOMAIN f.vs = {}
      BY <2>2
    <3> QED
      BY <2>1, <3>2, <3>3
  <2>3. CASE f.vs # <<>>
    <3>1. q = Node("$in", f.f, f.vs, <<>>)
      BY <1>6, <2>3 DEF CompileNode, Comparisons
    <3> HIDE DEF q
    <3>2. matches[q] <=> \E i \in DOMAIN f.vs : Same(d[f.f], f.vs[i])
      BY <3>1, MatchesLeaf DEF q
    <3> QED
      BY <2>1, <3>2 DEF q
  <2> QED
    BY <2>2, <2>3
<1>7. CASE f.op = "nin"
  <2>1. SelectsNode(f, d, parts) <=> \A i \in DOMAIN f.vs : ~Same(d[f.f], f.vs[i])
    <3>1. SelectsNode(f, d, parts) <=> ~Listed(d[f.f], f.vs)
      BY <1>7, SelectsLeaf
    <3> QED
      BY <3>1, ListedSame
  <2>2. CASE f.vs = <<>>
    <3>1. q = AllRows
      BY <1>7, <2>2 DEF CompileNode, Comparisons
    <3>2. matches[q]
      BY <3>1, MatchesRows
    <3>3. DOMAIN f.vs = {}
      BY <2>2
    <3> QED
      BY <2>1, <3>2, <3>3
  <2>3. CASE f.vs # <<>>
    <3>1. q = Node("$nin", f.f, f.vs, <<>>)
      BY <1>7, <2>3 DEF CompileNode, Comparisons
    <3> HIDE DEF q
    <3>2. matches[q] <=> \A i \in DOMAIN f.vs : ~Same(d[f.f], f.vs[i])
      BY <3>1, MatchesLeaf DEF q
    <3> QED
      BY <2>1, <3>2 DEF q
  <2> QED
    BY <2>2, <2>3
<1>8. CASE f.op \in {"isNull", "notNull"}
  <2>1. Same(d[f.f], Null) <=> IsNull(d[f.f])
    BY DEF Same, Null, Val, IsNull
  <2>2. CASE f.op = "isNull"
    <3>1. q = Node("$eq", f.f, <<Null>>, <<>>)
      BY <2>2 DEF CompileNode, Leaf, Comparisons
    <3>2. SelectsNode(f, d, parts) <=> IsNull(d[f.f])
      BY <2>2, SelectsLeaf
    <3> HIDE DEF q
    <3>3. matches[q] <=> Same(d[f.f], Null)
      BY <3>1, MatchesOne DEF q
    <3> QED
      BY <2>1, <3>2, <3>3 DEF q
  <2>3. CASE f.op = "notNull"
    <3>1. q = Node("$ne", f.f, <<Null>>, <<>>)
      BY <2>3 DEF CompileNode, Leaf, Comparisons
    <3>2. SelectsNode(f, d, parts) <=> ~IsNull(d[f.f])
      BY <2>3, SelectsLeaf
    <3> HIDE DEF q
    <3>3. matches[q] <=> ~Same(d[f.f], Null)
      BY <3>1, MatchesOne DEF q
    <3> QED
      BY <2>1, <3>2, <3>3 DEF q
  <2> QED
    BY <1>8, <2>2, <2>3
<1> QED
  BY <1>1, <1>2, <1>3, <1>4, <1>5, <1>6, <1>7, <1>8 DEF Comparisons

\* What Several makes of the compiled children.
LEMMA MatchesSeveral ==
  ASSUME NEW queries, NEW d, NEW matches, IsMatches(matches, queries, d),
         NEW parts \in Seq(queries), NEW op \in {"$and", "$or"}, NEW none \in queries,
         Several(op, parts, none) \in queries
  PROVE  /\ parts = <<>> => Several(op, parts, none) = none
         /\ parts # <<>> /\ op = "$and" =>
              (matches[Several(op, parts, none)] <=> \A i \in DOMAIN parts : matches[parts[i]])
         /\ parts # <<>> /\ op = "$or" =>
              (matches[Several(op, parts, none)] <=> \E i \in DOMAIN parts : matches[parts[i]])
<1>1. ASSUME parts = <<>> PROVE Several(op, parts, none) = none
  BY <1>1 DEF Several
<1>2. CASE Len(parts) = 1
  <2>1. parts # <<>> /\ DOMAIN parts = {1}
    BY <1>2
  <2>2. Several(op, parts, none) = parts[1]
    BY <1>2, <2>1 DEF Several
  <2> QED
    BY <2>1, <2>2
<1>3. CASE parts # <<>> /\ Len(parts) # 1
  <2>1. Several(op, parts, none) = Tree(op, parts)
    BY <1>3 DEF Several
  <2> QED
    BY <1>3, <2>1, MatchesTree
<1> QED
  BY <1>1, <1>2, <1>3

\* One node: where the children's queries match what the children select, the node's does.
LEMMA CompiledStep ==
  ASSUME NEW trees, NEW size, Grounded(trees, size), WellFormed(trees),
         NEW queries, NEW d, NEW selects, IsSelects(selects, trees, d),
         NEW compile \in [trees -> queries], IsCompile(compile, trees),
         NEW matches, IsMatches(matches, queries, d),
         AllRows \in queries, NoRows \in queries,
         NEW f \in trees, f.op # "like",
         \A i \in DOMAIN f.parts : matches[compile[f.parts[i]]] <=> selects[f.parts[i]]
  PROVE  matches[compile[f]] <=> selects[f]
<1> DEFINE parts == [i \in DOMAIN f.parts |-> compile[f.parts[i]]]
           kids == [i \in DOMAIN f.parts |-> selects[f.parts[i]]]
<1>1. compile[f] = CompileNode(f, parts) /\ compile[f] \in queries
  BY DEF IsCompile
<1>2. selects[f] <=> SelectsNode(f, d, kids)
  BY DEF IsSelects
<1>3. f.op \in TreeOps /\ f.parts \in Seq(trees) /\ (f.op = "not" => Len(f.parts) = 1)
      /\ (f.op \in {"eq", "ne"} \cup Comparisons => DOMAIN f.vs = {1})
  BY DEF Grounded, WellFormed
<1>4. parts \in Seq(queries) /\ DOMAIN parts = DOMAIN f.parts
  <2>1. DOMAIN f.parts = 1 .. Len(f.parts) /\ Len(f.parts) \in Nat /\ \A i \in DOMAIN f.parts : f.parts[i] \in trees
    BY <1>3
  <2>2. \A i \in DOMAIN f.parts : compile[f.parts[i]] \in queries
    BY <2>1
  <2> QED
    BY <2>1, <2>2
<1>5. \A i \in DOMAIN f.parts : kids[i] = selects[f.parts[i]] /\ parts[i] = compile[f.parts[i]]
  OBVIOUS
<1>8. (f.parts = <<>>) <=> (parts = <<>>)
  BY <1>3, <1>4
<1> HIDE DEF parts, kids
<1>6. CASE f.op \in LeafOps
  <2>1. SelectsNode(f, d, kids) <=> SelectsNode(f, d, parts)
    <3>1. f.op \in {"gt", "gte", "lt", "lte", "true", "false", "eq", "ne", "in", "nin", "notNull", "isNull"}
      BY <1>6 DEF LeafOps, TreeOps, Comparisons
    <3> QED
      BY <3>1, SelectsLeaf, SelectsComparison
  <2>2. matches[CompileNode(f, parts)] <=> SelectsNode(f, d, parts)
    BY <1>1, <1>3, <1>6, CompiledLeaf
  <2> QED
    BY <1>1, <1>2, <2>1, <2>2
<1>9. (f.parts = <<>>) <=> (DOMAIN f.parts = {})
  BY <1>3
<1>7. CASE f.op = "and"
  <2>1. compile[f] = Several("$and", parts, AllRows)
    BY <1>1, <1>7 DEF CompileNode, Comparisons
  <2>2. selects[f] <=> \A i \in DOMAIN f.parts : selects[f.parts[i]]
    BY <1>2, <1>5, <1>7, SelectsTree
  <2>3. CASE parts = <<>>
    <3>1. compile[f] = AllRows
      BY <2>1, <2>3 DEF Several
    <3> QED
      BY <3>1, <2>2, <2>3, <1>8, <1>9, MatchesRows
  <2>4. CASE parts # <<>>
    <3>1. matches[compile[f]] <=> \A i \in DOMAIN parts : matches[parts[i]]
      BY <1>4, <1>1, <2>1, <2>4, MatchesSeveral
    <3> QED
      BY <3>1, <1>4, <1>5, <2>2
  <2> QED
    BY <2>3, <2>4
<1>10. CASE f.op = "or"
  <2>1. compile[f] = Several("$or", parts, NoRows)
    BY <1>1, <1>10 DEF CompileNode, Comparisons
  <2>2. selects[f] <=> \E i \in DOMAIN f.parts : selects[f.parts[i]]
    BY <1>2, <1>5, <1>10, SelectsTree
  <2>3. CASE parts = <<>>
    <3>1. compile[f] = NoRows
      BY <2>1, <2>3 DEF Several
    <3> QED
      BY <3>1, <2>2, <2>3, <1>8, <1>9, MatchesRows
  <2>4. CASE parts # <<>>
    <3>1. matches[compile[f]] <=> \E i \in DOMAIN parts : matches[parts[i]]
      BY <1>4, <1>1, <2>1, <2>4, MatchesSeveral
    <3> QED
      BY <3>1, <1>4, <1>5, <2>2
  <2> QED
    BY <2>3, <2>4
<1>11. CASE f.op = "not"
  <2>1. compile[f] = Tree("$nor", parts)
    BY <1>1, <1>11 DEF CompileNode, Comparisons
  <2>2. DOMAIN f.parts = {1}
    BY <1>3, <1>11
  <2>3. selects[f] <=> ~selects[f.parts[1]]
    BY <1>2, <1>5, <1>11, <2>2, SelectsTree
  <2>4. matches[compile[f]] <=> \A i \in DOMAIN parts : ~matches[parts[i]]
    BY <1>1, <2>1, MatchesTree
  <2> QED
    BY <1>4, <1>5, <2>2, <2>3, <2>4
<1> QED
  BY <1>3, <1>6, <1>7, <1>10, <1>11 DEF LeafOps

\* compileFilterToMongo keeps the meaning of every tree, however deep: the query it makes
\* matches the documents the filter selects, if those of the LIKE patterns do.
THEOREM QueryFormMeansFilter ==
  ASSUME NEW trees, NEW size \in [trees -> Nat], Grounded(trees, size), WellFormed(trees),
         NEW queries, NEW d, NEW selects, IsSelects(selects, trees, d),
         NEW compile \in [trees -> queries], IsCompile(compile, trees),
         NEW matches, IsMatches(matches, queries, d),
         AllRows \in queries, NoRows \in queries,
         \A f \in trees : f.op = "like" => (matches[compile[f]] <=> selects[f])
  PROVE  \A f \in trees : matches[compile[f]] <=> selects[f]
<1> DEFINE good == {f \in trees : matches[compile[f]] <=> selects[f]}
<1>1. ASSUME NEW f \in trees, \A i \in DOMAIN f.parts : f.parts[i] \in good
      PROVE  f \in good
  <2>1. CASE f.op = "like"
    BY <2>1
  <2>2. CASE f.op # "like"
    BY <1>1, <2>2, CompiledStep
  <2> QED
    BY <2>1, <2>2
<1> HIDE DEF good
<1>2. \A f \in trees : f \in good
  BY <1>1, TreeInduction
<1> QED
  BY <1>2 DEF good

-----------------------------------------------------------------------------
(* Filters compiled to expressions                                          *)

\* CompileExpr and Holds as functions, like IsCompile and IsMatches.
IsCompileExpr(compile, trees) ==
  \A f \in trees : f.op # "like" =>
    compile[f] = CompileExprNode(f, [i \in DOMAIN f.parts |-> compile[f.parts[i]]])
IsHolds(holds, exprs, d) ==
  \A e \in exprs :
    /\ e.parts \in Seq(exprs)
    /\ e.op # "$regex" =>
         (holds[e] <=> HoldsNode(e, d, [i \in DOMAIN e.parts |-> holds[e.parts[i]]]))

Types == {"missing", "null", "number", "string", "date"}

\* The fields have values, and those that are compared the type of the operand.
WellTyped(trees, d) ==
  \A f \in trees : f.op \in TreeOps \ {"true", "false", "and", "or", "not"} =>
    /\ ~IsNull(d[f.f])
    /\ f.op \in Comparisons =>
         /\ d[f.f].t = f.vs[1].t /\ d[f.f].t \in Types
         /\ d[f.f].v \in Int /\ f.vs[1].v \in Int

LEMMA HoldsRows ==
  ASSUME NEW exprs, NEW d, NEW holds, IsHolds(holds, exprs, d)
  PROVE  /\ AllRows \in exprs => holds[AllRows]
         /\ NoRows \in exprs => ~holds[NoRows]
<1>1. ASSUME NEW q \in exprs, q.op = "all" PROVE holds[q]
  BY <1>1 DEF IsHolds, HoldsNode
<1>2. ASSUME NEW q \in exprs, q.op = "none" PROVE ~holds[q]
  BY <1>2 DEF IsHolds, HoldsNode
<1>3. AllRows.op = "all" /\ NoRows.op = "none"
  BY DEF AllRows, NoRows, Tree, Node
<1> QED
  BY <1>1, <1>2, <1>3

LEMMA HoldsLeaf ==
  ASSUME NEW exprs, NEW d, NEW holds, IsHolds(holds, exprs, d),
         NEW op, NEW f, NEW vs, Node(op, f, vs, <<>>) \in exprs
  PROVE  /\ op = "$eq" => (holds[Node(op, f, vs, <<>>)] <=> d[f] = vs[1])
         /\ op = "$ne" => (holds[Node(op, f, vs, <<>>)] <=> d[f] # vs[1])
         /\ op = "$in" => (holds[Node(op, f, vs, <<>>)] <=> \E i \in DOMAIN vs : d[f] = vs[i])
         /\ op = "$gt" => (holds[Node(op, f, vs, <<>>)] <=> Below(vs[1], d[f]))
         /\ op = "$gte" => (holds[Node(op, f, vs, <<>>)] <=> ~Below(d[f], vs[1]))
         /\ op = "$lt" => (holds[Node(op, f, vs, <<>>)] <=> Below(d[f], vs[1]))
         /\ op = "$lte" => (holds[Node(op, f, vs, <<>>)] <=> ~Below(vs[1], d[f]))
<1> DEFINE e == Node(op, f, vs, <<>>)
           kids == [i \in DOMAIN e.parts |-> holds[e.parts[i]]]
<1>1. e.op = op /\ e.f = f /\ e.vs = vs
  BY DEF Node
<1>2. e.op # "$regex" => (holds[e] <=> HoldsNode(e, d, kids))
  BY DEF IsHolds
<1> HIDE DEF e, kids
<1>3. op = "$eq" => (HoldsNode(e, d, kids) <=> d[f] = vs[1])
  BY <1>1 DEF HoldsNode
<1>4. op = "$ne" => (HoldsNode(e, d, kids) <=> d[f] # vs[1])
  BY <1>1 DEF HoldsNode
<1>5. op = "$in" => (HoldsNode(e, d, kids) <=> \E i \in DOMAIN vs : d[f] = vs[i])
  BY <1>1 DEF HoldsNode
<1>6. op = "$gt" => (HoldsNode(e, d, kids) <=> Below(vs[1], d[f]))
  BY <1>1 DEF HoldsNode
<1>7. op = "$gte" => (HoldsNode(e, d, kids) <=> ~Below(d[f], vs[1]))
  BY <1>1 DEF HoldsNode
<1>8. op = "$lt" => (HoldsNode(e, d, kids) <=> Below(d[f], vs[1]))
  BY <1>1 DEF HoldsNode
<1>9. op = "$lte" => (HoldsNode(e, d, kids) <=> ~Below(vs[1], d[f]))
  BY <1>1 DEF HoldsNode
<1> QED
  BY <1>1, <1>2, <1>3, <1>4, <1>5, <1>6, <1>7, <1>8, <1>9 DEF e

LEMMA HoldsTree ==
  ASSUME NEW exprs, NEW d, NEW holds, IsHolds(holds, exprs, d),
         NEW op, NEW parts, Tree(op, parts) \in exprs
  PROVE  /\ op = "$and" => (holds[Tree(op, parts)] <=> \A i \in DOMAIN parts : holds[parts[i]])
         /\ op = "$or"  => (holds[Tree(op, parts)] <=> \E i \in DOMAIN parts : holds[parts[i]])
         /\ op = "$not" /\ 1 \in DOMAIN parts => (holds[Tree(op, parts)] <=> ~holds[parts[1]])
<1> DEFINE e == Tree(op, parts)
           kids == [i \in DOMAIN e.parts |-> holds[e.parts[i]]]
<1>1. e.op = op /\ e.parts = parts
  BY DEF Tree, Node
<1>2. e.op # "$regex" => (holds[e] <=> HoldsNode(e, d, kids))
  BY DEF IsHolds
<1>k. \A i \in DOMAIN parts : kids[i] = holds[parts[i]]
  BY <1>1
<1> HIDE DEF e, kids
<1>3. op = "$and" => (HoldsNode(e, d, kids) <=> \A i \in DOMAIN parts : kids[i])
  BY <1>1 DEF HoldsNode
<1>4. op = "$or" => (HoldsNode(e, d, kids) <=> \E i \in DOMAIN parts : kids[i])
  BY <1>1 DEF HoldsNode
<1>5. op = "$not" => (HoldsNode(e, d, kids) <=> ~kids[1])
  BY <1>1 DEF HoldsNode
<1> QED
  BY <1>1, <1>2, <1>k, <1>3, <1>4, <1>5 DEF e

\* Two values of one type, compared as an expression does.
LEMMA BelowOneType ==
  ASSUME NEW x, NEW y, x.t = y.t, x.t \in Types
  PROVE  Below(x, y) <=> x.v < y.v
<1>1. TypeOrder[x.t] \in Int
  BY DEF TypeOrder, Types
<1>2. ~(TypeOrder[x.t] < TypeOrder[y.t])
  BY <1>1
<1> QED
  BY <1>2 DEF Below

LEMMA HoldsOne ==
  ASSUME NEW exprs, NEW d, NEW holds, IsHolds(holds, exprs, d),
         NEW op, NEW f, NEW v, Node(op, f, <<v>>, <<>>) \in exprs
  PROVE  /\ op = "$eq" => (holds[Node(op, f, <<v>>, <<>>)] <=> d[f] = v)
         /\ op = "$ne" => (holds[Node(op, f, <<v>>, <<>>)] <=> d[f] # v)
         /\ op = "$gt" => (holds[Node(op, f, <<v>>, <<>>)] <=> Below(v, d[f]))
         /\ op = "$gte" => (holds[Node(op, f, <<v>>, <<>>)] <=> ~Below(d[f], v))
         /\ op = "$lt" => (holds[Node(op, f, <<v>>, <<>>)] <=> Below(d[f], v))
         /\ op = "$lte" => (holds[Node(op, f, <<v>>, <<>>)] <=> ~Below(v, d[f]))
<1> DEFINE vs == <<v>>
           e == Node(op, f, vs, <<>>)
<1>1. vs[1] = v
  OBVIOUS
<1>2. e \in exprs
  OBVIOUS
<1> HIDE DEF vs
<1>3. /\ op = "$eq" => (holds[e] <=> d[f] = vs[1])
      /\ op = "$ne" => (holds[e] <=> d[f] # vs[1])
      /\ op = "$gt" => (holds[e] <=> Below(vs[1], d[f]))
      /\ op = "$gte" => (holds[e] <=> ~Below(d[f], vs[1]))
      /\ op = "$lt" => (holds[e] <=> Below(d[f], vs[1]))
      /\ op = "$lte" => (holds[e] <=> ~Below(vs[1], d[f]))
  BY <1>2, HoldsLeaf
<1> HIDE DEF e
<1>4. /\ op = "$eq" => (holds[e] <=> d[f] = v)
      /\ op = "$ne" => (holds[e] <=> d[f] # v)
      /\ op = "$gt" => (holds[e] <=> Below(v, d[f]))
      /\ op = "$gte" => (holds[e] <=> ~Below(d[f], v))
      /\ op = "$lt" => (holds[e] <=> Below(d[f], v))
      /\ op = "$lte" => (holds[e] <=> ~Below(v, d[f]))
  BY <1>1, <1>3
<1> QED
  BY <1>4 DEF e, vs

\* The server's comparison and the expression's, on a field that has a value.
LEMMA SameValue ==
  ASSUME NEW x, NEW v, ~IsNull(x)
  PROVE  Same(x, v) <=> x = v
<1>1. CASE IsNull(v)
  <2>1. x # v
    BY <1>1
  <2> QED
    BY <1>1, <2>1 DEF Same
<1>2. CASE ~IsNull(v)
  BY <1>2 DEF Same
<1> QED
  BY <1>1, <1>2

LEMMA NullIsNull == IsNull(Null)
  BY DEF Null, Val, IsNull

\* A comparison of a value with an operand of its type.
LEMMA ComparedLeaf ==
  ASSUME NEW exprs, NEW d, NEW holds, IsHolds(holds, exprs, d),
         NEW f, NEW parts, f.op \in {"gt", "gte", "lt", "lte"},
         d[f.f].t = f.vs[1].t, d[f.f].t \in Types, d[f.f].v \in Int, f.vs[1].v \in Int,
         CompileExprNode(f, parts) \in exprs
  PROVE  holds[CompileExprNode(f, parts)] <=> SelectsNode(f, d, parts)
<1> DEFINE e == CompileExprNode(f, parts)
           x == d[f.f]
           v == f.vs[1]
<1>1. e = Node(Dollar[f.op], f.f, <<v>>, <<>>)
  BY DEF CompileExprNode, CompileNode, Comparisons, Leaf
<1>2. SelectsNode(f, d, parts) <=> Ordered(f.op, x, v)
  BY SelectsComparison
<1>3. (Below(x, v) <=> x.v < v.v) /\ (Below(v, x) <=> v.v < x.v)
  BY BelowOneType
<1>4. x.t = v.t /\ x.v \in Int /\ v.v \in Int
  OBVIOUS
<1>5. e \in exprs
  OBVIOUS
<1> HIDE DEF e, x, v
<1>6. CASE f.op = "gt"
  <2>1. holds[e] <=> Below(v, x)
    BY <1>1, <1>5, <1>6, HoldsOne DEF Dollar, x
  <2> QED
    BY <1>2, <1>3, <1>4, <1>6, <2>1 DEF Ordered, e
<1>7. CASE f.op = "gte"
  <2>1. holds[e] <=> ~Below(x, v)
    BY <1>1, <1>5, <1>7, HoldsOne DEF Dollar, x
  <2> QED
    BY <1>2, <1>3, <1>4, <1>7, <2>1 DEF Ordered, e
<1>8. CASE f.op = "lt"
  <2>1. holds[e] <=> Below(x, v)
    BY <1>1, <1>5, <1>8, HoldsOne DEF Dollar, x
  <2> QED
    BY <1>2, <1>3, <1>4, <1>8, <2>1 DEF Ordered, e
<1>9. CASE f.op = "lte"
  <2>1. holds[e] <=> ~Below(v, x)
    BY <1>1, <1>5, <1>9, HoldsOne DEF Dollar, x
  <2> QED
    BY <1>2, <1>3, <1>4, <1>9, <2>1 DEF Ordered, e
<1> QED
  BY <1>6, <1>7, <1>8, <1>9

\* The other leaves, on a field that has a value.
LEMMA ExpressedLeaf ==
  ASSUME NEW exprs, NEW d, NEW holds, IsHolds(holds, exprs, d),
         NEW f, NEW parts, f.op \in {"eq", "ne", "in", "nin", "notNull", "isNull"},
         f.op \in {"eq", "ne"} => DOMAIN f.vs = {1}, ~IsNull(d[f.f]),
         CompileExprNode(f, parts) \in exprs
  PROVE  holds[CompileExprNode(f, parts)] <=> SelectsNode(f, d, parts)
<1> DEFINE e == CompileExprNode(f, parts)
           x == d[f.f]
<1>0. e \in exprs /\ ~IsNull(x) /\ x # Null
  BY NullIsNull
<1>1. \A v : Same(x, v) <=> x = v
  BY SameValue
<1> HIDE DEF e, x
<1>2. CASE f.op = "eq"
  <2>1. e = Node("$eq", f.f, <<f.vs[1]>>, <<>>)
    BY <1>2 DEF e, CompileExprNode, CompileNode, Comparisons, Leaf, Dollar
  <2>2. holds[e] <=> x = f.vs[1]
    BY <1>0, <2>1, HoldsOne DEF x
  <2>3. SelectsNode(f, d, parts) <=> Same(x, f.vs[1])
    BY <1>2, SelectsLeaf, ListedOne DEF x
  <2> QED
    BY <1>1, <2>2, <2>3 DEF e
<1>3. CASE f.op = "ne"
  <2>1. SelectsNode(f, d, parts) <=> x # f.vs[1]
    <3>1. SelectsNode(f, d, parts) <=> (~Listed(x, f.vs) /\ ~IsNull(x))
      BY <1>3, SelectsLeaf DEF x
    <3>2. Listed(x, f.vs) <=> Same(x, f.vs[1])
      BY <1>3, ListedOne
    <3> QED
      BY <1>0, <1>1, <3>1, <3>2
  <2>2. CASE IsNull(f.vs[1])
    <3>1. e = Node("$ne", f.f, <<Null>>, <<>>)
      BY <1>3, <2>2 DEF e, CompileExprNode, CompileNode, CompileNe, Comparisons, Leaf
    <3>2. holds[e] <=> x # Null
      BY <1>0, <3>1, HoldsOne DEF x
    <3>3. x # f.vs[1]
      BY <1>0, <2>2
    <3> QED
      BY <1>0, <2>1, <3>2, <3>3 DEF e
  <2>3. CASE ~IsNull(f.vs[1])
    <3> DEFINE l == Node("$ne", f.f, <<f.vs[1]>>, <<>>)
               r == Node("$ne", f.f, <<Null>>, <<>>)
               pair == <<l, r>>
    <3>1. e = Tree("$and", pair)
      BY <1>3, <2>3 DEF e, CompileExprNode, CompileNode, CompileNe, Comparisons, Leaf
    <3>2. DOMAIN pair = {1, 2} /\ pair[1] = l /\ pair[2] = r
      OBVIOUS
    <3> HIDE DEF l, r, pair
    <3>3. e.parts = pair
      BY <3>1 DEF Tree, Node
    <3>4. e.parts \in Seq(exprs)
      BY <1>0 DEF IsHolds
    <3>5. l \in exprs /\ r \in exprs
      <4>1. pair \in Seq(exprs)
        BY <3>3, <3>4
      <4>2. \A i \in DOMAIN pair : pair[i] \in exprs
        BY <4>1
      <4> QED
        BY <3>2, <4>2
    <3>6. holds[l] <=> x # f.vs[1]
      BY <3>5, HoldsOne DEF l, x
    <3>7. holds[r] <=> x # Null
      BY <3>5, HoldsOne DEF r, x
    <3>8. holds[e] <=> \A i \in DOMAIN pair : holds[pair[i]]
      BY <1>0, <3>1, HoldsTree
    <3> QED
      BY <1>0, <2>1, <3>2, <3>6, <3>7, <3>8 DEF e
  <2> QED
    BY <2>2, <2>3
<1>4. CASE f.op \in {"in", "nin"}
  <2> DEFINE among == \E i \in DOMAIN f.vs : x = f.vs[i]
             q == Node("$in", f.f, f.vs, <<>>)
  <2>1. Listed(x, f.vs) <=> among
    BY <1>1, ListedSame
  <2>2. (f.vs = <<>>) => ~among
    <3>1. DOMAIN <<>> = {}
      OBVIOUS
    <3> QED
      BY <3>1
  <2>3. q \in exprs => (holds[q] <=> among)
    BY HoldsLeaf DEF x
  <2>4. /\ f.op = "in" => (SelectsNode(f, d, parts) <=> among)
        /\ f.op = "nin" => (SelectsNode(f, d, parts) <=> ~among)
    BY <2>1, SelectsLeaf DEF x
  <2> HIDE DEF among, q
  <2>5. CASE f.op = "in" /\ f.vs = <<>>
    <3>1. e = NoRows
      BY <2>5 DEF e, CompileExprNode, CompileNode, Comparisons
    <3> QED
      BY <1>0, <2>2, <2>4, <2>5, <3>1, HoldsRows DEF e
  <2>6. CASE f.op = "in" /\ f.vs # <<>>
    <3>1. e = q
      BY <2>6 DEF e, q, CompileExprNode, CompileNode, Comparisons
    <3> QED
      BY <1>0, <2>3, <2>4, <2>6, <3>1 DEF e
  <2>7. CASE f.op = "nin" /\ f.vs = <<>>
    <3>1. e = AllRows
      BY <2>7 DEF e, CompileExprNode, CompileNode, Comparisons
    <3> QED
      BY <1>0, <2>2, <2>4, <2>7, <3>1, HoldsRows DEF e
  <2>8. CASE f.op = "nin" /\ f.vs # <<>>
    <3> DEFINE one == <<q>>
    <3>1. e = Tree("$not", one)
      BY <2>8 DEF e, q, CompileExprNode, CompileNode, Comparisons
    <3>2. DOMAIN one = {1} /\ one[1] = q
      OBVIOUS
    <3> HIDE DEF one
    <3>3. e.parts = one
      BY <3>1 DEF Tree, Node
    <3>4. \A i \in DOMAIN e.parts : e.parts[i] \in exprs
      <4>1. e.parts \in Seq(exprs)
        BY <1>0 DEF IsHolds
      <4> QED
        BY <4>1
    <3>5. q \in exprs
      BY <3>2, <3>3, <3>4
    <3>6. holds[e] <=> ~holds[one[1]]
      BY <1>0, <3>1, <3>2, HoldsTree
    <3> QED
      BY <2>3, <2>4, <2>8, <3>2, <3>5, <3>6 DEF e
  <2> QED
    BY <1>4, <2>5, <2>6, <2>7, <2>8
<1>5. CASE f.op = "isNull"
  <2>1. e = Node("$eq", f.f, <<Null>>, <<>>)
    BY <1>5 DEF e, CompileExprNode, CompileNode, Comparisons, Leaf
  <2>2. holds[e] <=> x = Null
    BY <1>0, <2>1, HoldsOne DEF x
  <2>3. SelectsNode(f, d, parts) <=> IsNull(x)
    BY <1>5, SelectsLeaf DEF x
  <2> QED
    BY <1>0, <2>2, <2>3 DEF e
<1>6. CASE f.op = "notNull"
  <2>1. e = Node("$ne", f.f, <<Null>>, <<>>)
    BY <1>6 DEF e, CompileExprNode, CompileNode, Comparisons, Leaf
  <2>2. holds[e] <=> x # Null
    BY <1>0, <2>1, HoldsOne DEF x
  <2>3. SelectsNode(f, d, parts) <=> ~IsNull(x)
    BY <1>6, SelectsLeaf DEF x
  <2> QED
    BY <1>0, <2>2, <2>3 DEF e
<1> QED
  BY <1>2, <1>3, <1>4, <1>5, <1>6

\* Several, as an expression.
LEMMA HoldsSeveral ==
  ASSUME NEW exprs, NEW d, NEW holds, IsHolds(holds, exprs, d),
         NEW parts \in Seq(exprs), NEW op \in {"$and", "$or"}, NEW none, parts # <<>>,
         Several(op, parts, none) \in exprs
  PROVE  /\ op = "$and" =>
              (holds[Several(op, parts, none)] <=> \A i \in DOMAIN parts : holds[parts[i]])
         /\ op = "$or" =>
              (holds[Several(op, parts, none)] <=> \E i \in DOMAIN parts : holds[parts[i]])
<1>1. CASE Len(parts) = 1
  <2>1. DOMAIN parts = {1}
    BY <1>1
  <2>2. Several(op, parts, none) = parts[1]
    BY <1>1 DEF Several
  <2> QED
    BY <2>1, <2>2
<1>2. CASE Len(parts) # 1
  <2>1. Several(op, parts, none) = Tree(op, parts)
    BY <1>2 DEF Several
  <2> QED
    BY <2>1, HoldsTree
<1> QED
  BY <1>1, <1>2

LEMMA ExpressedStep ==
  ASSUME NEW trees, NEW size, Grounded(trees, size), WellFormed(trees), NEW exprs, NEW d,
         WellTyped(trees, d), NEW selects, IsSelects(selects, trees, d),
         NEW compile \in [trees -> exprs], IsCompileExpr(compile, trees),
         NEW holds, IsHolds(holds, exprs, d),
         NEW f \in trees, f.op # "like",
         \A i \in DOMAIN f.parts : holds[compile[f.parts[i]]] <=> selects[f.parts[i]]
  PROVE  holds[compile[f]] <=> selects[f]
<1> DEFINE parts == [i \in DOMAIN f.parts |-> compile[f.parts[i]]]
           kids == [i \in DOMAIN f.parts |-> selects[f.parts[i]]]
<1>1. compile[f] = CompileExprNode(f, parts) /\ compile[f] \in exprs
  BY DEF IsCompileExpr
<1>2. selects[f] <=> SelectsNode(f, d, kids)
  BY DEF IsSelects
<1>3. f.op \in TreeOps /\ f.parts \in Seq(trees) /\ (f.op = "not" => Len(f.parts) = 1)
      /\ (f.op \in {"eq", "ne"} \cup Comparisons => DOMAIN f.vs = {1})
  BY DEF Grounded, WellFormed
<1>4. parts \in Seq(exprs) /\ DOMAIN parts = DOMAIN f.parts
  <2>1. DOMAIN f.parts = 1 .. Len(f.parts) /\ Len(f.parts) \in Nat /\ \A i \in DOMAIN f.parts : f.parts[i] \in trees
    BY <1>3
  <2>2. \A i \in DOMAIN f.parts : compile[f.parts[i]] \in exprs
    BY <2>1
  <2> QED
    BY <2>1, <2>2
<1>5. \A i \in DOMAIN f.parts : kids[i] = selects[f.parts[i]] /\ parts[i] = compile[f.parts[i]]
  OBVIOUS
<1>6. (parts = <<>>) <=> (DOMAIN f.parts = {})
  BY <1>3, <1>4
<1>7. f.op \in {"eq", "ne", "in", "nin", "notNull", "isNull", "gt", "gte", "lt", "lte", "true", "false",
                "and", "or", "not"}
  BY <1>3 DEF TreeOps, Comparisons
<1> HIDE DEF parts, kids
<1>8. CASE f.op \in {"gt", "gte", "lt", "lte"}
  <2>1. d[f.f].t = f.vs[1].t /\ d[f.f].t \in Types /\ d[f.f].v \in Int /\ f.vs[1].v \in Int
    BY <1>8 DEF WellTyped, TreeOps, Comparisons
  <2>2. holds[compile[f]] <=> SelectsNode(f, d, parts)
    BY <1>1, <1>8, <2>1, ComparedLeaf
  <2> QED
    BY <1>2, <1>8, <2>2, SelectsComparison
<1>9. CASE f.op \in {"eq", "ne", "in", "nin", "notNull", "isNull"}
  <2>1. ~IsNull(d[f.f])
    BY <1>9 DEF WellTyped, TreeOps, Comparisons
  <2>2. holds[compile[f]] <=> SelectsNode(f, d, parts)
    BY <1>1, <1>3, <1>9, <2>1, ExpressedLeaf
  <2> QED
    BY <1>2, <1>9, <2>2, SelectsLeaf
<1>10. CASE f.op = "true"
  <2>1. compile[f] = AllRows
    BY <1>1, <1>10 DEF CompileExprNode, CompileNode, Comparisons
  <2> QED
    BY <1>1, <1>2, <1>10, <2>1, SelectsLeaf, HoldsRows
<1>11. CASE f.op = "false"
  <2>1. compile[f] = NoRows
    BY <1>1, <1>11 DEF CompileExprNode, CompileNode, Comparisons
  <2> QED
    BY <1>1, <1>2, <1>11, <2>1, SelectsLeaf, HoldsRows
<1>12. CASE f.op = "and"
  <2>1. compile[f] = Several("$and", parts, AllRows)
    BY <1>1, <1>12 DEF CompileExprNode, CompileNode, Comparisons
  <2>2. selects[f] <=> \A i \in DOMAIN f.parts : selects[f.parts[i]]
    BY <1>2, <1>5, <1>12, SelectsTree
  <2>3. CASE parts = <<>>
    <3>1. compile[f] = AllRows
      BY <2>1, <2>3 DEF Several
    <3> QED
      BY <1>1, <1>6, <2>2, <2>3, <3>1, HoldsRows
  <2>4. CASE parts # <<>>
    <3>1. holds[compile[f]] <=> \A i \in DOMAIN parts : holds[parts[i]]
      BY <1>1, <1>4, <2>1, <2>4, HoldsSeveral
    <3> QED
      BY <3>1, <1>4, <1>5, <2>2
  <2> QED
    BY <2>3, <2>4
<1>13. CASE f.op = "or"
  <2>1. compile[f] = Several("$or", parts, NoRows)
    BY <1>1, <1>13 DEF CompileExprNode, CompileNode, Comparisons
  <2>2. selects[f] <=> \E i \in DOMAIN f.parts : selects[f.parts[i]]
    BY <1>2, <1>5, <1>13, SelectsTree
  <2>3. CASE parts = <<>>
    <3>1. compile[f] = NoRows
      BY <2>1, <2>3 DEF Several
    <3> QED
      BY <1>1, <1>6, <2>2, <2>3, <3>1, HoldsRows
  <2>4. CASE parts # <<>>
    <3>1. holds[compile[f]] <=> \E i \in DOMAIN parts : holds[parts[i]]
      BY <1>1, <1>4, <2>1, <2>4, HoldsSeveral
    <3> QED
      BY <3>1, <1>4, <1>5, <2>2
  <2> QED
    BY <2>3, <2>4
<1>14. CASE f.op = "not"
  <2>1. compile[f] = Tree("$not", parts)
    BY <1>1, <1>14 DEF CompileExprNode
  <2>2. DOMAIN f.parts = {1}
    BY <1>3, <1>14
  <2>3. selects[f] <=> ~selects[f.parts[1]]
    BY <1>2, <1>5, <1>14, <2>2, SelectsTree
  <2>4. holds[compile[f]] <=> ~holds[parts[1]]
    BY <1>1, <1>4, <2>1, <2>2, HoldsTree
  <2> QED
    BY <1>5, <2>2, <2>3, <2>4
<1> QED
  BY <1>7, <1>8, <1>9, <1>10, <1>11, <1>12, <1>13, <1>14

\* compileFilterToMongoExpr, too: where the fields have values, of the types they are
\* compared with, the expression made of a tree holds of the documents the filter selects.
\* So the filter of a measure or of a lookup means what it means as a query.
THEOREM ExpressionFormMeansFilter ==
  ASSUME NEW trees, NEW size \in [trees -> Nat], Grounded(trees, size), WellFormed(trees),
         NEW exprs, NEW d, WellTyped(trees, d), NEW selects, IsSelects(selects, trees, d),
         NEW compile \in [trees -> exprs], IsCompileExpr(compile, trees),
         NEW holds, IsHolds(holds, exprs, d),
         \A f \in trees : f.op = "like" => (holds[compile[f]] <=> selects[f])
  PROVE  \A f \in trees : holds[compile[f]] <=> selects[f]
<1> DEFINE good == {f \in trees : holds[compile[f]] <=> selects[f]}
<1>1. ASSUME NEW f \in trees, \A i \in DOMAIN f.parts : f.parts[i] \in good
      PROVE  f \in good
  <2>1. CASE f.op = "like"
    BY <2>1
  <2>2. CASE f.op # "like"
    BY <1>1, <2>2, ExpressedStep
  <2> QED
    BY <2>1, <2>2
<1> HIDE DEF good
<1>2. \A f \in trees : f \in good
  BY <1>1, TreeInduction
<1> QED
  BY <1>2 DEF good

-----------------------------------------------------------------------------
(* Records on their way to a $match                                         *)

\* Cast, Expand, Coerce and Reads as functions.
IsCast(cast, records) ==
  \A q \in records : cast[q] = CastNode(q, [i \in DOMAIN q.parts |-> cast[q.parts[i]]])
IsExpand(expand, records) ==
  \A q \in records : expand[q] = ExpandNode(q, [i \in DOMAIN q.parts |-> expand[q.parts[i]]])
IsCoerce(coerce, records) ==
  \A q \in records : coerce[q] = CoerceNode(q, TRUE, [i \in DOMAIN q.parts |-> coerce[q.parts[i]]])
IsReads(reads, records, d) ==
  \A q \in records : reads[q] <=> ReadsNode(q, d, [i \in DOMAIN q.parts |-> reads[q.parts[i]]])

\* MatchStage: the three, one after the other.
IsMatchStage(records, casted, expanded, queries, cast, expand, coerce) ==
  /\ cast \in [records -> casted] /\ IsCast(cast, records)
  /\ expand \in [casted -> expanded] /\ IsExpand(expand, casted)
  /\ coerce \in [expanded -> queries] /\ IsCoerce(coerce, expanded)

\* What a URL may ask: a range is of a declared field, a shorthand a range of a date column.
Ranges == {"$gt", "$gte", "$lt", "$lte"}
Parameters(records) ==
  \A q \in records :
    /\ q.op \in Compound \cup CastOperators \cup Comparisons
    /\ q.op \notin Compound => TypeOf[q.f] \in {"number", "string", "date", "none"}
    /\ q.op \in Ranges => TypeOf[q.f] # "none"
    /\ q.op \in Comparisons => TypeOf[q.f] = "date"

LEMMA CastNull ==
  ASSUME NEW f, NEW v, TypeOf[f] \in {"number", "string", "date", "none"}
  PROVE  CastValue(f, v) = CastTo(TypeOf[f], v)
<1>1. CASE IsNull(v)
  BY <1>1 DEF CastValue, CastTo, IsNull
<1>2. CASE ~IsNull(v) /\ TypeOf[f] = "none"
  BY <1>2 DEF CastValue, CastTo
<1>3. CASE ~IsNull(v) /\ TypeOf[f] # "none"
  BY <1>3 DEF CastValue
<1> QED
  BY <1>1, <1>2, <1>3

\* A date stays one.
LEMMA CastTwice ==
  ASSUME NEW v
  PROVE  CastTo("date", CastTo("date", v)) = CastTo("date", v)
<1>1. CASE v.t = "string" /\ v.v >= 3
  <2>1. CastTo("date", v) = Val("date", v.v)
    BY <1>1 DEF CastTo
  <2>2. CastTo("date", Val("date", v.v)) = Val("date", v.v)
    BY DEF CastTo, Val
  <2> QED
    BY <2>1, <2>2
<1>2. CASE ~(v.t = "string" /\ v.v >= 3)
  BY <1>2 DEF CastTo
<1> QED
  BY <1>1, <1>2

LEMMA CompoundLeaf ==
  ASSUME NEW op
  PROVE  /\ op \in CastOperators \cup Comparisons => op \notin Compound
         /\ op \in CastOperators => op \notin Shorthands
         /\ op \in Comparisons => op \in Shorthands /\ op \notin CastOperators /\ Dollar[op] \in Ranges
         /\ op \in Ranges => op \in CastOperators
  BY DEF CastOperators, Comparisons, Compound, Logical, Shorthands, Dollar, Ranges

\* A parameter, through the three passes, is read as its field's type says.
LEMMA EntryIsRead ==
  ASSUME NEW q, NEW p1, NEW p2, NEW p3, q.op \in CastOperators \cup Comparisons,
         TypeOf[q.f] \in {"number", "string", "date", "none"},
         q.op \in Ranges => TypeOf[q.f] # "none",
         q.op \in Comparisons => TypeOf[q.f] = "date"
  PROVE  CoerceNode(ExpandNode(CastNode(q, p1), p2), TRUE, p3) = Read(q)
<1> DEFINE read == [i \in DOMAIN q.vs |-> CastTo(TypeOf[q.f], q.vs[i])]
<1>1. CASE q.op \in CastOperators
  <2> DEFINE c == Node(q.op, q.f, read, q.parts)
  <2>0. c.op = q.op /\ c.f = q.f /\ c.vs = read /\ c.parts = q.parts
    BY DEF Node
  <2>1. CastNode(q, p1) = c
    <3>1. CastNode(q, p1) = Node(q.op, q.f, [i \in DOMAIN q.vs |-> CastValue(q.f, q.vs[i])], q.parts)
      BY <1>1, CompoundLeaf DEF CastNode
    <3>2. [i \in DOMAIN q.vs |-> CastValue(q.f, q.vs[i])] = read
      BY CastNull
    <3> QED
      BY <3>1, <3>2
  <2>2. Read(q) = c
    BY <1>1, CompoundLeaf DEF Read
  <2> HIDE DEF c
  <2>3. ExpandNode(c, p2) = c
    BY <1>1, <2>0, CompoundLeaf DEF ExpandNode
  <2>4. CoerceNode(c, TRUE, p3) = c
    <3>1. CASE q.op \in Ranges /\ TypeOf[q.f] = "date"
      <4>1. CoerceNode(c, TRUE, p3) = Node(q.op, q.f, [i \in DOMAIN read |-> CastTo("date", read[i])], q.parts)
        BY <1>1, <2>0, <3>1, CompoundLeaf DEF CoerceNode, DateField, Ranges
      <4>2. [i \in DOMAIN read |-> CastTo("date", read[i])] = read
        BY <3>1, CastTwice
      <4> QED
        BY <4>1, <4>2 DEF c
    <3>2. CASE ~(q.op \in Ranges /\ TypeOf[q.f] = "date")
      <4>1. ~(c.op \in Ranges /\ DateField(c.f, TRUE))
        BY <2>0, <3>2 DEF DateField
      <4> QED
        BY <1>1, <2>0, <4>1, CompoundLeaf DEF CoerceNode, Ranges
    <3> QED
      BY <3>1, <3>2
  <2> QED
    BY <1>1, <2>1, <2>2, <2>3, <2>4
<1>2. CASE q.op \in Comparisons
  <2> DEFINE e == Node(Dollar[q.op], q.f, q.vs, q.parts)
  <2>0. e.op = Dollar[q.op] /\ e.f = q.f /\ e.vs = q.vs /\ e.parts = q.parts
    BY DEF Node
  <2>1. CastNode(q, p1) = q
    BY <1>2, CompoundLeaf DEF CastNode
  <2>2. ExpandNode(q, p2) = e
    BY <1>2, CompoundLeaf DEF ExpandNode
  <2> HIDE DEF e
  <2>3. CoerceNode(e, TRUE, p3) = Node(Dollar[q.op], q.f, [i \in DOMAIN q.vs |-> CastTo("date", q.vs[i])], q.parts)
    <3>1. Dollar[q.op] \in Ranges /\ Dollar[q.op] \notin Compound /\ DateField(q.f, TRUE)
      BY <1>2, CompoundLeaf DEF DateField
    <3> QED
      BY <2>0, <3>1 DEF CoerceNode, Ranges
  <2>4. Read(q) = Node(Dollar[q.op], q.f, [i \in DOMAIN q.vs |-> CastTo("date", q.vs[i])], q.parts)
    BY <1>2, CompoundLeaf DEF Read
  <2> QED
    BY <1>2, <2>1, <2>2, <2>3, <2>4
<1> QED
  BY <1>1, <1>2

\* A leaf has no use for what became of children.
LEMMA LeafAlone ==
  ASSUME NEW q, NEW d, NEW p1, NEW p2, q.op \in CastOperators
  PROVE  MatchesNode(q, d, p1) <=> MatchesNode(q, d, p2)
<1>1. ASSUME q.op \in {"$eq", "$in"} PROVE MatchesNode(q, d, p1) <=> MatchesNode(q, d, p2)
  BY <1>1 DEF MatchesNode
<1>2. ASSUME q.op \in {"$ne", "$nin"} PROVE MatchesNode(q, d, p1) <=> MatchesNode(q, d, p2)
  BY <1>2 DEF MatchesNode
<1>3. ASSUME q.op \in {"$gt", "$gte", "$lt", "$lte"}
      PROVE  MatchesNode(q, d, p1) <=> MatchesNode(q, d, p2)
  BY <1>3 DEF MatchesNode
<1> QED
  BY <1>1, <1>2, <1>3 DEF CastOperators

\* What the server makes of a node with children.
LEMMA MatchesCompound ==
  ASSUME NEW q, NEW d, NEW parts
  PROVE  /\ q.op \in {"$and", "record"} =>
              (MatchesNode(q, d, parts) <=> \A i \in DOMAIN q.parts : parts[i])
         /\ q.op = "$or" => (MatchesNode(q, d, parts) <=> \E i \in DOMAIN q.parts : parts[i])
         /\ q.op = "$nor" => (MatchesNode(q, d, parts) <=> \A i \in DOMAIN q.parts : ~parts[i])
<1>1. ASSUME q.op \in {"$and", "record"}
      PROVE  MatchesNode(q, d, parts) <=> \A i \in DOMAIN q.parts : parts[i]
  BY <1>1 DEF MatchesNode
<1>2. ASSUME q.op = "$or" PROVE MatchesNode(q, d, parts) <=> \E i \in DOMAIN q.parts : parts[i]
  BY <1>2 DEF MatchesNode
<1>3. ASSUME q.op = "$nor" PROVE MatchesNode(q, d, parts) <=> \A i \in DOMAIN q.parts : ~parts[i]
  BY <1>3 DEF MatchesNode
<1> QED
  BY <1>1, <1>2, <1>3

\* Two nodes of one operator whose children agree.
LEMMA MatchesAlike ==
  ASSUME NEW q, NEW r, NEW d, NEW p1, NEW p2, q.op \in Compound, r.op = q.op,
         DOMAIN r.parts = DOMAIN q.parts, \A i \in DOMAIN q.parts : p1[i] <=> p2[i]
  PROVE  MatchesNode(q, d, p1) <=> MatchesNode(r, d, p2)
<1>1. CASE q.op \in {"$and", "record"}
  BY <1>1, MatchesCompound
<1>2. CASE q.op = "$or"
  BY <1>2, MatchesCompound
<1>3. CASE q.op = "$nor"
  BY <1>3, MatchesCompound
<1> QED
  BY <1>1, <1>2, <1>3 DEF Compound, Logical

LEMMA CompoundNodes ==
  ASSUME NEW q, NEW parts, q.op \in Compound
  PROVE  /\ CastNode(q, parts) = Node(q.op, q.f, q.vs, parts)
         /\ ExpandNode(q, parts) = Node(q.op, q.f, q.vs, parts)
         /\ CoerceNode(q, TRUE, parts) = Node(q.op, q.f, q.vs, parts)
<1>1. CastNode(q, parts) = Node(q.op, q.f, q.vs, parts)
  BY DEF CastNode, Compound, Logical, CastOperators
<1>2. ExpandNode(q, parts) = Node(q.op, q.f, q.vs, parts)
  BY DEF ExpandNode, Compound, Logical, Shorthands
<1>3. CoerceNode(q, TRUE, parts) = Node(q.op, q.f, q.vs, parts)
  BY DEF CoerceNode, Compound, Logical
<1> QED
  BY <1>1, <1>2, <1>3

\* The $match an aggregation makes of a record of bracket parameters, cast, expanded and
\* its dates coerced, matches a document exactly when the parameters hold of it, read as
\* values of the types the schema declares, at whatever depth of $and, $or and $nor they
\* stand.
THEOREM MatchStageMeansRecord ==
  ASSUME NEW records, NEW size \in [records -> Nat], Grounded(records, size),
         Parameters(records), NEW d,
         NEW casted, NEW expanded, NEW queries, NEW cast, NEW expand, NEW coerce,
         IsMatchStage(records, casted, expanded, queries, cast, expand, coerce),
         NEW matches, IsMatches(matches, queries, d), NEW reads, IsReads(reads, records, d)
  PROVE  \A q \in records : matches[coerce[expand[cast[q]]]] <=> reads[q]
<1> DEFINE good == {q \in records : matches[coerce[expand[cast[q]]]] <=> reads[q]}
<1>1. ASSUME NEW q \in records,
             \A i \in DOMAIN q.parts : matches[coerce[expand[cast[q.parts[i]]]]] <=> reads[q.parts[i]]
      PROVE  matches[coerce[expand[cast[q]]]] <=> reads[q]
  <2> DEFINE c == cast[q]
             e == expand[c]
             r == coerce[e]
             p1 == [i \in DOMAIN q.parts |-> cast[q.parts[i]]]
             p2 == [i \in DOMAIN c.parts |-> expand[c.parts[i]]]
             p3 == [i \in DOMAIN e.parts |-> coerce[e.parts[i]]]
             kids == [i \in DOMAIN r.parts |-> matches[r.parts[i]]]
             old == [i \in DOMAIN q.parts |-> reads[q.parts[i]]]
  <2>1. c \in casted /\ c = CastNode(q, p1)
    BY DEF IsCast, IsMatchStage
  <2>2. e \in expanded /\ e = ExpandNode(c, p2)
    BY <2>1 DEF IsExpand, IsMatchStage
  <2>3. r \in queries /\ r = CoerceNode(e, TRUE, p3)
    BY <2>2 DEF IsCoerce, IsMatchStage
  <2>4. r.op # "$regex" => (matches[r] <=> MatchesNode(r, d, kids))
    BY <2>3 DEF IsMatches
  <2>5. reads[q] <=> ReadsNode(q, d, old)
    BY DEF IsReads
  <2>6. /\ q.op \in Compound \cup CastOperators \cup Comparisons
        /\ q.op \notin Compound => TypeOf[q.f] \in {"number", "string", "date", "none"}
        /\ q.op \in Ranges => TypeOf[q.f] # "none"
        /\ q.op \in Comparisons => TypeOf[q.f] = "date"
    BY DEF Parameters
  <2>7. CASE q.op \in Compound
    <3>1. c = Node(q.op, q.f, q.vs, p1)
      BY <2>1, <2>7, CompoundNodes
    <3>2. c.op = q.op /\ c.f = q.f /\ c.vs = q.vs /\ c.parts = p1
      <4> HIDE DEF c, p1
      <4> QED
        BY <3>1 DEF Node
    <3>3. e = Node(q.op, q.f, q.vs, p2)
      <4> HIDE DEF c, p1, p2, e
      <4> QED
        BY <2>2, <2>7, <3>2, CompoundNodes
    <3>4. e.op = q.op /\ e.f = q.f /\ e.vs = q.vs /\ e.parts = p2
      <4> HIDE DEF e, p2
      <4> QED
        BY <3>3 DEF Node
    <3>5. r = Node(q.op, q.f, q.vs, p3)
      <4> HIDE DEF c, e, p2, p3, r
      <4> QED
        BY <2>3, <2>7, <3>4, CompoundNodes
    <3>6. r.op = q.op /\ r.parts = p3
      <4> HIDE DEF r, p3
      <4> QED
        BY <3>5 DEF Node
    <3>7. DOMAIN p3 = DOMAIN q.parts
          /\ \A i \in DOMAIN q.parts : p3[i] = coerce[expand[cast[q.parts[i]]]]
      <4>1. DOMAIN p1 = DOMAIN q.parts /\ \A i \in DOMAIN q.parts : p1[i] = cast[q.parts[i]]
        OBVIOUS
      <4>2. DOMAIN p2 = DOMAIN c.parts /\ \A i \in DOMAIN c.parts : p2[i] = expand[c.parts[i]]
        OBVIOUS
      <4>3. DOMAIN p3 = DOMAIN e.parts /\ \A i \in DOMAIN e.parts : p3[i] = coerce[e.parts[i]]
        OBVIOUS
      <4> HIDE DEF c, e, p1, p2, p3
      <4>4. ASSUME NEW i \in DOMAIN q.parts PROVE p3[i] = coerce[expand[cast[q.parts[i]]]]
        <5>1. p1[i] = cast[q.parts[i]] /\ i \in DOMAIN c.parts /\ c.parts[i] = p1[i]
          BY <3>2, <4>1
        <5>2. p2[i] = expand[c.parts[i]] /\ i \in DOMAIN e.parts /\ e.parts[i] = p2[i]
          BY <3>4, <4>2, <5>1
        <5> QED
          BY <4>3, <5>1, <5>2
      <4> QED
        BY <3>2, <3>4, <4>1, <4>2, <4>3, <4>4
    <3>8. \A i \in DOMAIN q.parts : kids[i] <=> old[i]
      <4>1. \A i \in DOMAIN r.parts : kids[i] = matches[r.parts[i]]
        OBVIOUS
      <4>2. \A i \in DOMAIN q.parts : old[i] = reads[q.parts[i]]
        OBVIOUS
      <4> HIDE DEF r, kids, old, p3
      <4>3. \A i \in DOMAIN q.parts : r.parts[i] = coerce[expand[cast[q.parts[i]]]]
        BY <3>6, <3>7
      <4> QED
        BY <1>1, <3>6, <3>7, <4>1, <4>2, <4>3
    <3>9. reads[q] <=> MatchesNode(q, d, old)
      BY <2>5, <2>7 DEF ReadsNode
    <3>10. r.op # "$regex" /\ DOMAIN r.parts = DOMAIN q.parts
      BY <2>7, <3>6, <3>7 DEF Compound, Logical
    <3> HIDE DEF r, kids, old, p3
    <3>11. MatchesNode(q, d, old) <=> MatchesNode(r, d, kids)
      BY <2>7, <3>6, <3>8, <3>10, MatchesAlike
    <3> QED
      BY <2>4, <3>9, <3>10, <3>11 DEF r
  <2>8. CASE q.op \in CastOperators \cup Comparisons
    <3>1. r = Read(q)
      <4> HIDE DEF p1, p2, p3
      <4>1. CoerceNode(ExpandNode(CastNode(q, p1), p2), TRUE, p3) = Read(q)
        BY <2>6, <2>8, CompoundLeaf, EntryIsRead
      <4> HIDE DEF c, e, r
      <4> QED
        BY <2>1, <2>2, <2>3, <4>1
    <3>2. Read(q).op \in CastOperators
      <4>1. Read(q).op = IF q.op \in Shorthands THEN Dollar[q.op] ELSE q.op
        BY DEF Read, Node
      <4> QED
        BY <2>8, <4>1, CompoundLeaf
    <3>3. reads[q] <=> MatchesNode(Read(q), d, old)
      BY <2>5, <2>8, CompoundLeaf DEF ReadsNode
    <3>4. Read(q).op # "$regex"
      BY <3>2 DEF CastOperators
    <3> HIDE DEF r, kids, old
    <3>5. matches[r] <=> MatchesNode(Read(q), d, kids)
      BY <2>4, <3>1, <3>4
    <3> QED
      BY <3>2, <3>3, <3>5, LeafAlone DEF r
  <2> QED
    BY <2>6, <2>7, <2>8
<1>2. ASSUME NEW q \in records, \A i \in DOMAIN q.parts : q.parts[i] \in good
      PROVE  q \in good
  <2>1. \A i \in DOMAIN q.parts : matches[coerce[expand[cast[q.parts[i]]]]] <=> reads[q.parts[i]]
    BY <1>2
  <2> QED
    BY <1>1, <2>1
<1> HIDE DEF good
<1>3. \A q \in records : q \in good
  BY <1>2, TreeInduction
<1> QED
  BY <1>3 DEF good

-----------------------------------------------------------------------------
(* Filtering a sequence                                                     *)

\* One step of Chosen, from the function c of the shorter lengths.
ChosenStep(c, s, keep, i) ==
  IF i = 0 THEN <<>> ELSE IF keep[i] THEN Append(c[i - 1], s[i]) ELSE c[i - 1]

AreChosen(c, s, keep, n) == c = [i \in 0 .. n |-> ChosenStep(c, s, keep, i)]

LEMMA ChosenExist ==
  ASSUME NEW s, NEW keep, NEW n \in Nat
  PROVE  \E c : AreChosen(c, s, keep, n)
<1> DEFINE T == {k \in Nat : ~ \E c : AreChosen(c, s, keep, k)}
<1> SUFFICES ASSUME T # {} PROVE FALSE
  OBVIOUS
<1>1. PICK m \in T : \A k \in T : m <= k
  BY LeastNatural
<1>2. CASE m = 0
  <2>1. AreChosen([i \in 0 .. 0 |-> <<>>], s, keep, 0)
    BY DEF AreChosen, ChosenStep
  <2> QED
    BY <1>2, <2>1
<1>3. CASE m # 0
  <2>1. m - 1 \in Nat /\ m - 1 \notin T
    BY <1>1, <1>3
  <2>2. PICK c : AreChosen(c, s, keep, m - 1)
    BY <2>1
  <2> DEFINE g == [i \in 0 .. m |-> IF i = m THEN ChosenStep(c, s, keep, m) ELSE c[i]]
  <2>3. \A i \in 0 .. m - 1 : c[i] = ChosenStep(c, s, keep, i)
    BY <2>2 DEF AreChosen
  <2>4. ASSUME NEW i \in 0 .. m PROVE g[i] = ChosenStep(g, s, keep, i)
    <3>1. CASE i = 0
      BY <3>1, <2>3, <1>3 DEF ChosenStep
    <3>2. CASE i # 0
      <4>1. i - 1 \in 0 .. m /\ i - 1 # m /\ g[i - 1] = c[i - 1]
        BY <3>2, <1>1
      <4>2. ChosenStep(g, s, keep, i) = ChosenStep(c, s, keep, i)
        BY <3>2, <4>1 DEF ChosenStep
      <4>3. g[i] = ChosenStep(c, s, keep, i)
        BY <2>3, <1>1
      <4> QED
        BY <4>2, <4>3
    <3> QED
      BY <3>1, <3>2
  <2>5. AreChosen(g, s, keep, m)
    BY <2>4 DEF AreChosen
  <2> QED
    BY <2>5
<1> QED
  BY <1>2, <1>3

LEMMA ChosenIs ==
  ASSUME NEW s, NEW keep, Len(s) \in Nat
  PROVE  \E c : AreChosen(c, s, keep, Len(s)) /\ Chosen(s, keep) = c[Len(s)]
<1> DEFINE c == CHOOSE c : AreChosen(c, s, keep, Len(s))
<1>1. AreChosen(c, s, keep, Len(s))
  BY ChosenExist
<1>2. Chosen(s, keep) = c[Len(s)]
  BY DEF Chosen, AreChosen, ChosenStep
<1> QED
  BY <1>1, <1>2

\* The chosen entries are those at the places to keep, for sequences of any length.
LEMMA ChosenAre ==
  ASSUME NEW S, NEW s \in Seq(S), NEW keep
  PROVE  /\ Chosen(s, keep) \in Seq(S)
         /\ \A j \in DOMAIN Chosen(s, keep) :
              \E k \in DOMAIN s : keep[k] /\ Chosen(s, keep)[j] = s[k]
         /\ \A k \in DOMAIN s : keep[k] =>
              \E j \in DOMAIN Chosen(s, keep) : Chosen(s, keep)[j] = s[k]
<1> DEFINE n == Len(s)
<1>1. n \in Nat /\ DOMAIN s = 1 .. n /\ \A k \in 1 .. n : s[k] \in S
  OBVIOUS
<1>2. PICK c : AreChosen(c, s, keep, n) /\ Chosen(s, keep) = c[n]
  BY <1>1, ChosenIs
<1>3. \A i \in 0 .. n : c[i] = ChosenStep(c, s, keep, i)
  BY <1>2 DEF AreChosen
<1> HIDE DEF n
<1> DEFINE Right(i) == /\ c[i] \in Seq(S)
                       /\ \A j \in DOMAIN c[i] : \E k \in 1 .. i : keep[k] /\ c[i][j] = s[k]
                       /\ \A k \in 1 .. i : keep[k] => \E j \in DOMAIN c[i] : c[i][j] = s[k]
           T == {i \in 0 .. n : ~Right(i)}
<1>4. T = {}
  <2> SUFFICES ASSUME T # {} PROVE FALSE
    OBVIOUS
  <2>1. PICK m \in T : \A i \in T : m <= i
    <3>1. T \in SUBSET Nat
      BY <1>1
    <3> QED
      BY <3>1, LeastNatural
  <2>2. CASE m = 0
    <3>1. c[0] = <<>>
      BY <1>1, <1>3 DEF ChosenStep
    <3>2. Right(0)
      BY <3>1
    <3> QED
      BY <2>1, <2>2, <3>2
  <2>3. CASE m # 0
    <3>1. m - 1 \in 0 .. n /\ m \in 1 .. n /\ m - 1 \notin T
      <4> HIDE DEF Right
      <4>1. m \in 0 .. n
        OBVIOUS
      <4>2. m - 1 \in 0 .. n /\ m \in 1 .. n /\ ~(m <= m - 1)
        BY <1>1, <2>3, <4>1
      <4> HIDE DEF T
      <4> QED
        BY <2>1, <4>2
    <3>2. Right(m - 1)
      BY <3>1
    <3>3. c[m] = IF keep[m] THEN Append(c[m - 1], s[m]) ELSE c[m - 1]
      BY <1>3, <3>1, <2>3 DEF ChosenStep
    <3> DEFINE p == c[m - 1]
    <3>4. p \in Seq(S) /\ (\A j \in DOMAIN p : \E k \in 1 .. m - 1 : keep[k] /\ p[j] = s[k])
          /\ (\A k \in 1 .. m - 1 : keep[k] => \E j \in DOMAIN p : p[j] = s[k])
      BY <3>2
    <3>5. s[m] \in S /\ 1 .. m = (1 .. m - 1) \cup {m}
      BY <1>1, <3>1
    <3> HIDE DEF p, T, Right
    <3>6. CASE ~keep[m]
      <4>1. c[m] = p
        BY <3>3, <3>6 DEF p
      <4>2. \A j \in DOMAIN p : \E k \in 1 .. m : keep[k] /\ p[j] = s[k]
        BY <3>4, <3>5
      <4>3. \A k \in 1 .. m : keep[k] => \E j \in DOMAIN p : p[j] = s[k]
        BY <3>4, <3>5, <3>6
      <4>4. Right(m)
        BY <3>4, <4>1, <4>2, <4>3 DEF Right
      <4> QED
        BY <2>1, <4>4 DEF T
    <3>7. CASE keep[m]
      <4> DEFINE q == Append(p, s[m])
      <4>1. c[m] = q
        BY <3>3, <3>7 DEF p
      <4>2. q \in Seq(S) /\ DOMAIN q = (DOMAIN p) \cup {Len(p) + 1} /\ q[Len(p) + 1] = s[m]
            /\ \A j \in DOMAIN p : q[j] = p[j]
        BY <3>4, <3>5, AppendProperties
      <4> HIDE DEF q
      <4>3. \A j \in DOMAIN q : \E k \in 1 .. m : keep[k] /\ q[j] = s[k]
        <5>1. ASSUME NEW j \in DOMAIN p PROVE \E k \in 1 .. m : keep[k] /\ q[j] = s[k]
          <6>1. PICK k \in 1 .. m - 1 : keep[k] /\ p[j] = s[k]
            BY <3>4
          <6>2. k \in 1 .. m /\ q[j] = s[k]
            BY <3>5, <4>2, <6>1
          <6> QED
            BY <6>1, <6>2
        <5>2. keep[m] /\ q[Len(p) + 1] = s[m] /\ m \in 1 .. m
          BY <3>5, <3>7, <4>2
        <5> QED
          BY <4>2, <5>1, <5>2
      <4>4. ASSUME NEW k \in 1 .. m, keep[k] PROVE \E j \in DOMAIN q : q[j] = s[k]
        <5>1. CASE k = m
          BY <4>2, <5>1
        <5>2. CASE k # m
          <6>1. k \in 1 .. m - 1
            BY <3>5, <5>2
          <6>2. PICK j \in DOMAIN p : p[j] = s[k]
            BY <3>4, <4>4, <6>1
          <6> QED
            BY <4>2, <6>2
        <5> QED
          BY <5>1, <5>2
      <4>5. Right(m)
        BY <4>1, <4>2, <4>3, <4>4 DEF Right
      <4> QED
        BY <2>1, <4>5 DEF T
    <3> QED
      BY <3>6, <3>7
  <2> QED
    BY <2>2, <2>3
<1>5. Right(n)
  BY <1>1, <1>4
<1>6. /\ c[n] \in Seq(S)
      /\ \A j \in DOMAIN c[n] : \E k \in DOMAIN s : keep[k] /\ c[n][j] = s[k]
      /\ \A k \in DOMAIN s : keep[k] => \E j \in DOMAIN c[n] : c[n][j] = s[k]
  BY <1>1, <1>5
<1> QED
  BY <1>2, <1>6

-----------------------------------------------------------------------------
(* The split of a filter around the joins                                   *)

\* TreeRefers as a function: what is in it refers to a joined field.
IsRefers(refers, trees) ==
  \A f \in trees : refers[f] <=> RefersNode(f, [i \in DOMAIN f.parts |-> refers[f.parts[i]]])

\* A document has all the fields a filter names, or has them missing.
Covered(trees, d) ==
  \A f \in trees : f.op \in TreeOps \ {"true", "false", "and", "or", "not"} => f.f \in DOMAIN d

\* A node that names no joined field selects a document alike before and after its joins,
\* if its children do.
LEMMA UnreferredStep ==
  ASSUME NEW trees, NEW size, Grounded(trees, size), WellFormed(trees), NEW d, Covered(trees, d),
         NEW before, IsSelects(before, trees, Unjoined(d)),
         NEW after, IsSelects(after, trees, d),
         NEW f \in trees, f.op # "like", f.f \notin Joined,
         \A i \in DOMAIN f.parts : before[f.parts[i]] <=> after[f.parts[i]]
  PROVE  before[f] <=> after[f]
<1> DEFINE pb == [i \in DOMAIN f.parts |-> before[f.parts[i]]]
           pa == [i \in DOMAIN f.parts |-> after[f.parts[i]]]
           u == Unjoined(d)
<1>1. (before[f] <=> SelectsNode(f, u, pb)) /\ (after[f] <=> SelectsNode(f, d, pa))
  BY DEF IsSelects
<1>2. f.op \in TreeOps /\ f.parts \in Seq(trees) /\ (f.op = "not" => Len(f.parts) = 1)
  BY DEF Grounded, WellFormed
<1>3. \A i \in DOMAIN f.parts : pb[i] = before[f.parts[i]] /\ pa[i] = after[f.parts[i]]
  OBVIOUS
<1>4. f.f \in DOMAIN d => u[f.f] = d[f.f]
  BY DEF Unjoined
<1> HIDE DEF pb, pa, u
<1>5. CASE f.op \in {"eq", "ne", "in", "nin", "notNull", "isNull", "gt", "gte", "lt", "lte"}
  <2>1. u[f.f] = d[f.f]
    BY <1>4, <1>5 DEF Covered, TreeOps, Comparisons
  <2>2. CASE f.op \in {"eq", "ne", "in", "nin", "notNull", "isNull"}
    BY <1>1, <2>1, <2>2, SelectsLeaf
  <2>3. CASE f.op \in {"gt", "gte", "lt", "lte"}
    BY <1>1, <2>1, <2>3, SelectsComparison
  <2> QED
    BY <1>5, <2>2, <2>3
<1>6. CASE f.op \in {"true", "false"}
  BY <1>1, <1>6, SelectsLeaf
<1>7. CASE f.op = "and"
  BY <1>1, <1>3, <1>7, SelectsTree
<1>8. CASE f.op = "or"
  BY <1>1, <1>3, <1>8, SelectsTree
<1>9. CASE f.op = "not"
  <2>1. DOMAIN f.parts = {1}
    BY <1>2, <1>9
  <2> QED
    BY <1>1, <1>3, <1>9, <2>1, SelectsTree
<1> QED
  BY <1>2, <1>5, <1>6, <1>7, <1>8, <1>9 DEF TreeOps, Comparisons

\* So does a whole tree in which no node does.
LEMMA UnreferredAlike ==
  ASSUME NEW trees, NEW size \in [trees -> Nat], Grounded(trees, size), WellFormed(trees),
         NEW d, Covered(trees, d),
         NEW before, IsSelects(before, trees, Unjoined(d)),
         NEW after, IsSelects(after, trees, d), NEW refers, IsRefers(refers, trees),
         \A f \in trees : f.op = "like" /\ f.f \notin Joined => (before[f] <=> after[f])
  PROVE  \A f \in trees : ~refers[f] => (before[f] <=> after[f])
<1> DEFINE good == {f \in trees : ~refers[f] => (before[f] <=> after[f])}
<1>1. ASSUME NEW f \in trees, \A i \in DOMAIN f.parts : f.parts[i] \in good
      PROVE  f \in good
  <2> SUFFICES ASSUME ~refers[f] PROVE before[f] <=> after[f]
    OBVIOUS
  <2>1. f.f \notin Joined /\ \A i \in DOMAIN f.parts : ~refers[f.parts[i]]
    BY DEF IsRefers, RefersNode
  <2>2. \A i \in DOMAIN f.parts : before[f.parts[i]] <=> after[f.parts[i]]
    BY <1>1, <2>1
  <2> HIDE DEF good
  <2>3. CASE f.op = "like"
    BY <2>1, <2>3
  <2>4. CASE f.op # "like"
    BY <2>1, <2>2, <2>4, UnreferredStep
  <2> QED
    BY <2>3, <2>4
<1> HIDE DEF good
<1>2. \A f \in trees : f \in good
  BY <1>1, TreeInduction
<1> QED
  BY <1>2 DEF good

LEMMA SelectsAll ==
  ASSUME NEW trees, NEW d, NEW selects, IsSelects(selects, trees, d),
         NEW parts \in Seq(trees), AndOrSingle(parts) \in trees
  PROVE  selects[AndOrSingle(parts)] <=> \A i \in DOMAIN parts : selects[parts[i]]
<1> DEFINE f == AndOrSingle(parts)
<1>1. CASE parts = <<>>
  <2>1. f = Everything
    BY <1>1 DEF AndOrSingle, Several
  <2>2. f \in trees
    OBVIOUS
  <2> HIDE DEF f
  <2>3. f.op = "true"
    BY <2>1 DEF Everything, Tree, Node
  <2>4. selects[f]
    BY <2>2, <2>3, SelectsLeaf DEF IsSelects
  <2> QED
    BY <1>1, <2>4 DEF f
<1>2. CASE Len(parts) = 1
  <2>1. DOMAIN parts = {1}
    <3>1. DOMAIN parts = 1 .. 1
      BY <1>2, LenProperties
    <3> QED
      BY <3>1
  <2>2. f = Several("and", parts, Everything) /\ Len(parts) = 1
    BY <1>2 DEF AndOrSingle
  <2>3. f = parts[1]
    <3>1. parts # <<>>
      <4>1. DOMAIN <<>> = {}
        OBVIOUS
      <4>2. DOMAIN parts # {}
        BY <2>1
      <4> QED
        BY <4>1, <4>2
    <3> HIDE DEF f
    <3> QED
      BY <2>2, <3>1 DEF Several
  <2> QED
    BY <2>1, <2>3
<1>3. CASE parts # <<>> /\ Len(parts) # 1
  <2>1. f = Tree("and", parts)
    BY <1>3 DEF AndOrSingle, Several
  <2>2. f.op = "and" /\ f.parts = parts
    <3> HIDE DEF f
    <3> QED
      BY <2>1 DEF Tree, Node
  <2>3. selects[f] <=> SelectsNode(f, d, [i \in DOMAIN f.parts |-> selects[f.parts[i]]])
    BY <2>2 DEF IsSelects
  <2> HIDE DEF f
  <2> QED
    BY <2>2, <2>3, SelectsTree DEF f
<1> QED
  BY <1>1, <1>2, <1>3

\* splitFilterByAlias loses nothing: a filter selects a document behind its joins exactly when
\* the part tested before them selects it as it is there, and the other part behind them.
THEOREM SplitMeansFilter ==
  ASSUME NEW trees, NEW size \in [trees -> Nat], Grounded(trees, size), WellFormed(trees),
         NEW d, Covered(trees, d),
         NEW before, IsSelects(before, trees, Unjoined(d)),
         NEW after, IsSelects(after, trees, d), NEW refers, IsRefers(refers, trees),
         \A f \in trees : f.op = "like" /\ f.f \notin Joined => (before[f] <=> after[f]),
         NEW f \in trees, NEW split,
         split = SplitNode(f, [i \in DOMAIN f.parts |-> refers[f.parts[i]]]),
         split.base \in trees, split.joined \in trees
  PROVE  after[f] <=> before[split.base] /\ after[split.joined]
<1> DEFINE parts == [i \in DOMAIN f.parts |-> refers[f.parts[i]]]
<1>1. \A g \in trees : ~refers[g] => (before[g] <=> after[g])
  BY UnreferredAlike
<1>2. refers[f] <=> RefersNode(f, parts)
  BY DEF IsRefers
<1>3. f.parts \in Seq(trees)
  BY DEF Grounded
<1>4. \A i \in DOMAIN f.parts : parts[i] = refers[f.parts[i]] /\ f.parts[i] \in trees
  BY <1>3
<1>5. \A g \in trees : g = Everything => (before[g] /\ after[g])
  <2>1. Everything.op = "true"
    BY DEF Everything, Tree, Node
  <2> QED
    BY <2>1, SelectsLeaf DEF IsSelects
<1>6. split = SplitNode(f, parts)
  OBVIOUS
<1> HIDE DEF parts
<1>7. CASE f.op = "and"
  <2> DEFINE rest == [i \in DOMAIN f.parts |-> ~parts[i]]
             b == Chosen(f.parts, rest)
             j == Chosen(f.parts, parts)
  <2>1. split = [base |-> AndOrSingle(b), joined |-> AndOrSingle(j)]
    BY <1>6, <1>7 DEF SplitNode
  <2>2. split.base = AndOrSingle(b) /\ split.joined = AndOrSingle(j)
    <3> HIDE DEF b, j
    <3> QED
      BY <2>1
  <2>3. \A i \in DOMAIN f.parts : rest[i] <=> ~parts[i]
    OBVIOUS
  <2> HIDE DEF rest
  <2>4. /\ b \in Seq(trees)
        /\ \A i \in DOMAIN b : \E k \in DOMAIN f.parts : rest[k] /\ b[i] = f.parts[k]
        /\ \A k \in DOMAIN f.parts : rest[k] => \E i \in DOMAIN b : b[i] = f.parts[k]
    BY <1>3, ChosenAre
  <2>5. /\ j \in Seq(trees)
        /\ \A i \in DOMAIN j : \E k \in DOMAIN f.parts : parts[k] /\ j[i] = f.parts[k]
        /\ \A k \in DOMAIN f.parts : parts[k] => \E i \in DOMAIN j : j[i] = f.parts[k]
    BY <1>3, ChosenAre
  <2> HIDE DEF b, j
  <2>6. before[split.base] <=> \A i \in DOMAIN b : before[b[i]]
    <3> DEFINE u == Unjoined(d)
    <3>1. IsSelects(before, trees, u) /\ AndOrSingle(b) \in trees
      BY <2>2
    <3> HIDE DEF u
    <3>2. before[AndOrSingle(b)] <=> \A i \in DOMAIN b : before[b[i]]
      BY <2>4, <3>1, SelectsAll
    <3> QED
      BY <2>2, <3>2
  <2>7. after[split.joined] <=> \A i \in DOMAIN j : after[j[i]]
    <3>1. AndOrSingle(j) \in trees
      BY <2>2
    <3>2. after[AndOrSingle(j)] <=> \A i \in DOMAIN j : after[j[i]]
      BY <2>5, <3>1, SelectsAll
    <3> QED
      BY <2>2, <3>2
  <2>8. after[f] <=> \A i \in DOMAIN f.parts : after[f.parts[i]]
    <3>1. after[f] <=> SelectsNode(f, d, [i \in DOMAIN f.parts |-> after[f.parts[i]]])
      BY <1>7 DEF IsSelects
    <3> QED
      BY <1>7, <3>1, SelectsTree
  <2>9. before[split.base] <=> \A k \in DOMAIN f.parts : ~parts[k] => after[f.parts[k]]
    <3>1. ASSUME NEW k \in DOMAIN f.parts, ~parts[k]
          PROVE  before[f.parts[k]] <=> after[f.parts[k]]
      BY <1>1, <1>4, <3>1
    <3>2. ASSUME \A i \in DOMAIN b : before[b[i]], NEW k \in DOMAIN f.parts, ~parts[k]
          PROVE  before[f.parts[k]]
      <4>1. PICK i \in DOMAIN b : b[i] = f.parts[k]
        BY <2>3, <2>4, <3>2
      <4> QED
        BY <3>2, <4>1
    <3>3. ASSUME \A k \in DOMAIN f.parts : ~parts[k] => before[f.parts[k]], NEW i \in DOMAIN b
          PROVE  before[b[i]]
      <4>1. PICK k \in DOMAIN f.parts : rest[k] /\ b[i] = f.parts[k]
        BY <2>4
      <4> QED
        BY <2>3, <3>3, <4>1
    <3> QED
      BY <2>6, <3>1, <3>2, <3>3
  <2>10. after[split.joined] <=> \A k \in DOMAIN f.parts : parts[k] => after[f.parts[k]]
    <3>1. ASSUME \A i \in DOMAIN j : after[j[i]], NEW k \in DOMAIN f.parts, parts[k]
          PROVE  after[f.parts[k]]
      <4>1. PICK i \in DOMAIN j : j[i] = f.parts[k]
        BY <2>5, <3>1
      <4> QED
        BY <3>1, <4>1
    <3>2. ASSUME \A k \in DOMAIN f.parts : parts[k] => after[f.parts[k]], NEW i \in DOMAIN j
          PROVE  after[j[i]]
      <4>1. PICK k \in DOMAIN f.parts : parts[k] /\ j[i] = f.parts[k]
        BY <2>5
      <4> QED
        BY <3>2, <4>1
    <3> QED
      BY <2>7, <3>1, <3>2
  <2> QED
    BY <2>8, <2>9, <2>10
<1>8. CASE f.op # "and" /\ refers[f]
  <2>1. split = [base |-> Everything, joined |-> f]
    BY <1>2, <1>6, <1>8 DEF SplitNode
  <2>2. split.base = Everything /\ split.joined = f
    BY <2>1
  <2> QED
    BY <1>5, <2>2
<1>9. CASE f.op # "and" /\ ~refers[f]
  <2>1. split = [base |-> f, joined |-> Everything]
    BY <1>2, <1>6, <1>9 DEF SplitNode
  <2>2. split.base = f /\ split.joined = Everything
    BY <2>1
  <2> QED
    BY <1>1, <1>5, <1>9, <2>2
<1> QED
  BY <1>7, <1>8, <1>9

\* buildAggPipeline on a portable filter and joins: of a collection's documents those pass
\* both $match stages, the one before the joins and the one behind them, that the filter
\* selects when they are joined.
THEOREM JoinedFilterMeansFilter ==
  ASSUME NEW trees, NEW size \in [trees -> Nat], Grounded(trees, size), WellFormed(trees),
         NEW queries, AllRows \in queries, NoRows \in queries, NEW d, Covered(trees, d),
         NEW before, IsSelects(before, trees, Unjoined(d)),
         NEW after, IsSelects(after, trees, d), NEW refers, IsRefers(refers, trees),
         NEW compile \in [trees -> queries], IsCompile(compile, trees),
         NEW early, IsMatches(early, queries, Unjoined(d)), NEW late, IsMatches(late, queries, d),
         \A f \in trees : f.op = "like" => /\ early[compile[f]] <=> before[f]
                                           /\ late[compile[f]] <=> after[f]
                                           /\ f.f \notin Joined => (before[f] <=> after[f]),
         NEW f \in trees, NEW split,
         split = SplitNode(f, [i \in DOMAIN f.parts |-> refers[f.parts[i]]]),
         split.base \in trees, split.joined \in trees
  PROVE  early[compile[split.base]] /\ late[compile[split.joined]] <=> after[f]
<1>1. \A g \in trees : early[compile[g]] <=> before[g]
  <2>1. \A g \in trees : g.op = "like" => (early[compile[g]] <=> before[g])
    OBVIOUS
  <2> DEFINE u == Unjoined(d)
  <2>2. IsSelects(before, trees, u) /\ IsMatches(early, queries, u)
    OBVIOUS
  <2> HIDE DEF u
  <2> QED
    BY <2>1, <2>2, QueryFormMeansFilter
<1>2. \A g \in trees : late[compile[g]] <=> after[g]
  BY QueryFormMeansFilter
<1>3. \A g \in trees : g.op = "like" /\ g.f \notin Joined => (before[g] <=> after[g])
  OBVIOUS
<1>4. after[f] <=> before[split.base] /\ after[split.joined]
  BY <1>3, SplitMeansFilter
<1> QED
  BY <1>1, <1>2, <1>4

-----------------------------------------------------------------------------
(* The split of a record around the joins                                   *)

\* What names a joined field, at whatever depth.
IsNames(names, queries) ==
  \A q \in queries : names[q] <=> (IsJoined(q) \/ \E i \in DOMAIN q.parts : names[q.parts[i]])

\* Only compound operators have branches.
Branching(queries) == \A q \in queries : q.op \notin Compound => q.parts = <<>>

\* The entries that recordReferencesAlias does not look into name none.
OneDeep(q, names) ==
  \A i \in DOMAIN Entries(q) : Entries(q)[i].op \in Compound =>
    /\ Entries(q)[i].op \in Logical
    /\ \A k \in DOMAIN Entries(q)[i].parts :
         LET b == Entries(Entries(q)[i].parts[k])
         IN \A j \in DOMAIN b : b[j].op \in Compound => ~names[b[j]]

\* A document has the fields a record asks for, or has them missing.
Asked(queries, d) ==
  \A q \in queries : q.op \notin Compound \cup {"all", "none"} => q.f \in DOMAIN d

\* What a leaf matches depends on the value of its field alone.
LEMMA MatchesOneField ==
  ASSUME NEW q, q.op \notin Compound, NEW u, NEW d, NEW p1, NEW p2,
         q.op \in {"all", "none"} \/ u[q.f] = d[q.f]
  PROVE  MatchesNode(q, u, p1) <=> MatchesNode(q, d, p2)
<1>1. CASE q.op \in {"all", "none"}
  BY <1>1 DEF MatchesNode
<1>2. CASE q.op \notin {"all", "none"}
  BY <1>2 DEF MatchesNode, Compound, Logical
<1> QED
  BY <1>1, <1>2

\* What a compound matches depends on its children alone.
LEMMA BranchesMatch ==
  ASSUME NEW q, q.op \in Compound, NEW u, NEW d, NEW p1, NEW p2,
         \A i \in DOMAIN q.parts : p1[i] <=> p2[i]
  PROVE  MatchesNode(q, u, p1) <=> MatchesNode(q, d, p2)
<1>1. CASE q.op \in {"$and", "record"}
  BY <1>1, MatchesCompound
<1>2. CASE q.op = "$or"
  BY <1>2, MatchesCompound
<1>3. CASE q.op = "$nor"
  BY <1>3, MatchesCompound
<1> QED
  BY <1>1, <1>2, <1>3 DEF Compound, Logical

\* A filter that names no joined field matches alike before and behind the joins.
LEMMA UnnamedAlike ==
  ASSUME NEW queries, NEW size \in [queries -> Nat], Grounded(queries, size), Branching(queries),
         NEW d, Asked(queries, d),
         NEW before, IsMatches(before, queries, Unjoined(d)),
         NEW after, IsMatches(after, queries, d), NEW names, IsNames(names, queries),
         \A q \in queries : q.op = "$regex" /\ q.f \notin Joined => (before[q] <=> after[q])
  PROVE  \A q \in queries : ~names[q] => (before[q] <=> after[q])
<1> DEFINE good == {q \in queries : ~names[q] => (before[q] <=> after[q])}
<1>1. ASSUME NEW q \in queries, \A i \in DOMAIN q.parts : q.parts[i] \in good
      PROVE  q \in good
  <2> SUFFICES ASSUME ~names[q] PROVE before[q] <=> after[q]
    OBVIOUS
  <2>1. ~IsJoined(q) /\ \A i \in DOMAIN q.parts : ~names[q.parts[i]]
    BY DEF IsNames
  <2> DEFINE p1 == [i \in DOMAIN q.parts |-> before[q.parts[i]]]
             p2 == [i \in DOMAIN q.parts |-> after[q.parts[i]]]
             u == Unjoined(d)
  <2>2. \A i \in DOMAIN q.parts : p1[i] <=> p2[i]
    BY <1>1, <2>1
  <2>3. q.op # "$regex" => /\ before[q] <=> MatchesNode(q, u, p1)
                           /\ after[q] <=> MatchesNode(q, d, p2)
    BY DEF IsMatches
  <2>4. q.f \in DOMAIN d /\ q.f \notin Joined => u[q.f] = d[q.f]
    BY DEF Unjoined
  <2> HIDE DEF good, p1, p2, u
  <2>5. CASE q.op = "$regex"
    BY <2>1, <2>5 DEF IsJoined, Compound, Logical
  <2>6. CASE q.op \in Compound
    <3>1. q.op # "$regex"
      BY <2>6 DEF Compound, Logical
    <3>2. MatchesNode(q, u, p1) <=> MatchesNode(q, d, p2)
      BY <2>2, <2>6, BranchesMatch
    <3> QED
      BY <2>3, <3>1, <3>2
  <2>7. CASE q.op \notin Compound /\ q.op # "$regex"
    <3>1. q.op \in {"all", "none"} \/ u[q.f] = d[q.f]
      BY <2>1, <2>4, <2>7 DEF IsJoined, Asked
    <3>2. MatchesNode(q, u, p1) <=> MatchesNode(q, d, p2)
      BY <2>7, <3>1, MatchesOneField
    <3> QED
      BY <2>3, <2>7, <3>2
  <2> QED
    BY <2>5, <2>6, <2>7
<1> HIDE DEF good
<1>2. \A q \in queries : q \in good
  BY <1>1, TreeInduction
<1> QED
  BY <1>2 DEF good

\* What holds of the chosen entries.
LEMMA ChosenAll ==
  ASSUME NEW S, NEW s \in Seq(S), NEW keep, NEW holds
  PROVE  (\A i \in DOMAIN Chosen(s, keep) : holds[Chosen(s, keep)[i]])
           <=> (\A k \in DOMAIN s : keep[k] => holds[s[k]])
  BY ChosenAre

LEMMA MatchesRecordOf ==
  ASSUME NEW queries, NEW d, NEW matches, IsMatches(matches, queries, d),
         NEW S, NEW entries \in Seq(S), RecordOf(entries) \in queries
  PROVE  matches[RecordOf(entries)] <=> \A i \in DOMAIN entries : matches[entries[i]]
<1> DEFINE q == RecordOf(entries)
<1>1. q.op # "$regex" =>
        (matches[q] <=> MatchesNode(q, d, [i \in DOMAIN q.parts |-> matches[q.parts[i]]]))
  <2>1. q \in queries
    OBVIOUS
  <2> HIDE DEF q
  <2> QED
    BY <2>1 DEF IsMatches
<1>2. entries = <<>> => q = AllRows
  BY DEF RecordOf
<1>3. entries # <<>> => q = Node("record", "", <<>>, entries)
  BY DEF RecordOf
<1> HIDE DEF q
<1>4. CASE entries = <<>>
  <2>1. q.op = "all"
    <3>1. q = AllRows
      BY <1>2, <1>4
    <3> QED
      BY <3>1 DEF AllRows, Tree, Node
  <2>2. matches[q]
    BY <1>1, <2>1 DEF MatchesNode
  <2> QED
    BY <1>4, <2>2 DEF q
<1>5. CASE entries # <<>>
  <2>1. q.op = "record" /\ q.parts = entries
    <3>1. q = Node("record", "", <<>>, entries)
      BY <1>3, <1>5
    <3> QED
      BY <3>1 DEF Node
  <2>2. matches[q] <=> \A i \in DOMAIN entries : matches[entries[i]]
    BY <1>1, <2>1, MatchesCompound
  <2> QED
    BY <2>2 DEF q
<1> QED
  BY <1>4, <1>5

LEMMA EntriesAre ==
  ASSUME NEW queries, NEW size, Grounded(queries, size), NEW q \in queries
  PROVE  /\ Entries(q) \in Seq(queries)
         /\ \A i \in DOMAIN Entries(q) : Entries(q)[i] \in queries
<1>1. q.parts \in Seq(queries) /\ \A i \in DOMAIN q.parts : q.parts[i] \in queries
  BY DEF Grounded
<1>2. <<q>> \in Seq(queries) /\ DOMAIN <<q>> = {1} /\ <<q>>[1] = q
  OBVIOUS
<1>3. CASE q.op = "record"
  BY <1>1, <1>3 DEF Entries
<1>4. CASE q.op # "record"
  BY <1>2, <1>4 DEF Entries
<1> QED
  BY <1>3, <1>4

\* A query matches what its entries match.
LEMMA MatchesEntries ==
  ASSUME NEW queries, NEW d, NEW matches, IsMatches(matches, queries, d), NEW q \in queries
  PROVE  matches[q] <=> \A i \in DOMAIN Entries(q) : matches[Entries(q)[i]]
<1>1. CASE q.op = "record"
  <2>1. matches[q] <=> MatchesNode(q, d, [i \in DOMAIN q.parts |-> matches[q.parts[i]]])
    BY <1>1 DEF IsMatches
  <2> QED
    BY <1>1, <2>1, MatchesCompound DEF Entries
<1>2. CASE q.op # "record"
  <2>1. Entries(q) = <<q>>
    BY <1>2 DEF Entries
  <2>2. DOMAIN <<q>> = {1} /\ <<q>>[1] = q
    OBVIOUS
  <2> QED
    BY <2>1, <2>2
<1> QED
  BY <1>1, <1>2

\* A branch of which recordReferencesAlias finds no joined field names none.
LEMMA BranchUnnamed ==
  ASSUME NEW queries, NEW size, Grounded(queries, size), Branching(queries),
         NEW names, IsNames(names, queries), NEW q \in queries, ~RecordRefers(q),
         \A j \in DOMAIN Entries(q) : Entries(q)[j].op \in Compound => ~names[Entries(q)[j]]
  PROVE  ~names[q]
<1>1. names[q] <=> (IsJoined(q) \/ \E i \in DOMAIN q.parts : names[q.parts[i]])
  BY DEF IsNames
<1>2. \A j \in DOMAIN Entries(q) : ~IsJoined(Entries(q)[j])
  BY DEF RecordRefers
<1>3. ASSUME NEW j \in DOMAIN Entries(q) PROVE ~names[Entries(q)[j]]
  <2> DEFINE x == Entries(q)[j]
  <2>1. x \in queries
    BY EntriesAre
  <2>2. ~IsJoined(x) /\ (x.op \in Compound => ~names[x])
    BY <1>2
  <2> HIDE DEF x
  <2>3. CASE x.op \notin Compound
    <3>1. x.parts = <<>>
      BY <2>1, <2>3 DEF Branching
    <3>2. names[x] <=> IsJoined(x)
      BY <2>1, <3>1 DEF IsNames
    <3> QED
      BY <2>2, <3>2 DEF x
  <2> QED
    BY <2>2, <2>3 DEF x
<1>4. CASE q.op = "record"
  <2>1. Entries(q) = q.parts /\ ~IsJoined(q)
    BY <1>4 DEF Entries, IsJoined, Compound
  <2> QED
    BY <1>1, <1>3, <2>1
<1>5. CASE q.op # "record"
  <2>1. Entries(q) = <<q>>
    BY <1>5 DEF Entries
  <2>2. 1 \in DOMAIN <<q>> /\ <<q>>[1] = q
    OBVIOUS
  <2> QED
    BY <1>3, <2>1, <2>2
<1> QED
  BY <1>4, <1>5

\* splitRecordByAlias: a record of bracket parameters selects a joined document exactly when
\* the part tested before the joins selects it as it is there, and the other part behind
\* them, if it names no joined field deeper than in the branches of its operators, where
\* recordReferencesAlias does not look.
THEOREM RecordSplitMeansRecord ==
  ASSUME NEW queries, NEW size \in [queries -> Nat], Grounded(queries, size), Branching(queries),
         NEW d, Asked(queries, d),
         NEW before, IsMatches(before, queries, Unjoined(d)),
         NEW after, IsMatches(after, queries, d), NEW names, IsNames(names, queries),
         \A q \in queries : q.op = "$regex" /\ q.f \notin Joined => (before[q] <=> after[q]),
         NEW q \in queries, OneDeep(q, names),
         SplitRecord(q).base \in queries, SplitRecord(q).joined \in queries
  PROVE  after[q] <=> before[SplitRecord(q).base] /\ after[SplitRecord(q).joined]
<1> DEFINE es == Entries(q)
           rest == [i \in DOMAIN es |-> ~IsJoined(es[i])]
           far == [i \in DOMAIN es |-> IsJoined(es[i])]
           b == Chosen(es, rest)
           j == Chosen(es, far)
           split == SplitRecord(q)
<1>1. es \in Seq(queries) /\ \A i \in DOMAIN es : es[i] \in queries
  BY EntriesAre
<1>2. \A g \in queries : ~names[g] => (before[g] <=> after[g])
  BY UnnamedAlike
<1>3. after[q] <=> \A i \in DOMAIN es : after[es[i]]
  BY MatchesEntries
<1>4. \A i \in DOMAIN es : (rest[i] <=> ~IsJoined(es[i])) /\ (far[i] <=> IsJoined(es[i]))
  OBVIOUS
<1>5. /\ (\E i \in DOMAIN es : MixedTop(es[i])) => split = [base |-> AllRows, joined |-> q]
      /\ ~(\E i \in DOMAIN es : MixedTop(es[i])) =>
           split = [base |-> RecordOf(b), joined |-> RecordOf(j)]
  BY DEF SplitRecord
<1>6. split.base \in queries /\ split.joined \in queries
  OBVIOUS
<1>7. ASSUME NEW i \in DOMAIN es, ~MixedTop(es[i]), ~IsJoined(es[i]) PROVE ~names[es[i]]
  <2> DEFINE e == es[i]
  <2>1. e \in queries
    BY <1>1
  <2>2. e.op \in Compound =>
          /\ e.op \in Logical
          /\ \A k \in DOMAIN e.parts :
               \A n \in DOMAIN Entries(e.parts[k]) :
                 Entries(e.parts[k])[n].op \in Compound => ~names[Entries(e.parts[k])[n]]
    BY DEF OneDeep
  <2>3. e.op \in Logical => \A k \in DOMAIN e.parts : ~RecordRefers(e.parts[k])
    BY <1>7 DEF MixedTop
  <2>4. ~IsJoined(e)
    BY <1>7
  <2>5. \A k \in DOMAIN e.parts : e.parts[k] \in queries
    BY <2>1 DEF Grounded
  <2> HIDE DEF e, es
  <2>6. names[e] <=> (IsJoined(e) \/ \E k \in DOMAIN e.parts : names[e.parts[k]])
    BY <2>1 DEF IsNames
  <2>7. CASE e.op \in Compound
    <3>1. ASSUME NEW k \in DOMAIN e.parts PROVE ~names[e.parts[k]]
      BY <2>2, <2>3, <2>5, <2>7, BranchUnnamed
    <3> QED
      BY <2>4, <2>6, <3>1 DEF e
  <2>8. CASE e.op \notin Compound
    <3>1. e.parts = <<>>
      BY <2>1, <2>8 DEF Branching
    <3> QED
      BY <2>4, <2>6, <3>1 DEF e
  <2> QED
    BY <2>7, <2>8
<1> HIDE DEF split
<1> SUFFICES after[q] <=> before[split.base] /\ after[split.joined]
  BY DEF split
<1>8. CASE \E i \in DOMAIN es : MixedTop(es[i])
  <2>1. split.base = AllRows /\ split.joined = q
    BY <1>5, <1>8
  <2>2. AllRows = RecordOf(<<>>) /\ <<>> \in Seq(queries)
    BY DEF RecordOf
  <2>3. before[AllRows]
    <3> DEFINE u == Unjoined(d)
    <3>1. IsMatches(before, queries, u) /\ RecordOf(<<>>) \in queries
      BY <1>6, <2>1, <2>2
    <3> HIDE DEF u
    <3>2. before[RecordOf(<<>>)] <=> \A i \in DOMAIN <<>> : before[<<>>[i]]
      BY <2>2, <3>1, MatchesRecordOf
    <3> QED
      BY <2>2, <3>2
  <2> QED
    BY <2>1, <2>3
<1>9. CASE ~ \E i \in DOMAIN es : MixedTop(es[i])
  <2>1. split.base = RecordOf(b) /\ split.joined = RecordOf(j)
    <3>1. split = [base |-> RecordOf(b), joined |-> RecordOf(j)]
      BY <1>5, <1>9
    <3> HIDE DEF b, j
    <3> QED
      BY <3>1
  <2> HIDE DEF es, rest, far
  <2>2. /\ b \in Seq(queries)
        /\ (\A i \in DOMAIN b : before[b[i]]) <=> (\A k \in DOMAIN es : rest[k] => before[es[k]])
    BY <1>1, ChosenAre, ChosenAll
  <2>3. /\ j \in Seq(queries)
        /\ (\A i \in DOMAIN j : after[j[i]]) <=> (\A k \in DOMAIN es : far[k] => after[es[k]])
    BY <1>1, ChosenAre, ChosenAll
  <2> HIDE DEF b, j
  <2>4. before[split.base] <=> \A i \in DOMAIN b : before[b[i]]
    <3> DEFINE u == Unjoined(d)
    <3>1. IsMatches(before, queries, u)
      OBVIOUS
    <3> HIDE DEF u
    <3> QED
      BY <1>6, <2>1, <2>2, <3>1, MatchesRecordOf
  <2>5. after[split.joined] <=> \A i \in DOMAIN j : after[j[i]]
    BY <1>6, <2>1, <2>3, MatchesRecordOf
  <2>6. before[split.base] <=> \A k \in DOMAIN es : ~IsJoined(es[k]) => after[es[k]]
    <3>1. \A k \in DOMAIN es : ~IsJoined(es[k]) => (before[es[k]] <=> after[es[k]])
      BY <1>1, <1>2, <1>7, <1>9
    <3> QED
      BY <1>4, <2>2, <2>4, <3>1
  <2>7. after[split.joined] <=> \A k \in DOMAIN es : IsJoined(es[k]) => after[es[k]]
    BY <1>4, <2>3, <2>5
  <2> QED
    BY <1>3, <2>6, <2>7
<1> QED
  BY <1>8, <1>9

-----------------------------------------------------------------------------
(* What the sanitizers leave                                                *)

\* SanitizeMatch and SanitizeDeep as functions, and Harms, of any set of operators.
IsSanitize(sanitize, queries) ==
  \A q \in queries : sanitize[q] = SanitizeNode(q, [i \in DOMAIN q.parts |-> sanitize[q.parts[i]]])
IsSanitizeDeep(sanitize, queries) ==
  \A q \in queries :
    sanitize[q] = SanitizeDeepNode(q, [i \in DOMAIN q.parts |-> sanitize[q.parts[i]]])
IsHarms(harms, ops, queries) ==
  \A q \in queries : harms[q] <=> HoldsOneOf(ops, q, [i \in DOMAIN q.parts |-> harms[q.parts[i]]])

LEMMA HarmsNode ==
  ASSUME NEW queries, NEW ops, NEW harms, IsHarms(harms, ops, queries),
         NEW op, NEW f, NEW vs, NEW S, NEW parts \in Seq(S), Node(op, f, vs, parts) \in queries
  PROVE  harms[Node(op, f, vs, parts)] <=> (op \in ops \/ \E i \in DOMAIN parts : harms[parts[i]])
<1> DEFINE q == Node(op, f, vs, parts)
<1>1. q.op = op /\ q.parts = parts
  BY DEF Node
<1>2. harms[q] <=> HoldsOneOf(ops, q, [i \in DOMAIN q.parts |-> harms[q.parts[i]]])
  BY DEF IsHarms
<1> HIDE DEF q
<1>3. harms[q] <=> (op \in ops \/ \E i \in DOMAIN parts : harms[parts[i]])
  BY <1>1, <1>2 DEF HoldsOneOf
<1> QED
  BY <1>3 DEF q

LEMMA AllRowsHarmless ==
  ASSUME NEW queries, NEW ops, "all" \notin ops, NEW harms, IsHarms(harms, ops, queries),
         AllRows \in queries
  PROVE  ~harms[AllRows]
<1>1. AllRows.op = "all" /\ AllRows.parts = <<>>
  BY DEF AllRows, Tree, Node
<1>2. harms[AllRows] <=> HoldsOneOf(ops, AllRows, [i \in DOMAIN AllRows.parts |-> harms[AllRows.parts[i]]])
  BY DEF IsHarms
<1> QED
  BY <1>1, <1>2 DEF HoldsOneOf

\* The branches that are left are among those that were made.
LEMMA ChosenHarmless ==
  ASSUME NEW S, NEW parts \in Seq(S), NEW keep, NEW harms, \A i \in DOMAIN parts : ~harms[parts[i]]
  PROVE  /\ Chosen(parts, keep) \in Seq(S)
         /\ \A i \in DOMAIN Chosen(parts, keep) : ~harms[Chosen(parts, keep)[i]]
  BY ChosenAre

\* sanitizeMatchConfig: whatever a URL puts into a $match, and however deep, no operator
\* that runs code is in what is left of it.
THEOREM SanitizedIsHarmless ==
  ASSUME NEW queries, NEW size \in [queries -> Nat], Grounded(queries, size), Branching(queries),
         NEW clean, NEW sanitize \in [queries -> clean], IsSanitize(sanitize, queries),
         NEW harms, IsHarms(harms, Harmful, clean)
  PROVE  \A q \in queries : ~harms[sanitize[q]]
<1> DEFINE good == {q \in queries : ~harms[sanitize[q]]}
<1>1. ASSUME NEW q \in queries, \A i \in DOMAIN q.parts : q.parts[i] \in good
      PROVE  q \in good
  <2> DEFINE parts == [i \in DOMAIN q.parts |-> sanitize[q.parts[i]]]
             keep == [i \in DOMAIN parts |-> parts[i] # AllRows]
             left == Chosen(parts, keep)
  <2>1. q.parts \in Seq(queries)
    BY DEF Grounded
  <2>2. parts \in Seq(clean) /\ \A i \in DOMAIN parts : ~harms[parts[i]]
    <3> HIDE DEF keep, left
    <3>1. parts \in Seq(clean)
      BY <2>1, Mapped
    <3> QED
      BY <1>1, <3>1
  <2>3. sanitize[q] = SanitizeNode(q, parts) /\ sanitize[q] \in clean
    BY DEF IsSanitize
  <2> HIDE DEF good
  <2> SUFFICES ~harms[sanitize[q]]
    BY DEF good
  <2> HIDE DEF parts
  <2>4. left \in Seq(clean) /\ \A i \in DOMAIN left : ~harms[left[i]]
    BY <2>2, ChosenHarmless
  <2>5. /\ q.op \in Harmful => SanitizeNode(q, parts) = AllRows
        /\ q.op \in Compound /\ left = <<>> => SanitizeNode(q, parts) = AllRows
        /\ q.op \in Compound /\ left # <<>> => SanitizeNode(q, parts) = Node(q.op, q.f, q.vs, left)
        /\ q.op \notin Harmful \cup Compound => SanitizeNode(q, parts) = q
    BY DEF SanitizeNode, Harmful, Compound, Logical
  <2> HIDE DEF left
  <2>6. CASE sanitize[q] = AllRows
    BY <2>3, <2>6, AllRowsHarmless DEF Harmful
  <2>7. CASE q.op \in Compound /\ left # <<>>
    <3>1. sanitize[q] = Node(q.op, q.f, q.vs, left) /\ q.op \notin Harmful
      BY <2>3, <2>5, <2>7 DEF Compound, Logical, Harmful
    <3> QED
      BY <2>3, <2>4, <3>1, HarmsNode
  <2>8. CASE q.op \notin Harmful \cup Compound
    <3>1. sanitize[q] = q /\ q.parts = <<>>
      BY <2>3, <2>5, <2>8 DEF Branching
    <3>2. q \in clean
      BY <2>3, <3>1
    <3>3. harms[q] <=> HoldsOneOf(Harmful, q, [i \in DOMAIN q.parts |-> harms[q.parts[i]]])
      BY <3>2 DEF IsHarms
    <3> QED
      BY <2>8, <3>1, <3>3 DEF HoldsOneOf
  <2> QED
    BY <2>3, <2>5, <2>6, <2>7, <2>8
<1> HIDE DEF good
<1>2. \A q \in queries : q \in good
  BY <1>1, TreeInduction
<1> QED
  BY <1>2 DEF good

\* _sanitizeDeep: nor is one in the $match of a lookup's pipeline, wherever it stood.
THEOREM DeepIsHarmless ==
  ASSUME NEW queries, NEW size \in [queries -> Nat], Grounded(queries, size),
         NEW clean, NEW sanitize \in [queries -> clean], IsSanitizeDeep(sanitize, queries),
         NEW harms, IsHarms(harms, Dangerous, clean)
  PROVE  \A q \in queries : ~harms[sanitize[q]]
<1> DEFINE good == {q \in queries : ~harms[sanitize[q]]}
<1>1. ASSUME NEW q \in queries, \A i \in DOMAIN q.parts : q.parts[i] \in good
      PROVE  q \in good
  <2> DEFINE parts == [i \in DOMAIN q.parts |-> sanitize[q.parts[i]]]
             keep == [i \in DOMAIN parts |-> q.parts[i].op \notin Dangerous]
             left == Chosen(parts, keep)
  <2>1. q.parts \in Seq(queries)
    BY DEF Grounded
  <2>2. parts \in Seq(clean) /\ \A i \in DOMAIN parts : ~harms[parts[i]]
    <3> HIDE DEF keep, left
    <3>1. parts \in Seq(clean)
      BY <2>1, Mapped
    <3> QED
      BY <1>1, <3>1
  <2>3. sanitize[q] = SanitizeDeepNode(q, parts) /\ sanitize[q] \in clean
    BY DEF IsSanitizeDeep
  <2> HIDE DEF good
  <2> SUFFICES ~harms[sanitize[q]]
    BY DEF good
  <2> HIDE DEF parts
  <2>4. left \in Seq(clean) /\ \A i \in DOMAIN left : ~harms[left[i]]
    BY <2>2, ChosenHarmless
  <2>5. /\ q.op \in Dangerous => SanitizeDeepNode(q, parts) = AllRows
        /\ q.op \notin Dangerous => SanitizeDeepNode(q, parts) = Node(q.op, q.f, q.vs, left)
    BY DEF SanitizeDeepNode
  <2> HIDE DEF left
  <2>6. CASE q.op \in Dangerous
    BY <2>3, <2>5, <2>6, AllRowsHarmless DEF Dangerous
  <2>7. CASE q.op \notin Dangerous
    BY <2>3, <2>4, <2>5, <2>7, HarmsNode
  <2> QED
    BY <2>6, <2>7
<1> HIDE DEF good
<1>2. \A q \in queries : q \in good
  BY <1>1, TreeInduction
<1> QED
  BY <1>2 DEF good

\* Two nodes of one operator every child of which has one it agrees with in the other.
LEMMA BranchesAlike ==
  ASSUME NEW q, NEW r, NEW d, NEW p1, NEW p2, q.op \in Compound, r.op = q.op,
         \A i \in DOMAIN q.parts : \E j \in DOMAIN r.parts : p1[i] <=> p2[j],
         \A j \in DOMAIN r.parts : \E i \in DOMAIN q.parts : p1[i] <=> p2[j]
  PROVE  MatchesNode(q, d, p1) <=> MatchesNode(r, d, p2)
<1>1. CASE q.op \in {"$and", "record"}
  BY <1>1, MatchesCompound
<1>2. CASE q.op = "$or"
  BY <1>2, MatchesCompound
<1>3. CASE q.op = "$nor"
  BY <1>3, MatchesCompound
<1> QED
  BY <1>1, <1>2, <1>3 DEF Compound, Logical

\* A filter says something at every node: it has no empty group.
Meaningful(queries) ==
  \A q \in queries : q.op # "all" /\ (q.op \in Compound => q.parts # <<>>)

\* sanitizeMatchConfig takes nothing else away: a filter without such an operator matches
\* what it matched, and does not become the filter of everything.
THEOREM SanitizingKeepsHarmless ==
  ASSUME NEW queries, NEW size \in [queries -> Nat], Grounded(queries, size), Branching(queries),
         Meaningful(queries), NEW harms, IsHarms(harms, Harmful, queries),
         NEW clean, NEW sanitize \in [queries -> clean], IsSanitize(sanitize, queries),
         NEW d, NEW matches, IsMatches(matches, queries \cup clean, d)
  PROVE  \A q \in queries :
           ~harms[q] => sanitize[q] # AllRows /\ (matches[sanitize[q]] <=> matches[q])
<1> DEFINE good == {q \in queries : ~harms[q] =>
                      sanitize[q] # AllRows /\ (matches[sanitize[q]] <=> matches[q])}
<1>1. ASSUME NEW q \in queries, \A i \in DOMAIN q.parts : q.parts[i] \in good
      PROVE  q \in good
  <2> SUFFICES ASSUME ~harms[q]
               PROVE  sanitize[q] # AllRows /\ (matches[sanitize[q]] <=> matches[q])
    OBVIOUS
  <2> DEFINE parts == [i \in DOMAIN q.parts |-> sanitize[q.parts[i]]]
             keep == [i \in DOMAIN parts |-> parts[i] # AllRows]
             left == Chosen(parts, keep)
             r == Node(q.op, q.f, q.vs, left)
             p1 == [i \in DOMAIN q.parts |-> matches[q.parts[i]]]
             p2 == [i \in DOMAIN left |-> matches[left[i]]]
  <2>1. q.parts \in Seq(queries)
    BY DEF Grounded
  <2>2. parts \in Seq(clean)
    BY <2>1, Mapped
  <2>3. q.op \notin Harmful /\ \A i \in DOMAIN q.parts : ~harms[q.parts[i]]
    <3>1. harms[q] <=> HoldsOneOf(Harmful, q, [i \in DOMAIN q.parts |-> harms[q.parts[i]]])
      BY DEF IsHarms
    <3> QED
      BY <3>1 DEF HoldsOneOf
  <2>4. \A i \in DOMAIN q.parts : /\ parts[i] # AllRows
                                  /\ matches[parts[i]] <=> matches[q.parts[i]]
    BY <1>1, <2>3
  <2>5. sanitize[q] = SanitizeNode(q, parts) /\ sanitize[q] \in clean
    BY DEF IsSanitize
  <2>6. DOMAIN parts = DOMAIN q.parts
    OBVIOUS
  <2>7. \A i \in DOMAIN parts : keep[i]
    BY <2>4
  <2>8. /\ q.op \in Compound /\ left = <<>> => SanitizeNode(q, parts) = AllRows
        /\ q.op \in Compound /\ left # <<>> => SanitizeNode(q, parts) = r
        /\ q.op \notin Compound => SanitizeNode(q, parts) = q
    BY <2>3 DEF SanitizeNode, Harmful, Compound, Logical
  <2>9. AllRows.op = "all" /\ r.op = q.op /\ r.parts = left
    BY DEF AllRows, Tree, Node
  <2> HIDE DEF good, parts, keep
  <2>10. /\ left \in Seq(clean)
         /\ \A j \in DOMAIN left : \E i \in DOMAIN q.parts : left[j] = parts[i]
         /\ \A i \in DOMAIN q.parts : \E j \in DOMAIN left : left[j] = parts[i]
    <3>1. /\ left \in Seq(clean)
          /\ \A j \in DOMAIN left : \E i \in DOMAIN parts : keep[i] /\ left[j] = parts[i]
          /\ \A i \in DOMAIN parts : keep[i] => \E j \in DOMAIN left : left[j] = parts[i]
      BY <2>2, ChosenAre
    <3> HIDE DEF left, r
    <3> QED
      BY <2>6, <2>7, <3>1
  <2> HIDE DEF left, r
  <2>11. CASE q.op \notin Compound
    BY <2>5, <2>8, <2>9, <2>11 DEF Meaningful
  <2>12. CASE q.op \in Compound
    <3>1. q.parts # <<>>
      BY <2>12 DEF Meaningful
    <3>2. 1 \in DOMAIN q.parts
      BY <2>1, <3>1, EmptySeq
    <3>3. left # <<>>
      BY <2>10, <3>2
    <3>4. sanitize[q] = r
      BY <2>5, <2>8, <2>12, <3>3
    <3>5. r # AllRows
      BY <2>9 DEF Meaningful
    <3>6. q.op # "$regex"
      BY <2>12 DEF Compound, Logical
    <3>7. matches[q] <=> MatchesNode(q, d, p1)
      BY <3>6 DEF IsMatches
    <3>8. matches[r] <=> MatchesNode(r, d, p2)
      <4>1. r \in queries \cup clean
        BY <2>5, <3>4
      <4> QED
        BY <2>9, <3>6, <4>1 DEF IsMatches
    <3>9. /\ \A i \in DOMAIN q.parts : p1[i] = matches[q.parts[i]]
          /\ \A j \in DOMAIN left : p2[j] = matches[left[j]]
      OBVIOUS
    <3> HIDE DEF p1, p2
    <3>10. \A i \in DOMAIN q.parts, j \in DOMAIN left : left[j] = parts[i] => (p1[i] <=> p2[j])
      BY <2>4, <3>9
    <3>11. MatchesNode(q, d, p1) <=> MatchesNode(r, d, p2)
      <4>1. \A i \in DOMAIN q.parts : \E j \in DOMAIN r.parts : p1[i] <=> p2[j]
        BY <2>9, <2>10, <3>10
      <4>2. \A j \in DOMAIN r.parts : \E i \in DOMAIN q.parts : p1[i] <=> p2[j]
        BY <2>9, <2>10, <3>10
      <4> QED
        BY <2>9, <2>12, <4>1, <4>2, BranchesAlike
    <3> QED
      BY <3>4, <3>5, <3>7, <3>8, <3>11
  <2> QED
    BY <2>11, <2>12
<1> HIDE DEF good
<1>2. \A q \in queries : q \in good
  BY <1>1, TreeInduction
<1> QED
  BY <1>2 DEF good
=============================================================================
