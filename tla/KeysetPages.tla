----------------------------- MODULE KeysetPages -----------------------------
(***************************************************************************)
(* Keyset pagination: a client walks the pages of a sorted query, handing  *)
(* back the cursor of each page, while documents are inserted, deleted and *)
(* moved, the client changes its sort, and the server is redeployed with   *)
(* another range of cursor versions.  PaginationEngine.stream and          *)
(* Repository.lookupPopulate share the cursor and its filter.              *)
(*                                                                         *)
(* A page is one query, which sees one state of the collection.            *)
(***************************************************************************)
EXTENDS Integers, FiniteSets

CONSTANTS
  Ids,       \* the values of _id, in their order
  Values,    \* the values of a sort field, in their order; 0 is null
  Either,    \* the documents that satisfy the caller's own $or
  Limit,
  Servers,   \* the deployments: [version, min], the cursors they accept
  Domains,   \* what the schema may let the sort fields hold
  Sorts,     \* the sorts the client asks for
  None

Sort == [fields : 0..2, asc : BOOLEAN]

Cursor == [a : Values, b : Values, id : Ids, sort : Sort, ver : Nat]

ASSUME KeysetAssumption ==
  /\ Ids \subseteq Nat /\ IsFiniteSet(Ids)
  /\ Values \subseteq Nat /\ 0 \in Values
  /\ Either \subseteq Ids
  /\ Limit \in Nat \ {0}
  /\ Servers \subseteq [version : Nat, min : Nat]
  /\ Domains \subseteq SUBSET Values
  /\ Sorts \subseteq Sort
  /\ None \notin Cursor

VARIABLES
  docs,   \* docs[i]: whether it matches the caller's filter, and its sort fields
  domain, \* the schema: it does not change
  server,
  sort,   \* the client's sort, as validateKeysetSort returns it
  pc,
  cursor, \* the cursor the client sends next
  still,  \* history: what matched when the walk began and has not moved since
  shown   \* history: how often the walk has shown it, counted to two

vars == <<docs, domain, server, sort, pc, cursor, still, shown>>

Doc == [in : BOOLEAN, a : Values, b : Values]

NoDoc == [in |-> FALSE, a |-> 0, b |-> 0]

TypeOK ==
  /\ docs \in [Ids -> Doc]
  /\ domain \in Domains
  /\ server \in [version : Nat, min : Nat]
  /\ sort \in Sorts
  /\ pc \in {"idle", "walking", "done", "rejected"}
  /\ cursor \in Cursor \cup {None}
  /\ still \subseteq Ids
  /\ shown \in [Ids -> 0..2]

Init ==
  /\ docs = [i \in Ids |-> NoDoc]
  /\ domain \in Domains /\ server \in Servers /\ sort \in Sorts
  /\ pc = "idle" /\ cursor = None /\ still = {} /\ shown = [i \in Ids |-> 0]

-----------------------------------------------------------------------------
(* The order and the filter                                                 *)

\* MongoDB's sort: null before every value, _id as the last key.
Follows(x, y, asc) == IF asc THEN x > y ELSE x < y

FirstKey(d, s) == IF s.fields >= 1 THEN d.a ELSE 0
SecondKey(d, s) == IF s.fields = 2 THEN d.b ELSE 0

\* The document d with _id i comes after the document e with _id j.
After(d, i, e, j, s) ==
  \/ Follows(FirstKey(d, s), FirstKey(e, s), s.asc)
  \/ /\ FirstKey(d, s) = FirstKey(e, s)
     /\ \/ Follows(SecondKey(d, s), SecondKey(e, s), s.asc)
        \/ SecondKey(d, s) = SecondKey(e, s) /\ Follows(i, j, s.asc)

\* $gt and $lt do not match across null.
Beyond(x, y, asc) == x # 0 /\ y # 0 /\ Follows(x, y, asc)

\* Mutant of IdBeyond: $gte and $lte.
IdNotBefore(i, c) == i = c.id \/ Follows(i, c.id, c.sort.asc)

IdBeyond(i, c) == Follows(i, c.id, c.sort.asc)

\* Mutant of OneField: null is compared like a value.
OneFieldNullAsValue(d, i, c) ==
  Beyond(d.a, c.a, c.sort.asc) \/ (d.a = c.a /\ IdBeyond(i, c))

\* After null every value comes, in an ascending sort.
OneField(d, i, c) ==
  \/ d.a = c.a /\ IdBeyond(i, c)
  \/ Beyond(d.a, c.a, c.sort.asc)
  \/ c.sort.asc /\ c.a = 0 /\ d.a # 0

TwoFields(d, i, c) ==
  \/ Beyond(d.a, c.a, c.sort.asc)
  \/ d.a = c.a /\ (Beyond(d.b, c.b, c.sort.asc) \/ (d.b = c.b /\ IdBeyond(i, c)))

\* buildKeysetFilter, without the base filters.
KeysetFilter(d, i, c) ==
  CASE c.sort.fields = 0 -> IdBeyond(i, c)
    [] c.sort.fields = 1 -> OneField(d, i, c)
    [] c.sort.fields = 2 -> TwoFields(d, i, c)

\* The base filters, with the keyset's $or in the place of the caller's.
Selected ==
  IF cursor = None THEN {i \in Either : docs[i].in}
  ELSE {i \in Ids : docs[i].in /\ KeysetFilter(docs[i], i, cursor)}

\* Mutant of Accepted: validateCursorSort is left out.
AcceptedForAnySort(c) == c # None => c.ver \in server.min..server.version

\* validateCursorVersion and validateCursorSort.
Accepted(c) == c # None => c.ver \in server.min..server.version /\ c.sort = sort

-----------------------------------------------------------------------------
(* The client                                                               *)

\* The client asks for the first page.
Start ==
  /\ pc \in {"idle", "done", "rejected"}
  /\ pc' = "walking" /\ cursor' = None
  /\ sort' \in Sorts
  /\ still' = {i \in Either : docs[i].in}
  /\ shown' = [i \in Ids |-> 0]
  /\ UNCHANGED <<docs, domain, server>>

\* The first Limit of the documents s, in the order of the sort.
PageOf(p, s) ==
  /\ p \subseteq s
  /\ \A i \in p : \A j \in s \ p : After(docs[j], j, docs[i], i, sort)
  /\ Cardinality(p) <= Limit
  /\ p # s => Cardinality(p) = Limit

IsLast(i, p) == i \in p /\ \A j \in p \ {i} : After(docs[i], i, docs[j], j, sort)

\* encodeCursor; the values keep their type, null included.
CursorOf(i) ==
  [a |-> FirstKey(docs[i], sort), b |-> SecondKey(docs[i], sort), id |-> i,
   sort |-> sort, ver |-> server.version]

Counted(i) == IF shown[i] = 0 THEN 1 ELSE 2

\* A page with more behind it carries a cursor; the last one does not.
Page ==
  /\ pc = "walking" /\ Accepted(cursor)
  /\ \E p \in SUBSET Selected :
       /\ PageOf(p, Selected)
       /\ shown' = [i \in Ids |-> IF i \in p \cap still THEN Counted(i) ELSE shown[i]]
       /\ \/ p = Selected /\ pc' = "done" /\ cursor' = None
          \/ /\ p # Selected /\ UNCHANGED pc
             /\ \E i \in p : IsLast(i, p) /\ cursor' = CursorOf(i)
  /\ UNCHANGED <<docs, domain, server, sort, still>>

\* The cursor is refused; the client has to begin again.
Rejected ==
  /\ pc = "walking" /\ ~Accepted(cursor)
  /\ pc' = "rejected" /\ cursor' = None
  /\ UNCHANGED <<docs, domain, server, sort, still, shown>>

\* The client asks for the next page with another sort.
ChangeSort ==
  /\ pc = "walking" /\ cursor # None
  /\ sort' \in Sorts
  /\ UNCHANGED <<docs, domain, server, pc, cursor, still, shown>>

Deploy ==
  /\ server' \in Servers
  /\ UNCHANGED <<docs, domain, sort, pc, cursor, still, shown>>

-----------------------------------------------------------------------------
(* Other writers                                                            *)

\* The document moves in the order, or in or out of the filter.
Write(i, d) ==
  /\ docs' = [docs EXCEPT ![i] = d]
  /\ still' = still \ {i}
  /\ shown' = [shown EXCEPT ![i] = 0]
  /\ UNCHANGED <<domain, server, sort, pc, cursor>>

\* Inserted, updated so that it matches, or moved.
Put(i) ==
  \E x \in domain, y \in domain : Write(i, [in |-> TRUE, a |-> x, b |-> y])

\* Deleted, or updated so that it no longer matches.
Leave(i) == docs[i].in /\ Write(i, NoDoc)

Next ==
  \/ Start \/ Page \/ Rejected \/ ChangeSort \/ Deploy
  \/ \E i \in Ids : Put(i) \/ Leave(i)

Spec == Init /\ [][Next]_vars

\* The client goes on asking, and the server answers.
FairSpec == Spec /\ WF_vars(Page \/ Rejected)

-----------------------------------------------------------------------------
(* Properties                                                               *)

\* A document that does not move is shown at most once in a walk, whatever moves
\* around it and although the cursor's own document may have moved or gone.
ShownOnce == \A i \in still : shown[i] <= 1

\* The comparison operators of the filter reach the document: only fields that may
\* hold null are lossy, and a single ascending one is not (the limitation that
\* validateKeysetSort documents).
Reachable(i) ==
  \/ 0 \notin domain \/ sort.fields = 0
  \/ sort.fields = 1 /\ (sort.asc \/ docs[i].a # 0)

\* A walk that reaches its last page has shown every document that matched all the
\* time and did not move, as far as the filter can reach it.
ShownAtEnd == pc = "done" => \A i \in still : Reachable(i) => shown[i] = 1

\* Every walk comes to its last page or is refused: the cursor always moves on.
WalkEnds == pc = "walking" ~> pc # "walking"
=============================================================================
