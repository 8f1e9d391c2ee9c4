---------------------------- MODULE IndexAdvice ----------------------------
(***************************************************************************)
(* index-hint.ts: the index a keyset walk wants, and the advice of         *)
(* PaginationEngine.stream to create one.                                  *)
(***************************************************************************)
EXTENDS Integers, Sequences, FiniteSets

\* A key of an index or a sort: a field and a direction, 0 for text and the like.
FieldsOf(keys) == {keys[i].field : i \in DOMAIN keys}

SameDirection(suffix, sort) ==
  \/ \A i \in DOMAIN sort : suffix[i].dir = sort[i].dir
  \/ \A i \in DOMAIN sort : suffix[i].dir = -sort[i].dir

\* hasCompatibleKeysetIndex, for one index: the filtered fields, then the sort.
Compatible(index, filtered, sort) ==
  LET n == Cardinality(filtered)
      suffix == SubSeq(index, n + 1, n + Len(sort))
  IN /\ Len(index) >= n + Len(sort)
     /\ \A i \in DOMAIN index : index[i].dir # 0
     /\ FieldsOf(SubSeq(index, 1, n)) = filtered
     /\ \A i \in DOMAIN sort : suffix[i].field = sort[i].field
     /\ SameDirection(suffix, sort)

\* stream's advice: no index fits the filter, or its equalities alone.  A sort loses
\* its trailing _id.
Advised(indexes, equalities, ranges, sort) ==
  ~ \E index \in indexes : \/ Compatible(index, equalities \cup ranges, sort)
                           \/ ranges # {} /\ Compatible(index, equalities, sort)

\* Document d comes before e in the order of the keys.
Before(keys, d, e) ==
  \E i \in DOMAIN keys : /\ IF keys[i].dir = 1 THEN d[keys[i].field] < e[keys[i].field]
                                              ELSE d[keys[i].field] > e[keys[i].field]
                         /\ \A j \in 1 .. i - 1 : d[keys[j].field] = e[keys[j].field]

\* A walk of the index, one way or the other, meets the documents that agree on the
\* filtered fields in the order of the sort.
Serves(index, filtered, sort, docs) ==
  LET alike == {p \in docs \X docs : \A f \in filtered : p[1][f] = p[2][f]}
      inOrder == {p \in alike : Before(sort, p[1], p[2])}
  IN \/ \A p \in inOrder : Before(index, p[1], p[2])
     \/ \A p \in inOrder : Before(index, p[2], p[1])
=============================================================================
