---------------------------- MODULE OffsetPages ----------------------------
(***************************************************************************)
(* The pages of rows that are at hand in their order: the limits of        *)
(* limits.ts, the offset pages of the pagination engine and of             *)
(* aggregatePaginate, and the pages of groups, by number or after the      *)
(* sort tuple of a group.                                                  *)
(***************************************************************************)
EXTENDS Integers, Sequences, FiniteSetsExt

Take(s, n) == SubSeq(s, 1, Min({n, Len(s)}))
Drop(s, n) == SubSeq(s, n + 1, Len(s))

-----------------------------------------------------------------------------
(* limits.ts.  A value that is not a number is written 0.                   *)

\* A maxLimit of 0 is none.
ValidLimit(asked, cfg) ==
  CASE asked < 1 -> cfg.defaultLimit
    [] asked >= 1 /\ cfg.maxLimit = 0 -> asked
    [] asked >= 1 /\ cfg.maxLimit > 0 -> Min({asked, cfg.maxLimit})

PageRefused(page, cfg) == page > cfg.maxPage
ValidPage(page) == IF page < 1 THEN 1 ELSE page
Skip(page, limit) == (page - 1) * limit
TotalPages(total, limit) == (total + limit - 1) \div limit

-----------------------------------------------------------------------------
(* Offset pages: paginate and aggregatePaginate of the engine               *)

\* Without a count, a row more than the page tells that there is a next one.
Fetched(limit, strategy) == IF strategy = "none" THEN limit + 1 ELSE limit

\* A page of the rows the find returns, in their order, where `follows` tells what the
\* count says of there being a next one.
PageBy(follows, rows, counted, page, limit, strategy) ==
  LET data  == Take(Drop(rows, Skip(page, limit)), Fetched(limit, strategy))
      total == IF strategy = "none" THEN 0 ELSE counted
  IN [method |-> "offset", data |-> Take(data, limit), total |-> total,
      pages |-> TotalPages(total, limit), next |-> page + 1, prev |-> page > 1,
      more |-> IF strategy = "none" THEN Len(data) > limit ELSE follows]

\* The count is a read of its own, next to the find.
OffsetPage(rows, counted, page, limit, strategy) ==
  PageBy(page < TotalPages(counted, limit), rows, counted, page, limit, strategy)

\* $facet reads the rows and their number at once.
FacetPage(rows, page, limit, strategy) == OffsetPage(rows, Len(rows), page, limit, strategy)

\* aggregatePaginate of actions/aggregate.ts, where 0 is not given.
ActionPage(rows, page, limit) ==
  FacetPage(rows, IF page = 0 THEN 1 ELSE page, IF limit = 0 THEN 10 ELSE limit, "exact")

-----------------------------------------------------------------------------
(* Pages of groups: aggregatePaginate                                       *)

AggregateLimit(asked) == Max({1, Min({asked, 1000})})

\* buildKeysetPredicate: equal so far, and beyond the cursor in the next key.
KeyBeyond(dir, x, c) == IF dir = 1 THEN x > c ELSE x < c

AfterTuple(dirs, x, c) ==
  \E i \in DOMAIN dirs : KeyBeyond(dirs[i], x[i], c[i]) /\ \A j \in 1 .. i - 1 : x[j] = c[j]

\* rows are sort tuples, in their order; no cursor is the empty tuple.
GroupsAfter(rows, dirs, cursor, limit) ==
  LET peeked == Take(SelectSeq(rows, LAMBDA x : cursor = <<>> \/ AfterTuple(dirs, x, cursor)), limit + 1)
  IN [data |-> Take(peeked, limit), more |-> Len(peeked) > limit]

GroupsPage(rows, counted, page, limit, strategy) ==
  PageBy(ValidPage(page) * limit < counted, rows, counted, ValidPage(page), limit, strategy)
=============================================================================
