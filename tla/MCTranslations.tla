--------------------------- MODULE MCTranslations ---------------------------
(***************************************************************************)
(* The query languages of the repository, checked one input at a time.  A  *)
(* step picks a request of one of the families; the invariants compare     *)
(* what becomes of it with what it means, on every small document.         *)
(***************************************************************************)
EXTENDS Aggregates, DateBuckets, QueryStrings, Lookups, Schemas

VARIABLES family, picked
vars == <<family, picked>>

n1 == Val("number", 1)
n2 == Val("number", 2)
s1 == Val("string", 1)
s2 == Val("string", 2)
s3 == Val("string", 3)
d3 == Val("date", 3)
d4 == Val("date", 4)

MCTypeOf == [a |-> "number", b |-> "number", w |-> "date", s |-> "string",
             k |-> "number", x |-> "number", t |-> "number", j |-> "none",
             u |-> "none", z |-> "none"]
MCJoined == {"j"}

Pick(name, inputs) ==
  /\ family = "none"
  /\ family' = name
  /\ \E i \in inputs : picked' = i

-----------------------------------------------------------------------------
(* Filter trees and LIKE patterns                                           *)

LeavesOf(f, vs) ==
  {Leaf(op, f, v) : op \in {"eq", "ne"}, v \in vs \cup {Null}}
  \cup {Leaf(op, f, v) : op \in Comparisons, v \in vs}
  \cup {Node(op, f, list, <<>>) : op \in {"in", "nin"}, list \in {<<>>, <<n1>>, <<n2, Null>>}}
  \cup {Leaf(op, f, Null) : op \in {"isNull", "notNull"}}

Constants == {Tree("true", <<>>), Tree("false", <<>>), Tree("and", <<>>), Tree("or", <<>>)}
Few == {Leaf("ne", "b", n1), Leaf("eq", "b", Null), Leaf("lte", "b", n1)}
Pairs(left, right) == {Tree(op, <<x, y>>) : op \in {"and", "or"}, x \in left, y \in right}
Simple == LeavesOf("a", {n1, s1}) \cup Constants
Trees == LET level1 == Simple \cup {Tree(op, <<x>>) : op \in {"and", "or", "not"}, x \in Simple}
             level2 == Pairs(level1, Few)
         IN level1 \cup level2 \cup {Tree("not", <<x>>) : x \in level2}

Documents == [{"a", "b"} -> {Missing, Null, n1, n2, s1}]
Texts(chars, n) == UNION {[1 .. i -> chars] : i \in 0 .. n}
Patterns == Texts({"a", "%", "_", "\\", "."}, 3)

PickTree == Pick("tree", Trees)
PickLike == Pick("like", {Node("like", "s", p, <<>>) : p \in Patterns})

\* Operands and values all numbers: what the expression form is used on.
RECURSIVE Typed(_)
Typed(f) == /\ \A i \in DOMAIN f.vs : f.vs[i].t # "string"
            /\ \A i \in DOMAIN f.parts : Typed(f.parts[i])

-----------------------------------------------------------------------------
(* Records of bracket parameters                                            *)

Keyed(entries) == Node("record", "", <<>>, entries)
\* A URL gives strings; a shorthand is given on a date column only.
Given == {Leaf(op, f, v) : op \in {"$eq", "$ne", "$gte", "$lt"}, f \in {"a", "s"}, v \in {s1, s3}}
         \cup {Leaf(op, "w", s3) : op \in {"$eq", "$ne", "$gte", "$lt"}}
         \cup {Node("$in", f, <<s1, s3>>, <<>>) : f \in {"a", "s"}}
         \cup {Leaf(op, "w", s3) : op \in {"gte", "lt"}}
Records == {Keyed(<<e>>) : e \in Given}
           \cup {Keyed(<<x, Tree(op, <<Keyed(<<y>>), Keyed(<<Leaf("$eq", "s", s1)>>)>>)>>) :
                   op \in Logical, x \in Given, y \in Given}

TypedDocuments == [a : {Null, n1, n2}, s : {s1, s3}, w : {Null, d3, d4}]

PickRecord == Pick("record", Records)

\* What the parameters of a record mean.
RECURSIVE Reads(_, _)
Reads(q, d) == ReadsNode(q, d, [i \in DOMAIN q.parts |-> Reads(q.parts[i], d)])

-----------------------------------------------------------------------------
(* Aggregations                                                             *)

NoTop == [limit |-> 0, by |-> {}, ties |-> "none"]
Count == [op |-> "count", field |-> "*", where |-> Tree("true", <<>>)]
Request(filter, portable, scope, joins) ==
  [filter |-> filter, portable |-> portable, scope |-> scope, joins |-> joins,
   by |-> {"k"}, measure |-> Count, having |-> 0, topN |-> NoTop]

\* The filter of a request: base fields a and b, the joined field j, and under
\* and, or and not.  A policy scopes it to a tenant.
Sides == {Leaf("eq", "a", n1), Leaf("ne", "a", n1), Leaf("gt", "j", n1), Leaf("ne", "j", n1),
          Leaf("isNull", "j", Null)}
Portable == LET two == Sides \cup {Tree("not", <<x>>) : x \in Sides}
            IN two \cup Pairs(two, Sides)
               \cup Pairs(Sides, {Tree("or", <<x, y>>) : x \in Sides, y \in Sides})
Tenant == Leaf("$eq", "t", n1)
Bare1(q) == Leaf("$" \o q.op, q.f, q.vs[1])
BranchFilters == {Keyed(<<Bare1(x)>>) : x \in Sides \ {Leaf("isNull", "j", Null)}}
Bracketed == {Keyed(<<Bare1(x), Tree(op, <<y, z>>)>>) :
                op \in Logical, x \in {Leaf("eq", "a", n1), Leaf("lt", "j", n2)},
                y \in BranchFilters, z \in BranchFilters}
             \cup BranchFilters

\* Under a scope the joined fields stand outside the branches: the split does not
\* look further down than one level.
Plain(q) == \A i \in DOMAIN q.parts :
              q.parts[i].op \in Logical => ~TreeRefers(q.parts[i])

Filtered == {Request(f, TRUE, AllRows, TRUE) : f \in Portable}
            \cup {Request(q, FALSE, AllRows, TRUE) : q \in Bracketed}
            \cup {Request(q, FALSE, Tenant, TRUE) : q \in {x \in Bracketed : Plain(x)}}
            \cup {Request(f, TRUE, Tenant, TRUE) :
                     f \in {x \in Portable : ~TreeRefers(x) \/ (x.parts = <<>> /\ x.op = "gt")}}

Measures == {[op |-> op, field |-> "x", where |-> w] :
               op \in {"count", "sum", "countDistinct", "avg", "min"},
               w \in {Tree("true", <<>>), Leaf("eq", "a", n1), Tree("not", <<Leaf("in", "a", n1)>>)}}
            \cup {Count}
CountedRequests == {[Request(Leaf("eq", "a", n1), TRUE, AllRows, joins) EXCEPT
               !.by = by, !.measure = m, !.having = having] :
              joins \in BOOLEAN, by \in {{}, {"k"}, {"k", "b"}},
              m \in {x \in Measures : x.op \in {"count", "sum"}}, having \in {0, 2}}

\* The best group, or two, of every value of k.
Topped == {[Request(Leaf("eq", "a", n1), TRUE, AllRows, joins) EXCEPT
              !.by = {"k", "b"}, !.topN = [limit |-> limit, by |-> by, ties |-> ties]] :
             joins \in BOOLEAN, by \in {{"k"}, {"x"}}, limit \in {1, 2}, ties \in {"rank", "dense_rank"}}

AggregateDocuments ==
  [a : {Null, n1, n2}, j : {Missing, Null, n1, n2}, t : {n1, n2}]
GroupRows == [a : {n1, n2}, b : {n1, Null}, k : {Missing, Null, n1}, x : {n1, n2}, j : {Missing}]
Samples == UNION {[1 .. i -> GroupRows] : i \in 0 .. 2}

\* Helpers, on rows whose field may be null, missing or negative.
HelperRows == [a : {n1, n2}, x : {Missing, Null, n1, Val("number", -1)}]
HelperSamples == UNION {[1 .. i -> HelperRows] : i \in 0 .. 3}
Helpers == [op : {"sum", "average", "min", "max"}, query : {Keyed(<<>>), Keyed(<<Leaf("$eq", "a", n1)>>)},
            limit : 0 .. 2]

PickHelper   == Pick("helper", Helpers)
PickFiltered == Pick("filtered", Filtered)
PickMeasure  == Pick("measure", Measures)
PickCounted  == Pick("counted", CountedRequests \cup Topped)

-----------------------------------------------------------------------------
(* Periods of time                                                          *)

Zone(offset) == [valid |-> TRUE, offset |-> offset, from |-> 0, until |-> 0, summer |-> 0]
\* Minutes of days about the turns of months, quarters, years and ISO years.
Instants == {1440 * (8401 + day) + minute : day \in {30, 59, 363, 364, 365, 371, 424, 425, 730, 734},
                                            minute \in {0, 14, 1110, 1439}}
\* Summer time until the morning of 3 November 2024.
Autumn == 1440 * (8401 + 672) + 360
Eastern == [Zone(-300) EXCEPT !.from = 1440 * (8401 + 434) + 420, !.until = Autumn, !.summer = -240]
AutumnInstants == {Autumn + i * 360 : i \in -8 .. 8}

Buckets == {[custom |-> FALSE, unit |-> u, every |-> 0, zone |-> z] :
              u \in Units \cup {"quarter", "year"}, z \in {Zone(0), Zone(360), [Zone(0) EXCEPT !.valid = FALSE]}}
           \cup {[custom |-> FALSE, unit |-> u, every |-> 0, zone |-> Eastern] : u \in {"day", "week", "month"}}
           \cup {[custom |-> TRUE, unit |-> u, every |-> n, zone |-> z] :
                   u \in Units, n \in {0, 1, 2, 15}, z \in {Zone(0), Zone(360)}}
PickBucket == Pick("bucket", Buckets)

\* The first minute of the period a local time is in.
PeriodStart(unit, t) ==
  LET day == DayOf(t)
      firstOf(months) == CHOOSE d \in {FirstOfMonth(YearOf(day), m) : m \in months} :
                           /\ d <= day
                           /\ \A m \in months : FirstOfMonth(YearOf(day), m) <= day => FirstOfMonth(YearOf(day), m) <= d
  IN CASE unit = "minute" -> t
       [] unit = "hour"   -> t - (t % 60)
       [] unit = "day"    -> 1440 * day
       [] unit = "week"   -> 1440 * (day - ((day + 5) % 7))
       [] unit = "month"  -> 1440 * firstOf(1 .. 12)
       [] unit = "quarter" -> 1440 * firstOf({1, 4, 7, 10})
       [] unit = "year"   -> 1440 * FirstOfYear(YearOf(day))
SortsBefore(p, q) == \E i \in DOMAIN p : p[i] < q[i] /\ \A j \in 1 .. i - 1 : p[j] = q[j]

-----------------------------------------------------------------------------
(* Pages                                                                    *)

Config(maxLimit) == [defaultLimit |-> 2, maxLimit |-> maxLimit, maxPage |-> 10]
Places == <<<<0, 0>>, <<2, 0>>, <<0, 3>>, <<1, 0>>, <<4, 0>>>>
RowsAt == {[i \in 1 .. n |-> [id |-> i, at |-> Places[i]]] : n \in 0 .. 5}
Asked == [geo : {NoGeo} \cup {ParseGeo(op, coords) : op \in {"near", "withinRadius"},
                                 coords \in {<<0, 0, 2>>, <<0, 0>>, <<181, 0, 2>>}}
                \cup {ParseGeo("geoWithin", <<0, 0, 2, 2>>), ParseGeo("geoWithin", <<2, 2, 0, 0>>)},
          sort : {"", "-createdAt", "name"}, mode : {"", "offset", "keyset"},
          page : {0, 1}, after : {0}, limit : {0, 1, 3, 4},
          strategy : {"", "exact", "estimated", "none"}, maxLimit : {0, 3}]

\* The request for the page an answer points to.
Following(req, answer) == IF answer.method = "offset" THEN [req EXCEPT !.page = answer.next]
                          ELSE [req EXCEPT !.after = answer.next]

RECURSIVE Walk(_, _, _)
Walk(req, rows, fuel) ==
  LET answer == GetAll(req, rows, Config(req.maxLimit))
  IN answer.data \o (IF answer.more /\ fuel > 0 THEN Walk(Following(req, answer), rows, fuel - 1)
                     ELSE <<>>)

PickPage == Pick("page", Asked)

\* Groups, as the tuples they are sorted by.
Directions == [1 .. 2 -> {1, -1}]
Sorted(tuples, dirs) == SortSeq(SetToSeq(tuples), LAMBDA x, y : AfterTuple(dirs, y, x))
PickGroups == Pick("groups", [tuples : SUBSET ((1 .. 2) \X (1 .. 3)), dirs : Directions, limit : 0 .. 2])

RECURSIVE WalkGroups(_, _, _, _)
WalkGroups(rows, dirs, cursor, limit) ==
  LET answer == GroupsAfter(rows, dirs, cursor, AggregateLimit(limit))
  IN answer.data \o (IF answer.more THEN WalkGroups(rows, dirs, Last(answer.data), limit) ELSE <<>>)

\* By page number, with the two counts or in one $facet.
RECURSIVE WalkGroupPages(_, _, _, _, _)
WalkGroupPages(rows, page, limit, strategy, facet) ==
  LET answer == IF facet THEN FacetPage(rows, ValidPage(page), limit, strategy)
                ELSE GroupsPage(rows, Len(rows), page, limit, strategy)
  IN answer.data
     \o (IF answer.more THEN WalkGroupPages(rows, answer.next, limit, strategy, facet) ELSE <<>>)

RECURSIVE WalkActionPages(_, _, _)
WalkActionPages(rows, page, limit) ==
  LET answer == ActionPage(rows, page, limit)
  IN answer.data \o (IF answer.more THEN WalkActionPages(rows, answer.next, limit) ELSE <<>>)

\* Searches.
Word == {<<"a">>, <<".">>, <<"a", "*">>}
Eq(f, text) == Node("$regex", f, EscapeText(text), <<>>)
Callers == {Keyed(<<>>), Keyed(<<Eq("p", <<"a">>)>>),
            Keyed(<<Tree("$or", <<Eq("p", <<"b">>), Eq("q", <<"b">>)>>)>>),
            Keyed(<<Tree("$and", <<Eq("p", <<"a", "b">>)>>),
                    Tree("$or", <<Eq("p", <<"b">>), Eq("q", <<"b">>)>>)>>)}
Repos == [searchMode : {"auto", "regex", "text"}, textIndex : BOOLEAN,
          searchFields : {<<>>, <<"p">>, <<"p", "q">>}]
PickSearch == Pick("search", [q : Callers, word : Word \cup {<<>>}, repo : Repos])
ByText(repo, word) == word # <<>> /\ SearchMode(repo) = "text"
Within(word, text) == \E i \in 0 .. Len(text) - Len(word) : SubSeq(text, i + 1, i + Len(word)) = word

\* Indexes and sorts on three fields.
SortKeys(dirs, n) == {k \in UNION {[1 .. i -> [field : {"a", "b", "c"}, dir : dirs]] : i \in 1 .. n} :
                    Cardinality(FieldsOf(k)) = Len(k)}
Indexes == SortKeys({1, -1}, 3) \cup SortKeys({0, 1}, 2)
PickIndex == Pick("index", [equal : SUBSET {"a", "b", "c"}, ranges : SUBSET {"c"}, sort : SortKeys({1, -1}, 2)])

-----------------------------------------------------------------------------
(* Lookups                                                                  *)

Look(single, coerce, where, select, pipeline, variables) ==
  [fields |-> TRUE, as |-> "dept", single |-> single, coerce |-> coerce, where |-> where,
   select |-> select, pipeline |-> pipeline, piped |-> pipeline # << >>, variables |-> variables]
Keeps(fields) == [i \in DOMAIN fields |-> [field |-> fields[i], keep |-> TRUE]]
Omits(fields) == [i \in DOMAIN fields |-> [field |-> fields[i], keep |-> FALSE]]

Rank1 == Leaf("gt", "size", n1)
Lookups1 == {Look(single, coerce, where, select, pipeline, variables) :
               single \in BOOLEAN, coerce \in BOOLEAN, where \in {Everything, Rank1},
               select \in {<<>>, Keeps(<<"code">>)}, variables \in BOOLEAN,
               pipeline \in {<<>>, <<Stage("$match", Leaf("$eq", "size", n2)), Stage("$out", AllRows)>>}}

Refs == {Val("string", 1), Val("objectId", 1), Val("objectId", 2), Val("string", 5)}
Other(code, size) == [code |-> code, size |-> size]
Unique == {<<>>, <<Other(Val("objectId", 1), n1)>>,
           <<Other(Val("objectId", 2), n2), Other(Val("string", 1), n2), Other(Null, n2)>>}
Shared == Unique \cup {<<Other(Val("objectId", 1), n1), Other(Val("objectId", 1), n2)>>}
Left(id, rank, ref) == [f \in {"_id", "rank", "ref"} |->
                          CASE f = "_id" -> id [] f = "rank" -> rank [] f = "ref" -> ref]
LeftRows == {<<Left(1, 1, Val("string", 1)), Left(2, 1, Val("objectId", 1)), Left(3, 2, Val("objectId", 2))>>,
             <<Left(1, 1, Val("objectId", 2)), Left(2, 2, Val("string", 5))>>}

PickLookup == Pick("lookup", Lookups1)
PickUnpaired == Pick("unpaired", {[l EXCEPT !.fields = FALSE] : l \in Lookups1})
PickPopulate == Pick("populate",
  [lookups : LET plain == {x \in Lookups1 : x.pipeline = << >> /\ ~x.variables}
             IN {<<l>> : l \in plain} \cup {[i \in 1 .. 11 |-> CHOOSE l \in plain : TRUE]},
   select : {<<>>, Keeps(<<"ref">>), Keeps(<<"rank", "dept">>), Omits(<<"ref">>)},
   sorted : BOOLEAN, page : {0, 1}, limit : {1, 2}, strategy : {"exact", "none"}, after : {NoCursor}])

RECURSIVE WalkPopulated(_, _, _, _)
WalkPopulated(req, rows, others, fuel) ==
  LET answer == LookupPopulate(req, rows, others)
  IN answer.data \o
     (IF answer.more /\ fuel > 0
      THEN WalkPopulated(IF answer.keyset THEN [req EXCEPT !.after = answer.after]
                         ELSE [req EXCEPT !.page = Max({1, @}) + 1], rows, others, fuel - 1)
      ELSE <<>>)

-----------------------------------------------------------------------------
(* Query strings                                                            *)

Settings(throws, searchFields, sorts) ==
  [throws |-> throws, fields |-> {"a", "w", "u", "s"}, operators |-> (OperatorMap \ {"nin"}) \cup {"between"},
   searchFields |-> searchFields, maxSearchLength |-> 3, maxRegexLength |-> 3, maxLimit |-> 50,
   sortsListed |-> sorts # {}, sorts |-> sorts, collectionsListed |-> TRUE, collections |-> {"depts"}]

By(form, field, op, vs) == Param(form, field, op, vs, <<>>)
LikeIt(form, text) == Param(form, "s", "like", <<>>, text)
s4 == Val("string", 4)
junk == Val("string", 5)
Params == {By("direct", f, "is", <<s1>>) : f \in {"a", "u", "z"}}
          \cup UNION {{By(form, "a", "gte", <<s1>>), By(form, "a", "lt", <<s2>>), By(form, "a", "ne", <<s1>>),
                      By(form, "a", "in", <<s1, s3>>), By(form, "a", "nin", <<s1>>), By(form, "a", "gte", <<>>),
                      By(form, "u", "gte", <<s3>>), By(form, "w", "lte", <<s3>>), By(form, "w", "eq", <<s3>>),
                      By(form, "w", "between", <<s3, s4>>), By(form, "w", "between", <<junk, junk>>),
                      LikeIt(form, <<"a">>), LikeIt(form, <<"a", "+", "+">>),
                      Param(form, "s", "regex", <<>>, <<"+">>)} : form \in {"flat", "nested"}}
InBranches == {p \in Params : p.form = "flat" /\ p.op # "between"}

Query(params, alternatives, search, cfg) ==
  [params |-> params, alternatives |-> alternatives, search |-> search, cfg |-> cfg, sort |-> <<>>,
   page |-> -1, limit |-> -1, lookups |-> <<>>, populate |-> <<>>, match |-> AllRows]

\* A field is given once, or by comparisons of several kinds.
Together(p, q) == p.field # q.field \/ (p.op # q.op /\ {p.op, q.op} \subseteq {"gte", "lt", "lte", "ne", "in", "nin"})
Queries ==
  {Query(params, <<>>, <<>>, Settings(throws, <<>>, {})) : throws \in BOOLEAN,
     params \in {<<p>> : p \in Params} \cup {<<x[1], x[2]>> : x \in {y \in Params \X Params : Together(y[1], y[2])}}}
  \cup {Query(<<By("flat", "a", "gte", <<s1>>)>>, <<<<p>>, <<q>>>>, search, Settings(throws, <<"s">>, {})) :
          throws \in BOOLEAN, p \in InBranches, q \in InBranches, search \in {<<>>, <<"a">>, <<"a", "+", "+", "+">>}}
  \cup {[Query(<<>>, <<>>, <<>>, Settings(throws, <<>>, sorts)) EXCEPT !.sort = sort, !.limit = limit,
            !.cfg.maxLimit = maxLimit, !.lookups = lookups, !.populate = populate] :
          throws \in BOOLEAN, sorts \in {{}, {"name"}, {"name", "createdAt"}}, limit \in {-1, 0, 1, 60}, maxLimit \in {10, 50},
          sort \in {<<>>, <<[field |-> "name", dir |-> 1]>>, <<[field |-> "age", dir |-> 1]>>},
          lookups \in {<<>>, <<[from |-> "depts", fields |-> TRUE, stages |-> <<"$out", "$match">>]>>,
                       <<[from |-> "users", fields |-> TRUE, stages |-> <<>>]>>},
          populate \in {<<>>, [i \in 1 .. 8 |-> i]}}

\* A $match of an aggregation or a joined pipeline.
Harmless == {Keyed(<<Leaf("$eq", "a", n1)>>), Keyed(<<Leaf("$ne", "a", n2)>>)}
Harm == Keyed(<<Leaf("$where", "", Null)>>)
MatchQueries ==
  {[Query(<<>>, <<>>, <<>>, Settings(throws, <<>>, {})) EXCEPT
      !.match = Keyed(<<Leaf("$eq", "w", d3), Tree(op, <<x, y>>)>>)] :
     throws \in BOOLEAN, op \in {"$and", "$or"}, x \in Harmless \cup {Harm}, y \in Harmless}

UrlDocuments == [a : {Null, n1, n2}, w : {d3, d4}, u : {n1, s3}, s : {<<"a">>, <<"b">>, <<"a", "+", "+">>, <<"+">>}]

PickQuery == Pick("query", Queries)
PickMatch == Pick("match", MatchQueries)

\* What a parameter says of a document, and what is left of a request.
Says(p, d) ==
  LET x == d[p.field]
      type == IF TypeOf[p.field] = "none" THEN "number" ELSE TypeOf[p.field]
      vs == [i \in DOMAIN p.vs |-> CastTo(type, p.vs[i])]
  IN CASE p.op \in {"is", "eq"} -> x = vs[1]
       [] p.op = "ne" -> x # vs[1]
       [] p.op \in {"in"} -> \E i \in DOMAIN vs : x = vs[i]
       [] p.op \in Comparisons -> Ordered(p.op, x, vs[1])
       [] p.op = "between" -> vs[1] = junk \/ (Ordered("gte", x, vs[1]) /\ Ordered("lte", x, vs[2]))
       [] p.op \in {"like", "regex"} -> Within(p.text, x)

Good(params, cfg) == SelectSeq(params, LAMBDA p : ~Refuses(p, cfg) /\ ~Ignored(p))
AllSay(params, d) == \A i \in DOMAIN params : Says(params[i], d)

Wanted(req, d) ==
  LET branches == SelectSeq([i \in DOMAIN req.alternatives |-> Good(req.alternatives[i], req.cfg)],
                            LAMBDA b : b # <<>>)
  IN /\ AllSay(Good(req.params, req.cfg), d)
     /\ branches = <<>> \/ \E i \in DOMAIN branches : AllSay(branches[i], d)
     /\ req.search = <<>> \/ Within(SubSeq(req.search, 1, Min({3, Len(req.search)})), d.s)

-----------------------------------------------------------------------------
(* Bodies and their schemas                                                 *)

Str(v) == Json("string", v, <<>>)
One    == Json("number", "1", <<>>)
Member(n, v) == [name |-> n, value |-> v]
Arr(vs) == Json("array", "", [i \in DOMAIN vs |-> Member("", vs[i])])
Obj(members) == Json("object", "", members)

Field(n, type) == [name |-> n, type |-> type]
Must(type)     == [type EXCEPT !.required = TRUE]
OrNull(type)    == [type EXCEPT !.dflt = "null"]
Colour  == [Declared("String") EXCEPT !.among = {"red"}]
Hidden  == [Declared("Number") EXCEPT !.within = {{"1"}}]
Parts   == <<Field("_id", Declared("ObjectId")), Field("name", Must(Declared("String"))),
             Field("at", OrNull(Declared("Date")))>>
Sub     == [Declared("Schema") EXCEPT !.parts = Parts]
Group(parts) == [Declared("Nested") EXCEPT !.parts = parts]
Listing(type, caster) == [Declared("Array") EXCEPT !.of = <<type>>, !.caster = caster]
MapOf(type) == [Declared("Map") EXCEPT !.of = <<type>>]
Inline(parts) == [Declared("Tree") EXCEPT !.parts = parts, !.typed = FALSE]
Lowered == [Declared("String") EXCEPT !.cased = {"lower"}]
Limited == [Declared("String") EXCEPT !.match = {{"red", "RED"}}]
Worded  == {Lowered, [Lowered EXCEPT !.cased = {"lower", "upper"}], [Lowered EXCEPT !.within = {{"red"}}],
            Limited, [Limited EXCEPT !.cased = {"upper"}],
            [Limited EXCEPT !.newer = {{"hex", "RED"}}], [Colour EXCEPT !.wrapped = TRUE]}
LeafTypes == {Declared(k) : k \in {"String", "Number", "Boolean", "Date", "ObjectId", "Mixed"}} \cup {Colour, Hidden}
FieldTypes ==
  LeafTypes \cup {OrNull(t) : t \in LeafTypes} \cup {Sub, Group(Parts), Declared("Map"), Declared("Array")}
  \cup {Listing(t, caster) : t \in LeafTypes \cup {Sub}, caster \in BOOLEAN}
  \cup {OrNull(Listing(Declared("String"), FALSE)), Listing(Declared("Object"), FALSE), MapOf(Inline(Parts)),
         Listing(MapOf(Colour), FALSE), Listing(Listing([Sub EXCEPT !.typed = FALSE], FALSE), FALSE),
         Listing(Listing(Sub, FALSE), FALSE), Listing(Listing(Inline(Parts), FALSE), FALSE)}
  \cup {MapOf(t) : t \in LeafTypes}
  \cup Worded \cup {Listing(t, caster) : t \in Worded, caster \in BOOLEAN} \cup {MapOf(t) : t \in Worded}
  \cup {Listing([Declared("Object") EXCEPT !.parts = <<Parts[2]>>], FALSE), Group(<<Field("name", Must(Lowered))>>)}
  \cup {Group(<<Field("name", Declared("String")), Field("deep", Group(Parts))>>),
         [Declared("Point") EXCEPT !.own = <<ListOf(OfType("number"))>>]}

Rules == [softRequired |-> {}, systemManaged |-> {}, immutable |-> {}, optional |-> {}, hidden |-> {},
          createOmit |-> {}, updateOmit |-> {}, responseOmit |-> {}, requiredOverrides |-> {},
          optionalOverrides |-> {}, overrides |-> <<>>, strict |-> FALSE, requireAtLeastOne |-> FALSE,
          filterable |-> {"code"}]
RuleSets == {Rules, [Rules EXCEPT !.strict = TRUE, !.immutable = {"tag"}, !.requireAtLeastOne = TRUE],
             [Rules EXCEPT !.strict = TRUE, !.systemManaged = {"tag"}, !.hidden = {"x"}],
             [Rules EXCEPT !.softRequired = {"x"}, !.optional = {"tag"}, !.updateOmit = {"x"}],
             [Rules EXCEPT !.strict = TRUE, !.createOmit = {"x"}, !.responseOmit = {"tag"}],
             [Rules EXCEPT !.requiredOverrides = {"x"}, !.optionalOverrides = {"tag"}],
             [Rules EXCEPT !.strict = TRUE, !.overrides = <<[name |-> "tag", schema |-> Text({{"red"}})]>>]}
Models == {<<Field("_id", id), Field("__v", Declared("Number")), Field("x", x), Field("tag", tag)>> :
             id \in {Declared("ObjectId"), Declared("String")}, x \in FieldTypes \cup {Must(t) : t \in FieldTypes},
             tag \in {Must(Declared("String")), OrNull(Must(Colour)), [Must(Colour) EXCEPT !.soft = TRUE]}}
Named  == Member("name", Str("red"))
BodyValues == <<Str("red"), Str("RED"), Str("hex"), Str("date"), One, Json("number", "9", <<>>), Json("boolean", "true", <<>>),
             JsonNull, Arr(<<>>), Arr(<<Str("red"), Str("hex")>>), Arr(<<Str("RED")>>), Arr(<<One>>), Arr(<<JsonNull>>), Obj(<<>>),
             Obj(<<Named>>), Obj(<<Member("name", Str("RED"))>>), Obj(<<Named, Member("at", Str("hex"))>>), Obj(<<Member("deep", Obj(<<Named>>))>>),
             Arr(<<Obj(<<Named>>), Obj(<<Named, Member("at", JsonNull)>>)>>), Arr(<<Arr(<<Obj(<<>>)>>)>>),
             Arr(<<Obj(<<Named, Member("at", Str("red"))>>)>>), Arr(<<Arr(<<Obj(<<Named>>)>>)>>)>>
Maybe(n, values) == {<<>>} \cup {<<Member(n, values[i])>> : i \in DOMAIN values}
Bodies == {Obj(x \o tag \o other) : x \in Maybe("x", BodyValues), tag \in Maybe("tag", <<Str("red"), JsonNull, One>>),
                                     other \in Maybe("other", <<One>>)}

PickBody == Pick("body", [fields : Models, opts : RuleSets])

\* Inline definitions are known to be read in another way than paths: plain objects are
\* not looked into, a change of case refuses what Mongoose would change, and newer limits
\* and a wrapped enum are not read.
Unlike(type) ==
  \/ type.kind \in {"Tree", "Object"} \/ (type.kind = "Schema" /\ type.typed)
  \/ type.kind = "String" /\ (type.cased # {} \/ type.newer # {} \/ type.wrapped)
TakesText(type, a) == /\ \A ok \in type.within \cup type.match \cup type.newer : a \in ok
                      /\ type.among = {} \/ a \in type.among

\* What a declared type takes.  Null is a value where it is the default.  Of an inline
\* definition of the kind above, what it takes at least, a text that is of its case
\* already, and at most.
RECURSIVE Fits(_, _, _, _)
Fits(type, v, inline, most) ==
  LET whole == \A i \in DOMAIN type.parts :
                 LET n == type.parts[i].name
                 IN /\ n \in Members(v) => \/ type.parts[i].type.kind = "ObjectId"
                                          \/ Fits(type.parts[i].type, At(v, n), FALSE, most)
                    /\ n \notin Members(v) => ~type.parts[i].type.required
      asPath(t) == ~inline /\ type.kind = "Array" /\ (type.caster \/ t.kind = "Schema")
      each == \A i \in DOMAIN v.kids, j \in DOMAIN type.of :
                Fits(type.of[j], v.kids[i].value, ~asPath(type.of[j]), most)
      reads == type.newer = {} /\ ~type.wrapped
  IN CASE inline /\ Unlike(type) /\ type.kind = "String" ->
            /\ v.t = "string"
            /\ (most /\ ~reads) \/ TakesText(type, v.v)
            /\ most \/ \A case \in type.cased : v.v \in AllOf(case)
       [] inline /\ Unlike(type) /\ type.kind # "String" -> v.t = "object" /\ (most \/ type.kind = "Object" \/ whole)
       [] type.kind = "Mixed" -> TRUE
       [] type.kind = "Point" -> v.t = "array" /\ \A i \in DOMAIN v.kids : v.kids[i].value.t = "number"
       [] OTHER ->
            CASE v.t = "null" -> type.dflt = "null"
              [] v.t = "string" -> \/ type.kind = "String" /\ TakesText(type, v.v)
                                   \/ type.kind = "Date" /\ v.v = "date"
                                   \/ type.kind = "ObjectId" /\ v.v = "hex"
              [] v.t = "number"  -> type.kind = "Number" /\ TakesText(type, v.v)
              [] v.t = "boolean" -> type.kind = "Boolean"
              [] v.t = "array"   -> type.kind = "Array" /\ IF type.of # <<>> THEN each
                                      ELSE \A i \in DOMAIN v.kids : v.kids[i].value.t = "object"
              [] v.t = "object"  -> \/ type.kind \in {"Schema", "Nested"} /\ whole
                                    \/ type.kind = "Map" /\ each

-----------------------------------------------------------------------------
(* What has to hold                                                         *)

\* Compiling a filter keeps what it means.  A tree selects the same documents as a
\* query and, where the values have the type of the operands, as an expression; a
\* LIKE pattern matches the same texts as the regular expression made of it; and
\* a record of parameters holds of a document whose fields have their declared
\* types exactly when the parameters, read as values of those types, do: the
\* dates of a range are dates on date columns only.
QueryMeansFilter ==
  /\ family = "tree" =>
       \A d \in Documents :
         /\ Matches(Compile(picked), d) = Selects(picked, d)
         /\ (Typed(picked) /\ {d["a"], d["b"]} \subseteq {n1, n2}) =>
              Holds(CompileExpr(picked), d) = Selects(picked, d)
  /\ family = "like" =>
       \A text \in Texts({"a", "%", "\\", "."}, 3) :
         Matches(Compile(picked), [s |-> text]) = Selects(picked, [s |-> text])
  /\ family = "record" =>
       \A d \in TypedDocuments : Matches(MatchStage(picked), d) = Reads(picked, d)

\* The stages an aggregation is compiled to keep what was asked.  The filter, split in
\* a part before the joins and one behind them, passes the rows the whole filter
\* selects, in the tenant of the policy; a measure with a filter of its own is the
\* measure of the rows that pass it; and the total of a page of groups, which is
\* counted by a shorter pipeline of its own, is the number of groups there are (but for
\* topN, which only the whole pipeline knows of).  topN leaves no partition without
\* its best group.  The helpers count, sum and compare the rows their query matches.
\* Two dates are in one group exactly when they are in one period of the calendar of the
\* zone, and labels sort as periods do; a bin never splits a period
\* of its unit, and bins of one are the periods (weeks excepted: README, "Seen while
\* modelling").
AggregateMeansRequest ==
  /\ family = "filtered" =>
       \A d \in AggregateDocuments :
         Passes(picked, d) = (/\ Matches(picked.scope, d)
                             /\ IF picked.portable THEN Selects(picked.filter, d)
                                ELSE Matches(picked.filter, d))
  /\ family = "counted" =>
       \A rows \in Samples :
         ValidTopN(picked) =>
         /\ (picked.topN = NoTop \/ NeedsPipeline(picked)) =>
              CountGroups(picked, rows) = Cardinality(Rows(picked, rows))
         /\ \A g \in Grouped(picked, rows) :
              \E h \in Rows(picked, rows) :
                 h.n >= g.n /\ \A f \in picked.topN.by : h.key[f] = g.key[f]
  /\ family = "measure" =>
       \A rows \in Samples : Measured(picked, rows) = Means(picked, rows)
  /\ family = "helper" =>
       \A rows \in HelperSamples :
         LET chosen  == SelectSeq(rows, LAMBDA d : Matches(picked.query, d))
             numbers == SelectSeq([i \in DOMAIN chosen |-> chosen[i].x], LAMBDA v : ~IsNull(v))
             times(v) == Len(SelectSeq(chosen, LAMBDA d : d.x = v \/ (IsNull(v) /\ IsNull(d.x))))
             groups  == CountBy("x", picked.query, rows, picked.limit)
             all     == CountBy("x", picked.query, rows, 0)
             extreme(v) == IF picked.op = "min" THEN \A i \in DOMAIN numbers : v <= numbers[i].v
                           ELSE \A i \in DOMAIN numbers : v >= numbers[i].v
             helped  == HelperOf(picked.op, "x", picked.query, rows)
             sums    == <<FoldSeq(LAMBDA v, sum : sum + v.v, 0, numbers), Len(numbers)>>
         IN /\ picked.op \in {"sum", "average"} =>
                 helped = IF picked.op = "average" /\ numbers # <<>> THEN sums ELSE <<sums[1]>>
            /\ (picked.op \in {"min", "max"} /\ numbers # <<>>) =>
                 /\ extreme(helped[1]) /\ Val("number", helped[1]) \in ToSet(numbers)
                 /\ MinMax("x", picked.query, rows)[picked.op] = helped
            /\ IsPrefix(groups, all) /\ (picked.limit > 0 => Len(groups) <= picked.limit)
            /\ \A i \in DOMAIN all : /\ all[i].n = times(all[i].id)
                                      /\ \A j \in 1 .. i - 1 : all[j].n >= all[i].n /\ all[j].id # all[i].id
            /\ {all[i].id : i \in DOMAIN all} \cup {Null}
               = {GroupId(v) : v \in Distinct("x", picked.query, rows)} \cup {Null}
  /\ (family = "bucket" /\ ~BucketRefused(picked)) =>
       LET dated == {[at |-> t, label |-> CompileDateBucket(picked, t),
                      start |-> PeriodStart(picked.unit, Local(picked.zone, t)),
                      named |-> CompileDateBucket([picked EXCEPT !.custom = FALSE], t)] :
                       t \in IF picked.zone = Eastern THEN AutumnInstants ELSE Instants}
       IN \A p, q \in dated :
            IF picked.custom
            THEN /\ p.start = q.start => p.label = q.label \/ picked.unit = "week"
                 /\ p.at < q.at => ~SortsBefore(q.label, p.label)
                 /\ (picked.every = 1 /\ picked.unit # "week") => p.label = p.named
            ELSE /\ p.start = q.start <=> p.label = q.label
                 /\ p.start < q.start => SortsBefore(p.label, q.label)

\* The pages of an answer, followed from one to the next, are the rows of the request,
\* every row once and in order, whatever mode, limit and count the request ends up
\* with; the total a near filter is counted by is the number of rows it finds; no page
\* is longer than the limit allows.  The same goes for pages of groups, where no two
\* have one sort tuple.  A search keeps the caller's filter, and finds the word as it
\* is written; and an index the engine is content with gives the rows in the order of
\* the walk.
PagesPartition ==
  /\ family = "page" =>
       \A rows \in RowsAt :
         LET answer == GetAll(picked, rows, Config(picked.maxLimit))
             found  == Found(picked.geo, rows)
         IN answer # Refused =>
              /\ Walk(picked, rows, 6) = found
              /\ answer.total > 0 => answer.total = Len(found)
              /\ answer.pages > 0 => (answer.pages > 1 <=> answer.more)
              /\ picked.maxLimit > 0 => Len(answer.data) <= picked.maxLimit
              /\ picked.limit > 0 => Len(answer.data) <= picked.limit
  /\ family = "groups" =>
       LET rows == Sorted(picked.tuples, picked.dirs)
       IN /\ WalkGroups(rows, picked.dirs, <<>>, picked.limit) = rows
          /\ \A strategy \in {"exact", "none"}, facet \in BOOLEAN :
               WalkGroupPages(rows, 0, AggregateLimit(picked.limit), strategy, facet) = rows
          /\ WalkActionPages(rows, 0, picked.limit) = rows
  /\ (family = "search" /\ ~SearchRefused(picked.repo) /\ ~ByText(picked.repo, picked.word)) =>
       \A p, q \in Texts({"a", "b", ".", "*"}, 2) :
         LET d == [p |-> p, q |-> q]
         IN Matches(SearchQuery(picked.repo, picked.q, picked.word), d)
            = (/\ Matches(picked.q, d)
               /\ picked.word = <<>> \/ \E f \in ToSet(picked.repo.searchFields) : Within(picked.word, d[f]))
  /\ family = "index" =>
       \A index \in Indexes :
         LET serves(fields) == Serves(index, fields, picked.sort, [{"a", "b", "c"} -> {0, 1}])
         IN ~Advised({index}, picked.equal, picked.ranges, picked.sort) =>
              serves(picked.equal \cup picked.ranges) \/ serves(picked.equal)

\* A lookup joins the rows whose field has the value of the local one (a value of
\* the type it is coerced to, where it is), of those the rows its filter and its
\* pipeline let pass, whichever form of $lookup its options lead to; a value that is
\* null is compared differently by the forms, and left out here.  Without a pair of
\* fields only a pipeline is joined by.  The pages of a
\* populated list are the whole list, with its joined fields, row by row: a page is
\* cut before the joins and its cursor read behind them.
JoinMeansLookup ==
  /\ family = "lookup" =>
       \A others \in Shared, ref \in Refs :
         LET d == Left(1, 1, ref)
             joined == JoinedTo(Multiple(picked), d, others, <<>>)
             coerced == IF picked.coerce THEN Val("objectId", ref.v) ELSE ref
         IN /\ joined = SelectSeq(others, LAMBDA o :
                             /\ o.code = coerced /\ Selects(picked.where, o)
                             /\ picked.pipeline = << >> \/ o.size = n2)
            /\ (picked.where = Everything /\ ~picked.variables) =>
                 /\ JoinedTo(Nested(picked), d, others, <<>>) = joined
                 /\ ~picked.coerce => JoinedTo(LookupWithPipeline(picked), d, others, <<>>) = joined
                 /\ (~picked.coerce /\ ~picked.piped) =>
                      JoinedTo(SimpleLookup(picked), d, others, <<>>) = joined
  /\ (family = "unpaired" /\ ~Invalid(Builder(picked, picked.pipeline, picked.piped, picked.variables))) =>
       \A others \in Shared, ref \in Refs :
         JoinedTo(Nested(picked), Left(1, 1, ref), others, <<>>) = SelectSeq(others, LAMBDA o : o.size = n2)
  /\ (family = "populate" /\ ~TooMany(picked.lookups)) =>
       \A rows \in LeftRows, others \in Unique :
         LET whole == Populate(picked.lookups, PageProjection(picked), rows, others)
         IN /\ WalkPopulated(picked, rows, others, 4) = whole
            /\ \A i \in DOMAIN whole : "dept" \in DOMAIN whole[i]

\* A request of the URL that is answered selects the documents all its parameters
\* agree on, with one of its alternatives and the text it searches for: nothing is
\* lost on the way to the filter, in any of the forms a parameter has, and what a
\* dropping parser leaves out does not make a branch that holds of everything.  The
\* default sort is never the reason of a refusal; the limit, the sort and the joins are
\* those the parser is set up to allow.
QueryMeansRequest ==
  /\ (family = "query" /\ Answers(picked, picked.cfg)) =>
       /\ \A d \in UrlDocuments : Matches(Filter(picked, picked.cfg), d) = Wanted(picked, d)
       /\ picked.cfg.throws => /\ ParsePopulate(picked.populate) = picked.populate
                               /\ ParseSort(EffectiveSort(picked, picked.cfg), picked.cfg)
                                  = EffectiveSort(picked, picked.cfg)
       /\ ParseLimit(picked, picked.cfg) \in 1 .. picked.cfg.maxLimit
       /\ \A i \in DOMAIN ParseLookups(picked.lookups, picked.cfg) :
            LET l == ParseLookups(picked.lookups, picked.cfg)[i]
            IN l.from = "depts" /\ "$out" \notin ToSet(l.stages)
  /\ (family = "query" /\ Faulty(picked, picked.cfg)) =>
       Faulty([picked EXCEPT !.sort = <<[field |-> "name", dir |-> 1]>>], picked.cfg) \/ picked.sort # <<>>
  /\ (family = "match" /\ Answers(picked, picked.cfg)) =>
       LET q == picked.match.parts[2]
           clean == SelectSeq(q.parts, LAMBDA b : ~Harms(b))
       IN \A d \in UrlDocuments :
            Matches(SanitizeMatch(picked.match), d)
            = Matches(Keyed(<<picked.match.parts[1], Tree(q.op, clean)>>), d)

\* What the schemas of a model are to let pass and to refuse, on every small body: of
\* the fields a client may set, those given fit, and those nothing supplies are there.
BodiesAreJudged(fields, opts, paths, schemas) ==
  LET declared == ToSet(fields) \ {Field("__v", Declared("Number")), Field("_id", Declared("ObjectId"))}
      good(f, v, most) == IF opts.overrides # <<>> /\ f.name = "tag" THEN v = Str("red")
                          ELSE Fits(f.type, v, FALSE, most)
      fit(b, names, most) == \A f \in declared : f.name \in Members(b) \cap names => good(f, At(b, f.name), most)
      open(without) == {f.name : f \in declared} \ without
      created == open(opts.systemManaged \cup opts.createOmit)
      changed == created \ (opts.immutable \cup opts.updateOmit)
      supplied(f) == \/ f.name \in opts.optional
                     \/ f.type.kind # "Nested" /\ (f.type.dflt # "none" \/ f.type.soft \/ f.name \in opts.softRequired)
      must(f) == f.type.required \/ (f.type.kind = "Nested" /\ \E i \in DOMAIN f.type.parts : f.type.parts[i].type.required)
      needed  == (({f.name : f \in {g \in declared : must(g) /\ ~supplied(g)}} \cap created)
                    \cup opts.requiredOverrides) \ opts.optionalOverrides
      deep    == \E i \in DOMAIN paths : Len(paths[i].path) > 2
      welcome(b, most) == /\ fit(b, created, most) /\ needed \subseteq Members(b)
                          /\ opts.strict => Members(b) \subseteq created
      partial(b, most) == /\ fit(b, changed, most) /\ (opts.requireAtLeastOne => b.kids # <<>>)
                          /\ opts.strict => Members(b) \subseteq changed
  IN /\ \A b \in Bodies :
          LET filled == Filled(schemas.createBody, b)
          IN /\ welcome(b, FALSE) => Accepts(schemas.createBody, b) /\ Accepts(schemas.createBody, filled)
             /\ (Accepts(schemas.createBody, b) /\ ~deep) => welcome(b, TRUE)
             /\ partial(b, FALSE) => Accepts(schemas.updateBody, b)
             /\ (Accepts(schemas.updateBody, b) /\ ~deep) => partial(b, TRUE)
             /\ Filled(schemas.updateBody, b) = b
             /\ (welcome(b, FALSE) /\ fit(b, open({}), FALSE) /\ opts.overrides = <<>>
                  /\ Members(filled) \subseteq DOMAIN schemas.response.props \cup {"other"}) =>
                  Accepts(schemas.response, filled)
     /\ DOMAIN schemas.response.props \cap opts.hidden = {}


-----------------------------------------------------------------------------
Init == family = "none" /\ picked = AllRows
Next == PickTree \/ PickLike \/ PickRecord \/ PickFiltered \/ PickCounted \/ PickMeasure \/ PickHelper \/ PickBucket
        \/ PickPage \/ PickGroups \/ PickSearch \/ PickIndex
        \/ PickLookup \/ PickUnpaired \/ PickPopulate
        \/ PickQuery \/ PickMatch \/ PickBody
Spec == Init /\ [][Next]_vars
=============================================================================
