----------------------------- MODULE Aggregates -----------------------------
(***************************************************************************)
(* aggregate and aggregatePaginate: a request compiled to a pipeline       *)
(* (actions/aggregate-ir), with the filter split around the joins, and the *)
(* count of its groups, which takes shortcuts of its own.                  *)
(***************************************************************************)
EXTENDS Filters, FilterParts, FiniteSets, FiniteSetsExt

-----------------------------------------------------------------------------
(* splitFilterByAlias                                                       *)

RECURSIVE TreeRefers(_)
TreeRefers(f) == RefersNode(f, [i \in DOMAIN f.parts |-> TreeRefers(f.parts[i])])
SplitTree(f) == SplitNode(f, [i \in DOMAIN f.parts |-> TreeRefers(f.parts[i])])

\* buildAggPipeline, stages 1 to 2b: the request's filter is cast, split around the
\* joins, and compiled, before them with the schema, behind them without.
PassesRecord(q, joins, d) ==
  LET split == IF joins THEN SplitRecord(Cast(q)) ELSE [base |-> Cast(q), joined |-> AllRows]
  IN /\ Matches(CompileRecord(split.base, TRUE), Unjoined(d))
     /\ Matches(CompileRecord(split.joined, FALSE), d)

PassesTree(f, joins, d) ==
  LET split == IF joins THEN SplitTree(f) ELSE [base |-> f, joined |-> Everything]
  IN Matches(Compile(split.base), Unjoined(d)) /\ Matches(Compile(split.joined), d)

\* _injectPolicyScopeIntoAgg: scope and filter, compiled without the schema, are the
\* branches of one $and.
Scoped(scope, compiled) ==
  CASE scope = AllRows -> compiled
    [] compiled = AllRows -> CompileRecord(scope, FALSE)
    [] OTHER -> Tree("$and", <<CompileRecord(scope, FALSE), compiled>>)

\* A request's filter is a tree or a record; without a scope it goes as it is.
Passes(req, d) ==
  CASE req.scope = AllRows /\ req.portable  -> PassesTree(req.filter, req.joins, d)
    [] req.scope = AllRows /\ ~req.portable -> PassesRecord(req.filter, req.joins, d)
    [] req.scope # AllRows -> PassesRecord(
         Scoped(req.scope, IF req.portable THEN Compile(req.filter)
                           ELSE CompileRecord(req.filter, FALSE)), req.joins, d)

-----------------------------------------------------------------------------
(* Measures: compileMeasure                                                 *)

\* What a group's accumulator sees of a row: the $cond of the measure.
Fallback(op) == CASE op \in {"count", "sum"} -> Val("number", 0)
                  [] op = "countDistinct" -> Missing
                  [] OTHER -> Null

Counts(measure, d) == measure.field = "*" \/ d[measure.field] # Null

Operand(measure, d) ==
  IF ~Holds(CompileExpr(measure.where), d) THEN Fallback(measure.op)
  ELSE IF measure.op = "count" THEN Val("number", IF Counts(measure, d) THEN 1 ELSE 0)
  ELSE d[measure.field]

\* The server's accumulators.  All but the set pass over null and missing values:
\* the averages, extremes, deviations and percentiles are functions of the
\* numbers they are given, and are not told apart here.
Numbers(operands) == SelectSeq(operands, LAMBDA x : x.t = "number")
Total(operands) == FoldSeq(LAMBDA x, sum : sum + x.v, 0, Numbers(operands))

\* The value of the alias, with the $size of the set that follows the group.
Measured(measure, rows) ==
  LET operands == [i \in DOMAIN rows |-> Operand(measure, rows[i])]
  IN CASE measure.op \in {"count", "sum"} -> <<Total(operands)>>
       [] measure.op = "countDistinct" -> <<Cardinality(ToSet(operands) \ {Missing})>>
       [] OTHER -> [i \in DOMAIN Numbers(operands) |-> Numbers(operands)[i].v]

\* SQL's FILTER (WHERE ...) over the rows of a group.
Means(measure, rows) ==
  LET chosen == SelectSeq(rows, LAMBDA d : Selects(measure.where, d))
      values == [i \in DOMAIN chosen |-> IF measure.field = "*" THEN Val("number", 1)
                                         ELSE chosen[i][measure.field]]
      known  == SelectSeq(values, LAMBDA x : ~IsNull(x))
  IN CASE measure.op = "count" -> <<Len(known)>>
       [] measure.op = "sum"   -> <<FoldSeq(LAMBDA x, sum : sum + x.v, 0, known)>>
       [] measure.op = "countDistinct" -> <<Cardinality(ToSet(known))>>
       [] OTHER -> [i \in DOMAIN known |-> known[i].v]

-----------------------------------------------------------------------------
(* Groups                                                                   *)

\* The values of the group columns and buckets; $group tells null from missing.
KeyOf(req, d) == [f \in req.by |-> d[f]]

Kept(req, rows) == SelectSeq(rows, LAMBDA d : Passes(req, d))
Keys(req, rows) == {KeyOf(req, d) : d \in ToSet(Kept(req, rows))}
RowsOf(req, rows, key) == SelectSeq(Kept(req, rows), LAMBDA d : KeyOf(req, d) = key)

\* Output rows: the key and the count of the group.  HAVING compares the count.
Grouped(req, rows) ==
  {g \in {[key |-> k, n |-> Measured(req.measure, RowsOf(req, rows, k))[1]] : k \in Keys(req, rows)} :
     g.n >= req.having}

\* appendTopNStages.  A partition of several columns is keyed by its printed values.
Partition(req, g) == [f \in req.topN.by |->
                        IF Cardinality(req.topN.by) = 1 THEN g.key[f] ELSE Val("printed", g.key[f].v)]
Better(req, groups, g) == {h \in groups : Partition(req, h) = Partition(req, g) /\ h.n > g.n}
Rank(req, groups, g) == 1 + Cardinality(IF req.topN.ties = "dense_rank"
                                        THEN {h.n : h \in Better(req, groups, g)}
                                        ELSE Better(req, groups, g))

\* validateTopN.
ValidTopN(req) == req.topN.limit = 0 \/ req.topN.by \subseteq req.by

\* The rows before $sort, $skip and $limit.
Rows(req, rows) ==
  LET groups == Grouped(req, rows)
  IN IF req.topN.limit = 0 THEN groups
     ELSE {g \in groups : Rank(req, groups, g) <= req.topN.limit}

-----------------------------------------------------------------------------
(* countAggGroups                                                           *)

NeedsPipeline(req) == req.having > 0 \/ req.joins

\* A count of one for a scalar aggregation with a row, of the keys without the
\* measures, or of the pipeline.
CountGroups(req, rows) ==
  CASE NeedsPipeline(req) -> Cardinality(Rows(req, rows))
    [] ~NeedsPipeline(req) /\ req.by = {} -> Cardinality(1 .. (IF Kept(req, rows) = <<>> THEN 0 ELSE 1))
    [] ~NeedsPipeline(req) /\ req.by # {} -> Cardinality(Keys(req, rows))

-----------------------------------------------------------------------------
(* The helpers: actions/aggregate.ts, aggregateHelpersPlugin                *)

\* $group by one field has one group for null and missing.
GroupId(x) == IF IsNull(x) THEN Null ELSE x

\* $match, left out for an empty query.
Queried(query, rows) == SelectSeq(rows, LAMBDA d : Matches(query, d))

\* countBy, and groupBy with a limit (0: none): the most frequent values first.
CountBy(field, query, rows, limit) ==
  LET kept   == Queried(query, rows)
      ids    == [i \in DOMAIN kept |-> GroupId(kept[i][field])]
      groups == {[id |-> x, n |-> Cardinality({i \in DOMAIN ids : ids[i] = x})] : x \in ToSet(ids)}
      sorted == SortSeq(SetToSeq(groups), LAMBDA g, h : g.n > h.n)
  IN IF limit = 0 THEN sorted ELSE SubSeq(sorted, 1, Min({limit, Len(sorted)}))

\* sum, average, min and max of the plugin: one group of all the rows, or none, and
\* `|| 0` of its accumulator, which is null without a number.  An average is the
\* total and the number of the numbers.
HelperOf(op, field, query, rows) ==
  LET kept    == Queried(query, rows)
      numbers == Numbers([i \in DOMAIN kept |-> kept[i][field]])
      values  == {numbers[i].v : i \in DOMAIN numbers}
  IN IF numbers = <<>> THEN <<0>>
     ELSE CASE op = "sum"     -> <<Total(numbers)>>
            [] op = "average" -> <<Total(numbers), Len(numbers)>>
            [] op = "min"     -> <<Min(values)>>
            [] op = "max"     -> <<Max(values)>>

\* minMax: both extremes, or null.
MinMax(field, query, rows) ==
  IF \A d \in ToSet(Queried(query, rows)) : IsNull(d[field]) THEN [min |-> <<>>, max |-> <<>>]
  ELSE [min |-> HelperOf("min", field, query, rows), max |-> HelperOf("max", field, query, rows)]

\* The server's distinct passes over documents without the field.
Distinct(field, query, rows) ==
  {d[field] : d \in ToSet(Queried(query, rows))} \ {Missing}
=============================================================================
