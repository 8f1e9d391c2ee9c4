------------------------------- MODULE Lookups -------------------------------
(***************************************************************************)
(* Joins: the $lookup stages LookupBuilder makes of its options, the       *)
(* projection that follows them, and the pages of lookupPopulate, which    *)
(* joins the rows of a page after it has cut the page.                     *)
(***************************************************************************)
EXTENDS Filters, FilterParts, FiniteSets, FiniteSetsExt

-----------------------------------------------------------------------------
(* Values of the join fields                                                *)

\* localCorrelation: $convert, with null for what is no ObjectId.
LocalCorrelation(x, coerce) ==
  IF ~coerce THEN x
  ELSE IF x.t \in {"string", "objectId"} THEN Val("objectId", x.v) ELSE Null

\* The simple form compares as a query does, with null for a missing field; the
\* pipeline form as an expression does.
SimplyEqual(local, foreign) == Same(foreign, IF IsNull(local) THEN Null ELSE local)
ExpressionEqual(local, foreign) == local = foreign

-----------------------------------------------------------------------------
(* Selecting fields: compileSelectToProjection, buildLookupProjection       *)

\* A select names fields, each kept or left out; a later name counts.
ProjectionOf(select) ==
  [f \in {select[i].field : i \in DOMAIN select} |->
     select[Max({i \in DOMAIN select : select[i].field = f})].keep]

NoProjection == << >>
Inclusive(projection) == \E f \in DOMAIN projection : projection[f]

With(projection, fields) ==
  [f \in DOMAIN projection \cup fields |-> IF f \in fields THEN TRUE ELSE projection[f]]
WithMissing(projection, fields) == With(projection, fields \ DOMAIN projection)

\* Mutant of WithJoined: the projection keeps what it names, and no joined field.
ForgetsJoined(projection, lookups) == projection

\* An inclusion keeps the joined fields, too.
WithJoined(projection, lookups) ==
  IF Inclusive(projection) THEN WithMissing(projection, {lookups[i].as : i \in DOMAIN lookups})
  ELSE projection

BuildProjection(select, lookups) ==
  IF select = << >> THEN NoProjection ELSE WithJoined(ProjectionOf(select), lookups)

\* ensureLookupProjectionIncludesCursorFields, and its like in the engine.
WithCursor(projection, sort) ==
  IF Inclusive(projection) THEN With(projection, sort \cup {"_id"}) ELSE projection

\* The server: a projection that leaves out keeps the rest; _id stays unless left out.
FieldsKept(projection, d) ==
  IF projection = NoProjection THEN DOMAIN d
  ELSE IF Inclusive(projection)
  THEN {f \in DOMAIN d : IF f \in DOMAIN projection THEN projection[f] ELSE f = "_id"}
  ELSE {f \in DOMAIN d : f \in DOMAIN projection => projection[f]}
Project(projection, d) == [f \in FieldsKept(projection, d) |-> d[f]]

-----------------------------------------------------------------------------
(* Sanitizing: sanitizePipeline                                             *)

\* A stage is its operator and, for a $match, a filter.
Stage(op, filter) == [op |-> op, filter |-> filter]
Blocked == {"$out", "$merge", "$unionWith", "$collStats", "$currentOp", "$listSessions"}

RECURSIVE SanitizeDeep(_)
SanitizeDeep(q) == SanitizeDeepNode(q, [i \in DOMAIN q.parts |-> SanitizeDeep(q.parts[i])])

SanitizePipeline(stages) ==
  LET safe == SelectSeq(stages, LAMBDA s : s.op \notin Blocked)
  IN [i \in DOMAIN safe |-> IF safe[i].op = "$match"
                            THEN Stage("$match", SanitizeDeep(safe[i].filter)) ELSE safe[i]]

-----------------------------------------------------------------------------
(* LookupBuilder                                                            *)

\* What a $lookup does: whether it compares, how, and the stages that follow.
Built(compares, local, stages, lookup) ==
  [form |-> IF compares = "simple" THEN "simple" ELSE "pipeline", compares |-> compares,
   coerce |-> local, stages |-> stages, as |-> lookup.as, single |-> lookup.single]

\* build, of a builder: a pipeline of no stages is none.  Of the variables only
\* their being there matters.
Invalid(b) == ~b.fields /\ (b.coerce \/ b.pipeline = << >>)

\* A caller's pipeline is put behind a comparison, unless the caller brings variables.
Correlates(b) == b.pipeline = << >> \/ (b.fields /\ ~b.variables)

Build(b) ==
  IF ~(b.piped \/ b.variables \/ b.coerce) THEN Built("simple", FALSE, << >>, b)
  ELSE Built(IF Correlates(b) THEN "expression" ELSE "nothing", b.coerce,
             IF b.sanitize THEN SanitizePipeline(b.pipeline) ELSE b.pipeline, b)

Builder(l, pipeline, piped, variables) ==
  [fields |-> l.fields, as |-> l.as, single |-> l.single, coerce |-> l.coerce,
   pipeline |-> pipeline, piped |-> piped, variables |-> variables, sanitize |-> TRUE]

\* multiple: a select, a pipeline or a filter puts the comparison first in a pipeline
\* of its own, with its variable.
NeedsPipelineForm(l) == l.select # << >> \/ l.piped \/ Compile(l.where) # AllRows

Multiple(l) ==
  IF NeedsPipelineForm(l)
  THEN Built("expression", l.coerce,
             SanitizePipeline((IF Compile(l.where) = AllRows THEN << >>
                               ELSE <<Stage("$match", Compile(l.where))>>)
                              \o l.pipeline)
             \o (IF l.select = << >> THEN << >> ELSE <<Stage("$project", AllRows)>>), l)
  ELSE Build(Builder(l, << >>, FALSE, l.variables))

\* nested, lookupWithPipeline of the AggregationBuilder, and simple: the options as
\* they are.
Nested(l) == Build(Builder(l, l.pipeline, l.piped, l.variables))
LookupWithPipeline(l) == Nested([l EXCEPT !.coerce = FALSE])
SimpleLookup(l) == Built("simple", FALSE, << >>, l)

-----------------------------------------------------------------------------
(* What the server makes of the stages                                      *)

Meets(built, d, other) ==
  CASE built.compares = "simple"     -> SimplyEqual(d.ref, other.code)
    [] built.compares = "expression" -> ExpressionEqual(LocalCorrelation(d.ref, built.coerce), other.code)
    [] built.compares = "nothing"    -> TRUE

RunStage(stage, rows, select) ==
  CASE stage.op = "$match"   -> SelectSeq(rows, LAMBDA r : Matches(stage.filter, r))
    [] stage.op = "$project" -> [i \in DOMAIN rows |-> Project(ProjectionOf(select), rows[i])]
    [] stage.op = "$limit"   -> SubSeq(rows, 1, Min({1, Len(rows)}))
    [] OTHER -> rows

RECURSIVE RunStages(_, _, _)
RunStages(stages, rows, select) ==
  IF stages = << >> THEN rows
  ELSE RunStages(Tail(stages), RunStage(Head(stages), rows, select), select)

JoinedTo(built, d, others, select) ==
  RunStages(built.stages, SelectSeq(others, LAMBDA o : Meets(built, d, o)), select)

\* $unwind, with a row for every match and one for none; the field of a row without
\* a match is null by the $ifNull behind it.  An array of matches is a sequence.
Attach(d, as, value) == [f \in DOMAIN d \cup {as} |-> IF f = as THEN value ELSE d[f]]

JoinRow(built, d, others, select) ==
  LET matches == JoinedTo(built, d, others, select)
  IN IF ~built.single THEN <<Attach(d, built.as, matches)>>
     ELSE IF matches = << >> THEN <<Attach(d, built.as, << >>)>>
     ELSE [i \in DOMAIN matches |-> Attach(d, built.as, <<matches[i]>>)]

Join(built, rows, others, select) ==
  FlattenSeq([i \in DOMAIN rows |-> JoinRow(built, rows[i], others, select)])

\* appendLookupStages: the joins of all lookups, then the projection.
RECURSIVE JoinAll(_, _, _)
JoinAll(lookups, rows, others) ==
  IF lookups = << >> THEN rows
  ELSE JoinAll(Tail(lookups), Join(Multiple(Head(lookups)), rows, others, Head(lookups).select), others)

Populate(lookups, projection, rows, others) ==
  LET joined == JoinAll(lookups, rows, others)
  IN [i \in DOMAIN joined |-> Project(projection, joined[i])]

-----------------------------------------------------------------------------
(* The pages of lookupPopulate                                              *)

TooMany(lookups) == Len(lookups) > 10

\* A cursor is read off the last row as it is returned: a field that is not there is
\* null in it, and sorts first.
CursorOf(row) == [rank |-> IF "rank" \in DOMAIN row THEN row.rank ELSE 0,
                  id   |-> IF "_id" \in DOMAIN row THEN row["_id"] ELSE 0]
AfterCursor(d, cursor) == d.rank > cursor.rank \/ (d.rank = cursor.rank /\ d["_id"] > cursor.id)
NoCursor == [rank |-> -1, id |-> 0]

IsKeyset(req) == req.sorted /\ (req.after # NoCursor \/ req.page = 0)

PageProjection(req) ==
  IF IsKeyset(req) THEN WithCursor(BuildProjection(req.select, req.lookups), {"rank"})
  ELSE BuildProjection(req.select, req.lookups)

\* rows match the filter and stand in the order of the sort.  The page is cut, one row
\* longer, before the joins, and the row is taken off behind them.
Peeked(req, rows) ==
  LET rest == IF IsKeyset(req) THEN SelectSeq(rows, LAMBDA d : AfterCursor(d, req.after))
              ELSE SubSeq(rows, (Max({1, req.page}) - 1) * req.limit + 1, Len(rows))
      peek == IF IsKeyset(req) \/ req.strategy = "none" THEN req.limit + 1 ELSE req.limit
  IN SubSeq(rest, 1, Min({peek, Len(rest)}))

LookupPopulate(req, rows, others) ==
  LET data  == Populate(req.lookups, PageProjection(req), Peeked(req, rows), others)
      peeks == IsKeyset(req) \/ req.strategy = "none"
      more  == IF peeks THEN Len(data) > req.limit ELSE Max({1, req.page}) * req.limit < Len(rows)
      page  == IF peeks /\ more THEN SubSeq(data, 1, Len(data) - 1) ELSE data
  IN [data |-> page, more |-> more, keyset |-> IsKeyset(req),
      after |-> IF more /\ page # << >> THEN CursorOf(Last(page)) ELSE NoCursor]
=============================================================================
