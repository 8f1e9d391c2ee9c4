---------------------------- MODULE FilterNodes ----------------------------
(***************************************************************************)
(* Filters, node by node: what a node of the portable filter language      *)
(* means, the MongoDB query (filter/compile.ts) and the aggregation        *)
(* expression (compile-expr.ts) it is compiled to, what the server makes   *)
(* of a node of those, and how a record of bracket parameters is cast and  *)
(* expanded (cast-schema.ts).  `parts` is what the operation makes of the  *)
(* node's children; Filters closes each of these over the whole tree.      *)
(***************************************************************************)
EXTENDS Integers, Sequences

\* A value has a BSON type and a rank in it.  A string of rank 1 or 2 is a
\* numeral, one of rank 3 or 4 an ISO date.
Val(t, v) == [t |-> t, v |-> v]
Missing == Val("missing", 0)
Null    == Val("null", 0)
IsNull(x) == x.t \in {"missing", "null"}

\* A tree has one shape: an operator, a field, operands and children.
Node(op, f, vs, parts) == [op |-> op, f |-> f, vs |-> vs, parts |-> parts]
Leaf(op, f, v) == Node(op, f, <<v>>, <<>>)
Tree(op, parts) == Node(op, "", <<>>, parts)
AllRows == Tree("all", <<>>)
NoRows  == Tree("none", <<>>)

-----------------------------------------------------------------------------
(* The filter tree, and what it means                                       *)

Comparisons == {"gt", "gte", "lt", "lte"}

\* Values of one type are ordered; others do not compare.
Ordered(op, x, v) ==
  /\ x.t = v.t
  /\ CASE op = "gt" -> x.v > v.v [] op = "gte" -> x.v >= v.v
       [] op = "lt" -> x.v < v.v [] op = "lte" -> x.v <= v.v

\* A filter on rows in which a field without a value is null: `ne` leaves null
\* out, `nin` does not.
Listed(x, vs) == \E i \in DOMAIN vs : IF IsNull(vs[i]) THEN IsNull(x) ELSE x = vs[i]

SelectsNode(f, d, parts) ==
  LET x == d[f.f]
  IN CASE f.op = "true"  -> TRUE
       [] f.op = "false" -> FALSE
       [] f.op \in {"eq", "in"} -> Listed(x, f.vs)
       [] f.op = "ne"    -> ~Listed(x, f.vs) /\ ~IsNull(x)
       [] f.op = "nin"   -> ~Listed(x, f.vs)
       [] f.op \in Comparisons -> Ordered(f.op, x, f.vs[1])
       [] f.op = "notNull" -> ~IsNull(x)
       [] f.op = "isNull"  -> IsNull(x)
       [] f.op = "and" -> \A i \in DOMAIN f.parts : parts[i]
       [] f.op = "or"  -> \E i \in DOMAIN f.parts : parts[i]
       [] f.op = "not" -> ~parts[1]

\* One part stands for itself.
Several(op, parts, none) ==
  CASE parts = <<>> -> none [] Len(parts) = 1 -> parts[1] [] OTHER -> Tree(op, parts)

\* compileFilterToMongo, on a node of a tree.
CompileNe(f) ==
  IF IsNull(f.vs[1]) THEN Leaf("$ne", f.f, Null)
  ELSE Tree("$and", <<Leaf("$ne", f.f, f.vs[1]), Leaf("$ne", f.f, Null)>>)

Shorthands == {"eq", "ne", "gt", "gte", "lt", "lte", "in", "nin"}
Dollar == [eq |-> "$eq", ne |-> "$ne", gt |-> "$gt", gte |-> "$gte", lt |-> "$lt", lte |-> "$lte",
           in |-> "$in", nin |-> "$nin"]

CompileNode(f, parts) ==
  CASE f.op = "true"  -> AllRows
    [] f.op = "false" -> NoRows
    [] f.op = "ne"  -> CompileNe(f)
    [] f.op \in {"eq"} \cup Comparisons -> Leaf(Dollar[f.op], f.f, f.vs[1])
    [] f.op = "in"  -> IF f.vs = <<>> THEN NoRows ELSE Node("$in", f.f, f.vs, <<>>)
    [] f.op = "nin" -> IF f.vs = <<>> THEN AllRows ELSE Node("$nin", f.f, f.vs, <<>>)
    [] f.op = "notNull" -> Leaf("$ne", f.f, Null)
    [] f.op = "isNull"  -> Leaf("$eq", f.f, Null)
    [] f.op = "and" -> Several("$and", parts, AllRows)
    [] f.op = "or"  -> Several("$or", parts, NoRows)
    [] f.op = "not" -> Tree("$nor", parts)

\* The server's $match: null equals a missing field, and values of different
\* types are not ordered.
Same(x, v) == IF IsNull(v) THEN IsNull(x) ELSE x = v
Bare(op) == CASE op = "$gt" -> "gt" [] op = "$gte" -> "gte" [] op = "$lt" -> "lt" [] op = "$lte" -> "lte"

MatchesNode(q, d, parts) ==
  LET x == d[q.f]
  IN CASE q.op = "all" -> TRUE
       [] q.op = "none" -> FALSE
       [] q.op \in {"$eq", "$in"} -> \E i \in DOMAIN q.vs : Same(x, q.vs[i])
       [] q.op \in {"$ne", "$nin"} -> \A i \in DOMAIN q.vs : ~Same(x, q.vs[i])
       [] q.op \in {"$gt", "$gte", "$lt", "$lte"} -> Ordered(Bare(q.op), x, q.vs[1])
       [] q.op \in {"$and", "record"} -> \A i \in DOMAIN q.parts : parts[i]
       [] q.op = "$or"  -> \E i \in DOMAIN q.parts : parts[i]
       [] q.op = "$nor" -> \A i \in DOMAIN q.parts : ~parts[i]
       [] OTHER -> FALSE

-----------------------------------------------------------------------------
(* The expression form: compileFilterToMongoExpr                            *)

\* The tree of operators is the same, but for the negations.
CompileExprNode(f, parts) ==
  CASE f.op = "nin" /\ f.vs # <<>> -> Tree("$not", <<Node("$in", f.f, f.vs, <<>>)>>)
    [] f.op = "not" -> Tree("$not", parts)
    [] OTHER -> CompileNode(f, parts)

\* Expressions compare values of all types, a missing field below null, null below
\* the numbers, strings and dates above them.
TypeOrder == [missing |-> 0, null |-> 1, number |-> 2, string |-> 3, date |-> 4]
Below(x, y) == TypeOrder[x.t] < TypeOrder[y.t] \/ (x.t = y.t /\ x.v < y.v)

HoldsNode(e, d, parts) ==
  LET x == d[e.f]  v == e.vs[1]
  IN CASE e.op = "all" -> TRUE
       [] e.op = "none" -> FALSE
       [] e.op = "$eq" -> x = v
       [] e.op = "$ne" -> x # v
       [] e.op = "$in" -> \E i \in DOMAIN e.vs : x = e.vs[i]
       [] e.op = "$gt" -> Below(v, x)
       [] e.op = "$gte" -> ~Below(x, v)
       [] e.op = "$lt" -> Below(x, v)
       [] e.op = "$lte" -> ~Below(v, x)
       [] e.op = "$and" -> \A i \in DOMAIN e.parts : parts[i]
       [] e.op = "$or"  -> \E i \in DOMAIN e.parts : parts[i]
       [] e.op = "$not" -> ~parts[1]

-----------------------------------------------------------------------------
(* Records on their way to a $match                                         *)

CONSTANT TypeOf   \* the schema: the type of a field's values, or "none"

\* SchemaType.cast on the values of the model; an uncastable one stays.
CastTo(type, v) ==
  CASE v.t = "string" /\ type = "number" /\ v.v <= 2 -> Val("number", v.v)
    [] v.t = "string" /\ type = "date" /\ v.v >= 3   -> Val("date", v.v)
    [] v.t = "number" /\ type = "string"             -> Val("string", v.v)
    [] OTHER -> v

\* castValue: null and undeclared paths are left alone.
CastValue(f, v) == IF IsNull(v) \/ TypeOf[f] = "none" THEN v ELSE CastTo(TypeOf[f], v)

CastOperators == {"$eq", "$ne", "$gt", "$gte", "$lt", "$lte", "$in", "$nin"}
Logical == {"$and", "$or", "$nor"}
\* A record of several keys holds all of its entries.
Compound == Logical \cup {"record"}

\* castFilterToSchema and castOperatorObject.  Operators without their $ are a
\* document to it.
CastNode(q, parts) ==
  CASE q.op \in Compound -> Node(q.op, q.f, q.vs, parts)
    [] q.op \in CastOperators -> Node(q.op, q.f, [i \in DOMAIN q.vs |-> CastValue(q.f, q.vs[i])], q.parts)
    [] OTHER -> q

\* expandShorthands, into the branches of $and, $or and $nor.
ExpandNode(q, parts) ==
  CASE q.op \in Compound -> Node(q.op, q.f, q.vs, parts)
    [] q.op \in Shorthands -> Node(Dollar[q.op], q.f, q.vs, q.parts)
    [] OTHER -> q

\* Mutant of DateField: the shape of the value decides.
DateByShape(f, oracle) == TRUE

\* schemaDateOracle: a declared field is a date if the schema says so, others may be.
DateField(f, oracle) == oracle => TypeOf[f] \in {"date", "none"}

\* coerceFilterDates, on the operands of range operators.
CoerceNode(q, oracle, parts) ==
  CASE q.op \in Compound -> Node(q.op, q.f, q.vs, parts)
    [] q.op \in {"$gt", "$gte", "$lt", "$lte"} /\ DateField(q.f, oracle) ->
         Node(q.op, q.f, [i \in DOMAIN q.vs |-> CastTo("date", q.vs[i])], q.parts)
    [] OTHER -> q

\* What a parameter means: its text, read as a value of the field's type, and the
\* operator with or without its $.
Read(e) == Node(IF e.op \in Shorthands THEN Dollar[e.op] ELSE e.op, e.f,
                [i \in DOMAIN e.vs |-> CastTo(TypeOf[e.f], e.vs[i])], e.parts)

ReadsNode(q, d, parts) == MatchesNode(IF q.op \in Compound THEN q ELSE Read(q), d, parts)
=============================================================================
