----------------------------- MODULE QueryStrings -----------------------------
(***************************************************************************)
(* QueryParser: the parameters of a URL, compiled to a filter, a sort, a   *)
(* page and the rest.  Input that is not good is refused with a 400, or    *)
(* dropped with a warning, as the parser is configured; either way the     *)
(* filter must not come out wider than what is left of the request.        *)
(***************************************************************************)
EXTENDS Pages, FilterParts

\* A parameter: `field=v` is direct, `field[op]=v` is flat when the key comes as it
\* is, and nested when the framework has parsed it (one parameter per operator,
\* here).  The value is a list of values, or the characters of a text.
Param(form, field, op, vs, text) == [form |-> form, field |-> field, op |-> op, vs |-> vs, text |-> text]
EmptyValue(p) == p.vs = << >> /\ p.text = << >>

-----------------------------------------------------------------------------
(* Values: coercion.ts                                                      *)

\* coerceFieldValue: by the declared type, or by its looks.
CoerceField(f, v) ==
  IF TypeOf[f] # "none" THEN CastTo(TypeOf[f], v) ELSE CastTo("number", v)

Numeral(v) == v.t = "number" \/ (v.t = "string" /\ v.v <= 2)

-----------------------------------------------------------------------------
(* Regular expressions: regex-safety.ts                                     *)

Quantifiers == {"*", "+", "?"}

\* A possessive or doubled quantifier may backtrack, and one with nothing before it
\* is no expression.  Both come out as literal text.  (Groups, braces and the budget
\* of quantifiers have no characters here.)
DangerousPattern(p) == \E i \in 1 .. Len(p) - 1 : p[i] \in Quantifiers /\ p[i + 1] = "+"
InvalidPattern(p) == p # << >> /\ p[1] \in Quantifiers

TooLong(p, cfg) == Len(p) > cfg.maxRegexLength

SafeRegex(p, cfg) ==
  IF TooLong(p, cfg) \/ DangerousPattern(p) \/ InvalidPattern(p)
  THEN EscapeText(SubSeq(p, 1, Min({Len(p), cfg.maxRegexLength}))) ELSE p
Unsafe(p, cfg) == TooLong(p, cfg) \/ DangerousPattern(p) \/ InvalidPattern(p)

\* The expression is not anchored.
RegexLeaf(f, p, cfg) ==
  Node("$regex", f, <<".", "*">> \o SafeRegex(p, cfg) \o <<".", "*">>, << >>)

-----------------------------------------------------------------------------
(* What is refused: parseFilters, handleOperatorSyntax, handleBracketSyntax *)

Ranges == {"gt", "gte", "lt", "lte"}
GeoOps == {"near", "nearSphere", "geoWithin", "withinRadius"}
Texts2 == {"like", "contains", "regex"}
OperatorMap == {"eq", "ne", "in", "nin", "exists", "size", "type"} \cup Ranges \cup Texts2
DangerousOps == {"where", "function", "accumulator", "expr"}

\* The nested form takes between and the geo operators before it looks at the allowlist.
BeyondAllowlist(p) == p.form = "nested" /\ p.op \in {"between"} \cup GeoOps

BadValue(p, cfg) ==
  \/ p.op \in Ranges /\ TypeOf[p.field] = "none" /\ ~Numeral(p.vs[1])
  \/ p.op = "size" /\ ~Numeral(p.vs[1])
  \/ p.op = "regex" /\ cfg.throws /\ Unsafe(p.text, cfg)
  \/ p.op \in GeoOps /\ ParseGeo(p.op, [i \in DOMAIN p.vs |-> p.vs[i].v]) = NoGeo

Refuses(p, cfg) ==
  \/ p.field \notin cfg.fields
  \/ /\ p.form # "direct" /\ ~EmptyValue(p)
     /\ \/ p.op \notin cfg.operators /\ ~BeyondAllowlist(p)
        \/ p.form = "flat" /\ p.op \in DangerousOps
        \/ (p.form = "flat" \/ p.op \in OperatorMap \cup GeoOps) /\ BadValue(p, cfg)

\* An empty value says nothing, and neither does a nested operator nobody knows.
Ignored(p) ==
  /\ p.form # "direct"
  /\ EmptyValue(p) \/ (p.form = "nested" /\ p.op \notin OperatorMap \cup GeoOps \cup {"between"})

-----------------------------------------------------------------------------
(* The entries of the filter                                                *)

\* An entry is a value, a date, or an object of operators.
NoEntries == [f \in {} |-> << >>]
SetEntry(entries, f, kind, leaves) ==
  [g \in DOMAIN entries \cup {f} |-> IF g = f THEN [kind |-> kind, leaves |-> leaves] ELSE entries[g]]
Without(entries, f) == [g \in DOMAIN entries \ {f} |-> entries[g]]

Value(entries, p) ==
  LET v == CoerceField(p.field, p.vs[1])
  IN SetEntry(entries, p.field, IF v.t = "date" THEN "date" ELSE "value", <<Leaf("$eq", p.field, v)>>)

\* An operator joins the others of its field, and takes the place of a value.
Earlier(entries, leaf) ==
  IF leaf.f \in DOMAIN entries /\ entries[leaf.f].kind = "ops"
  THEN SelectSeq(entries[leaf.f].leaves, LAMBDA l : l.op # leaf.op) ELSE << >>

\* Set on a date it is lost with the next copy, unless it is between, which is looked
\* for before.  (One framework parses the keys of a request one way: the nested form
\* does not meet a value.)
SetOperator(entries, leaf) ==
  IF leaf.f \in DOMAIN entries /\ entries[leaf.f].kind = "date" /\ leaf.op # "between" THEN entries
  ELSE SetEntry(entries, leaf.f, "ops", Append(Earlier(entries, leaf), leaf))

OperatorLeaf(p) ==
  Node("$" \o p.op, p.field,
       [i \in DOMAIN p.vs |-> IF p.op = "size" \/ (p.op \in Ranges /\ TypeOf[p.field] = "none")
                              THEN CastTo("number", p.vs[i]) ELSE CoerceField(p.field, p.vs[i])], << >>)
GeoLeaf(p) == Node("$geo", p.field, p.vs, << >>)

\* The flat form sets texts, places and equalities for the whole entry; nested ones are
\* operators like the others, but for the place.
Apply(entries, p, cfg) ==
  CASE Ignored(p) -> entries
    [] p.form = "direct" \/ (p.form = "flat" /\ p.op = "eq") -> Value(entries, p)
    [] p.op = "between" -> SetOperator(entries, Node("between", p.field, p.vs, << >>))
    [] p.form = "flat" /\ p.op \in Texts2 -> SetEntry(entries, p.field, "ops", <<RegexLeaf(p.field, p.text, cfg)>>)
    [] p.form = "nested" /\ p.op \in Texts2 -> SetOperator(entries, RegexLeaf(p.field, p.text, cfg))
    [] p.form # "direct" /\ p.op \in GeoOps -> SetEntry(entries, p.field, "ops", <<GeoLeaf(p)>>)
    [] OTHER -> SetOperator(entries, OperatorLeaf(p))

\* A refused parameter is dropped, where it does not throw (a pattern is escaped
\* instead); a bad place takes its
\* nested entry with it.
Refusal(entries, p, cfg) ==
  IF p.form = "nested" /\ p.op \in GeoOps /\ p.field \in cfg.fields THEN Without(entries, p.field)
  ELSE entries

ParseFilters(params, cfg) ==
  FoldLeft(LAMBDA entries, p : IF Refuses(p, cfg) THEN Refusal(entries, p, cfg) ELSE Apply(entries, p, cfg),
           NoEntries, params)

Leaves(entries) == LET fields == SetToSeq(DOMAIN entries)
                   IN FlattenSeq([i \in DOMAIN fields |-> entries[fields[i]].leaves])

-----------------------------------------------------------------------------
(* between: enhanceWithBetween                                              *)

Bounds(leaf) ==
  LET lo == CastTo("date", leaf.vs[1])  hi == CastTo("date", leaf.vs[2])
  IN (IF lo.t = "date" THEN <<Leaf("$gte", leaf.f, lo)>> ELSE << >>)
     \o (IF hi.t = "date" THEN <<Leaf("$lte", leaf.f, hi)>> ELSE << >>)

IsBetween(leaf) == leaf.op = "between"
Marker(entry) == SelectSeq(entry.leaves, IsBetween)

\* The range takes the place of the entry; one with no bound refuses, or goes.
BadBetween(entries) ==
  \E f \in DOMAIN entries : Marker(entries[f]) # << >> /\ Bounds(Marker(entries[f])[1]) = << >>

EnhanceWithBetween(entries) ==
  LET expanded == [f \in DOMAIN entries |-> IF Marker(entries[f]) = << >> THEN entries[f]
                                            ELSE [kind |-> "ops", leaves |-> Bounds(Marker(entries[f])[1])]]
  IN [f \in {g \in DOMAIN entries : expanded[g].leaves # << >>} |-> expanded[f]]

-----------------------------------------------------------------------------
(* The alternatives and the search: parseOr, parse                          *)

\* Mutant of Branches: a branch of nothing stays, and holds of every document.
KeepsEmptyBranches(alternatives, cfg) == [i \in DOMAIN alternatives |-> ParseFilters(alternatives[i], cfg)]

\* A branch all of whose parameters were dropped goes.
Branches(alternatives, cfg) ==
  SelectSeq([i \in DOMAIN alternatives |-> ParseFilters(alternatives[i], cfg)],
            LAMBDA entries : DOMAIN entries # {})

\* The group of the alternatives.  between is expanded outside them only.
OrGroup(req, cfg) ==
  LET branches == Branches(req.alternatives, cfg)
  IN IF branches = << >> THEN << >>
     ELSE <<Tree("$or", [i \in DOMAIN branches |-> Node("record", "", << >>, Leaves(branches[i]))])>>

\* sanitizeSearch and buildRegexSearch.
SearchGroup(req, cfg) ==
  LET word == SubSeq(req.search, 1, Min({Len(req.search), cfg.maxSearchLength}))
  IN IF word = << >> \/ cfg.searchFields = << >> THEN << >>
     ELSE <<Tree("$or", [i \in DOMAIN cfg.searchFields |-> RegexLeaf(cfg.searchFields[i], word, cfg)])>>

\* Both groups stand under $and, one of them as $or.
Filter(req, cfg) ==
  LET groups == SearchGroup(req, cfg) \o OrGroup(req, cfg)
  IN Node("record", "", << >>,
          Leaves(EnhanceWithBetween(ParseFilters(req.params, cfg)))
          \o (IF Len(groups) = 2 THEN <<Tree("$and", groups)>> ELSE groups))

-----------------------------------------------------------------------------
(* Sort, select, page and limit                                             *)

\* No list of sort fields, or an empty one, allows the default; of a request only what
\* is listed passes.
DefaultSort == <<[field |-> "createdAt", dir |-> -1]>>
DefaultAllowed(cfg) == ~cfg.sortsListed \/ cfg.sorts = {} \/ "createdAt" \in cfg.sorts

EffectiveSort(req, cfg) == IF req.sort = << >> /\ DefaultAllowed(cfg) THEN DefaultSort ELSE req.sort

SortAllowed(key, cfg) == cfg.sortsListed => key.field \in cfg.sorts
ParseSort(sort, cfg) == SelectSeq(sort, LAMBDA key : SortAllowed(key, cfg))

\* parsePositiveInt: a value that is no positive integer is written 0, no value -1.
BadNumber(n) == n = 0
ParseLimit(req, cfg) == Min({IF req.limit < 1 THEN 20 ELSE req.limit, cfg.maxLimit})

-----------------------------------------------------------------------------
(* Joins, populated paths and aggregations of a URL                         *)

\* sanitizeMatchConfig, and what it is not to leave.
RECURSIVE SanitizeMatch(_)
SanitizeMatch(q) == SanitizeNode(q, [i \in DOMAIN q.parts |-> SanitizeMatch(q.parts[i])])

RECURSIVE Harms(_)
Harms(q) == HoldsOneOf(Harmful, q, [i \in DOMAIN q.parts |-> Harms(q.parts[i])])

\* parseSingleLookup and sanitizePipeline: a collection of the list, both fields, and
\* no stage of the blocked ones.
BlockedStages == {"$out", "$merge", "$unionWith", "$collStats", "$currentOp", "$listSessions"}
LookupRefused(l, cfg) == (cfg.collectionsListed /\ l.from \notin cfg.collections) \/ ~l.fields
ParseLookups(lookups, cfg) ==
  LET passed == SelectSeq(lookups, LAMBDA l : ~LookupRefused(l, cfg))
  IN [i \in DOMAIN passed |->
        [passed[i] EXCEPT !.stages = SelectSeq(@, LAMBDA s : s \notin BlockedStages)]]

\* parsePopulate: a path, with one nested in it and so on, seven deep.
PopulateRefused(chain) == Len(chain) > 6
ParsePopulate(chain) == SubSeq(chain, 1, Min({7, Len(chain)}))

-----------------------------------------------------------------------------
(* parse, and the mode in which what is not good throws                     *)

Faulty(req, cfg) ==
  \/ BadNumber(req.limit) \/ BadNumber(req.page)
  \/ Len(req.search) > cfg.maxSearchLength
  \/ \E i \in DOMAIN EffectiveSort(req, cfg) : ~SortAllowed(EffectiveSort(req, cfg)[i], cfg)
  \/ \E i \in DOMAIN req.params : Refuses(req.params[i], cfg)
  \/ \E i \in DOMAIN req.alternatives : \E j \in DOMAIN req.alternatives[i] :
       Refuses(req.alternatives[i][j], cfg)
  \/ BadBetween(ParseFilters(req.params, cfg))
  \/ \E i \in DOMAIN req.lookups :
       \/ LookupRefused(req.lookups[i], cfg)
       \/ \E j \in DOMAIN req.lookups[i].stages : req.lookups[i].stages[j] \in BlockedStages
  \/ PopulateRefused(req.populate)
  \/ Harms(req.match)

Answers(req, cfg) == cfg.throws => ~Faulty(req, cfg)
=============================================================================
