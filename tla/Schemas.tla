------------------------------- MODULE Schemas -------------------------------
(***************************************************************************)
(* The JSON Schemas of a model's create, update, response and list         *)
(* requests, built from its Mongoose schema                                *)
(* (utils/mongooseToJsonSchema.ts), and how a validator reads them.  A     *)
(* schema type and an inline definition have one shape.  Left out are      *)
(* dateAs (of inline dates only, line 607), x-ref, titles, descriptions,   *)
(* empty enums, the flags of a match, and schemas that contain themselves. *)
(***************************************************************************)
EXTENDS Integers, FiniteSets, Sequences, SequencesExt

\* A value has a JSON type, an atom that stands for it, and named members or elements.
Json(t, v, kids) == [t |-> t, v |-> v, kids |-> kids]
JsonNull == Json("null", "null", <<>>)
Members(v)  == {v.kids[i].name : i \in DOMAIN v.kids}
At(v, n) == v.kids[CHOOSE i \in DOMAIN v.kids : v.kids[i].name = n].value

\* A declared type.  A validator is the set of the atoms it lets pass: within has those of
\* lengths and bounds, match that of a regular expression, and newer those that only the
\* form of a path reads (minLength, maxLength, a match that is a string).  among is the
\* enum, {} where there is none, and wrapped when it is given as {values}; cased has
\* "lower" or "upper" when Mongoose changes the text to that case.  of is the element of
\* an array or a map, and parts are the fields of a sub-schema or of a plain object.
Declared(kind) ==
  [kind |-> kind, required |-> FALSE, dflt |-> "none", soft |-> FALSE, typed |-> TRUE,
   among |-> {}, wrapped |-> FALSE, within |-> {}, match |-> {}, newer |-> {}, cased |-> {},
   of |-> <<>>, caster |-> FALSE, own |-> <<>>, parts |-> <<>>]

\* A JSON Schema, and the one that has no keyword: every value is valid.  A text or a
\* number has to pass every set of only.
Anything ==
  [types |-> {}, only |-> {}, enum |-> {}, props |-> <<>>, required |-> {}, items |-> <<>>,
   rest |-> <<>>, closed |-> FALSE, dflt |-> <<>>, least |-> 0]
OfType(t)  == [Anything EXCEPT !.types = {t}]
Text(only) == [OfType("string") EXCEPT !.only = only]
ListOf(s)  == [OfType("array") EXCEPT !.items = <<s>>]
ObjectId   == Text({{"hex"}})
DateTime   == Text({{"date"}})
ObjectWith(parts, schemas) ==
  [OfType("object") EXCEPT
     !.props = [n \in {parts[i].name : i \in DOMAIN parts} |->
                  schemas[CHOOSE i \in DOMAIN parts : parts[i].name = n]],
     !.required = {parts[i].name : i \in {k \in DOMAIN parts : parts[k].type.required}}]

-----------------------------------------------------------------------------
(* The definitions of elements and map values: jsonTypeFor                   *)

RECURSIVE JsonTypeFor(_), TypeToJson(_), SubSchema(_)
ElementOf(def) == IF def.of = <<>> THEN Declared("String") ELSE def.of[1]

\* The texts that match ^[a-z]*$ or ^[A-Z]*$, and those with one such letter.
AllOf(case)  == IF case = "lower" THEN {"red"} ELSE {"RED"}
SomeOf(case) == IF case = "lower" THEN {"red", "hex"} ELSE {"RED", "date"}

\* A change of case becomes a pattern, or a lookahead in front of the one there is.
Cased(case, def, patterns) ==
  IF case \notin def.cased THEN patterns
  ELSE IF patterns = {} THEN {AllOf(case)} ELSE patterns \cup {SomeOf(case)}
InlineText(def) == Text(def.within \cup Cased("upper", def, Cased("lower", def, def.match)))

\* An enum makes a string of any type it is on.  Whatever convertTreeToJsonSchema is
\* called for is any object: its callers have put the tree in seen (lines 644, 673, 700),
\* and what it finds there it takes for a cycle (line 714).  So it is with a type that
\* no branch knows.
JsonTypeFor(def) ==
  IF def.typed /\ def.among # {} /\ ~def.wrapped THEN [Text({}) EXCEPT !.enum = def.among]
  ELSE CASE def.kind = "Array"    -> ListOf(JsonTypeFor(ElementOf(def)))
         [] def.kind = "String"   -> InlineText(def)
         [] def.kind = "Number"   -> [OfType("number") EXCEPT !.only = def.within]
         [] def.kind = "Boolean"  -> OfType("boolean")
         [] def.kind = "Date"     -> DateTime
         [] def.kind = "ObjectId" -> ObjectId
         [] def.kind = "Mixed"    -> Anything
         [] def.kind = "Map" /\ def.typed     -> [OfType("object") EXCEPT !.rest = <<JsonTypeFor(ElementOf(def))>>]
         [] def.kind = "Schema" /\ ~def.typed -> SubSchema(def.parts)
         [] OTHER -> IF def.typed \/ def.kind = "Tree" THEN OfType("object") ELSE Anything

-----------------------------------------------------------------------------
(* The paths of a schema: schemaTypeToJsonSchema                             *)

\* subSchemaToJsonSchema.  Every sub-document has an _id of its own.
SubSchema(parts) ==
  LET kept == SelectSeq(parts, LAMBDA p : p.name # "__v" /\ (p.name = "_id" => p.type.kind # "ObjectId"))
  IN ObjectWith(kept, [i \in DOMAIN kept |-> TypeToJson(kept[i].type)])

\* introspectArrayItems: a sub-schema, the caster older majors expose, the
\* declaration, or nothing to go by.
ArrayItems(type) ==
  CASE type.of = <<>> -> OfType("object")
    [] type.of # <<>> /\ type.of[1].kind = "Schema" -> SubSchema(type.of[1].parts)
    [] type.of # <<>> /\ type.of[1].kind # "Schema" /\ type.caster -> TypeToJson(type.of[1])
    [] OTHER -> JsonTypeFor(type.of[1])

\* A default of null makes null valid, for the enum as well.
Nullable(s, type) ==
  IF type.dflt = "null" /\ s.types # {}
  THEN [s EXCEPT !.types = @ \cup {"null"}, !.dflt = <<JsonNull>>,
                 !.enum = IF @ = {} THEN {} ELSE @ \cup {"null"}]
  ELSE s

TypeToJson(type) ==
  CASE type.own # <<>> -> type.own[1]
    [] type.own = <<>> /\ type.kind = "Schema" -> SubSchema(type.parts)
    [] OTHER ->
         Nullable(CASE type.kind = "String"   -> [Text(type.within \cup type.match \cup type.newer)
                                                EXCEPT !.enum = type.among]
                    [] type.kind = "Number"   -> [OfType("number") EXCEPT !.only = type.within]
                    [] type.kind = "Boolean"  -> OfType("boolean")
                    [] type.kind = "Date"     -> DateTime
                    [] type.kind = "ObjectId" -> ObjectId
                    [] type.kind = "Array"    -> ListOf(ArrayItems(type))
                    [] type.kind = "Map"      ->
                         [OfType("object") EXCEPT !.rest = IF type.of = <<>> THEN <<>> ELSE <<JsonTypeFor(type.of[1])>>]
                    [] type.kind = "Mixed"    -> Anything
                    [] OTHER                  -> OfType("object"), type)

-----------------------------------------------------------------------------
(* The bodies                                                               *)

\* Mongoose lists a nested object as one path for every leaf.
RECURSIVE PathsOf(_, _)
PathsOf(prefix, parts) ==
  FlattenSeq([i \in DOMAIN parts |->
    LET path == Append(prefix, parts[i].name)
    IN IF parts[i].type.kind = "Nested" THEN PathsOf(path, parts[i].type.parts)
       ELSE <<[path |-> path, type |-> parts[i].type]>>])

KeptPath(p) == /\ p.path # <<"__v">> /\ ~Contains(p.path, "$*")
           /\ p.path = <<"_id">> => p.type.kind # "ObjectId"
Dotted(names) == FoldLeft(LAMBDA text, n : text \o "." \o n, names[1], Tail(names))

\* buildNestedJsonSchema: two levels; what is deeper goes by its dotted name.
NestedSchema(group) ==
  LET of(n)  == SelectSeq(group, LAMBDA p : p.path[2] = n)
      one(n) == IF Len(of(n)[1].path) = 2 THEN TypeToJson(of(n)[1].type)
                ELSE ObjectWith([i \in DOMAIN of(n) |->
                       [name |-> Dotted(SubSeq(of(n)[i].path, 3, Len(of(n)[i].path))),
                        type |-> [of(n)[i].type EXCEPT !.required = FALSE]]],
                     [i \in DOMAIN of(n) |-> TypeToJson(of(n)[i].type)])
  IN [OfType("object") EXCEPT
        !.props = [n \in {group[i].path[2] : i \in DOMAIN group} |-> one(n)],
        !.required = {group[i].path[2] : i \in {k \in DOMAIN group :
                         Len(group[k].path) = 2 /\ group[k].type.required}}]

\* A field with a default of its own, or one that is required only of the
\* stored document, may be left out of a body.
Needed(type, name, opts) ==
  type.required /\ type.dflt = "none" /\ ~type.soft /\ name \notin opts.softRequired

\* collectFieldsToOmit and applyFieldRules.
FieldsToOmit(opts, body) ==
  CASE body = "create" -> {"createdAt", "updatedAt", "__v"} \cup opts.systemManaged \cup opts.createOmit
    [] body = "update" -> {"createdAt", "updatedAt", "__v"} \cup opts.systemManaged
                          \cup opts.immutable \cup opts.updateOmit
    [] body = "response" -> opts.hidden \cup opts.responseOmit
ApplyFieldRules(s, omit, opts) ==
  [s EXCEPT !.props = [n \in DOMAIN @ \ omit |-> @[n]], !.required = (@ \ omit) \ opts.optional]

\* buildJsonSchemaFromPaths.
SchemaFromPaths(paths, opts) ==
  LET kept     == SelectSeq(paths, KeptPath)
      roots    == {kept[i].path[1] : i \in DOMAIN kept}
      of(r)    == SelectSeq(kept, LAMBDA p : p.path[1] = r)
      plain(r) == of(r)[1].path = <<r>> /\ Len(of(r)) = 1
      whole    == [OfType("object") EXCEPT
                     !.props = [r \in roots |-> IF plain(r) THEN TypeToJson(of(r)[1].type) ELSE NestedSchema(of(r))],
                     !.required = {r \in roots : IF plain(r) THEN Needed(of(r)[1].type, r, opts)
                                                 ELSE NestedSchema(of(r)).required # {}}]
      ruled    == ApplyFieldRules(whole, FieldsToOmit(opts, "create"), opts)
      shape(r) == SelectSeq(opts.overrides, LAMBDA o : o.name = r)
  IN [ruled EXCEPT
        !.required = (@ \cup opts.requiredOverrides) \ opts.optionalOverrides,
        !.props = [r \in DOMAIN @ |-> IF shape(r) = <<>> THEN @[r] ELSE shape(r)[1].schema],
        !.closed = opts.strict]


\* stripDefaultsDeep, to which a field of that name is a keyword.
RECURSIVE StripDefaults(_)
StripDefaults(s) ==
  [s EXCEPT !.dflt = <<>>,
            !.props = [n \in DOMAIN @ \ {"default"} |-> StripDefaults(@[n])],
            !.items = [i \in DOMAIN @ |-> StripDefaults(@[i])],
            !.rest  = [i \in DOMAIN @ |-> StripDefaults(@[i])]]

\* buildJsonSchemaForUpdate, from the create body.
SchemaForUpdate(create, opts) ==
  [StripDefaults(ApplyFieldRules([create EXCEPT !.required = {}], FieldsToOmit(opts, "update"), opts))
     EXCEPT !.closed = opts.strict, !.least = IF opts.requireAtLeastOne THEN 1 ELSE 0]

\* buildJsonSchemaForResponse: the paths again, without the rules of requests.
ForResponse(opts) ==
  [opts EXCEPT !.systemManaged = {}, !.immutable = {}, !.optional = {}, !.createOmit = {},
               !.requiredOverrides = {}, !.optionalOverrides = {}, !.overrides = <<>>]
SchemaForResponse(paths, opts) ==
  [ApplyFieldRules(SchemaFromPaths(paths, ForResponse(opts)), FieldsToOmit(opts, "response"), opts)
     EXCEPT !.required = {}]

\* buildJsonSchemaForQuery.
SchemaForQuery(filterable) ==
  LET number(one) == [OfType("integer") EXCEPT !.dflt = <<Json("integer", one, <<>>)>>]
      flag        == [OfType("boolean") EXCEPT !.dflt = <<Json("boolean", "false", <<>>)>>]
  IN [OfType("object") EXCEPT
        !.props = [n \in {"page", "limit", "sort", "populate", "search", "select", "after", "lean",
                          "includeDeleted"} \cup filterable |->
                     CASE n \in filterable -> Text({})
                       [] n \notin filterable /\ n = "page"  -> number("1")
                       [] n \notin filterable /\ n = "limit" -> number("20")
                       [] n \notin filterable /\ n \in {"lean", "includeDeleted"} -> flag
                       [] OTHER -> Text({})]]

\* buildCrudSchemasFromMongooseSchema.
CrudSchemas(paths, opts) ==
  LET create == SchemaFromPaths(paths, opts)
  IN [createBody |-> create, updateBody |-> SchemaForUpdate(create, opts),
      response   |-> SchemaForResponse(paths, opts), listQuery |-> SchemaForQuery(opts.filterable)]

-----------------------------------------------------------------------------
(* The validator                                                            *)

RECURSIVE Accepts(_, _), Filled(_, _)
Accepts(s, v) ==
  /\ s.types = {} \/ v.t \in s.types
  /\ s.enum = {} \/ v.v \in s.enum
  /\ v.t \in {"string", "number"} => \A texts \in s.only : v.v \in texts
  /\ v.t = "array" => \A i \in DOMAIN v.kids, j \in DOMAIN s.items : Accepts(s.items[j], v.kids[i].value)
  /\ v.t = "object" =>
       /\ s.required \subseteq Members(v)
       /\ Len(v.kids) >= s.least
       /\ s.closed => Members(v) \subseteq DOMAIN s.props
       /\ \A n \in Members(v) : IF n \in DOMAIN s.props THEN Accepts(s.props[n], At(v, n))
                             ELSE \A j \in DOMAIN s.rest : Accepts(s.rest[j], At(v, n))

\* useDefaults: a member that is not there gets its default.
Filled(s, v) ==
  CASE v.t = "object" ->
         LET given   == [i \in DOMAIN v.kids |->
                           LET n == v.kids[i].name
                           IN [name |-> n, value |-> IF n \in DOMAIN s.props THEN Filled(s.props[n], v.kids[i].value)
                                                     ELSE v.kids[i].value]]
             missing == {n \in DOMAIN s.props \ Members(v) : s.props[n].dflt # <<>>}
         IN [v EXCEPT !.kids = given \o [i \in 1 .. Cardinality(missing) |->
               LET n == SetToSeq(missing)[i] IN [name |-> n, value |-> s.props[n].dflt[1]]]]
    [] v.t = "array" /\ s.items # <<>> ->
         [v EXCEPT !.kids = [i \in DOMAIN @ |-> [@[i] EXCEPT !.value = Filled(s.items[1], @)]]]
    [] OTHER -> v
=============================================================================
