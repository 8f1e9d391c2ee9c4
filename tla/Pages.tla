-------------------------------- MODULE Pages --------------------------------
(***************************************************************************)
(* A page of results: what getAll makes of a request (offset or keyset,    *)
(* the sort, the search, a filter by distance).                            *)
(***************************************************************************)
EXTENDS Filters, OffsetPages, IndexAdvice

-----------------------------------------------------------------------------
(* A filter by distance: primitives/geo.ts                                  *)

ValidPoint(lng, lat) == lng \in -180 .. 180 /\ lat \in -90 .. 90
NoGeo == [op |-> "none", at |-> <<>>, bound |-> 0]
Geo(op, at, bound) == [op |-> op, at |-> at, bound |-> bound]
Unbounded == -1

NearFilter(op, coords) ==
  IF Len(coords) \notin 2 .. 3 THEN NoGeo
  ELSE IF ~ValidPoint(coords[1], coords[2]) THEN NoGeo
  ELSE IF Len(coords) = 2 THEN Geo(op, Take(coords, 2), Unbounded)
  ELSE IF coords[3] < 0 THEN NoGeo ELSE Geo(op, Take(coords, 2), coords[3])

WithinRadius(coords) == IF Len(coords) # 3 THEN NoGeo ELSE
  IF ~ValidPoint(coords[1], coords[2]) \/ coords[3] < 0 THEN NoGeo
  ELSE Geo("centerSphere", Take(coords, 2), coords[3])

WithinBox(coords) == IF Len(coords) # 4 THEN NoGeo ELSE
  IF \/ ~ValidPoint(coords[1], coords[2]) \/ ~ValidPoint(coords[3], coords[4])
     \/ coords[1] > coords[3] \/ coords[2] > coords[4]
  THEN NoGeo ELSE Geo("box", coords, 0)

\* parseGeoFilter: nothing, where the value is not good.
ParseGeo(op, coords) ==
  CASE op \in {"near", "nearSphere"} -> NearFilter(op, coords)
    [] op = "withinRadius" -> WithinRadius(coords)
    [] op = "geoWithin" -> WithinBox(coords)

HasNear(geo) == geo.op \in {"near", "nearSphere"}

\* rewriteNearForCount: nothing, where a near has no bound.
CountFilter(geo) ==
  IF HasNear(geo) /\ geo.bound # Unbounded THEN Geo("centerSphere", geo.at, geo.bound) ELSE NoGeo

\* The server: an abstract distance, and a sort by it.
Abs(n) == IF n < 0 THEN -n ELSE n
Distance(at, p) == Abs(at[1] - p[1]) + Abs(at[2] - p[2])
InReach(geo, p) ==
  CASE geo.op = "none" -> TRUE
    [] geo.op = "box"  -> /\ p[1] \in geo.at[1] .. geo.at[3] /\ p[2] \in geo.at[2] .. geo.at[4]
    [] OTHER -> geo.bound = Unbounded \/ Distance(geo.at, p) <= geo.bound

\* The rows a find returns: by distance, or in the order asked.
Found(geo, rows) ==
  LET reached == SelectSeq(rows, LAMBDA r : InReach(geo, r.at))
  IN IF HasNear(geo) THEN SortSeq(reached, LAMBDA r, s : Distance(geo.at, r.at) < Distance(geo.at, s.at))
     ELSE reached

Counted(geo, rows) == Len(SelectSeq(rows, LAMBDA r : InReach(geo, r.at)))

-----------------------------------------------------------------------------
(* The search: _buildSearchQuery                                            *)

EscapeText(word) == FlattenSeq([i \in DOMAIN word |-> EscapeChar(word[i])])
Containing(word) == <<".", "*">> \o EscapeText(word) \o <<".", "*">>
SearchBranches(fields, word) ==
  Tree("$or", [i \in DOMAIN fields |-> Node("$regex", fields[i], Containing(word), <<>>)])

\* Mutant of WithSearch: the search takes the place of the caller's $or.
SearchReplacesOr(q, search) ==
  Node("record", "", <<>>, Append(SelectSeq(q.parts, LAMBDA e : e.op # "$or"), search))

\* The record has one $or: the caller's moves under $and, next to the search.
WithSearch(q, search) ==
  LET named(op) == SelectSeq(q.parts, LAMBDA e : e.op = op)
      others    == SelectSeq(q.parts, LAMBDA e : e.op \notin {"$or", "$and"})
      conjuncts == FlattenSeq([i \in DOMAIN named("$and") |-> named("$and")[i].parts])
  IN Node("record", "", <<>>,
          IF named("$or") = <<>> THEN Append(q.parts, search)
          ELSE Append(others, Tree("$and", conjuncts \o named("$or") \o <<search>>)))

\* The mode is the repository's, or follows from its having a text index.
SearchMode(repo) ==
  CASE repo.searchMode = "auto" -> IF repo.textIndex THEN "text" ELSE "regex"
    [] repo.searchMode # "auto" -> repo.searchMode

SearchRefused(repo) ==
  \/ SearchMode(repo) = "regex" /\ repo.searchFields = <<>>
  \/ SearchMode(repo) = "text" /\ ~repo.textIndex

\* A text search is the server's.
SearchQuery(repo, q, word) ==
  CASE word = <<>> -> q
    [] word # <<>> /\ SearchMode(repo) = "regex" -> WithSearch(q, SearchBranches(repo.searchFields, word))
    [] word # <<>> /\ SearchMode(repo) = "text" -> [q EXCEPT !.parts = Append(@, Node("$text", "", word, <<>>))]

-----------------------------------------------------------------------------
(* getAll: the page a request asks for                                      *)

\* A page of 0 is none, and so is a sort, mode or cursor of "".
ResolveSort(req) == CASE HasNear(req.geo) -> ""
                      [] ~HasNear(req.geo) /\ req.sort = "" -> "-createdAt"
                      [] ~HasNear(req.geo) /\ req.sort # "" -> req.sort

\* _detectPaginationMode.
UsesKeyset(req) ==
  IF req.mode # "" THEN req.mode = "keyset"
  ELSE /\ req.page = 0
       /\ req.after # 0 \/ (ResolveSort(req) # "-createdAt" /\ req.sort # "")

\* A near filter is counted by its rewriting, or not at all; a strategy the caller
\* names comes first.
Strategy(req) ==
  CASE req.strategy # "" -> req.strategy
    [] req.strategy = "" /\ HasNear(req.geo) /\ CountFilter(req.geo) = NoGeo -> "none"
    [] OTHER -> "exact"

\* A row's position stands for the cursor after it (KeysetPages has the cursors).
KeysetPage(rows, after, limit) ==
  LET peeked == Take(Drop(rows, after), limit + 1)
  IN [method |-> "keyset", data |-> Take(peeked, limit), total |-> 0, pages |-> 0,
      more |-> Len(peeked) > limit, next |-> after + limit, prev |-> FALSE]

Refused == [method |-> "refused", data |-> <<>>, total |-> 0, pages |-> 0,
            more |-> FALSE, next |-> 0, prev |-> FALSE]

\* The server counts no near.
CountFails(req) == HasNear(req.geo) /\ CountFilter(req.geo) = NoGeo /\ Strategy(req) # "none"
KeysetFails(req) == ResolveSort(req) = ""

GetAll(req, rows, cfg) ==
  LET limit == ValidLimit(req.limit, cfg)
      found == Found(req.geo, rows)
      count == Counted(IF HasNear(req.geo) THEN CountFilter(req.geo) ELSE req.geo, rows)
  IN CASE UsesKeyset(req) /\ KeysetFails(req) -> Refused
       [] UsesKeyset(req) /\ ~KeysetFails(req) -> KeysetPage(found, req.after, limit)
       [] ~UsesKeyset(req) /\ (PageRefused(req.page, cfg) \/ CountFails(req)) -> Refused
       [] ~UsesKeyset(req) /\ ~PageRefused(req.page, cfg) /\ ~CountFails(req) ->
            OffsetPage(found, count, ValidPage(req.page), limit, Strategy(req))
=============================================================================
