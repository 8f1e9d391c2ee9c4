------------------------------ MODULE Filters ------------------------------
(***************************************************************************)
(* Filters and what becomes of them: the operations of FilterNodes closed  *)
(* over whole trees, and LIKE patterns.  What a tree means, the query and  *)
(* the expression it is compiled to, and what the server makes of those    *)
(* have to agree.                                                          *)
(***************************************************************************)
EXTENDS FilterNodes, SequencesExt

-----------------------------------------------------------------------------
(* LIKE patterns: likeToRegex                                               *)

Wild == {"%", "_", "\\"}
Metacharacters == {".", "*", "+", "?", "^", "$", "\\"}

\* escapeRegexChar, into a sequence of characters.
EscapeChar(ch) == IF ch \in Metacharacters THEN <<"\\", ch>> ELSE <<ch>>

\* A backslash makes a literal of the wildcard, or the backslash, behind it.
Escaped(p) == Len(p) > 1 /\ p[1] = "\\" /\ p[2] \in Wild

RECURSIVE LikeToRegex(_)
LikeToRegex(p) ==
  IF p = <<>> THEN <<>>
  ELSE IF Escaped(p) THEN EscapeChar(p[2]) \o LikeToRegex(SubSeq(p, 3, Len(p)))
  ELSE (CASE p[1] = "%" -> <<".", "*">>
          [] p[1] = "_" -> <<".">>
          [] OTHER      -> EscapeChar(p[1])) \o LikeToRegex(Tail(p))

\* The anchored regular expression, as the server reads it.
RECURSIVE RegexMatches(_, _)
RegexMatches(r, s) ==
  IF r = <<>> THEN s = <<>>
  ELSE IF Len(r) > 1 /\ r[1] = "." /\ r[2] = "*"
  THEN \E i \in 1 .. Len(s) + 1 : RegexMatches(SubSeq(r, 3, Len(r)), SubSeq(s, i, Len(s)))
  ELSE IF r[1] = "\\"
  THEN s # <<>> /\ s[1] = r[2] /\ RegexMatches(SubSeq(r, 3, Len(r)), Tail(s))
  ELSE s # <<>> /\ r[1] \in {".", s[1]} /\ RegexMatches(Tail(r), Tail(s))

\* What LIKE means: the pattern read as atoms, a wildcard or a character each,
\* and the text cut into one piece for every atom.
RECURSIVE Atoms(_)
Atoms(p) ==
  IF p = <<>> THEN <<>>
  ELSE IF Len(p) > 1 /\ p[1] = "\\" /\ p[2] \in Wild
  THEN <<[wild |-> FALSE, ch |-> p[2]]>> \o Atoms(SubSeq(p, 3, Len(p)))
  ELSE <<[wild |-> p[1] \in {"%", "_"}, ch |-> p[1]]>> \o Atoms(Tail(p))

Covers(atom, piece) ==
  IF ~atom.wild THEN piece = <<atom.ch>> ELSE atom.ch = "%" \/ Len(piece) = 1

Like(p, s) ==
  LET a == Atoms(p)
  IN \E cut \in [0 .. Len(a) -> 0 .. Len(s)] :
       /\ cut[0] = 0 /\ cut[Len(a)] = Len(s)
       /\ \A i \in 1 .. Len(a) :
            cut[i - 1] <= cut[i] /\ Covers(a[i], SubSeq(s, cut[i - 1] + 1, cut[i]))

-----------------------------------------------------------------------------
(* Trees: each operation is its node's, on what it makes of the children    *)

RECURSIVE Selects(_, _)
Selects(f, d) ==
  IF f.op = "like" THEN Like(f.vs, d[f.f])
  ELSE SelectsNode(f, d, [i \in DOMAIN f.parts |-> Selects(f.parts[i], d)])

RECURSIVE Compile(_)
Compile(f) ==
  IF f.op = "like" THEN Node("$regex", f.f, LikeToRegex(f.vs), <<>>)
  ELSE CompileNode(f, [i \in DOMAIN f.parts |-> Compile(f.parts[i])])

RECURSIVE Matches(_, _)
Matches(q, d) ==
  IF q.op = "$regex" THEN RegexMatches(q.vs, d[q.f])
  ELSE MatchesNode(q, d, [i \in DOMAIN q.parts |-> Matches(q.parts[i], d)])

RECURSIVE CompileExpr(_)
CompileExpr(f) ==
  IF f.op = "like" THEN Compile(f)
  ELSE CompileExprNode(f, [i \in DOMAIN f.parts |-> CompileExpr(f.parts[i])])

RECURSIVE Holds(_, _)
Holds(e, d) ==
  IF e.op = "$regex" THEN RegexMatches(e.vs, d[e.f])
  ELSE HoldsNode(e, d, [i \in DOMAIN e.parts |-> Holds(e.parts[i], d)])

-----------------------------------------------------------------------------
(* Records on their way to a $match                                         *)

RECURSIVE Cast(_)
Cast(q) == CastNode(q, [i \in DOMAIN q.parts |-> Cast(q.parts[i])])

RECURSIVE Expand(_)
Expand(q) == ExpandNode(q, [i \in DOMAIN q.parts |-> Expand(q.parts[i])])

RECURSIVE Coerce(_, _)
Coerce(q, oracle) == CoerceNode(q, oracle, [i \in DOMAIN q.parts |-> Coerce(q.parts[i], oracle)])

\* compileFilterToMongo on a record.
CompileRecord(q, oracle) == Coerce(Expand(q), oracle)

\* The first $match of an aggregation: cast, then compiled.
MatchStage(q) == CompileRecord(Cast(q), TRUE)
=============================================================================
