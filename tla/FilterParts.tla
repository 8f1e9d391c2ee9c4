---------------------------- MODULE FilterParts ----------------------------
(***************************************************************************)
(* Taking parts out of a filter, node by node: the part that is tested     *)
(* before the joins and the part behind them (splitFilterByAlias), and     *)
(* what the sanitizers of a pipeline leave of a $match.                    *)
(***************************************************************************)
EXTENDS FilterNodes

\* The entries of s at the chosen places, in their order: Array.filter.
Chosen(s, keep) ==
  LET c[i \in 0 .. Len(s)] ==
        IF i = 0 THEN <<>> ELSE IF keep[i] THEN Append(c[i - 1], s[i]) ELSE c[i - 1]
  IN c[Len(s)]

-----------------------------------------------------------------------------
(* splitFilterByAlias                                                       *)

CONSTANT Joined   \* the fields that are there after the joins only

\* A document before its joins.
Unjoined(d) == [f \in DOMAIN d |-> IF f \in Joined THEN Missing ELSE d[f]]

\* irReferencesAlias, given which of the children refer to a joined field.
RefersNode(f, parts) == f.f \in Joined \/ \E i \in DOMAIN f.parts : parts[i]

\* andOrSingle.
Everything == Tree("true", <<>>)
AndOrSingle(children) == Several("and", children, Everything)

SplitNode(f, parts) ==
  IF f.op = "and"
  THEN [base   |-> AndOrSingle(Chosen(f.parts, [i \in DOMAIN f.parts |-> ~parts[i]])),
        joined |-> AndOrSingle(Chosen(f.parts, parts))]
  ELSE IF RefersNode(f, parts) THEN [base |-> Everything, joined |-> f]
  ELSE [base |-> f, joined |-> Everything]

\* splitRecordByAlias: the entries of a record.
Entries(q) == IF q.op = "record" THEN q.parts ELSE <<q>>
RecordOf(entries) == IF entries = <<>> THEN AllRows ELSE Node("record", "", <<>>, entries)

IsJoined(q) == q.op \notin Compound /\ q.f \in Joined

\* recordReferencesAlias looks at the keys of a branch, not into them.
RecordRefers(q) == \E i \in DOMAIN Entries(q) : IsJoined(Entries(q)[i])

\* Mutant of MixedTop: branches are not looked at.
NeverMixed(entry) == FALSE

MixedTop(entry) == entry.op \in Logical /\ \E i \in DOMAIN entry.parts : RecordRefers(entry.parts[i])

\* A record with a mixed operator is tested after the joins, as a whole.
SplitRecord(q) ==
  LET entries == Entries(q)
  IN IF \E i \in DOMAIN entries : MixedTop(entries[i])
     THEN [base |-> AllRows, joined |-> q]
     ELSE [base   |-> RecordOf(Chosen(entries, [i \in DOMAIN entries |-> ~IsJoined(entries[i])])),
           joined |-> RecordOf(Chosen(entries, [i \in DOMAIN entries |-> IsJoined(entries[i])]))]

-----------------------------------------------------------------------------
(* The sanitizers                                                           *)

\* sanitizeMatchConfig: dangerous keys go, and so do the branches of $or, $and and
\* $nor they leave empty; an operator of no branches goes as a whole.
Harmful == {"$where", "$function", "$accumulator", "$expr"}
SanitizeNode(q, parts) ==
  LET left == Chosen(parts, [i \in DOMAIN parts |-> parts[i] # AllRows])
  IN CASE q.op \in Harmful -> AllRows
       [] q.op \in Compound /\ left = <<>> -> AllRows
       [] q.op \in Compound /\ left # <<>> -> Node(q.op, q.f, q.vs, left)
       [] OTHER -> q

\* _sanitizeDeep takes a dangerous key away, and goes on inside the others.
Dangerous == {"$where", "$function", "$accumulator"}
SanitizeDeepNode(q, parts) ==
  IF q.op \in Dangerous THEN AllRows
  ELSE Node(q.op, q.f, q.vs, Chosen(parts, [i \in DOMAIN parts |-> q.parts[i].op \notin Dangerous]))

\* A filter holds one of these operators, at whatever depth.
HoldsOneOf(ops, q, parts) == q.op \in ops \/ \E i \in DOMAIN q.parts : parts[i]
=============================================================================
