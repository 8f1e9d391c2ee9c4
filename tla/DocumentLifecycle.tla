------------------------- MODULE DocumentLifecycle -------------------------
(***************************************************************************)
(* How documents come, go and come back: the soft-delete, cascade,         *)
(* multi-tenant and immutable-states plugins on one repository of parents, *)
(* and the repositories of its children.  A call is a pipeline of awaits:  *)
(* the policy hooks (tenant scope, the soft deletion itself), the default  *)
(* hooks (snapshot, restrict, frozen guard), the driver's statement, the   *)
(* after hooks (detach, then cascade).  Other calls run between any two of *)
(* them, and a process may stop there.                                     *)
(*                                                                         *)
(* A repository declares its relations and plugins in some order; hooks of *)
(* one priority run in it.  Here they run in any order.  The tenant plugin *)
(* is registered first, as its documentation asks.                         *)
(***************************************************************************)
EXTENDS Naturals, FiniteSets

CONSTANTS
  Parents, Children,
  Relations,
  RelationOf,   \* the relation through which a child references a parent
  Tenants,
  Home,         \* the tenant of a document
  Callers,
  ActsFor,      \* the tenant of a caller
  Setups,       \* the configurations considered
  MaxCalls      \* calls started in a behaviour

Docs == Parents \cup Children
None == "none"

Policies == {"cascade", "restrict", "detach"}

\* soft: the parents' repository has softDeletePlugin, with filterMode mode;
\* softChild: which relations' repositories have it; guard: immutableStatesPlugin.
Setup == [soft : BOOLEAN, mode : {"null", "exists"}, guard : BOOLEAN,
          policy : [Relations -> Policies], softChild : [Relations -> BOOLEAN],
          parallel : BOOLEAN]

ASSUME LifecycleAssumption ==
  /\ Parents \cap Children = {}
  /\ None \notin Parents
  /\ Relations \cap {"snapshot", "guard"} = {}
  /\ RelationOf \in [Children -> Relations]
  /\ Home \in [Docs -> Tenants]
  /\ ActsFor \in [Callers -> Tenants]
  /\ Setups \subseteq Setup
  /\ MaxCalls \in Nat

VARIABLES
  setup,    \* the configuration, fixed
  doc,      \* the collections
  call,     \* what each caller is doing
  started,  \* calls started so far
  news      \* the documents others changed since the caller's last call began

vars == <<setup, doc, call, started, news>>

\* deleted is the deletion field: absent, null, or a date.  in is a field that
\* filters test.
Document == [deleted : {"absent", "null", "date"}, exists : BOOLEAN,
             frozen : BOOLEAN, in : BOOLEAN, ref : Parents \cup {None}]

Deletions == {"delete", "deleteMany"}
ById      == {"update", "restore"}
ByFilter  == {"findOneAndUpdate", "updateMany"}
Operations == Deletions \cup ById \cup ByFilter

\* ids: what the call is about; todo: the hooks, then the relations, ahead.
Call == [stage : {"idle", "policy", "hooks", "detach", "cascade",
                  "done", "missed", "refused", "failed"},
         op : Operations, hard : BOOLEAN, ids : SUBSET Docs,
         marked : BOOLEAN, todo : SUBSET (Relations \cup {"snapshot", "guard"}),
         broken : SUBSET Relations]

Idle == [stage |-> "idle", op |-> "update", hard |-> FALSE, ids |-> {},
         marked |-> FALSE, todo |-> {}, broken |-> {}]

TypeOK ==
  /\ setup \in Setups
  /\ doc \in [Docs -> Document]
  /\ call \in [Callers -> Call]
  /\ started \in 0 .. MaxCalls
  /\ news \in [Callers -> SUBSET Docs]

-----------------------------------------------------------------------------
(* What filters match                                                       *)

\* Whether the repository of a document soft-deletes.
Softly(d) == IF d \in Parents THEN setup.soft ELSE setup.softChild[RelationOf[d]]

\* buildDeletionStateFilter, 'live' and 'deleted'.
Undeleted(d) == doc[d].deleted \in IF setup.mode = "exists" THEN {"absent"} ELSE {"absent", "null"}
InTrash(d)   == doc[d].deleted = "date"

\* What an injected policy filter leaves of the collection.
Live(d) == doc[d].exists /\ (Softly(d) => Undeleted(d))

\* Mutant of Scope: the tenant is not injected.
Unscoped(c) == Docs

Scope(c) == {d \in Docs : Home[d] = ActsFor[c]}

\* The filter of updateMany and deleteMany: the tenant's parents whose field is set.
Matching(c) == {p \in Parents \cap Scope(c) : doc[p].exists /\ doc[p].in}

\* The document of a call by id.
Addressed(c) == {p \in call[c].ids \cap Scope(c) : doc[p].exists}

\* The children a relation finds under ids, with the target repository's policy.
Referencing(c, r, ids) ==
  {k \in Children \cap Scope(c) : RelationOf[k] = r /\ doc[k].exists /\ doc[k].ref \in ids}

Related(policies) == {r \in Relations : setup.policy[r] \in policies}

-----------------------------------------------------------------------------

\* A new document of a schema: `default: null` goes with the null filter.
Blank == [deleted |-> IF setup.mode = "null" THEN "null" ELSE "absent",
          exists |-> TRUE, frozen |-> FALSE, in |-> FALSE, ref |-> None]

Missing == [Blank EXCEPT !.exists = FALSE]

Init ==
  /\ setup \in Setups
  /\ \E referenced \in Parents, in \in {{}, Parents} :
       doc = [d \in Docs |-> IF d \in Parents THEN [Blank EXCEPT !.in = d \in in]
                             ELSE [Blank EXCEPT !.ref = referenced]]
  /\ call = [c \in Callers |-> Idle]
  /\ started = 0
  /\ news = [c \in Callers |-> {}]

\* One statement of c: the documents it writes, as it leaves them.
Write(c, new) ==
  /\ doc' = [d \in Docs |-> IF d \in DOMAIN new THEN new[d] ELSE doc[d]]
  /\ news' = [x \in Callers |-> IF call'[x] = Idle THEN {}
                                 ELSE IF x = c THEN news[x] ELSE news[x] \cup DOMAIN new]

Marked(D)  == [d \in D |-> [doc[d] EXCEPT !.deleted = "date"]]
Removed(D) == [d \in D |-> [doc[d] EXCEPT !.exists = FALSE]]
Restored(D) == [d \in D |-> [doc[d] EXCEPT !.deleted = "null"]]

Reads == UNCHANGED <<doc, news>>

Ends(c, how) == call' = [call EXCEPT ![c].stage = how, ![c].todo = {}]

\* The outcome of other calls is forgotten: the model keeps that of deletions.
Returns(c) == call' = [call EXCEPT ![c] = Idle]

Resting(c) == call[c].stage \in {"idle", "done", "missed", "refused", "failed"}

-----------------------------------------------------------------------------
(* The beginning of a call: _buildContext                                   *)

\* Mutant of Hooks: bulk deletions are not restricted.
HooksOfOne(o) ==
  (IF o = "deleteMany" THEN {"snapshot"} ELSE {})
    \cup (IF setup.guard THEN {"guard"} ELSE {})
    \cup (IF o = "delete" THEN Related({"restrict"}) ELSE {})

Hooks(o) ==
  (IF o = "deleteMany" THEN {"snapshot"} ELSE {})
    \cup (IF setup.guard THEN {"guard"} ELSE {})
    \cup (IF o \in Deletions THEN Related({"restrict"}) ELSE {})

Begin(c, o, target, hard) ==
  /\ Resting(c) /\ started < MaxCalls
  /\ call' = [call EXCEPT ![c] =
       [Idle EXCEPT !.stage = IF o \in Deletions /\ setup.soft /\ ~hard THEN "policy" ELSE "hooks",
                    !.op = o, !.hard = hard, !.ids = target, !.todo = Hooks(o)]]
  /\ started' = started + 1
  /\ news' = [news EXCEPT ![c] = {}]
  /\ UNCHANGED <<setup, doc>>

\* delete and restore, and update, claimVersion and a claim of another field.
CallById(c, o, p) == o \in ById \cup {"delete"} /\ \E hard \in BOOLEAN :
  (hard => o = "delete" /\ setup.soft) /\ (o = "restore" => setup.soft) /\ Begin(c, o, {p}, hard)

\* deleteMany, updateMany, findOneAndUpdate, with a filter.
CallByFilter(c, o) == o \in ByFilter \cup {"deleteMany"} /\ \E hard \in BOOLEAN :
  (hard => o = "deleteMany" /\ setup.soft) /\ Begin(c, o, {}, hard)

\* softDeletePlugin, before:delete and before:deleteMany, at POLICY: the deletion is
\* made here.  One document is found by id and scope, whatever its deletion field;
\* many only while they are live.
SoftDelete(c) ==
  LET found == IF call[c].op = "delete"
               THEN Addressed(c)
               ELSE {p \in Matching(c) : Live(p)}
  IN /\ call[c].stage = "policy"
     /\ \/ (call[c].op = "delete" => found # {})
           /\ call' = [call EXCEPT ![c].stage = "hooks", ![c].marked = TRUE]
           /\ Write(c, Marked(found))
        \/ call[c].op = "delete" /\ found = {} /\ Ends(c, "missed") /\ Reads
     /\ UNCHANGED <<setup, started>>

-----------------------------------------------------------------------------
(* The default hooks                                                        *)

Passes(c, h) == call' = [call EXCEPT ![c].todo = @ \ {h}]

\* Mutant of Snapshot: the ids of the whole tenant.
SnapshotOfTenant(c) ==
  /\ call[c].stage = "hooks" /\ "snapshot" \in call[c].todo
  /\ call' = [call EXCEPT ![c].ids = Parents \cap Scope(c), ![c].todo = @ \ {"snapshot"}]
  /\ Reads /\ UNCHANGED <<setup, started>>

\* cascadePlugin, before:deleteMany: the ids, deleted ones among them.
Snapshot(c) ==
  /\ call[c].stage = "hooks" /\ "snapshot" \in call[c].todo
  /\ call' = [call EXCEPT ![c].ids = Matching(c), ![c].todo = @ \ {"snapshot"}]
  /\ Reads /\ UNCHANGED <<setup, started>>

\* One restriction: the target repository counts its live children.
Restrict(c, r) ==
  /\ call[c].stage = "hooks" /\ r \in call[c].todo \cap Relations
  /\ "snapshot" \notin call[c].todo
  /\ IF \E k \in Referencing(c, r, call[c].ids) : Live(k)
     THEN Ends(c, "refused") ELSE Passes(c, r)
  /\ Reads /\ UNCHANGED <<setup, started>>

\* Mutant of Guarded: a call with a filter is not probed.
GuardedById(c) == IF call[c].op \in ById \cup {"delete"} THEN Addressed(c) ELSE {}

\* immutableStatesPlugin: guardById, guardMany, and the pre-read of
\* findOneAndUpdate, whose filter already holds the deletion filter.
Guarded(c) ==
  CASE call[c].op \in ById \cup {"delete"} -> Addressed(c)
    [] call[c].op = "deleteMany"           -> Matching(c)
    [] call[c].op \in ByFilter             -> {p \in Matching(c) : Live(p)}

Guard(c) ==
  /\ call[c].stage = "hooks" /\ "guard" \in call[c].todo
  /\ \/ /\ \E p \in Guarded(c) : doc[p].frozen
        /\ Ends(c, "refused")
     \/ /\ IF call[c].op = "findOneAndUpdate"
           THEN Guarded(c) = {} \/ \E p \in Guarded(c) : ~doc[p].frozen
           ELSE \A p \in Guarded(c) : ~doc[p].frozen
        /\ Passes(c, "guard")
  /\ Reads /\ UNCHANGED <<setup, started>>

-----------------------------------------------------------------------------
(* The driver's statement                                                   *)

HooksPassed(c) == call[c].stage = "hooks" /\ call[c].todo = {}

\* The relations an after hook works through, detachments first.
After(c, stage) ==
  call' = [call EXCEPT ![c].stage = stage,
             ![c].todo = Related({stage}) \cap {r \in Relations : call[c].ids # {}}]

\* findOneAndDelete or deleteMany; a miss is no error, and the hooks follow.
Remove(c) ==
  /\ HooksPassed(c) /\ call[c].op \in Deletions
  /\ After(c, "detach")
  /\ IF call[c].marked THEN Reads
     ELSE Write(c, Removed(IF call[c].op = "delete" THEN Addressed(c) ELSE Matching(c)))
  /\ UNCHANGED <<setup, started>>

\* update and a claim of another field write the document by id and scope only;
\* restore writes null into the deletion field.
WriteById(c) ==
  /\ HooksPassed(c) /\ call[c].op \in ById
  /\ Returns(c)
  /\ Write(c, IF call[c].op = "restore" THEN Restored(Addressed(c))
              ELSE [p \in Addressed(c) |-> [doc[p] EXCEPT !.in = ~@]])
  /\ UNCHANGED <<setup, started>>

\* findOneAndUpdate writes one live match: the first in the order of its sort option.
UpdateOne(c) ==
  /\ HooksPassed(c) /\ call[c].op = "findOneAndUpdate" /\ Returns(c)
  /\ IF \E p \in Matching(c) : Live(p)
     THEN \E p \in Matching(c) : Live(p) /\ Write(c, [d \in {p} |-> [doc[d] EXCEPT !.in = FALSE]])
     ELSE Write(c, Removed({}))
  /\ UNCHANGED <<setup, started>>

UpdateMany(c) ==
  /\ HooksPassed(c) /\ call[c].op = "updateMany" /\ Returns(c)
  /\ Write(c, [p \in {p \in Matching(c) : Live(p)} |-> [doc[p] EXCEPT !.in = FALSE]])
  /\ UNCHANGED <<setup, started>>

\* claim on the guarded field: the compare-and-set pins the state it leaves, and
\* leaving a frozen one is refused, so a document can be frozen and stays so.
Freeze(c, p) ==
  /\ Resting(c) /\ started < MaxCalls /\ setup.guard
  /\ p \in Scope(c) /\ doc[p].exists /\ ~doc[p].frozen
  /\ started' = started + 1
  /\ Returns(c) /\ Write(c, [d \in {p} |-> [doc[d] EXCEPT !.frozen = TRUE]])
  /\ UNCHANGED setup

-----------------------------------------------------------------------------
(* The after hooks: runCascades                                             *)

\* What the target repository does with the children of relation r: $unset through
\* updateMany, or its own deleteMany, in the mode of the parent.
Detached(c, r) == {k \in Referencing(c, r, call[c].ids) : Live(k)}
Cascaded(c, r) == {k \in Referencing(c, r, call[c].ids) :
                     call[c].marked /\ setup.softChild[r] => Live(k)}

Relay(c, r) ==
  /\ call[c].stage \in {"detach", "cascade"} /\ r \in call[c].todo
  /\ Passes(c, r)
  /\ IF call[c].stage = "detach"
     THEN Write(c, [k \in Detached(c, r) |-> [doc[k] EXCEPT !.ref = None]])
     ELSE Write(c, IF call[c].marked /\ setup.softChild[r] THEN Marked(Cascaded(c, r))
                 ELSE Removed(Cascaded(c, r)))
  /\ UNCHANGED <<setup, started>>

\* Mutant of RelayFails: the first failure ends the call.
FailsAtOnce(c, r) ==
  /\ call[c].stage \in {"detach", "cascade"} /\ r \in call[c].todo
  /\ call' = [call EXCEPT ![c].broken = @ \cup {r}, ![c].todo = {}]
  /\ Reads /\ UNCHANGED <<setup, started>>

\* A relation's statement fails: its siblings go on only when they run in parallel.
RelayFails(c, r) ==
  /\ call[c].stage \in {"detach", "cascade"} /\ r \in call[c].todo
  /\ call' = [call EXCEPT ![c].broken = @ \cup {r},
                          ![c].todo = IF setup.parallel THEN @ \ {r} ELSE {}]
  /\ Reads /\ UNCHANGED <<setup, started>>

Relayed(c) ==
  /\ call[c].stage \in {"detach", "cascade"} /\ call[c].todo = {}
  /\ \/ call[c].broken # {} /\ Ends(c, "failed")
     \/ call[c].broken = {} /\ call[c].stage = "detach" /\ After(c, "cascade")
     \/ call[c].broken = {} /\ call[c].stage = "cascade" /\ Ends(c, "done")
  /\ Reads /\ UNCHANGED <<setup, started>>

-----------------------------------------------------------------------------
(* The children's own repositories, and the process                         *)

\* create: nothing looks at the parent.
CreateChild(c, k, p) ==
  /\ k \in Scope(c) /\ ~doc[k].exists
  /\ started < MaxCalls /\ started' = started + 1
  /\ Returns(c) /\ Write(c, [d \in {k} |-> [Blank EXCEPT !.ref = p]])
  /\ UNCHANGED setup

RestoreChild(c, k) ==
  /\ k \in Scope(c) /\ doc[k].exists /\ Softly(k)
  /\ started < MaxCalls /\ started' = started + 1
  /\ Returns(c) /\ Write(c, Restored({k}))
  /\ UNCHANGED setup

\* The process of c stops between two awaits.
Crash(c) ==
  /\ ~Resting(c)
  /\ Returns(c) /\ news' = [news EXCEPT ![c] = {}]
  /\ UNCHANGED <<setup, doc, started>>

Step(c) ==
  \/ SoftDelete(c) \/ Snapshot(c) \/ Guard(c) \/ (\E r \in Relations : Restrict(c, r))
  \/ Remove(c) \/ WriteById(c) \/ UpdateOne(c) \/ UpdateMany(c)
  \/ (\E r \in Relations : Relay(c, r) \/ RelayFails(c, r)) \/ Relayed(c)

Next == \E c \in Callers :
  \/ \E o \in Operations : CallByFilter(c, o) \/ \E p \in Parents : CallById(c, o, p)
  \/ Step(c)
  \/ \E p \in Parents : Freeze(c, p)
  \/ \E k \in Children : RestoreChild(c, k) \/ \E p \in Parents : CreateChild(c, k, p)
  \/ Crash(c)

Spec == Init /\ [][Next]_vars

-----------------------------------------------------------------------------
(* Properties                                                               *)

\* A restricted parent that a call removes is referenced by no live child, but for a
\* child that was created or restored under the call, and a parent that came to
\* match the filter under it (cascade.plugin.ts:303-317, 452-487).
RestrictHolds ==
  [][\A c \in Callers, p \in Parents :
       doc[p].exists /\ ~doc'[p].exists /\ Remove(c) =>
         \A r \in Related({"restrict"}) : \A k \in Referencing(c, r, {p}) :
           Live(k) => k \in news[c] \/ p \in news[c]]_vars

\* A deletion that reports success leaves no live child of what it deleted, except
\* one that appeared under the call: after a crash as well, when the caller asks
\* again.  In parallel the failure of one relation does not excuse its siblings.
CascadeComplete ==
  \A c \in Callers :
    call[c].op \in Deletions /\ call[c].stage \in {"done", "failed"} =>
      \A r \in Relations : \A k \in Referencing(c, r, call[c].ids) :
        \/ k \in news[c] \/ ~Live(k)
        \/ setup.policy[r] = "restrict"
        \/ r \in call[c].broken
        \/ call[c].stage = "failed" /\ ~setup.parallel
        \/ setup.policy[r] = "cascade" /\ \E s \in call[c].broken : setup.policy[s] = "detach"

\* A frozen parent is changed only by a call that began before it was frozen, or,
\* when the call names a filter, before it matched (immutable-states.plugin.ts:42-47).
\* Left out: what the soft deletion marks before the guard runs, and findOneAndUpdate.
FrozenOnlyInWindow ==
  [][\A c \in Callers, p \in Parents :
       /\ setup.guard /\ doc[p].frozen /\ doc'[p] # doc[p]
       /\ Remove(c) \/ WriteById(c) \/ UpdateMany(c)
       => p \in news[c]]_vars

\* A cascade deletes no child of a parent of the caller's tenant that is still live,
\* but for one that left the filter, or was restored, under the call.
LivingKeepChildren ==
  [][\A c \in Callers, r \in Relations, k \in Children :
       /\ doc'[k] # doc[k] /\ call[c].stage = "cascade" /\ Relay(c, r)
       /\ Home[doc[k].ref] = ActsFor[c] /\ Live(doc[k].ref)
       => doc[k].ref \in news[c]]_vars

\* A step changes documents of one tenant only, through every relation as well (multi-tenant.plugin.ts:280-300, cascade.plugin.ts:85-90).
TenantsApart ==
  [][\E t \in Tenants : \A d \in Docs : doc'[d] # doc[d] => Home[d] = t]_vars

(* A property the code states and does not have                            *)

\* A refused deletion has deleted nothing (cascade.plugin.ts:298).
RefusalIsClean == \A c \in Callers : call[c].stage = "refused" => ~call[c].marked
=============================================================================
