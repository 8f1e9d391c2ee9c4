-------------------------- MODULE MCRecordedWrites --------------------------
EXTENDS WatchedWrites
CONSTANTS x, y

Captures(bound, audit, verbs) == [bound |-> bound, audit |-> audit, verbs |-> verbs]
Basic == {"create", "update", "increment", "delete"}
Others(verbs) == [bound |-> FALSE, audit |-> "best-effort", verbs |-> verbs]

\* A watcher beside inserts and deletions, and beside the upserts of a key.
MCWatched == {Captures(TRUE, "transactional", {"create", "update", "delete"}), Others(Upserts)}

MCSetups == {Captures(TRUE, "transactional", Basic), Captures(FALSE, "transactional", Basic),
             Captures(TRUE, "best-effort", Basic),
             Captures(TRUE, "transactional", {"update", "multiply", "setMin", "setMax", "setField"}),
             Others({"take", "give"})} \cup MCWatched

Interchangeable == Permutations({x, y})
=============================================================================
