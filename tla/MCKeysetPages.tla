---------------------------- MODULE MCKeysetPages ----------------------------
(* KeysetPages with three documents, a schema with null and one without, and *)
(* two deployments, the second of which refuses the cursors of the first.    *)
EXTENDS KeysetPages

MCServers == {[version |-> 1, min |-> 1], [version |-> 2, min |-> 2]}

\* Every sort but _id ascending and two fields ascending.
MCSorts == {[fields |-> 0, asc |-> FALSE], [fields |-> 1, asc |-> TRUE],
            [fields |-> 1, asc |-> FALSE], [fields |-> 2, asc |-> FALSE]}
=============================================================================
