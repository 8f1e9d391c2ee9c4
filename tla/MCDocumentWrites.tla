-------------------------- MODULE MCDocumentWrites --------------------------
(***************************************************************************)
(* Instances of DocumentWrites for TLC.                                    *)
(***************************************************************************)
EXTENDS DocumentWrites, TLC

\* A machine with a way back, so that a state may come again, and an end.
OrderMachine == {<<"draft", "open">>, <<"open", "draft">>, <<"open", "closed">>}
=============================================================================
