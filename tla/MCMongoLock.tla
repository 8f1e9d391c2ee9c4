---------------------------- MODULE MCMongoLock ----------------------------
(***************************************************************************)
(* Instances of MongoLock for TLC.                                         *)
(***************************************************************************)
EXTENDS MongoLock, TLC

Symmetry == Permutations(Holders)
=============================================================================
