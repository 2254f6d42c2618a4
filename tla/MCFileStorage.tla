---------------------------- MODULE MCFileStorage ----------------------------
(* Instances of FileStorage for TLC. *)
EXTENDS FileStorage
=============================================================================
