----------------------------- MODULE MCFileRead -----------------------------
(* Instances of FileRead for TLC. *)
EXTENDS FileRead
=============================================================================
