-------------------------- MODULE MCNetisoSession --------------------------
(* Instances of NetisoSession for TLC. *)
EXTENDS NetisoSession, TLC

CONSTANTS p1, p2

\* The paths are interchangeable.
Sym == Permutations({p1, p2})
=============================================================================
