--------------------------- MODULE MCClientSlots ---------------------------
(* Instances of ClientSlots for TLC. *)
EXTENDS ClientSlots, TLC

CONSTANTS a1, a2, b1, c1

\* Two connections from one console and one from each of two others.
MCIpOf == (a1 :> 11) @@ (a2 :> 11) @@ (b1 :> 12) @@ (c1 :> 13)

\* The same for the smaller instances: the console that connects twice and
\* one other.
MCIpOfTwo == (a1 :> 11) @@ (a2 :> 11) @@ (b1 :> 12)

\* The two connections of the same console are interchangeable.
Sym == Permutations({a1, a2})
=============================================================================
