----------------------------- MODULE MCPersist -----------------------------
(* Instances of Persist for TLC. *)
EXTENDS Persist, TLC

CONSTANTS u, v, c, b, h

Symmetry == Permutations({u, v})
=============================================================================
