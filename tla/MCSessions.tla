----------------------------- MODULE MCSessions -----------------------------
(***************************************************************************)
(* Instances of Sessions for TLC.  Connections are interchangeable, and so *)
(* are names: no handler orders them or singles one out.                   *)
(***************************************************************************)
EXTENDS Sessions, TLC

Symmetry == Permutations(Nicks) \cup Permutations(Names)
=============================================================================
