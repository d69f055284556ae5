----------------------------- MODULE MCChannels -----------------------------
(***************************************************************************)
(* Instances of Channels for TLC.  Levels stand for an administrator and   *)
(* the co-owner; level 0 comes with chanflags.  Accounts are               *)
(* interchangeable.                                                        *)
(***************************************************************************)
EXTENDS Channels, TLC

MCLevels   == {10, CHLEV_COOWNER}
MCFlagSets == {{"F"}, {"f"}, {"x"}, {"p", "x"}}

Symmetry == Permutations(Users)
=============================================================================
