---------------------------- MODULE MCDiscovery ----------------------------
(* Instances of Discovery for TLC.  The lanes are model values; they are   *)
(* interchangeable wherever KeywordBlind is empty or the set of all lanes. *)
EXTENDS Discovery, TLC

LaneSymmetry == Permutations(Lanes)
=============================================================================
