-------------------------- MODULE MCPackTemplates --------------------------
(* Instances of PackTemplates for TLC.                                     *)
EXTENDS PackTemplates, TLC

CONSTANTS chat, a1, a2, a3, l1, l2

(* Requests and loads are alike, and the properties are invariants.        *)
Alike == Permutations(Admins) \cup Permutations(Loaders)
=============================================================================
