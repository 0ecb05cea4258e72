----------------------------- MODULE MCGraphics -----------------------------
(* Graphics for TLC: textures are alike, and texture units. *)
EXTENDS Graphics, TLC
MCSymmetry == Permutations(Textures) \cup Permutations(Units)
MCDefault == [warm |-> 1, cold |-> 2]
=============================================================================
