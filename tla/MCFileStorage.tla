---------------------------- MODULE MCFileStorage ----------------------------
(* Instances of FileStorage for TLC.                                         *)
EXTENDS FileStorage, TLC

CONSTANTS k1, k2, v1, v2

TwoKeys == {k1, k2}
TwoValues == {v1, v2}
Symmetry == Permutations(TwoKeys) \cup Permutations(TwoValues)
AllRead == {"ONCE", "LAZY", "DYNAMIC"}
AllWrite == {"ONCE", "DYNAMIC", "DISCARD"}
=============================================================================
