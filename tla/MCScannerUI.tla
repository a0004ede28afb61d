---------------------------- MODULE MCScannerUI -----------------------------
(***************************************************************************)
(* Instances of ScannerUI for TLC.                                         *)
(***************************************************************************)
EXTENDS ScannerUI, TLC

CONSTANTS p1, p2, m1, m2, t1, t2

Symmetry == Permutations(POs) \cup Permutations(Models) \cup Permutations(Texts)
=============================================================================
