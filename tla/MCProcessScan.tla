--------------------------- MODULE MCProcessScan ----------------------------
(***************************************************************************)
(* Instances of ProcessScan for TLC.  Slots 1 and 2 are two units of model *)
(* "A"; slot 3 is a model the catalog spells "A-", which has the same key, *)
(* so that while both spellings are unclaimed no barcode matches either.   *)
(* The barcodes "a" and "a-" are two spellings of the model, "x" matches   *)
(* nothing.                                                                *)
(***************************************************************************)
EXTENDS ProcessScan, TLC

CONSTANTS p1, w1, w2, s1, s2

MCNormKey == [x \in Models \cup Barcodes |-> IF x = "x" THEN "x" ELSE "a"]

MCSourceRow == [i \in InvIds |-> [po |-> p1, model |-> IF i = 3 THEN "A-" ELSE "A"]]

(* SHA-256 of three strings that can be told apart in their concatenation.  *)
MCReceivingIds == POs \X (InvIds \cup {NoInv}) \X Barcodes

MCReceivingIdOf == [x \in MCReceivingIds |-> x]

Symmetry == Permutations(Serials) \cup Permutations(Workers)
=============================================================================
