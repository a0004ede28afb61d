--------------------------- MODULE MCReceiveSync ----------------------------
(***************************************************************************)
(* Instances of ReceiveSync for TLC.  Slots 1 and 3 are units of one model *)
(* of one order; slot 2, between them by id, is another model.  The        *)
(* inventory id of slot 3 is not a number.                                 *)
(***************************************************************************)
EXTENDS ReceiveSync

MCSlotOfItem == [it \in Items |-> it]
MCLineOfSlot == [s \in Slots |-> IF s = 2 THEN "B" ELSE "A"]
MCInvNumber  == [s \in Slots |-> IF s = 3 THEN NonNumeric ELSE s]
MCPortalRank == [s \in Slots |-> s]
=============================================================================
