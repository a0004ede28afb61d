--------------------------- MODULE MCPortalWizard ---------------------------
(***************************************************************************)
(* An instance of PortalWizard for TLC: a grid of three pages of which two *)
(* are searched.  The model of item 1 has a row that is done on page 1 and *)
(* an open one on page 2; that of item 2 has its row on page 3, which is   *)
(* beyond the limit.                                                       *)
(***************************************************************************)
EXTENDS PortalWizard

MCRowsOf == [it \in Items |-> IF it = 1 THEN {"a1", "a2"} ELSE {"b3"}]
MCPageOf == [r \in Rows |-> CASE r = "a1" -> 1 [] r = "a2" -> 2 [] OTHER -> 3]
MCToBeReceived == [r \in Rows |-> IF r = "a1" THEN 0 ELSE 1]
MCMaxFault == [kind \in Kinds |-> 1]
=============================================================================
