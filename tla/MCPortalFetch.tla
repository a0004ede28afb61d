--------------------------- MODULE MCPortalFetch ---------------------------
(***************************************************************************)
(* An instance of PortalFetch for TLC.  Order "p" has the units 1 and 2,   *)
(* of which 1 goes off order first; at the end nothing is on order and the *)
(* export has no rows.                                                     *)
(***************************************************************************)
EXTENDS PortalFetch

MCPoOf     == [i \in InvIds |-> "p"]
MCOnOrder  == [v \in Versions |-> IF v = 0 THEN {1, 2} ELSE IF v = 1 THEN {2} ELSE {}]
MCMaxFault == [kind \in Kinds |-> 1]
=============================================================================
