--------------------------- MODULE WizardContract ---------------------------
(***************************************************************************)
(* What the robot takes for granted of receive_item (core/ports.py): a     *)
(* call enters its serial in the portal at most once; "received" says that *)
(* it did, "not_found" and "finalize_error" that it did not, and an        *)
(* ExecutorError says neither.  These are the ends that ReceiveSync gives  *)
(* an attempt.  One excuse is needed: a portal that refuses the unit and   *)
(* does not show it in time.                                               *)
(***************************************************************************)
EXTENDS Naturals

CONSTANTS Items, NoItem

VARIABLES
    current,  \* the item of the call in progress
    entered,  \* how often the portal has received an item
    given,    \* whether this call has entered its serial
    unseen,   \* whether this call was refused and not told
    outcome   \* how the last call ended

vars == <<current, entered, given, unseen, outcome>>

-----------------------------------------------------------------------------
Init ==
    /\ current = NoItem
    /\ entered = [it \in Items |-> 0]
    /\ given = FALSE /\ unseen = FALSE
    /\ outcome = "none"

Call(it) ==
    /\ current = NoItem /\ current' = it
    /\ given' = FALSE /\ unseen' = FALSE
    /\ outcome' = "none"
    /\ UNCHANGED entered

Enter ==
    /\ current # NoItem /\ ~given /\ ~unseen
    /\ given' = TRUE
    /\ entered' = [entered EXCEPT ![current] = @ + 1]
    /\ UNCHANGED <<current, unseen, outcome>>

RefuseUnseen ==
    /\ current # NoItem /\ ~given
    /\ unseen' = TRUE
    /\ UNCHANGED <<current, entered, given, outcome>>

Return(end) ==
    /\ current # NoItem /\ current' = NoItem
    /\ end = "received" => given \/ unseen
    /\ end \in {"not_found", "finalize_error"} => ~given
    /\ outcome' = end
    /\ UNCHANGED <<entered, given, unseen>>

Next ==
    \/ \E it \in Items : Call(it)
    \/ Enter \/ RefuseUnseen
    \/ \E end \in {"received", "not_found", "finalize_error", "raised"} : Return(end)

Spec == Init /\ [][Next]_vars
=============================================================================
