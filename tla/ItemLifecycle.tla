--------------------------- MODULE ItemLifecycle ----------------------------
(***************************************************************************)
(* What the robot promises of the items of the board and the portal,       *)
(* whatever fails and whenever it is started again.  An item that the desk *)
(* has emitted is open until it is RECEIVED or NO_MATCH, and both are      *)
(* final.  Attempts are made for open items only: the portal takes the     *)
(* serial, perhaps again, or it refuses it and nobody is shown, or the     *)
(* attempt comes to nothing.  An item becomes RECEIVED only when the       *)
(* portal has its serial or refused it unseen in the last attempt.         *)
(***************************************************************************)
EXTENDS Naturals

CONSTANTS Items, InitiallyReady

VARIABLES
    group,    \* where an item of the board is
    entries,  \* how often the portal was given the serial of an item
    refused   \* items whose last attempt was refused unseen

vars == <<group, entries, refused>>

Open(it) == group[it] \in {"READY", "ATTENTION"}

-----------------------------------------------------------------------------
Init ==
    /\ group = [it \in Items |-> IF it \in InitiallyReady THEN "READY" ELSE "absent"]
    /\ entries = [it \in Items |-> 0]
    /\ refused = {}

Arrive(it) ==
    /\ group[it] = "absent"
    /\ group' = [group EXCEPT ![it] = "READY"]
    /\ UNCHANGED <<entries, refused>>

Enter(it) ==
    /\ Open(it)
    /\ entries' = [entries EXCEPT ![it] = @ + 1]
    /\ refused' = refused \ {it}
    /\ UNCHANGED group

RefuseUnseen(it) ==
    /\ Open(it)
    /\ refused' = refused \cup {it}
    /\ UNCHANGED <<group, entries>>

Fail(it) ==
    /\ Open(it)
    /\ refused' = refused \ {it}
    /\ UNCHANGED <<group, entries>>

Receive(it) ==
    /\ Open(it)
    /\ entries[it] > 0 \/ it \in refused
    /\ group' = [group EXCEPT ![it] = "RECEIVED"]
    /\ UNCHANGED <<entries, refused>>

Reject(it) ==
    /\ Open(it)
    /\ group' = [group EXCEPT ![it] = "NO_MATCH"]
    /\ UNCHANGED <<entries, refused>>

(* The item is set aside for the operator, or put back by the operator.     *)
SetAside(it) ==
    /\ Open(it)
    /\ \E g \in {"READY", "ATTENTION"} : group' = [group EXCEPT ![it] = g]
    /\ UNCHANGED <<entries, refused>>

Next ==
    \E it \in Items :
        \/ Arrive(it) \/ Enter(it) \/ RefuseUnseen(it) \/ Fail(it)
        \/ Receive(it) \/ Reject(it) \/ SetAside(it)

Spec == Init /\ [][Next]_vars
=============================================================================
