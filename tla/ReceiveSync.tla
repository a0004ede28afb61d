---------------------------- MODULE ReceiveSync -----------------------------
(***************************************************************************)
(* The receiving robot: the loop of robot_runner.py, one pass of it        *)
(* (services/receive_sync.py, receive_pending), the board it polls and     *)
(* moves items on (adapters/board.py), the portal wizard                   *)
(* (adapters/receiver.py) as what it does to the portal, and the row of    *)
(* sync_status it leaves behind (adapters/sync_status_db.py).              *)
(*                                                                         *)
(* One action is one call to the board, to the wizard or to the status     *)
(* store.  mark_received is two board mutations, hence two actions.        *)
(***************************************************************************)
EXTENDS Naturals, Sequences, FiniteSets

CONSTANTS
    Items,          \* items of the board, by item_id
    InitiallyReady, \* items that are on the board at the start
    Slots,          \* inventory ids
    SlotOfItem,     \* the inventory_id column of an item
    Valid,          \* items whose five required fields are all filled
    LineOfSlot,     \* order and model of a slot: one row of the portal's grid
    InvNumber,      \* the inventory id as an integer, or NonNumeric
    NonNumeric,
    PortalRank,     \* the order in which the portal fills the slots of a line
    NoItem,
    NoStatus,
    MaxRaises,      \* bound: ExecutorErrors
    MaxGlitches,    \* bound: pages that lack what the wizard looks for
    MaxRefusals,    \* bound: units the portal refuses without showing it
    MaxErrors,      \* bound: BoardErrors and RepositoryErrors
    MaxCrashes,     \* bound: ends of the robot's process from outside
    MaxRequeues     \* bound: items an operator sets back to READY

ASSUME RobotAssumption ==
    /\ IsFiniteSet(Items)
    /\ InitiallyReady \subseteq Items /\ Valid \subseteq Items
    /\ SlotOfItem \in [Items -> Slots]
    /\ InvNumber \in [Slots -> Nat \cup {NonNumeric}] /\ NonNumeric \notin Nat
    /\ PortalRank \in [Slots -> Nat]
    /\ \A s, t \in Slots : LineOfSlot[s] = LineOfSlot[t] /\ s # t => PortalRank[s] # PortalRank[t]
    /\ NoItem \notin Items

CONSECUTIVE_FAILURE_KILL == 2

VARIABLES
    group, status,  \* the board: where an item is and what its status column says
    bound,          \* the portal: the item whose serial a slot was received with
    pc, todo,       \* where the robot is, and the items left in this pass
    consecutive, failed,           \* counters of receive_pending
    sync_status,    \* the one row of the table
    cause,          \* why the robot is not running
    log,            \* history: the attempts of this pass and how they ended
    receipts,       \* history: how often an item was finalized in the portal
    unknown,        \* history: how often that was not told to the board
    refused,        \* history: items whose last attempt the portal refused unseen
    faults          \* what the bounds count

board == <<group, status>>
pass  == <<todo, consecutive, failed, log>>
portal == <<bound, receipts>>
history == <<unknown, refused>>
vars  == <<group, status, bound, pc, todo, consecutive, failed, sync_status, cause,
           log, receipts, unknown, refused, faults>>

Groups   == {"absent", "READY", "RECEIVED", "NO_MATCH", "ATTENTION"}
Statuses == {"READY", "RECEIVED", "NEEDS_ATTENTION"}
Steps    == {"sleep", "start", "next", "received", "moving", "no_match", "settled",
             "raised", "failed", "kill", "dead"}
Ends     == {"received", "no_match", "raised"}
Bounds   == [raises |-> MaxRaises, glitches |-> MaxGlitches, refusals |-> MaxRefusals,
             errors |-> MaxErrors, crashes |-> MaxCrashes, requeues |-> MaxRequeues]
SyncStatusRow == [state        : {"running", "stopped"},
                  last_outcome : {"none", "success", "failure", "kill"},
                  consecutive  : Nat]

ASSUME NoStatusAssumption == NoStatus \notin SyncStatusRow

-----------------------------------------------------------------------------
item == Head(todo)

(* sorted by _id_sort_key: numbers ascending, everything else after them.   *)
SortsBefore(a, b) ==
    LET m == InvNumber[SlotOfItem[a]]
        n == InvNumber[SlotOfItem[b]]
    IN  m # NonNumeric /\ (n = NonNumeric \/ m < n)

(* poll_ready pages through the READY group, whatever the status column     *)
(* says, in an order of the board's own.                                    *)
poll_ready == {it \in Items : group[it] = "READY"}

(* Mutant: the items are taken in the order of the board.                   *)
Unsorted(items) ==
    {q \in [1 .. Cardinality(items) -> items] :
        /\ \A it \in items : \E k \in DOMAIN q : q[k] = it
        /\ \A j, k \in DOMAIN q : q[j] = q[k] => j = k}

Sorted(items) ==
    {q \in [1 .. Cardinality(items) -> items] :
        /\ \A it \in items : \E k \in DOMAIN q : q[k] = it
        /\ \A j, k \in DOMAIN q : q[j] = q[k] => j = k
        /\ \A j, k \in DOMAIN q : SortsBefore(q[j], q[k]) => j < k}

write_status(state, last_outcome, n) ==
    sync_status' = [state |-> state, last_outcome |-> last_outcome, consecutive |-> n]

set_status(it, label) == status' = [status EXCEPT ![it] = label] /\ UNCHANGED group

move(it, g) == group' = [group EXCEPT ![it] = g] /\ UNCHANGED status

(* The slots the grid shows with TBR > 0 for the item's order and model.    *)
OpenSlots(it) ==
    {s \in Slots : LineOfSlot[s] = LineOfSlot[SlotOfItem[it]] /\ bound[s] = NoItem}

(* The portal enters the serial for the lowest open slot of the row.        *)
Lowest(slots) == {s \in slots : \A t \in slots : PortalRank[s] <= PortalRank[t]}

Spend(kind) ==
    /\ faults[kind] < Bounds[kind]
    /\ faults' = [faults EXCEPT ![kind] = @ + 1]

-----------------------------------------------------------------------------
Init ==
    /\ group = [it \in Items |-> IF it \in InitiallyReady THEN "READY" ELSE "absent"]
    /\ status = [it \in Items |-> "READY"]
    /\ bound = [s \in Slots |-> NoItem]
    /\ pc = "sleep" /\ todo = <<>>
    /\ consecutive = 0 /\ failed = 0
    /\ sync_status = NoStatus
    /\ cause = "none"
    /\ log = <<>>
    /\ receipts = [it \in Items |-> 0] /\ unknown = [it \in Items |-> 0]
    /\ refused = {}
    /\ faults = [kind \in DOMAIN Bounds |-> 0]

(* A pass begins: poll, sort, reset the counters.                           *)
Poll ==
    /\ pc = "sleep" /\ pc' = "start"
    /\ todo' \in Sorted(poll_ready)
    /\ consecutive' = 0 /\ failed' = 0
    /\ log' = <<>>
    /\ UNCHANGED <<board, portal, sync_status, cause, history, faults>>

StartPass ==
    /\ pc = "start" /\ pc' = "next"
    /\ write_status("running", "none", 0)
    /\ UNCHANGED <<board, portal, pass, cause, history, faults>>

(* Mutant: an invalid item stays at the head of the pass.                   *)
SkipInvalidForever ==
    /\ pc = "next" /\ todo # <<>> /\ item \notin Valid
    /\ move(item, "NO_MATCH")
    /\ UNCHANGED <<portal, pc, pass, sync_status, cause, history, faults>>

(* Mutant: an invalid item counts as a success.                             *)
SkipInvalidResets ==
    /\ pc = "next" /\ todo # <<>> /\ item \notin Valid
    /\ move(item, "NO_MATCH")
    /\ todo' = Tail(todo) /\ consecutive' = 0
    /\ UNCHANGED <<portal, pc, failed, log, sync_status, cause, history, faults>>

SkipInvalid ==
    /\ pc = "next" /\ todo # <<>> /\ item \notin Valid
    /\ move(item, "NO_MATCH")
    /\ todo' = Tail(todo)
    /\ UNCHANGED <<portal, pc, consecutive, failed, log, sync_status, cause, history, faults>>

Attempt(end) ==
    /\ pc = "next" /\ todo # <<>> /\ item \in Valid
    /\ pc' = end
    /\ log' = Append(log, [item |-> item, end |-> end])
    /\ UNCHANGED <<board, todo, consecutive, failed, sync_status, cause>>

(* An attempt that was not refused, or whose refusal was shown.             *)
NotRefused == refused' = refused \ {item}

(* The wizard runs to its last click: the portal receives the serial.       *)
Finalize ==
    \E s \in Lowest(OpenSlots(item)) :
        /\ bound' = [bound EXCEPT ![s] = item]
        /\ receipts' = [receipts EXCEPT ![item] = @ + 1]

ReceiveItem ==
    /\ Attempt("received")
    /\ Finalize /\ NotRefused
    /\ UNCHANGED <<unknown, faults>>

(* The portal refuses the unit and no alert is visible 3 s after the last   *)
(* click: received as well.                                                 *)
ReceiveUnseen ==
    /\ Attempt("received")
    /\ OpenSlots(item) # {}
    /\ Spend("refusals")
    /\ refused' = refused \cup {item}
    /\ UNCHANGED <<portal, unknown>>

(* No row of the grid has the model and TBR > 0: not_found.                 *)
NotFound ==
    /\ Attempt("no_match")
    /\ OpenSlots(item) = {}
    /\ NotRefused
    /\ UNCHANGED <<portal, unknown, faults>>

(* Mutant: finalize_error is taken for received.                            *)
GlitchTakenForReceived ==
    /\ Attempt("received")
    /\ OpenSlots(item) # {}
    /\ Spend("glitches") /\ NotRefused
    /\ UNCHANGED <<portal, unknown>>

(* not_found because the page lacks the receiving URL, the quantity input   *)
(* or the serial input, or finalize_error.                                  *)
Glitch ==
    /\ Attempt("no_match")
    /\ OpenSlots(item) # {}
    /\ Spend("glitches") /\ NotRefused
    /\ UNCHANGED <<portal, unknown>>

(* ExecutorError: login, a selector, a timeout, a screenshot... before the  *)
(* last click.                                                              *)
RaiseBefore ==
    /\ Attempt("raised")
    /\ Spend("raises") /\ NotRefused
    /\ UNCHANGED <<portal, unknown>>

(* ExecutorError after the last click: the screenshot or the check of the   *)
(* page raises, and the portal has received the serial.                     *)
RaiseAfter ==
    /\ Attempt("raised")
    /\ Spend("raises") /\ NotRefused
    /\ Finalize
    /\ unknown' = [unknown EXCEPT ![item] = @ + 1]

-----------------------------------------------------------------------------
(* mark_received: status first, move second.                                *)
MarkReceivedStatus ==
    /\ pc = "received" /\ pc' = "moving"
    /\ set_status(item, "RECEIVED")
    /\ UNCHANGED <<portal, pass, sync_status, cause, history, faults>>

(* Mutant: the status is set and the item stays in the READY group.         *)
MarkReceivedStays ==
    /\ pc = "moving" /\ pc' = "settled"
    /\ UNCHANGED <<board, portal, pass, sync_status, cause, history, faults>>

MarkReceivedMove ==
    /\ pc = "moving" /\ pc' = "settled"
    /\ move(item, "RECEIVED")
    /\ UNCHANGED <<portal, pass, sync_status, cause, history, faults>>

(* Mutant: the item is taken off the pass twice.                            *)
MarkNoMatchAdvances ==
    /\ pc = "no_match" /\ pc' = "settled"
    /\ move(item, "NO_MATCH")
    /\ todo' = Tail(todo)
    /\ UNCHANGED <<portal, consecutive, failed, log, sync_status, cause, history, faults>>

(* Mutant: an item that does not match is left where it is.                 *)
MarkNoMatchStays ==
    /\ pc = "no_match" /\ pc' = "settled"
    /\ UNCHANGED <<board, portal, pass, sync_status, cause, history, faults>>

MarkNoMatch ==
    /\ pc = "no_match" /\ pc' = "settled"
    /\ move(item, "NO_MATCH")
    /\ UNCHANGED <<portal, pass, sync_status, cause, history, faults>>

(* Mutant: a success does not reset the count of failures.                  *)
SettleKeepsCount ==
    /\ pc = "settled" /\ pc' = "next"
    /\ write_status("running", "success", 0)
    /\ todo' = Tail(todo)
    /\ UNCHANGED <<board, portal, consecutive, failed, log, cause, history, faults>>

(* Mutant: an item that is done is not taken off the pass.                  *)
SettleKeepsItem ==
    /\ pc = "settled" /\ pc' = "next"
    /\ consecutive' = 0
    /\ write_status("running", "success", 0)
    /\ UNCHANGED <<board, portal, todo, failed, log, cause, history, faults>>

Settle ==
    /\ pc = "settled" /\ pc' = "next"
    /\ consecutive' = 0
    /\ write_status("running", "success", 0)
    /\ todo' = Tail(todo)
    /\ UNCHANGED <<board, portal, failed, log, cause, history, faults>>

(* No group move: the board's own automation routes the item.               *)
MarkNeedsAttention ==
    /\ pc = "raised"
    /\ set_status(item, "NEEDS_ATTENTION")
    /\ consecutive' = consecutive + 1
    /\ failed' = failed + 1
    /\ pc' = IF consecutive' >= CONSECUTIVE_FAILURE_KILL THEN "kill" ELSE "failed"
    /\ UNCHANGED <<portal, todo, log, sync_status, cause, history, faults>>

(* Mutant: the failure is written without its count.                        *)
FailureUncounted ==
    /\ pc = "failed" /\ pc' = "next"
    /\ write_status("running", "failure", 0)
    /\ todo' = Tail(todo)
    /\ UNCHANGED <<board, portal, consecutive, failed, log, cause, history, faults>>

NextAfterFailure ==
    /\ pc = "failed" /\ pc' = "next"
    /\ write_status("running", "failure", consecutive)
    /\ todo' = Tail(todo)
    /\ UNCHANGED <<board, portal, consecutive, failed, log, cause, history, faults>>

(* SyncKillError: main leaves its loop.                                     *)
Kill ==
    /\ pc = "kill" /\ pc' = "dead"
    /\ cause' = "kill"
    /\ write_status("stopped", "kill", consecutive)
    /\ UNCHANGED <<board, portal, pass, history, faults>>

EndPass ==
    /\ pc = "next" /\ todo = <<>> /\ pc' = "sleep"
    /\ write_status("stopped", IF failed > 0 THEN "failure" ELSE "success", consecutive)
    /\ UNCHANGED <<board, portal, pass, cause, history, faults>>

-----------------------------------------------------------------------------
(* The robot's process ends, perhaps with a unit entered in the portal      *)
(* whose item was not moved.                                                *)
Stop(why) ==
    /\ pc # "dead" /\ pc' = "dead"
    /\ cause' = why
    /\ unknown' = IF pc \in {"received", "moving"} /\ item \notin refused
                  THEN [unknown EXCEPT ![item] = @ + 1]
                  ELSE unknown
    /\ UNCHANGED <<board, portal, pass, sync_status, refused>>

(* A BoardError or a RepositoryError: receive_pending catches neither, nor  *)
(* does main.                                                               *)
UncaughtError == Spend("errors") /\ Stop("error")

Crash == Spend("crashes") /\ Stop("crash")

(* Somebody starts the robot again.                                         *)
Restart ==
    /\ pc = "dead" /\ pc' = "sleep"
    /\ cause' = "none"
    /\ UNCHANGED <<board, portal, pass, sync_status, history, faults>>

(* The desk emits an item.                                                  *)
Arrive(it) ==
    /\ group[it] = "absent"
    /\ move(it, "READY")
    /\ UNCHANGED <<portal, pass, pc, sync_status, cause, history, faults>>

(* The board's automation routes an item that needs attention.              *)
Automation(it) ==
    /\ group[it] = "READY" /\ status[it] = "NEEDS_ATTENTION"
    /\ move(it, "ATTENTION")
    /\ UNCHANGED <<portal, pass, pc, sync_status, cause, history, faults>>

(* An operator sets it back to ready.                                       *)
Requeue(it) ==
    /\ group[it] = "ATTENTION"
    /\ Spend("requeues")
    /\ group' = [group EXCEPT ![it] = "READY"]
    /\ status' = [status EXCEPT ![it] = "READY"]
    /\ UNCHANGED <<portal, pass, pc, sync_status, cause, history>>

Robot ==
    \/ Poll \/ StartPass \/ SkipInvalid
    \/ ReceiveItem \/ ReceiveUnseen \/ NotFound \/ Glitch \/ RaiseBefore \/ RaiseAfter
    \/ MarkReceivedStatus \/ MarkReceivedMove \/ MarkNoMatch \/ Settle
    \/ MarkNeedsAttention \/ NextAfterFailure \/ Kill \/ EndPass

Next ==
    \/ Robot
    \/ UncaughtError \/ Crash \/ Restart
    \/ \E it \in Items : Arrive(it) \/ Automation(it) \/ Requeue(it)

Spec == Init /\ [][Next]_vars

(* The loop is one thread and every call it makes has a timeout.            *)
FairSpec == Spec /\ WF_vars(Robot)

-----------------------------------------------------------------------------
(* Properties *)

(* Every variable holds a value of its kind, and the robot has a current    *)
(* item whenever it is in the middle of one.                                *)
TypeOK ==
    /\ group \in [Items -> Groups] /\ status \in [Items -> Statuses]
    /\ bound \in [Slots -> Items \cup {NoItem}]
    /\ pc \in Steps
    /\ todo \in Seq(Items)
    /\ pc \notin {"sleep", "start", "next", "dead"} => todo # <<>>
    /\ consecutive \in Nat /\ failed \in Nat
    /\ sync_status \in SyncStatusRow \cup {NoStatus}
    /\ cause \in {"none", "kill", "error", "crash"}
    /\ log \in Seq([item : Items, end : Ends])
    /\ receipts \in [Items -> Nat] /\ unknown \in [Items -> Nat] /\ refused \subseteq Items
    /\ faults \in [DOMAIN Bounds -> Nat]

(* RECEIVED on the board means entered in the portal, with one excuse: the  *)
(* last attempt for the item was refused by the portal without an alert in  *)
(* 3 s.  A refusal that an earlier attempt met excuses nothing, nor do      *)
(* ends, restarts and requeues between the wizard and the board.            *)
Entered == {it \in Items : \E s \in Slots : bound[s] = it}

ReceivedWasEntered ==
    \A it \in Items : group[it] = "RECEIVED" => it \in Entered \cup refused

(* A serial is entered in the portal once more than the board was left      *)
(* untold of it, and never more: polling by group, stale items of a pass,   *)
(* requeues and restarts add no receipt of their own.                       *)
ReceiptNeedsUnknown == \A it \in Items : receipts[it] <= 1 + unknown[it]

Raised(k) == k \in DOMAIN log /\ log[k].end = "raised"

(* CONSECUTIVE_FAILURE_KILL: no two attempts of a pass in a row raise       *)
(* without the pass ending there, ...                                       *)
NoAttemptAfterTwoFailures ==
    \A k \in DOMAIN log :
        Raised(k) /\ Raised(k + 1) =>
            k + 1 = Len(log) /\ pc \in {"raised", "kill", "dead", "sleep"}

(* ... and the robot kills itself only then, with both items flagged for    *)
(* attention, unless the operator has put one back already.                 *)
KillIsEarned ==
    pc = "kill" \/ cause = "kill" =>
        /\ Raised(Len(log)) /\ Raised(Len(log) - 1)
        /\ \A k \in {Len(log) - 1, Len(log)} :
              status[log[k].item] = "NEEDS_ATTENTION" \/ faults["requeues"] > 0

(* Between two items the row says running and tells the failures that the   *)
(* last attempts of the pass ended with.                                    *)
StatusTellsStreak ==
    pc = "next" =>
        /\ sync_status # NoStatus /\ sync_status.state = "running"
        /\ sync_status.consecutive = IF Raised(Len(log)) THEN 1 ELSE 0

(* Items are dispatched lowest id first so that each serial is bound to its *)
(* own id: it is, with a line whose items are ready from the start, until   *)
(* something fails.  What fails leaves its slot to the next item.           *)
BoundToOwnSlot ==
    (\A kind \in DOMAIN Bounds : faults[kind] = 0) =>
        \A s \in Slots : bound[s] # NoItem => SlotOfItem[bound[s]] = s

(* The robot keeps the promise of ItemLifecycle: RECEIVED and NO_MATCH are  *)
(* final, neither a first nor a further serial is entered for an item that  *)
(* is there, and nothing becomes RECEIVED but what the portal was given or  *)
(* has just refused unseen.                                                 *)
Lifecycle == INSTANCE ItemLifecycle WITH entries <- receipts

ImplementsLifecycle == Lifecycle!Spec

(* A pass ends: with a sleep, or with the robot stopped.                    *)
PassEnds == pc = "next" ~> pc \in {"sleep", "dead"}

(* An item that is ready is taken out of the READY group, or the robot      *)
(* stops first.                                                             *)
ReadyIsHandled ==
    \A it \in Items : group[it] = "READY" ~> (group[it] # "READY" \/ pc = "dead")

=============================================================================
