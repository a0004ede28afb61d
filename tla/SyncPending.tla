---------------------------- MODULE SyncPending -----------------------------
(***************************************************************************)
(* sync_pending (services/sync.py): one pass over the records that a scan  *)
(* has saved and nobody has marked emitted, run by the desk of ProcessScan *)
(* between its scans, on its repository and its sink.  No runner calls it; *)
(* the scanner process is the one that has both, and the single writer.    *)
(*                                                                         *)
(* One action is one call _process_item makes; emit is the two steps that  *)
(* it is in ProcessScan.                                                   *)
(***************************************************************************)
EXTENDS ProcessScan

CONSTANTS
    MaxSyncs,      \* bound: passes
    MaxSyncErrors  \* bound: calls that raise in a pass

ASSUME SyncBoundsAssumption == MaxSyncs \in Nat /\ MaxSyncErrors \in Nat

VARIABLES
    sync,      \* where the pass is, or how the last one ended
    pending,   \* what get_pending returned: ids and rows
    todo,      \* the part of it that the loop has not done
    current,   \* the record of the loop, or NoRow
    tally,     \* the counters of SyncResult
    syncs      \* what the bound counts

pass     == <<sync, pending, todo, current, tally>>
syncVars == <<vars, pass, syncs>>
desk     == <<po_inventory, pc, scan, populating, counters>>

Verdicts == {"none", "pass", "partial", "kill", "died"}
SyncSteps == {"next", "emit", "post", "posted", "mark"}

PendingRecords == [id : ReceivingIds, row : ReceivingRow]

NoTally == [received |-> 0, no_match |-> 0, errors |-> 0]

-----------------------------------------------------------------------------
SyncInit ==
    /\ Init
    /\ sync = "none"
    /\ pending = {} /\ todo = {}
    /\ current = NoRow
    /\ tally = NoTally
    /\ syncs = 0

Running == sync \in SyncSteps

(* get_pending.  The call is outside the loop's try: when it raises there   *)
(* is no pass.                                                              *)
GetPending ==
    /\ ~Running /\ syncs < MaxSyncs
    /\ \A w \in Workers : pc[w] = "idle"
    /\ syncs' = syncs + 1
    /\ sync' = "next"
    /\ pending' = {[id |-> r, row |-> receiving_items[r]] : r \in get_pending(receiving_items)}
    /\ todo' = pending'
    /\ tally' = NoTally
    /\ UNCHANGED <<vars, current>>

(* The rows come in no order.  A row of the table is a valid record, so     *)
(* from_dict does not raise, and process_scan saves none that needs         *)
(* attention.                                                               *)
TakeItem ==
    /\ sync = "next"
    /\ \E p \in todo : current' = p /\ todo' = todo \ {p}
    /\ sync' = "emit"
    /\ UNCHANGED <<vars, pending, tally, syncs>>

(* The row the pass has read is what goes to the board.                     *)
ItemOfRow(p) == [id     |-> p.id,
                 group  |-> IF p.row.status = "received" THEN "READY" ELSE "NO_MATCH",
                 inv    |-> p.row.inv,
                 serial |-> p.row.serial]

(* Mutant: the pass asks nobody whether the record was posted.              *)
SyncEmitUnseen ==
    /\ sync = "emit" /\ sync' = "post"
    /\ UNCHANGED <<vars, pending, todo, current, tally, syncs>>

SyncEmit ==
    /\ sync = "emit"
    /\ sync' = IF current.id \in seen THEN "mark" ELSE "post"
    /\ UNCHANGED <<vars, pending, todo, current, tally, syncs>>

SyncCreateItem ==
    /\ sync = "post" /\ sync' = "posted"
    /\ board' = Append(board, ItemOfRow(current))
    /\ UNCHANGED <<desk, receiving_items, seen, lost, pending, todo, current, tally, syncs>>

SyncAcknowledge ==
    /\ sync = "posted" /\ sync' = "mark"
    /\ seen' = seen \cup {current.id}
    /\ UNCHANGED <<desk, receiving_items, board, lost, pending, todo, current, tally, syncs>>

(* The status counted is "received" or anything else.                       *)
SyncMarkEmitted ==
    /\ sync = "mark" /\ sync' = "next"
    /\ receiving_items' = mark_emitted(receiving_items, current.id)
    /\ tally' = IF current.row.status = "received"
                THEN [tally EXCEPT !.received = @ + 1]
                ELSE [tally EXCEPT !.no_match = @ + 1]
    /\ current' = NoRow
    /\ UNCHANGED <<desk, seen, board, lost, pending, todo, syncs>>

(* Mutant: an item that fails is logged and counted with the others.        *)
SyncErrorCountsAsDone ==
    /\ sync \in {"post", "posted", "mark"} /\ tally.errors < MaxSyncErrors
    /\ sync' = "next"
    /\ tally' = [tally EXCEPT !.no_match = @ + 1]
    /\ current' = NoRow
    /\ Forget(IF sync = "posted" THEN {current.id} ELSE {})
    /\ UNCHANGED <<desk, receiving_items, seen, board, pending, todo, syncs>>

(* A SinkError or a RepositoryError of the item's own: logged and counted,  *)
(* and the loop goes on.                                                    *)
SyncItemError ==
    /\ sync \in {"post", "posted", "mark"} /\ tally.errors < MaxSyncErrors
    /\ sync' = "next"
    /\ tally' = [tally EXCEPT !.errors = @ + 1]
    /\ current' = NoRow
    /\ Forget(IF sync = "posted" THEN {current.id} ELSE {})
    /\ UNCHANGED <<desk, receiving_items, seen, board, pending, todo, syncs>>

(* Mutant: a pass of which exactly half has failed is killed.               *)
KilledAtHalf(processed, failed) == processed > 0 /\ 2 * (processed - failed) <= processed

(* success_rate < KILL_THRESHOLD; with nothing pending the rate is 1.       *)
BelowThreshold(processed, failed) == processed > 0 /\ 2 * (processed - failed) < processed

(* The loop is over: the thresholds are looked at here and only here.       *)
EndSync ==
    /\ sync = "next" /\ todo = {}
    /\ sync' = IF BelowThreshold(Cardinality(pending), tally.errors) THEN "kill"
               ELSE IF tally.errors > 0 THEN "partial" ELSE "pass"
    /\ UNCHANGED <<vars, pending, todo, current, tally, syncs>>

(* The process ends in the middle of the pass.                              *)
SyncCrash ==
    /\ Running
    /\ crashes < MaxCrashes
    /\ crashes' = crashes + 1
    /\ Forget({r \in ReceivingIds :
                  \/ r \in seen /\ ~was_emitted(receiving_items, r)
                  \/ sync = "posted" /\ current.id = r})
    /\ sync' = "died" /\ todo' = {} /\ current' = NoRow
    /\ seen' = {}
    /\ populating' = {}
    /\ UNCHANGED <<tables, board, pc, scan, scans, errors, refreshes, pending, tally, syncs>>

(* A step of the desk, after which the last pass is history.                *)
DeskStep ==
    /\ ~Running
    /\ Next
    /\ sync' = "none" /\ pending' = {} /\ tally' = NoTally
    /\ UNCHANGED <<todo, current, syncs>>

SyncStep ==
    \/ TakeItem \/ SyncEmit \/ SyncCreateItem \/ SyncAcknowledge \/ SyncMarkEmitted
    \/ SyncItemError \/ EndSync

SyncNext == DeskStep \/ GetPending \/ SyncStep \/ SyncCrash

SyncSpec == SyncInit /\ [][SyncNext]_syncVars

-----------------------------------------------------------------------------
(* Properties *)

Emitted(p) == was_emitted(receiving_items, p.id)

(* KILL, PARTIAL and PASS (services/sync.py) tell what became of the        *)
(* records that were pending: the pass is killed when fewer than half of    *)
(* them are emitted, with exactly half it is not, and it is a PASS only     *)
(* when all are.  One record that fails keeps no other from the board: as   *)
(* many are left pending as there were errors.                              *)
VerdictTellsTable ==
    LET done == {p \in pending : Emitted(p)}
    IN  /\ sync = "kill" => 2 * Cardinality(done) < Cardinality(pending)
        /\ sync = "partial" => done # pending /\ 2 * Cardinality(done) >= Cardinality(pending)
        /\ sync = "pass" => done = pending
        /\ sync \in {"pass", "partial", "kill"} =>
              Cardinality(pending \ done) = tally.errors

(* A pass that ends as a PASS repairs what scans, retries and crashes left: *)
(* every claimed slot has a READY item with the serial of its record.       *)
PassRepairs ==
    sync = "pass" =>
        \A i \in InvIds : Claimed(i) =>
            \E k \in DOMAIN board, r \in ReceivingIds :
                /\ board[k].group = "READY" /\ board[k].inv = i
                /\ board[k].id = r
                /\ receiving_items[r] # NoRow
                /\ board[k].serial = receiving_items[r].serial
=============================================================================
