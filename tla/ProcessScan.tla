---------------------------- MODULE ProcessScan -----------------------------
(***************************************************************************)
(* The scanning desk: process_scan (services/receive.py) run by the match  *)
(* threads of one scanner process over the SQLite repository               *)
(* (adapters/db.py) and the board sink (adapters/sink.py), beside the two  *)
(* other writers of the catalog, populate_po (services/populate.py) and    *)
(* refresh_all (services/refresh.py, a process of its own).                *)
(*                                                                         *)
(* One action is one call process_scan makes: a repository method is one   *)
(* transaction, and the sink's POST takes two steps, the board creating    *)
(* the item and the desk learning that it did.  Between two calls anything *)
(* else may happen, the end of the process included.                       *)
(***************************************************************************)
EXTENDS Repository, Naturals, Sequences, FiniteSets

CONSTANTS
    Workers,       \* match threads of the scanner process
    MaxScans,      \* bound: scans started
    MaxErrors,     \* bound: repository and sink calls that raise
    MaxCrashes,    \* bound: ends of the scanner process
    MaxRefreshes   \* bound: catalog refreshes

ASSUME BoundsAssumption ==
    /\ MaxScans \in Nat /\ MaxErrors \in Nat
    /\ MaxCrashes \in Nat /\ MaxRefreshes \in Nat

VARIABLES
    po_inventory,    \* table: catalog slots and their claims
    receiving_items, \* table: one record per receiving id
    seen,            \* ResultSinkAdapter._seen, lost with the process
    board,           \* items created on the board, in order
    pc,              \* where each worker is in process_scan
    scan,            \* the locals of each worker's call, and how it ended
    populating,      \* orders whose populate_po found no rows and is fetching
    scans, errors, crashes, refreshes,  \* what the bounds count
    lost             \* history: how often a POST of this id was forgotten

tables    == <<po_inventory, receiving_items>>
counters  == <<scans, errors, crashes, refreshes>>
vars      == <<po_inventory, receiving_items, seen, board, pc, scan, populating,
               scans, errors, crashes, refreshes, lost>>

BoardItem == [id     : ReceivingIds,
              group  : {"READY", "NO_MATCH"},
              inv    : InvIds \cup {NoInv},
              serial : Serials \cup {NoSerial}]

ScanLocals == [po      : POs,
               barcode : Barcodes,
               serial  : Serials \cup {NoSerial},
               inv     : InvIds \cup {NoInv},
               outcome : {"none", "received", "no_match", "already_scanned", "error"}]

NoCall == CHOOSE s \in ScanLocals :
              s.inv = NoInv /\ s.serial = NoSerial /\ s.outcome = "none"

Steps == {"idle", "dup", "claim", "save", "check", "emit", "post", "posted", "mark"}

-----------------------------------------------------------------------------
(* core/matching.py on a catalog whose strings are known by their keys *)

exact_model_match(a, b) ==
    /\ NormKey[a] # EmptyKey
    /\ NormKey[a] = NormKey[b]

(* The models resolve_exact may return: all candidates that match when      *)
(* there is exactly one, none when there are none or two.                   *)
resolve_exact(barcode, candidates) ==
    LET matched == {m \in candidates : exact_model_match(barcode, m)}
    IN  IF \E m \in matched : matched = {m} THEN matched ELSE {}

(* The rows process_scan may take: unclaimed_for_po has no ORDER BY, so the *)
(* first row of the best model is any of them.                              *)
MatchedRows(po, barcode) ==
    LET rows == unclaimed_for_po(po_inventory, po)
        best == resolve_exact(barcode, {po_inventory[i].model : i \in rows})
    IN  {i \in rows : po_inventory[i].model \in best}

-----------------------------------------------------------------------------
(* The record of a worker's scan *)

make_receiving_id(s) == ReceivingIdOf[<<s.po, s.inv, s.barcode>>]

rid(w) == make_receiving_id(scan[w])

(* Mutant: a status that the schema does not know.                          *)
StatusMatched(s) == IF s.inv = NoInv THEN "no_match" ELSE "matched"

MatchStatus(s) == IF s.inv = NoInv THEN "no_match" ELSE "received"

build_record(s) == [po |-> s.po, inv |-> s.inv, status |-> MatchStatus(s),
                    serial |-> s.serial, emitted |-> FALSE]

create_item(s) == [id     |-> make_receiving_id(s),
                   group  |-> IF s.inv = NoInv THEN "NO_MATCH" ELSE "READY",
                   inv    |-> s.inv,
                   serial |-> s.serial]

Goto(w, step) == pc' = [pc EXCEPT ![w] = step] /\ UNCHANGED scan

Return(w, result) == /\ pc' = [pc EXCEPT ![w] = "idle"]
                     /\ scan' = [scan EXCEPT ![w].outcome = result]

-----------------------------------------------------------------------------
(* The migrated, empty database, a fresh scanner process, an empty board.   *)
Init ==
    /\ po_inventory = [i \in InvIds |-> NoRow]
    /\ receiving_items = [r \in ReceivingIds |-> NoRow]
    /\ seen = {}
    /\ board = <<>>
    /\ pc = [w \in Workers |-> "idle"]
    /\ scan = [w \in Workers |-> NoCall]
    /\ populating = {}
    /\ scans = 0 /\ errors = 0 /\ crashes = 0 /\ refreshes = 0
    /\ lost = [r \in ReceivingIds |-> 0]

(* process_scan is called: unclaimed_for_po, resolve_exact and the choice   *)
(* of the row.  A scan that matches no row asks for a duplicate only when   *)
(* it carries a serial.                                                     *)
Scan(w, po, barcode, serial) ==
    /\ pc[w] = "idle" /\ scans < MaxScans
    /\ scans' = scans + 1
    /\ LET rows == MatchedRows(po, barcode)
           call(i) == [po |-> po, barcode |-> barcode, serial |-> serial,
                       inv |-> i, outcome |-> "none"]
       IN  \/ \E i \in rows : /\ scan' = [scan EXCEPT ![w] = call(i)]
                              /\ pc' = [pc EXCEPT ![w] = "claim"]
           \/ /\ rows = {}
              /\ scan' = [scan EXCEPT ![w] = call(NoInv)]
              /\ pc' = [pc EXCEPT ![w] = IF serial # NoSerial THEN "dup" ELSE "save"]
    /\ UNCHANGED <<tables, seen, board, populating, errors, crashes, refreshes, lost>>

FindClaimedBySerial(w) ==
    /\ pc[w] = "dup"
    /\ IF find_claimed_by_serial(po_inventory, receiving_items,
                                 scan[w].po, scan[w].serial) # {}
       THEN Return(w, "already_scanned")
       ELSE Goto(w, "save")
    /\ UNCHANGED <<tables, seen, board, populating, counters, lost>>

(* Mutant: the claim is committed first, the record by the next call.       *)
ClaimThenSave(w) ==
    /\ pc[w] = "claim"
    /\ po_inventory' = claim(po_inventory, scan[w].inv)
    /\ Goto(w, "save")
    /\ UNCHANGED <<receiving_items, seen, board, populating, counters, lost>>

(* claim_and_save: the claim and the record in one transaction.             *)
ClaimAndSave(w) ==
    /\ pc[w] = "claim"
    /\ po_inventory' = claim(po_inventory, scan[w].inv)
    /\ receiving_items' = save_record(receiving_items, rid(w), build_record(scan[w]))
    /\ Goto(w, "check")
    /\ UNCHANGED <<seen, board, populating, counters, lost>>

SaveRecord(w) ==
    /\ pc[w] = "save"
    /\ receiving_items' = save_record(receiving_items, rid(w), build_record(scan[w]))
    /\ Goto(w, "check")
    /\ UNCHANGED <<po_inventory, seen, board, populating, counters, lost>>

WasEmitted(w) ==
    /\ pc[w] = "check"
    /\ IF was_emitted(receiving_items, rid(w))
       THEN Return(w, MatchStatus(scan[w]))
       ELSE Goto(w, "emit")
    /\ UNCHANGED <<tables, seen, board, populating, counters, lost>>

(* Mutant: emit remembers the id before it has posted it.                   *)
RememberThenPost(w) ==
    /\ pc[w] = "emit"
    /\ Goto(w, IF rid(w) \in seen THEN "mark" ELSE "post")
    /\ seen' = seen \cup {rid(w)}
    /\ UNCHANGED <<tables, board, populating, counters, lost>>

(* emit: an id this process has seen acknowledged is not posted again.  The *)
(* records process_scan builds are never needs_attention, so                *)
(* surface_attention is not called.                                         *)
Emit(w) ==
    /\ pc[w] = "emit"
    /\ Goto(w, IF rid(w) \in seen THEN "mark" ELSE "post")
    /\ UNCHANGED <<tables, seen, board, populating, counters, lost>>

(* The board takes the POST and creates the item.                           *)
CreateItem(w) ==
    /\ pc[w] = "post"
    /\ board' = Append(board, create_item(scan[w]))
    /\ Goto(w, "posted")
    /\ UNCHANGED <<tables, seen, populating, counters, lost>>

(* The response arrives.                                                    *)
Acknowledge(w) ==
    /\ pc[w] = "posted"
    /\ seen' = seen \cup {rid(w)}
    /\ Goto(w, "mark")
    /\ UNCHANGED <<tables, board, populating, counters, lost>>

(* mark_emitted raises when its UPDATE finds no row.                        *)
MarkEmitted(w) ==
    /\ pc[w] = "mark"
    /\ receiving_items' = mark_emitted(receiving_items, rid(w))
    /\ Return(w, IF receiving_items[rid(w)] = NoRow THEN "error" ELSE MatchStatus(scan[w]))
    /\ UNCHANGED <<po_inventory, seen, board, populating, counters, lost>>

-----------------------------------------------------------------------------
(* Failures *)

Error == errors < MaxErrors /\ errors' = errors + 1

(* The ids whose POST nobody will remember if these workers forget theirs.  *)
Forget(ids) == lost' = [r \in ReceivingIds |-> lost[r] + IF r \in ids THEN 1 ELSE 0]

(* A repository call raises: its transaction is rolled back and the error   *)
(* leaves process_scan.                                                     *)
RepositoryError(w) ==
    /\ pc[w] \in {"dup", "claim", "save", "check", "mark"}
    /\ Error
    /\ Return(w, "error")
    /\ UNCHANGED <<tables, seen, board, populating, scans, crashes, refreshes, lost>>

(* Mutant: the SinkError is swallowed and the record marked.                *)
SinkErrorSwallowed(w) ==
    /\ pc[w] \in {"post", "posted"}
    /\ Error
    /\ Goto(w, "mark")
    /\ UNCHANGED <<tables, seen, board, populating, scans, crashes, refreshes, lost>>

(* The POST raises SinkError: the request never arrived, or the board made  *)
(* the item and the response was lost, late or unreadable.                  *)
SinkError(w) ==
    /\ pc[w] \in {"post", "posted"}
    /\ Error
    /\ Forget(IF pc[w] = "posted" THEN {rid(w)} ELSE {})
    /\ Return(w, "error")
    /\ UNCHANGED <<tables, seen, board, populating, scans, crashes, refreshes>>

(* The scanner process ends and is started again: its threads and the       *)
(* sink's memory are gone, the database and the board stay.                 *)
Crash ==
    /\ crashes < MaxCrashes
    /\ crashes' = crashes + 1
    /\ Forget({r \in ReceivingIds :
                  \/ r \in seen /\ ~was_emitted(receiving_items, r)
                  \/ \E w \in Workers : pc[w] = "posted" /\ rid(w) = r})
    /\ pc' = [w \in Workers |-> "idle"]
    /\ scan' = [w \in Workers |-> [scan[w] EXCEPT
                                     !.outcome = IF pc[w] = "idle" THEN @ ELSE "error"]]
    /\ seen' = {}
    /\ populating' = {}
    /\ UNCHANGED <<tables, board, scans, errors, refreshes>>

-----------------------------------------------------------------------------
(* The other writers of the catalog *)

(* populate_po finds no rows of the order and goes to fetch them.           *)
PopulateFetch(po) ==
    /\ po \notin populating
    /\ get_purchase_order(po_inventory, po) = {}
    /\ populating' = populating \cup {po}
    /\ UNCHANGED <<tables, seen, board, pc, scan, counters, lost>>

(* The fetch has come back with some rows of the order, or with none.       *)
PopulateUpsert(po) ==
    /\ po \in populating
    /\ \E rows \in SUBSET {i \in InvIds : SourceRow[i].po = po} :
          po_inventory' = upsert_items(po_inventory, rows)
    /\ populating' = populating \ {po}
    /\ UNCHANGED <<receiving_items, seen, board, pc, scan, counters, lost>>

(* refresh_all, confirmed and with a fetch that is not empty.  The other    *)
(* ways it can end leave the database alone.                                *)
RefreshAll ==
    /\ refreshes < MaxRefreshes
    /\ refreshes' = refreshes + 1
    /\ \E rows \in SUBSET InvIds \ {{}} : po_inventory' = replace_po_items(rows)
    /\ UNCHANGED <<receiving_items, seen, board, pc, scan, populating, scans,
                   errors, crashes, lost>>

-----------------------------------------------------------------------------
Worker(w) ==
    \/ \E po \in POs, barcode \in Barcodes, serial \in Serials \cup {NoSerial} :
          Scan(w, po, barcode, serial)
    \/ FindClaimedBySerial(w)
    \/ ClaimAndSave(w)
    \/ SaveRecord(w)
    \/ WasEmitted(w)
    \/ Emit(w)
    \/ CreateItem(w)
    \/ Acknowledge(w)
    \/ MarkEmitted(w)
    \/ RepositoryError(w)
    \/ SinkError(w)

Next ==
    \/ \E w \in Workers : Worker(w)
    \/ \E po \in POs : PopulateFetch(po) \/ PopulateUpsert(po)
    \/ RefreshAll
    \/ Crash

Spec == Init /\ [][Next]_vars

-----------------------------------------------------------------------------
(* Properties *)

(* The state is made of rows, items and locals of the right kind.           *)
TypeOK ==
    /\ po_inventory \in [InvIds -> InventoryRow \cup {NoRow}]
    /\ receiving_items \in [ReceivingIds -> ReceivingRow \cup {NoRow}]
    /\ seen \subseteq ReceivingIds
    /\ board \in Seq(BoardItem)
    /\ pc \in [Workers -> Steps]
    /\ scan \in [Workers -> ScanLocals]
    /\ \A w \in Workers : pc[w] = "claim" => scan[w].inv # NoInv
    /\ populating \subseteq POs
    /\ scans \in Nat /\ errors \in Nat /\ crashes \in Nat /\ refreshes \in Nat
    /\ lost \in [ReceivingIds -> Nat]

Claimed(i) == po_inventory[i] # NoRow /\ po_inventory[i].claimed

OnBoard(r) == \E k \in DOMAIN board : board[k].id = r

Posts(r) == Cardinality({k \in DOMAIN board : board[k].id = r})

(* T0-1 (services/receive.py, claim_and_save): whatever crashes, and        *)
(* whatever two scans and the catalog's writers do to each other, a slot    *)
(* that is claimed has a received record.                                   *)
ClaimHasRecord ==
    \A i \in InvIds : Claimed(i) =>
        \E r \in ReceivingIds : /\ receiving_items[r] # NoRow
                                /\ receiving_items[r].inv = i
                                /\ receiving_items[r].status = "received"

(* mark_emitted is set only after the sink acknowledges                     *)
(* (services/receive.py): a record marked emitted is on the board, and so   *)
(* is every id the sink remembers.                                          *)
EmittedOnBoard ==
    /\ \A r \in ReceivingIds : was_emitted(receiving_items, r) => OnBoard(r)
    /\ \A r \in seen : OnBoard(r)

(* save_record and claim_and_save never touch emitted (adapters/db.py): no  *)
(* later scan, overwriting the record or not, makes it pending again, and   *)
(* no record goes away.                                                     *)
EmittedForever ==
    [][\A r \in ReceivingIds :
          /\ receiving_items[r] # NoRow => receiving_items'[r] # NoRow
          /\ was_emitted(receiving_items, r) => was_emitted(receiving_items', r)]_vars

(* Only replace_po_items drops a claim: an order whose rows arrive late,    *)
(* after a refresh has loaded them and a scan has claimed one, leaves the   *)
(* claim (upsert_items).                                                    *)
OnlyRefreshUnclaims ==
    [][refreshes' = refreshes => \A i \in InvIds : Claimed(i) => Claimed(i)']_vars

(* With one scan at a time, an item is created twice only after a POST      *)
(* whose success was forgotten: the response was lost, or the process ended *)
(* between the POST and mark_emitted.  No order of retries, failing calls   *)
(* and restarts adds another (was_emitted guard and _seen).                 *)
DuplicateNeedsLostPost ==
    \A r \in ReceivingIds : Posts(r) <= 1 + lost[r]

(* With one scan at a time and no refresh, the slot of a READY item has one *)
(* record, it is the record of the item's id, and it has the item's serial: *)
(* the robot cannot be given two serials for a slot, whatever is retried.   *)
(* It takes ids that tell slots apart.                                      *)
RecordsOf(i) == {r \in ReceivingIds : receiving_items[r] # NoRow /\ receiving_items[r].inv = i}

ReadyItemsAgreeWithRecord ==
    \A k \in DOMAIN board : board[k].group = "READY" =>
        /\ RecordsOf(board[k].inv) = {board[k].id}
        /\ receiving_items[board[k].id].serial = board[k].serial

(* With one scan at a time and no refresh, a scan that returns 'received'   *)
(* has put its slot on the board with its serial, and the record is emitted.*)
ReceivedIsReady ==
    \A w \in Workers : pc[w] = "idle" /\ scan[w].outcome = "received" =>
        /\ Claimed(scan[w].inv)
        /\ was_emitted(receiving_items, rid(w))
        /\ \E k \in DOMAIN board : /\ board[k].group = "READY"
                                   /\ board[k].inv = scan[w].inv
                                   /\ board[k].serial = scan[w].serial

-----------------------------------------------------------------------------
(* What the documentation says and the code does not do *)

(* sink.py: a crash at any step in process_scan, on retry, does not lose    *)
(* the record.  The retry has returned without an error: the unit's record  *)
(* is on the board.                                                         *)
RetryEmits ==
    \A w \in Workers : pc[w] = "idle" /\ scan[w].outcome = "already_scanned" =>
        \E k \in DOMAIN board : board[k].serial = scan[w].serial

(* receive.py (T0-2): a scan whose serial is that of an already claimed     *)
(* record of the order is returned as already scanned, without saving.      *)
SerialClaimsOnce ==
    \A r, q \in ReceivingIds :
        /\ receiving_items[r] # NoRow /\ receiving_items[q] # NoRow
        /\ receiving_items[r].status = "received"
        /\ receiving_items[q].status = "received"
        /\ receiving_items[r].serial # NoSerial
        /\ receiving_items[r].serial = receiving_items[q].serial
        /\ receiving_items[r].po = receiving_items[q].po
        => r = q
=============================================================================
