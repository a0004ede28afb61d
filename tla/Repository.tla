----------------------------- MODULE Repository -----------------------------
(***************************************************************************)
(* The SQLite repository of the scanning desk (adapters/db.py) as          *)
(* operators on the values of its two tables.  Every method of             *)
(* SQLiteRepository is one transaction, so every method is one operator:   *)
(* it takes the tables as they are and gives the tables, or the rows, as   *)
(* they are after the call.                                                *)
(*                                                                         *)
(*   po_inventory    : [InvIds -> InventoryRow \cup {NoRow}]               *)
(*   receiving_items : [ReceivingIds -> ReceivingRow \cup {NoRow}]         *)
(*                                                                         *)
(* Columns that no decision of the code reads (truck, stop, sales order,   *)
(* product size, brand, timestamps...) are left out.  claimed_at is kept   *)
(* as whether it is NULL.                                                  *)
(***************************************************************************)
CONSTANTS
    POs,           \* purchase order numbers
    InvIds,        \* inventory ids, the primary key of po_inventory
    Models,        \* model numbers of the catalog
    Barcodes,      \* what process_scan is given: a model as scanned or typed
    Serials,       \* serial numbers
    NoSerial,      \* serial = ''
    NoInv,         \* inventory_id = '', the record of a scan with no match
    NoRow,         \* no row with this key
    ReceivingIds,  \* SHA-256 digests, the primary key of receiving_items
    ReceivingIdOf, \* the digest of po_number, inventory_id and barcode
    NormKey,       \* normalize_key of a barcode or a model
    EmptyKey,      \* the key '' of a string of blanks and hyphens
    SourceRow      \* the portal's catalog: order and model of an inventory id

ASSUME RepositoryAssumption ==
    /\ POs # {} /\ Barcodes # {}
    /\ NoInv \notin InvIds
    /\ NoSerial \notin Serials
    /\ ReceivingIdOf \in [POs \X (InvIds \cup {NoInv}) \X Barcodes -> ReceivingIds]
    /\ SourceRow \in [InvIds -> [po : POs, model : Models]]

InventoryRow == [po : POs, model : Models, claimed : BOOLEAN]

ReceivingRow == [po      : POs,
                 inv     : InvIds \cup {NoInv},
                 status  : {"received", "no_match"},
                 serial  : Serials \cup {NoSerial},
                 emitted : BOOLEAN]

ASSUME NoRowAssumption == NoRow \notin InventoryRow \cup ReceivingRow

-----------------------------------------------------------------------------
(* Reads *)

(* Mutant: the query without AND claimed_at IS NULL.                        *)
AnyRowForPo(inventory, po) == {i \in InvIds : inventory[i] # NoRow /\ inventory[i].po = po}

unclaimed_for_po(inventory, po) ==
    {i \in InvIds : /\ inventory[i] # NoRow
                    /\ inventory[i].po = po
                    /\ ~inventory[i].claimed}

get_purchase_order(inventory, po) ==
    {i \in InvIds : inventory[i] # NoRow /\ inventory[i].po = po}

get_pending(items) ==
    {r \in ReceivingIds : items[r] # NoRow /\ ~items[r].emitted}

was_emitted(items, id) == items[id] # NoRow /\ items[id].emitted

(* The join asks for a po_inventory row with the record's inventory id, not *)
(* for one that is claimed.                                                 *)
find_claimed_by_serial(inventory, items, po, serial) ==
    {r \in ReceivingIds : /\ items[r] # NoRow
                          /\ items[r].po = po
                          /\ items[r].serial = serial
                          /\ items[r].status = "received"
                          /\ \E i \in InvIds : i = items[r].inv /\ inventory[i] # NoRow}

-----------------------------------------------------------------------------
(* Writes *)

(* UPDATE ... WHERE inventory_id = ? AND claimed_at IS NULL: an update that *)
(* finds the row gone or claimed changes nothing, and nobody is told.       *)
claim(inventory, i) ==
    [inventory EXCEPT ![i] = IF @ = NoRow THEN NoRow ELSE [@ EXCEPT !.claimed = TRUE]]

(* Mutant: the conflict clause writes every column, emitted included.       *)
SaveEveryColumn(items, id, rec) == [items EXCEPT ![id] = rec]

(* INSERT ... ON CONFLICT(receiving_id) DO UPDATE: emitted starts at 0 and  *)
(* is the one column that a second save leaves as it was.                   *)
save_record(items, id, rec) ==
    [items EXCEPT ![id] = [rec EXCEPT !.emitted = was_emitted(items, id)]]

mark_emitted(items, id) ==
    [items EXCEPT ![id] = IF @ = NoRow THEN NoRow ELSE [@ EXCEPT !.emitted = TRUE]]

(* One transaction: DELETE FROM po_inventory, then INSERT of every row.     *)
replace_po_items(rows) ==
    [i \in InvIds |-> IF i \in rows
                      THEN [po |-> SourceRow[i].po, model |-> SourceRow[i].model,
                            claimed |-> FALSE]
                      ELSE NoRow]

(* Mutant: INSERT OR REPLACE, which forgets the claim.                      *)
UpsertReplaces(inventory, rows) ==
    [i \in InvIds |-> IF i \in rows
                      THEN [po |-> SourceRow[i].po, model |-> SourceRow[i].model,
                            claimed |-> FALSE]
                      ELSE inventory[i]]

(* ON CONFLICT(inventory_id) DO UPDATE names no claimed_at: a row that is   *)
(* there keeps its claim.                                                   *)
upsert_items(inventory, rows) ==
    [i \in InvIds |-> IF i \in rows
                      THEN [po |-> SourceRow[i].po, model |-> SourceRow[i].model,
                            claimed |-> inventory[i] # NoRow /\ inventory[i].claimed]
                      ELSE inventory[i]]
=============================================================================
