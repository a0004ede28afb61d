------------------------- MODULE ProcessScan_proofs -------------------------
(***************************************************************************)
(* Proofs about the scanning desk, for any number of match threads, slots, *)
(* orders and spellings, with crashes, failing calls and refreshes at any  *)
(* point.                                                                  *)
(***************************************************************************)
EXTENDS ProcessScan, TLAPS

USE DEF tables, counters

(* The initial locals of a worker are a value of their type, and no answer. *)
LEMMA NoCallFacts == NoCall \in ScanLocals /\ NoCall.outcome = "none"
<1>1. PICK po \in POs, b \in Barcodes : TRUE
  BY RepositoryAssumption
<1> DEFINE s == [po |-> po, barcode |-> b, serial |-> NoSerial, inv |-> NoInv,
                 outcome |-> "none"]
<1>2. s \in ScanLocals /\ s.inv = NoInv /\ s.serial = NoSerial /\ s.outcome = "none"
  BY DEF ScanLocals
<1>3. \E x \in ScanLocals : x.inv = NoInv /\ x.serial = NoSerial /\ x.outcome = "none"
  BY <1>2
<1> QED
  BY <1>3 DEF NoCall

(* The digest of a worker's locals is a receiving id.                       *)
LEMMA RidType == ASSUME NEW s \in ScanLocals
                 PROVE  make_receiving_id(s) \in ReceivingIds
BY RepositoryAssumption DEF make_receiving_id, ScanLocals

(* _build_record and _create_item give a row and an item of their types.    *)
LEMMA RecordType == ASSUME NEW s \in ScanLocals
                    PROVE  /\ build_record(s) \in ReceivingRow
                           /\ MatchStatus(s) \in {"received", "no_match"}
                           /\ create_item(s) \in BoardItem
BY RidType DEF build_record, MatchStatus, create_item, ReceivingRow, BoardItem, ScanLocals

(* The writes of the repository keep the types of its tables.               *)
LEMMA ClaimType ==
    ASSUME NEW inventory \in [InvIds -> InventoryRow \cup {NoRow}], NEW i \in InvIds
    PROVE  claim(inventory, i) \in [InvIds -> InventoryRow \cup {NoRow}]
BY DEF claim, InventoryRow

LEMMA SaveType ==
    ASSUME NEW items \in [ReceivingIds -> ReceivingRow \cup {NoRow}],
           NEW id \in ReceivingIds, NEW rec \in ReceivingRow
    PROVE  save_record(items, id, rec) \in [ReceivingIds -> ReceivingRow \cup {NoRow}]
<1>1. was_emitted(items, id) \in BOOLEAN
  BY DEF was_emitted, ReceivingRow
<1> QED
  BY <1>1 DEF save_record, ReceivingRow

LEMMA MarkType ==
    ASSUME NEW items \in [ReceivingIds -> ReceivingRow \cup {NoRow}],
           NEW id \in ReceivingIds
    PROVE  mark_emitted(items, id) \in [ReceivingIds -> ReceivingRow \cup {NoRow}]
BY DEF mark_emitted, ReceivingRow

LEMMA CatalogType ==
    ASSUME NEW inventory \in [InvIds -> InventoryRow \cup {NoRow}],
           NEW rows \in SUBSET InvIds
    PROVE  /\ replace_po_items(rows) \in [InvIds -> InventoryRow \cup {NoRow}]
           /\ upsert_items(inventory, rows) \in [InvIds -> InventoryRow \cup {NoRow}]
BY RepositoryAssumption DEF replace_po_items, upsert_items, InventoryRow

(* Leaving or continuing a call keeps the types of the workers' variables.  *)
LEMMA GotoType ==
    ASSUME TypeOK, NEW w \in Workers,
           NEW step \in Steps \ {"claim"}, Goto(w, step)
    PROVE  /\ pc' \in [Workers -> Steps]
           /\ scan' \in [Workers -> ScanLocals]
           /\ \A u \in Workers : pc'[u] = "claim" => scan'[u].inv # NoInv
BY DEF TypeOK, Goto

LEMMA ReturnType ==
    ASSUME TypeOK, NEW w \in Workers,
           NEW result \in {"received", "no_match", "already_scanned", "error"},
           Return(w, result)
    PROVE  /\ pc' \in [Workers -> Steps]
           /\ scan' \in [Workers -> ScanLocals]
           /\ \A u \in Workers : pc'[u] = "claim" => scan'[u].inv # NoInv
<1>1. /\ pc \in [Workers -> Steps] /\ scan \in [Workers -> ScanLocals]
      /\ pc' = [pc EXCEPT ![w] = "idle"] /\ scan' = [scan EXCEPT ![w].outcome = result]
  BY DEF TypeOK, Return
<1>2. [scan[w] EXCEPT !.outcome = result] \in ScanLocals
  BY <1>1 DEF ScanLocals
<1>3. scan' \in [Workers -> ScanLocals] /\ \A u \in Workers \ {w} : scan'[u] = scan[u]
  BY <1>1, <1>2
<1>4. /\ pc' \in [Workers -> Steps] /\ pc'[w] = "idle"
      /\ \A u \in Workers \ {w} : pc'[u] = pc[u]
  BY <1>1 DEF Steps
<1> QED
  BY <1>3, <1>4 DEF TypeOK

-----------------------------------------------------------------------------
(* Every step keeps the types.                                              *)
LEMMA TypeStep == TypeOK /\ [Next]_vars => TypeOK'
<1> SUFFICES ASSUME TypeOK, [Next]_vars PROVE TypeOK'
  OBVIOUS
<1>rid. \A w \in Workers : rid(w) \in ReceivingIds
  BY RidType DEF TypeOK, rid
<1>rec. \A w \in Workers : /\ build_record(scan[w]) \in ReceivingRow
                           /\ MatchStatus(scan[w]) \in {"received", "no_match"}
                           /\ create_item(scan[w]) \in BoardItem
  BY RecordType DEF TypeOK
<1>1. ASSUME NEW w \in Workers, NEW po \in POs, NEW barcode \in Barcodes,
             NEW serial \in Serials \cup {NoSerial}, Scan(w, po, barcode, serial)
      PROVE  TypeOK'
  <2> DEFINE call(i) == [po |-> po, barcode |-> barcode, serial |-> serial,
                         inv |-> i, outcome |-> "none"]
  <2>1. \A i \in InvIds \cup {NoInv} : call(i) \in ScanLocals /\ call(i).inv = i
    BY DEF ScanLocals
  <2>2. MatchedRows(po, barcode) \subseteq InvIds
    BY DEF MatchedRows, unclaimed_for_po
  <2>3. \E i \in InvIds \cup {NoInv} :
           /\ scan' = [scan EXCEPT ![w] = call(i)]
           /\ \/ i \in InvIds /\ pc' = [pc EXCEPT ![w] = "claim"]
              \/ pc' = [pc EXCEPT ![w] = "dup"]
              \/ pc' = [pc EXCEPT ![w] = "save"]
    BY <1>1, <2>2 DEF Scan
  <2>4. PICK i \in InvIds \cup {NoInv} :
           /\ scan' = [scan EXCEPT ![w] = call(i)]
           /\ \/ i \in InvIds /\ pc' = [pc EXCEPT ![w] = "claim"]
              \/ pc' = [pc EXCEPT ![w] = "dup"]
              \/ pc' = [pc EXCEPT ![w] = "save"]
    BY <2>3
  <2> HIDE DEF call
  <2>5. scan' \in [Workers -> ScanLocals] /\ pc' \in [Workers -> Steps]
    BY <2>1, <2>4 DEF TypeOK, Steps
  <2>6. \A u \in Workers : pc'[u] = "claim" => scan'[u].inv # NoInv
    BY <2>1, <2>4, RepositoryAssumption DEF TypeOK, Steps
  <2> QED
    BY <1>1, <2>5, <2>6 DEF TypeOK, Scan
<1>2. ASSUME NEW w \in Workers, FindClaimedBySerial(w) PROVE TypeOK'
  <2>1. Return(w, "already_scanned") \/ Goto(w, "save")
    BY <1>2 DEF FindClaimedBySerial
  <2> QED
    BY <1>2, <2>1, ReturnType, GotoType DEF TypeOK, FindClaimedBySerial, Steps
<1>3. ASSUME NEW w \in Workers, ClaimAndSave(w) PROVE TypeOK'
  <2>1. scan[w].inv \in InvIds
    BY <1>3 DEF ClaimAndSave, TypeOK, ScanLocals
  <2>2. /\ po_inventory' \in [InvIds -> InventoryRow \cup {NoRow}]
        /\ receiving_items' \in [ReceivingIds -> ReceivingRow \cup {NoRow}]
    BY <1>3, <1>rid, <1>rec, <2>1, ClaimType, SaveType DEF ClaimAndSave, TypeOK
  <2> QED
    BY <1>3, <2>2, GotoType DEF TypeOK, ClaimAndSave, Steps
<1>4. ASSUME NEW w \in Workers, SaveRecord(w) PROVE TypeOK'
  <2>1. receiving_items' \in [ReceivingIds -> ReceivingRow \cup {NoRow}]
    BY <1>4, <1>rid, <1>rec, SaveType DEF SaveRecord, TypeOK
  <2> QED
    BY <1>4, <2>1, GotoType DEF TypeOK, SaveRecord, Steps
<1>5. ASSUME NEW w \in Workers, WasEmitted(w) PROVE TypeOK'
  <2>1. Return(w, MatchStatus(scan[w])) \/ Goto(w, "emit")
    BY <1>5 DEF WasEmitted
  <2> QED
    BY <1>5, <1>rec, <2>1, ReturnType, GotoType DEF TypeOK, WasEmitted, Steps
<1>6. ASSUME NEW w \in Workers, Emit(w) PROVE TypeOK'
  <2>1. Goto(w, "mark") \/ Goto(w, "post")
    BY <1>6 DEF Emit
  <2> QED
    BY <1>6, <2>1, GotoType DEF TypeOK, Emit, Steps
<1>7. ASSUME NEW w \in Workers, CreateItem(w) PROVE TypeOK'
  <2>1. board' \in Seq(BoardItem)
    BY <1>7, <1>rec DEF CreateItem, TypeOK
  <2> QED
    BY <1>7, <2>1, GotoType DEF TypeOK, CreateItem, Steps
<1>8. ASSUME NEW w \in Workers, Acknowledge(w) PROVE TypeOK'
  BY <1>8, <1>rid, GotoType DEF TypeOK, Acknowledge, Steps
<1>9. ASSUME NEW w \in Workers, MarkEmitted(w) PROVE TypeOK'
  <2>1. receiving_items' \in [ReceivingIds -> ReceivingRow \cup {NoRow}]
    BY <1>9, <1>rid, MarkType DEF MarkEmitted, TypeOK
  <2>2. Return(w, "error") \/ Return(w, MatchStatus(scan[w]))
    BY <1>9 DEF MarkEmitted
  <2> QED
    BY <1>9, <1>rec, <2>1, <2>2, ReturnType DEF TypeOK, MarkEmitted
<1>10. ASSUME NEW w \in Workers, RepositoryError(w) PROVE TypeOK'
  BY <1>10, ReturnType DEF TypeOK, RepositoryError, Error
<1>11. ASSUME NEW w \in Workers, SinkError(w) PROVE TypeOK'
  <2>1. lost' \in [ReceivingIds -> Nat]
    BY <1>11 DEF TypeOK, SinkError, Forget
  <2> QED
    BY <1>11, <2>1, ReturnType DEF TypeOK, SinkError, Error
<1>12. ASSUME NEW po \in POs, PopulateFetch(po) PROVE TypeOK'
  BY <1>12 DEF TypeOK, PopulateFetch
<1>13. ASSUME NEW po \in POs, PopulateUpsert(po) PROVE TypeOK'
  <2>1. po_inventory' \in [InvIds -> InventoryRow \cup {NoRow}]
    BY <1>13, CatalogType DEF PopulateUpsert, TypeOK
  <2> QED
    BY <1>13, <2>1 DEF TypeOK, PopulateUpsert
<1>14. ASSUME RefreshAll PROVE TypeOK'
  <2>1. po_inventory' \in [InvIds -> InventoryRow \cup {NoRow}]
    BY <1>14, CatalogType DEF RefreshAll, TypeOK
  <2> QED
    BY <1>14, <2>1 DEF TypeOK, RefreshAll
<1>15. ASSUME Crash PROVE TypeOK'
  <2>1. lost' \in [ReceivingIds -> Nat]
    BY <1>15 DEF TypeOK, Crash, Forget
  <2>2. scan' \in [Workers -> ScanLocals]
    <3> DEFINE ended(w) == [scan[w] EXCEPT !.outcome = IF pc[w] = "idle" THEN @ ELSE "error"]
    <3>1. \A w \in Workers : scan[w] \in ScanLocals
      BY DEF TypeOK
    <3>2. \A w \in Workers : ended(w) \in ScanLocals
      BY <3>1 DEF ScanLocals
    <3>3. scan' = [w \in Workers |-> ended(w)]
      BY <1>15 DEF Crash
    <3> QED
      BY <3>2, <3>3
  <2>3. pc' \in [Workers -> Steps] /\ \A u \in Workers : pc'[u] # "claim"
    BY <1>15 DEF Crash, Steps
  <2>4. /\ UNCHANGED <<tables, board, scans, errors, refreshes>>
        /\ crashes' = crashes + 1 /\ seen' = {} /\ populating' = {}
    BY <1>15 DEF Crash
  <2> QED
    BY <2>1, <2>2, <2>3, <2>4 DEF TypeOK
<1>16. CASE UNCHANGED vars
  BY <1>16 DEF TypeOK, vars
<1> QED
  BY <1>1, <1>2, <1>3, <1>4, <1>5, <1>6, <1>7, <1>8, <1>9, <1>10, <1>11, <1>12,
     <1>13, <1>14, <1>15, <1>16 DEF Next, Worker

(* Type correctness of the desk: no step, failing or not, leaves a row, a   *)
(* board item or a worker's locals malformed, and a worker about to claim   *)
(* has a slot to claim.                                                     *)
THEOREM TypeCorrect == Spec => []TypeOK
<1>1. Init => TypeOK
  BY NoCallFacts DEF Init, TypeOK, Steps
<1> QED
  BY <1>1, TypeStep, PTL DEF Spec

-----------------------------------------------------------------------------
(* What the writes of the repository do to a record.                        *)
LEMMA SaveKeepsEmitted ==
    ASSUME NEW items \in [ReceivingIds -> ReceivingRow \cup {NoRow}],
           NEW id \in ReceivingIds, NEW rec \in ReceivingRow, NEW r \in ReceivingIds
    PROVE  LET after == save_record(items, id, rec)
           IN  /\ was_emitted(after, r) <=> was_emitted(items, r)
               /\ items[r] # NoRow => after[r] # NoRow
<1> DEFINE after == save_record(items, id, rec)
<1>1. CASE r # id
  BY <1>1 DEF save_record, was_emitted
<1>2. CASE r = id
  <2>1. /\ after[r] = [rec EXCEPT !.emitted = was_emitted(items, id)]
        /\ was_emitted(items, id) \in BOOLEAN
    BY <1>2 DEF save_record, was_emitted, ReceivingRow
  <2>2. after[r] \in ReceivingRow /\ after[r].emitted = was_emitted(items, r)
    BY <1>2, <2>1 DEF ReceivingRow
  <2> QED
    BY <2>2, NoRowAssumption DEF was_emitted
<1> QED
  BY <1>1, <1>2

(* mark_emitted changes nothing but the emitted flag of one row.            *)
LEMMA MarkOnlyMarks ==
    ASSUME NEW items \in [ReceivingIds -> ReceivingRow \cup {NoRow}],
           NEW id \in ReceivingIds, NEW r \in ReceivingIds
    PROVE  LET after == mark_emitted(items, id)
           IN  /\ after[r] # NoRow <=> items[r] # NoRow
               /\ after[r] # NoRow => /\ after[r].inv = items[r].inv
                                      /\ after[r].status = items[r].status
                                      /\ after[r].serial = items[r].serial
               /\ was_emitted(items, r) => was_emitted(after, r)
               /\ was_emitted(after, r) => was_emitted(items, r) \/ r = id
<1> DEFINE after == mark_emitted(items, id)
<1>1. CASE r # id \/ items[r] = NoRow
  BY <1>1 DEF mark_emitted, ReceivingRow, was_emitted
<1>2. CASE r = id /\ items[r] # NoRow
  <2>1. after[r] = [items[r] EXCEPT !.emitted = TRUE] /\ items[r] \in ReceivingRow
    BY <1>2 DEF mark_emitted
  <2>2. /\ after[r] \in ReceivingRow /\ after[r].inv = items[r].inv
        /\ after[r].status = items[r].status /\ after[r].serial = items[r].serial
        /\ after[r].emitted = TRUE
    BY <2>1 DEF ReceivingRow
  <2> QED
    BY <1>2, <2>2, NoRowAssumption DEF was_emitted
<1> QED
  BY <1>1, <1>2

-----------------------------------------------------------------------------
(* Who writes the receiving records, the catalog, the sink's memory, the    *)
(* board and the count of refreshes; everybody else leaves them alone.      *)
LEMMA WhoWrites ==
    ASSUME [Next]_vars
    PROVE  /\ \/ \E w \in Workers : ClaimAndSave(w) \/ SaveRecord(w) \/ MarkEmitted(w)
              \/ UNCHANGED receiving_items
           /\ \/ UNCHANGED po_inventory \/ RefreshAll
              \/ \E w \in Workers : ClaimAndSave(w)
              \/ \E po \in POs : PopulateUpsert(po)
           /\ seen' \subseteq seen \/ \E w \in Workers : Acknowledge(w)
           /\ UNCHANGED board \/ \E w \in Workers : CreateItem(w)
           /\ refreshes' = refreshes \/ refreshes' = refreshes + 1
<1>1. ASSUME NEW w \in Workers, Worker(w)
      PROVE  /\ \/ ClaimAndSave(w) \/ SaveRecord(w) \/ MarkEmitted(w)
                \/ UNCHANGED receiving_items
             /\ UNCHANGED po_inventory \/ ClaimAndSave(w)
             /\ seen' = seen \/ Acknowledge(w)
             /\ UNCHANGED board \/ CreateItem(w)
             /\ refreshes' = refreshes
  <2>1. CASE \E po \in POs, barcode \in Barcodes, serial \in Serials \cup {NoSerial} :
               Scan(w, po, barcode, serial)
    BY <2>1 DEF Scan
  <2>2. CASE FindClaimedBySerial(w) \/ ClaimAndSave(w) \/ SaveRecord(w) \/ WasEmitted(w)
    BY <2>2 DEF FindClaimedBySerial, ClaimAndSave, SaveRecord, WasEmitted
  <2>3. CASE Emit(w) \/ CreateItem(w) \/ Acknowledge(w) \/ MarkEmitted(w)
    BY <2>3 DEF Emit, CreateItem, Acknowledge, MarkEmitted
  <2>4. CASE RepositoryError(w) \/ SinkError(w)
    BY <2>4 DEF RepositoryError, SinkError
  <2> QED
    BY <1>1, <2>1, <2>2, <2>3, <2>4 DEF Worker
<1>2. ASSUME NEW po \in POs, PopulateFetch(po) \/ PopulateUpsert(po)
      PROVE  /\ UNCHANGED po_inventory \/ PopulateUpsert(po)
             /\ UNCHANGED <<receiving_items, seen, board, refreshes>>
  BY <1>2 DEF PopulateFetch, PopulateUpsert
<1>3. RefreshAll => UNCHANGED <<receiving_items, seen, board>> /\ refreshes' = refreshes + 1
  BY DEF RefreshAll
<1>4. Crash => seen' = {} /\ UNCHANGED <<receiving_items, po_inventory, board, refreshes>>
  BY DEF Crash
<1>5. CASE UNCHANGED vars
  BY <1>5 DEF vars
<1> QED
  BY <1>1, <1>2, <1>3, <1>4, <1>5 DEF Next

(* No step makes an emitted record pending again or removes a record.       *)
LEMMA EmittedStays ==
    ASSUME TypeOK, [Next]_vars
    PROVE  \A r \in ReceivingIds :
              /\ receiving_items[r] # NoRow => receiving_items'[r] # NoRow
              /\ was_emitted(receiving_items, r) => was_emitted(receiving_items', r)
<1> DEFINE A == \A r \in ReceivingIds :
                   /\ receiving_items[r] # NoRow => receiving_items'[r] # NoRow
                   /\ was_emitted(receiving_items, r) => was_emitted(receiving_items', r)
<1>1. ASSUME NEW w \in Workers, ClaimAndSave(w) \/ SaveRecord(w) PROVE A
  <2>1. rid(w) \in ReceivingIds /\ build_record(scan[w]) \in ReceivingRow
    BY RidType, RecordType DEF TypeOK, rid
  <2>2. receiving_items' = save_record(receiving_items, rid(w), build_record(scan[w]))
    BY <1>1 DEF ClaimAndSave, SaveRecord
  <2> QED
    BY <2>1, <2>2, SaveKeepsEmitted DEF TypeOK
<1>2. ASSUME NEW w \in Workers, MarkEmitted(w) PROVE A
  <2>1. rid(w) \in ReceivingIds
    BY RidType DEF TypeOK, rid
  <2>2. receiving_items' = mark_emitted(receiving_items, rid(w))
    BY <1>2 DEF MarkEmitted
  <2> QED
    BY <2>1, <2>2, MarkOnlyMarks DEF TypeOK
<1>3. CASE UNCHANGED receiving_items
  BY <1>3 DEF was_emitted
<1> QED
  BY <1>1, <1>2, <1>3, WhoWrites

(* No later scan makes an emitted record pending again, and no record is    *)
(* ever removed, whichever slot, spelling or serial the scan carries.       *)
THEOREM EmittedNeverReset == Spec => EmittedForever
<1> DEFINE A == \A r \in ReceivingIds :
                   /\ receiving_items[r] # NoRow => receiving_items'[r] # NoRow
                   /\ was_emitted(receiving_items, r) => was_emitted(receiving_items', r)
<1>1. ASSUME TypeOK, [Next]_vars PROVE A
  BY <1>1, EmittedStays
<1>2. TypeOK /\ [Next]_vars => [A]_vars
  BY <1>1
<1> QED
  BY <1>2, TypeCorrect, PTL DEF Spec, EmittedForever

-----------------------------------------------------------------------------
(* EmittedOnBoard is not inductive: the mark has to know that the POST came *)
(* before it.  Every worker past its POST, or told by _seen that there was  *)
(* one, is about an id that is on the board.                                *)
PostedOnBoard ==
    /\ EmittedOnBoard
    /\ \A w \in Workers : pc[w] \in {"posted", "mark"} => OnBoard(rid(w))

(* The board only grows.                                                    *)
LEMMA BoardGrows ==
    ASSUME TypeOK, [Next]_vars, NEW r, OnBoard(r)
    PROVE  OnBoard(r)'
<1>1. ASSUME NEW w \in Workers, CreateItem(w) PROVE OnBoard(r)'
  <2>1. PICK k \in DOMAIN board : board[k].id = r
    BY DEF OnBoard
  <2>2. board \in Seq(BoardItem) /\ board' = Append(board, create_item(scan[w]))
    BY <1>1 DEF TypeOK, CreateItem
  <2>3. k \in DOMAIN board' /\ board'[k] = board[k]
    BY <2>2
  <2> QED
    BY <2>1, <2>3 DEF OnBoard
<1>2. CASE UNCHANGED board
  BY <1>2 DEF OnBoard
<1> QED
  BY <1>1, <1>2, WhoWrites

(* Every step of the desk keeps what is known of the board.                 *)
LEMMA PostedStep == TypeOK /\ PostedOnBoard /\ [Next]_vars => PostedOnBoard'
<1> SUFFICES ASSUME TypeOK, PostedOnBoard, [Next]_vars PROVE PostedOnBoard'
  OBVIOUS
<1>rid. \A w \in Workers : rid(w) \in ReceivingIds /\ build_record(scan[w]) \in ReceivingRow
  BY RidType, RecordType DEF TypeOK, rid
<1>1. \A r : OnBoard(r) => OnBoard(r)'
  BY BoardGrows
<1>2. (\A r \in ReceivingIds : was_emitted(receiving_items, r) => OnBoard(r))'
  <2>1. ASSUME NEW w \in Workers, ClaimAndSave(w) \/ SaveRecord(w),
               NEW r \in ReceivingIds
        PROVE  was_emitted(receiving_items', r) => was_emitted(receiving_items, r)
    BY <2>1, <1>rid, SaveKeepsEmitted DEF TypeOK, ClaimAndSave, SaveRecord
  <2>2. ASSUME NEW w \in Workers, MarkEmitted(w), NEW r \in ReceivingIds
        PROVE  was_emitted(receiving_items', r) => was_emitted(receiving_items, r) \/ r = rid(w)
    BY <2>2, <1>rid, MarkOnlyMarks DEF TypeOK, MarkEmitted
  <2>3. \A w \in Workers : MarkEmitted(w) => OnBoard(rid(w))
    BY DEF PostedOnBoard, MarkEmitted
  <2> QED
    BY <1>1, <2>1, <2>2, <2>3, WhoWrites DEF PostedOnBoard, EmittedOnBoard, was_emitted
<1>3. (\A r \in seen : OnBoard(r))'
  <2>1. seen' \subseteq seen \/ \E w \in Workers : Acknowledge(w)
    BY WhoWrites
  <2>2. ASSUME NEW w \in Workers, Acknowledge(w) PROVE \A r \in seen' : OnBoard(r)
    BY <2>2 DEF Acknowledge, PostedOnBoard, EmittedOnBoard
  <2> QED
    BY <1>1, <2>1, <2>2 DEF PostedOnBoard, EmittedOnBoard
<1>4. ASSUME NEW w \in Workers, pc'[w] \in {"posted", "mark"} PROVE OnBoard(rid(w))'
  <2>0. UNCHANGED scan[w] => rid(w)' = rid(w)
    BY DEF rid
  <2>1. CASE pc'[w] = pc[w] /\ UNCHANGED scan[w]
    BY <1>1, <1>4, <2>0, <2>1 DEF PostedOnBoard
  <2>2. CASE CreateItem(w)
    <3>1. /\ board \in Seq(BoardItem) /\ board' = Append(board, create_item(scan[w]))
          /\ create_item(scan[w]).id = rid(w) /\ rid(w)' = rid(w)
      BY <2>2, <2>0 DEF TypeOK, CreateItem, create_item, rid, Goto
    <3>2. Len(board) + 1 \in DOMAIN board' /\ board'[Len(board) + 1] = create_item(scan[w])
      BY <3>1
    <3> QED
      BY <3>1, <3>2 DEF OnBoard
  <2>3. CASE Acknowledge(w)
    BY <1>1, <2>0, <2>3 DEF Acknowledge, Goto, PostedOnBoard
  <2>4. CASE Emit(w)
    <3>1. pc'[w] = IF rid(w) \in seen THEN "mark" ELSE "post"
      BY <2>4 DEF Emit, Goto, TypeOK
    <3>2. rid(w) \in seen /\ UNCHANGED scan[w]
      BY <1>4, <2>4, <3>1 DEF Emit, Goto
    <3> QED
      BY <1>1, <2>0, <3>2 DEF PostedOnBoard, EmittedOnBoard
  <2> QED
    <3>1. ASSUME NEW u \in Workers, Worker(u)
          PROVE  \/ pc'[w] = pc[w] /\ UNCHANGED scan[w]
                 \/ CreateItem(w) \/ Acknowledge(w) \/ Emit(w)
      <4>1. CASE u # w
        BY <3>1, <4>1 DEF TypeOK, Worker, Scan, FindClaimedBySerial, ClaimAndSave,
           SaveRecord, WasEmitted, Emit, CreateItem, Acknowledge, MarkEmitted,
           RepositoryError, SinkError, Goto, Return
      <4>2. CASE u = w
        BY <1>4, <3>1, <4>2 DEF TypeOK, Worker, Scan, FindClaimedBySerial, ClaimAndSave,
           SaveRecord, WasEmitted, MarkEmitted, RepositoryError, SinkError, Goto, Return
      <4> QED
        BY <4>1, <4>2
    <3>2. ~Crash
      BY <1>4 DEF Crash
    <3> QED
      BY <2>1, <2>2, <2>3, <2>4, <3>1, <3>2
         DEF Next, vars, PopulateFetch, PopulateUpsert, RefreshAll
<1> QED
  BY <1>2, <1>3, <1>4 DEF PostedOnBoard, EmittedOnBoard

(* A record is marked emitted, and an id remembered by the sink, only when  *)
(* the board has the item: no crash between two calls and no second thread  *)
(* on the same id leaves a record that is marked and was never sent.        *)
THEOREM MarkedIsOnBoard == Spec => []EmittedOnBoard
<1>1. Init => PostedOnBoard
  BY DEF Init, PostedOnBoard, EmittedOnBoard, was_emitted
<1>2. TypeOK /\ PostedOnBoard /\ [Next]_vars => PostedOnBoard'
  BY PostedStep
<1>3. PostedOnBoard => EmittedOnBoard
  BY DEF PostedOnBoard
<1> QED
  BY <1>1, <1>2, <1>3, TypeCorrect, PTL DEF Spec

-----------------------------------------------------------------------------
(* ClaimHasRecord is not inductive: a save must not overwrite the record of *)
(* another slot.  It does not when every record is stored under a digest of *)
(* its own slot and digests tell slots apart.                               *)
RecordIsKeyed ==
    \A r \in ReceivingIds : receiving_items[r] # NoRow =>
        \E po \in POs, b \in Barcodes : r = ReceivingIdOf[<<po, receiving_items[r].inv, b>>]

IdsTellSlotsApart ==
    \A p, q \in POs, i, j \in InvIds \cup {NoInv}, b, c \in Barcodes :
        ReceivingIdOf[<<p, i, b>>] = ReceivingIdOf[<<q, j, c>>] => i = j

KeyedInv == RecordIsKeyed /\ ClaimHasRecord

(* The slot of a digest is the slot it was made from.                       *)
LEMMA SlotOfId ==
    ASSUME IdsTellSlotsApart, NEW p \in POs, NEW q \in POs, NEW b \in Barcodes,
           NEW c \in Barcodes, NEW i \in InvIds \cup {NoInv}, NEW j \in InvIds
    PROVE  ReceivingIdOf[<<p, i, b>>] = ReceivingIdOf[<<q, j, c>>] => i = j
<1>1. j \in InvIds \cup {NoInv}
  OBVIOUS
<1> QED
  BY <1>1, Zenon DEF IdsTellSlotsApart

(* The row a save leaves under its id, and the rows it leaves alone.        *)
LEMMA SaveWrites ==
    ASSUME NEW items \in [ReceivingIds -> ReceivingRow \cup {NoRow}],
           NEW id \in ReceivingIds, NEW rec \in ReceivingRow, NEW r \in ReceivingIds
    PROVE  LET after == save_record(items, id, rec)
           IN  /\ r # id => after[r] = items[r]
               /\ r = id => /\ after[r] # NoRow
                            /\ after[r].inv = rec.inv
                            /\ after[r].status = rec.status
                            /\ after[r].serial = rec.serial
<1> DEFINE after == save_record(items, id, rec)
<1>1. after[id] = [rec EXCEPT !.emitted = was_emitted(items, id)]
  BY DEF save_record
<1>2. was_emitted(items, id) \in BOOLEAN
  BY DEF was_emitted, ReceivingRow
<1>3. /\ after[id] \in ReceivingRow /\ after[id].inv = rec.inv
      /\ after[id].status = rec.status /\ after[id].serial = rec.serial
  BY <1>1, <1>2 DEF ReceivingRow
<1> QED
  BY <1>3, NoRowAssumption DEF save_record

(* A step that writes no record claims no slot: a refresh drops claims, an   *)
(* upsert keeps them.                                                       *)
LEMMA ClaimsComeFromSaves ==
    ASSUME [Next]_vars, UNCHANGED receiving_items, TypeOK,
           ~ \E w \in Workers : ClaimAndSave(w)
    PROVE  \A i \in InvIds : Claimed(i)' => Claimed(i)
<1>1. ASSUME NEW po \in POs, PopulateUpsert(po) PROVE \A i \in InvIds : Claimed(i)' => Claimed(i)
  <2>1. PICK rows \in SUBSET InvIds : po_inventory' = upsert_items(po_inventory, rows)
    BY <1>1 DEF PopulateUpsert
  <2>2. ASSUME NEW i \in InvIds, i \in rows, Claimed(i)' PROVE Claimed(i)
    <3>1. po_inventory'[i].claimed = (po_inventory[i] # NoRow /\ po_inventory[i].claimed)
      BY <2>1, <2>2 DEF upsert_items
    <3> QED
      BY <2>2, <3>1, Zenon DEF Claimed
  <2>3. ASSUME NEW i \in InvIds, i \notin rows, Claimed(i)' PROVE Claimed(i)
    BY <2>1, <2>3 DEF upsert_items, Claimed
  <2> QED
    BY <2>2, <2>3
<1>2. ASSUME RefreshAll PROVE \A i \in InvIds : Claimed(i)' => Claimed(i)
  BY <1>2 DEF RefreshAll, replace_po_items, Claimed
<1>3. CASE UNCHANGED po_inventory
  BY <1>3 DEF Claimed
<1> QED
  BY <1>1, <1>2, <1>3, WhoWrites

(* No step but a refresh takes a claim away.                                *)
LEMMA ClaimsStay ==
    ASSUME TypeOK, [Next]_vars
    PROVE  refreshes' = refreshes => \A i \in InvIds : Claimed(i) => Claimed(i)'
<1> DEFINE A == refreshes' = refreshes => \A i \in InvIds : Claimed(i) => Claimed(i)'
<1>1. ASSUME NEW w \in Workers, ClaimAndSave(w) PROVE A
  <2>1. ASSUME NEW i \in InvIds, Claimed(i) PROVE Claimed(i)'
    <3>1. po_inventory[i] \in InventoryRow
      BY <2>1 DEF TypeOK, Claimed
    <3>2. \/ po_inventory'[i] = po_inventory[i]
          \/ po_inventory'[i] = [po_inventory[i] EXCEPT !.claimed = TRUE]
      BY <1>1, <2>1 DEF ClaimAndSave, claim, TypeOK, Claimed
    <3>3. [po_inventory[i] EXCEPT !.claimed = TRUE] \in InventoryRow
      BY <3>1 DEF InventoryRow
    <3>4. [po_inventory[i] EXCEPT !.claimed = TRUE].claimed
      BY <3>1 DEF InventoryRow
    <3> QED
      BY <2>1, <3>2, <3>3, <3>4, NoRowAssumption DEF Claimed
  <2> QED
    BY <2>1
<1>2. ASSUME NEW po \in POs, PopulateUpsert(po) PROVE A
  <2>1. PICK rows \in SUBSET InvIds : po_inventory' = upsert_items(po_inventory, rows)
    BY <1>2 DEF PopulateUpsert
  <2>2. ASSUME NEW i \in InvIds, i \in rows, Claimed(i) PROVE Claimed(i)'
    <3>1. po_inventory'[i] = [po |-> SourceRow[i].po, model |-> SourceRow[i].model,
                              claimed |-> po_inventory[i] # NoRow /\ po_inventory[i].claimed]
      BY <2>1, <2>2 DEF upsert_items
    <3>2. (po_inventory[i] # NoRow /\ po_inventory[i].claimed) = TRUE
      BY <2>2 DEF Claimed
    <3>3. po_inventory'[i] = [po |-> SourceRow[i].po, model |-> SourceRow[i].model,
                              claimed |-> TRUE]
      BY <3>1, <3>2, Zenon
    <3>4. po_inventory'[i].claimed = TRUE /\ po_inventory'[i] \in InventoryRow
      BY <3>3, RepositoryAssumption DEF InventoryRow
    <3> QED
      BY <3>4, NoRowAssumption DEF Claimed
  <2>3. ASSUME NEW i \in InvIds, i \notin rows, Claimed(i) PROVE Claimed(i)'
    BY <2>1, <2>3 DEF upsert_items, Claimed
  <2> QED
    BY <2>2, <2>3
<1>3. ASSUME RefreshAll PROVE A
  BY <1>3 DEF RefreshAll, TypeOK
<1>4. CASE UNCHANGED po_inventory
  BY <1>4 DEF Claimed
<1> QED
  BY <1>1, <1>2, <1>3, <1>4, WhoWrites

(* A slot keeps its claim through scans, crashes and late populates; only a *)
(* refresh takes it away.                                                   *)
THEOREM ClaimsOutlivePopulate == Spec => OnlyRefreshUnclaims
<1> DEFINE A == refreshes' = refreshes => \A i \in InvIds : Claimed(i) => Claimed(i)'
<1>1. ASSUME TypeOK, [Next]_vars PROVE A
  BY <1>1, ClaimsStay
<1>2. TypeOK /\ [Next]_vars => [A]_vars
  BY <1>1
<1> QED
  BY <1>2, TypeCorrect, PTL DEF Spec, OnlyRefreshUnclaims

(* Records stay under the digest of their slot, and claims keep theirs.     *)
LEMMA KeyedStep == IdsTellSlotsApart /\ TypeOK /\ KeyedInv /\ [Next]_vars => KeyedInv'
<1> SUFFICES ASSUME IdsTellSlotsApart, TypeOK, KeyedInv, [Next]_vars PROVE KeyedInv'
  OBVIOUS
<1> USE DEF KeyedInv
<1> DEFINE HasRecord(i, items) == \E r \in ReceivingIds : /\ items[r] # NoRow
                                                        /\ items[r].inv = i
                                                        /\ items[r].status = "received"
<1>1. ASSUME NEW w \in Workers, ClaimAndSave(w) \/ SaveRecord(w)
      PROVE  /\ RecordIsKeyed'
             /\ \A i \in InvIds : HasRecord(i, receiving_items) => HasRecord(i, receiving_items')
             /\ scan[w].inv \in InvIds => HasRecord(scan[w].inv, receiving_items')
  <2> DEFINE s == scan[w]  rec == build_record(s)
  <2>1. /\ s \in ScanLocals /\ s.po \in POs /\ s.barcode \in Barcodes
        /\ s.inv \in InvIds \cup {NoInv}
    BY DEF TypeOK, ScanLocals
  <2>2. /\ rid(w) \in ReceivingIds /\ rid(w) = ReceivingIdOf[<<s.po, s.inv, s.barcode>>]
        /\ rec \in ReceivingRow /\ rec.inv = s.inv
        /\ s.inv \in InvIds => rec.status = "received"
    BY <2>1, RidType, RecordType, RepositoryAssumption
       DEF rid, make_receiving_id, build_record, MatchStatus
  <2>3. receiving_items' = save_record(receiving_items, rid(w), rec)
    BY <1>1 DEF ClaimAndSave, SaveRecord
  <2> HIDE DEF s, rec
  <2>4. \A r \in ReceivingIds :
           /\ r # rid(w) => receiving_items'[r] = receiving_items[r]
           /\ r = rid(w) => /\ receiving_items'[r] # NoRow
                            /\ receiving_items'[r].inv = rec.inv
                            /\ receiving_items'[r].status = rec.status
    <3>1. receiving_items \in [ReceivingIds -> ReceivingRow \cup {NoRow}]
      BY DEF TypeOK
    <3> QED
      BY <2>2, <2>3, <3>1, SaveWrites
  <2>5. RecordIsKeyed'
    BY <2>1, <2>2, <2>4 DEF RecordIsKeyed
  <2>6. ASSUME NEW i \in InvIds, HasRecord(i, receiving_items)
        PROVE  HasRecord(i, receiving_items')
    <3>1. PICK r \in ReceivingIds : /\ receiving_items[r] # NoRow
                                    /\ receiving_items[r].inv = i
                                    /\ receiving_items[r].status = "received"
      BY <2>6
    <3>2. CASE r # rid(w)
      BY <2>4, <3>1, <3>2
    <3>3. CASE r = rid(w)
      <4>1. PICK po \in POs, b \in Barcodes : r = ReceivingIdOf[<<po, i, b>>]
        BY <3>1 DEF RecordIsKeyed
      <4>2. ReceivingIdOf[<<s.po, s.inv, s.barcode>>] = ReceivingIdOf[<<po, i, b>>] => s.inv = i
        BY <2>1, SlotOfId
      <4>3. s.inv = i
        BY <2>2, <3>3, <4>1, <4>2
      <4> QED
        BY <2>2, <2>4, <3>3, <4>3
    <3> QED
      BY <3>2, <3>3
  <2>7. s.inv \in InvIds => HasRecord(s.inv, receiving_items')
    BY <2>2, <2>4
  <2> QED
    BY <2>5, <2>6, <2>7 DEF s
<1>2. ASSUME NEW w \in Workers, MarkEmitted(w)
      PROVE  /\ RecordIsKeyed'
             /\ \A i \in InvIds : HasRecord(i, receiving_items) => HasRecord(i, receiving_items')
  <2>1. \A r \in ReceivingIds :
           /\ receiving_items'[r] # NoRow <=> receiving_items[r] # NoRow
           /\ receiving_items'[r] # NoRow =>
                  /\ receiving_items'[r].inv = receiving_items[r].inv
                  /\ receiving_items'[r].status = receiving_items[r].status
    <3>1. rid(w) \in ReceivingIds
      BY RidType DEF TypeOK, rid
    <3>2. /\ receiving_items \in [ReceivingIds -> ReceivingRow \cup {NoRow}]
          /\ receiving_items' = mark_emitted(receiving_items, rid(w))
      BY <1>2 DEF TypeOK, MarkEmitted
    <3> QED
      BY <3>1, <3>2, MarkOnlyMarks
  <2> QED
    BY <2>1 DEF RecordIsKeyed
<1>3. CASE UNCHANGED receiving_items /\ ~ \E w \in Workers : ClaimAndSave(w)
  <2>1. RecordIsKeyed'
    BY <1>3 DEF RecordIsKeyed
  <2>2. \A i \in InvIds : Claimed(i)' => Claimed(i)
    BY <1>3, ClaimsComeFromSaves
  <2> QED
    BY <1>3, <2>1, <2>2 DEF ClaimHasRecord
<1>4. ASSUME NEW w \in Workers, ClaimAndSave(w)
      PROVE  \A i \in InvIds : Claimed(i)' => Claimed(i) \/ i = scan[w].inv
  BY <1>4 DEF ClaimAndSave, claim, Claimed, TypeOK, InventoryRow
<1>5. ASSUME NEW w \in Workers, SaveRecord(w) \/ MarkEmitted(w)
      PROVE  UNCHANGED po_inventory
  BY <1>5 DEF SaveRecord, MarkEmitted
<1>6. ClaimHasRecord <=> \A i \in InvIds : Claimed(i) => HasRecord(i, receiving_items)
  BY DEF ClaimHasRecord
<1>7. ClaimHasRecord' <=> \A i \in InvIds : Claimed(i)' => HasRecord(i, receiving_items')
  BY DEF ClaimHasRecord
<1> HIDE DEF HasRecord
<1>8. ASSUME NEW w \in Workers, ClaimAndSave(w) \/ SaveRecord(w) \/ MarkEmitted(w)
      PROVE  KeyedInv'
  <2>1. \A i \in InvIds : Claimed(i)' => Claimed(i) \/ (ClaimAndSave(w) /\ i = scan[w].inv)
    BY <1>4, <1>5, <1>8 DEF Claimed
  <2> QED
    BY <1>1, <1>2, <1>6, <1>7, <1>8, <2>1
<1> QED
  BY <1>3, <1>8, WhoWrites

(* T0-1 for every number of threads, slots, orders and spellings: provided  *)
(* the digests of two slots differ, a claimed slot has a received record,   *)
(* whatever fails and whenever the process ends.                            *)
THEOREM ClaimedHasRecord == IdsTellSlotsApart => (Spec => []ClaimHasRecord)
<1> SUFFICES ASSUME IdsTellSlotsApart PROVE Spec => []ClaimHasRecord
  OBVIOUS
<1>1. Init => KeyedInv
  BY DEF Init, KeyedInv, RecordIsKeyed, ClaimHasRecord, Claimed
<1>2. TypeOK /\ KeyedInv /\ [Next]_vars => KeyedInv'
  BY KeyedStep
<1>3. KeyedInv => ClaimHasRecord
  BY DEF KeyedInv
<1> QED
  BY <1>1, <1>2, <1>3, TypeCorrect, PTL DEF Spec
=============================================================================
