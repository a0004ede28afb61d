------------------------- MODULE SyncPending_proofs -------------------------
(***************************************************************************)
(* Proofs about the scanning desk with its sync pass: the types, what the  *)
(* board and the records have in common, and what a pass leaves behind,    *)
(* for any number of slots, orders, spellings, failing calls, crashes and  *)
(* passes.  The theorems about one scan at a time say so: OneWorker.       *)
(***************************************************************************)
EXTENDS SyncPending, ProcessScan_proofs, FiniteSetTheorems

USE DEF tables, counters, pass, desk

InHand == {"emit", "post", "posted", "mark"}

(* The pass: what it holds came from the table, and no match thread is in   *)
(* process_scan while it runs.                                              *)
PassTypeOK ==
    /\ sync \in SyncSteps \cup Verdicts
    /\ pending \subseteq PendingRecords
    /\ todo \subseteq pending
    /\ sync \in InHand => current \in pending \ todo
    /\ tally \in [received : Nat, no_match : Nat, errors : Nat]
    /\ syncs \in Nat
    /\ Running => \A w \in Workers : pc[w] = "idle"
    /\ ~Running => todo = {}

SyncTypeOK == TypeOK /\ PassTypeOK

PassStep == GetPending \/ SyncStep \/ SyncCrash

(* A step is one of the desk, one of the pass, or none.                     *)
LEMMA StepCases == [SyncNext]_syncVars => DeskStep \/ PassStep \/ UNCHANGED syncVars
BY DEF SyncNext, PassStep

(* The pass claims no slot and runs no scan.                                *)
LEMMA PassFrame == ASSUME PassStep PROVE UNCHANGED <<po_inventory, pc, scan, refreshes>>
BY DEF PassStep, GetPending, SyncStep, TakeItem, SyncEmit, SyncCreateItem, SyncAcknowledge,
       SyncMarkEmitted, SyncItemError, EndSync, SyncCrash, vars

(* Who writes the records, the board, the sink's memory and the history of  *)
(* lost POSTs in a pass.                                                    *)
LEMMA PassWrites ==
    ASSUME PassStep
    PROVE  /\ SyncMarkEmitted \/ UNCHANGED receiving_items
           /\ SyncCreateItem \/ UNCHANGED board
           /\ SyncAcknowledge \/ SyncCrash \/ UNCHANGED seen
           /\ SyncItemError \/ SyncCrash \/ UNCHANGED lost
BY DEF PassStep, GetPending, SyncStep, TakeItem, SyncEmit, SyncCreateItem, SyncAcknowledge,
       SyncMarkEmitted, SyncItemError, EndSync, SyncCrash, vars

(* What forgetting some ids does to the history.                            *)
LEMMA ForgetType ==
    ASSUME lost \in [ReceivingIds -> Nat], NEW ids, Forget(ids)
    PROVE  lost' \in [ReceivingIds -> Nat]
BY DEF Forget

-----------------------------------------------------------------------------
(* What the pass has read is rows of the table.                             *)
LEMMA PendingType ==
    ASSUME NEW items \in [ReceivingIds -> ReceivingRow \cup {NoRow}]
    PROVE  {[id |-> r, row |-> items[r]] : r \in get_pending(items)} \subseteq PendingRecords
BY DEF get_pending, PendingRecords

(* The pass keeps the types of the desk.                                    *)
LEMMA PassKeepsTypes == ASSUME SyncTypeOK, PassStep PROVE TypeOK'
<1>1. /\ TypeOK /\ PassTypeOK
      /\ UNCHANGED <<po_inventory, pc, scan, refreshes>>
  BY PassFrame DEF SyncTypeOK
<1>2. ASSUME sync \in InHand
      PROVE  /\ current.id \in ReceivingIds /\ current.row \in ReceivingRow
             /\ ItemOfRow(current) \in BoardItem
  BY <1>1, <1>2 DEF PassTypeOK, PendingRecords, ReceivingRow, BoardItem, ItemOfRow
<1>3. CASE UNCHANGED vars
  BY <1>1, <1>3 DEF TypeOK, vars
<1>4. CASE SyncCreateItem
  <2>1. board' \in Seq(BoardItem)
    BY <1>1, <1>2, <1>4 DEF SyncCreateItem, TypeOK, InHand
  <2> QED
    BY <1>1, <1>4, <2>1 DEF SyncCreateItem, TypeOK
<1>5. CASE SyncAcknowledge
  BY <1>1, <1>2, <1>5 DEF SyncAcknowledge, TypeOK, InHand
<1>6. CASE SyncMarkEmitted
  <2>1. receiving_items' \in [ReceivingIds -> ReceivingRow \cup {NoRow}]
    BY <1>1, <1>2, <1>6, MarkType DEF SyncMarkEmitted, TypeOK, InHand
  <2> QED
    BY <1>1, <1>6, <2>1 DEF SyncMarkEmitted, TypeOK
<1>7. CASE SyncItemError
  <2>1. lost' \in [ReceivingIds -> Nat]
    BY <1>1, <1>7, ForgetType DEF SyncItemError, TypeOK
  <2> QED
    BY <1>1, <1>7, <2>1 DEF SyncItemError, TypeOK
<1>8. CASE SyncCrash
  <2>1. lost' \in [ReceivingIds -> Nat]
    BY <1>1, <1>8, ForgetType DEF SyncCrash, TypeOK
  <2> QED
    BY <1>1, <1>8, <2>1 DEF SyncCrash, TypeOK
<1> QED
  BY <1>3, <1>4, <1>5, <1>6, <1>7, <1>8
     DEF PassStep, GetPending, SyncStep, TakeItem, SyncEmit, EndSync

(* The pass keeps its own.                                                  *)
LEMMA PassKeepsPass == ASSUME SyncTypeOK, PassStep PROVE PassTypeOK'
<1>1. /\ TypeOK /\ PassTypeOK
      /\ UNCHANGED <<pc, scan>>
  BY PassFrame DEF SyncTypeOK
<1>2. CASE GetPending
  <2>1. pending' \subseteq PendingRecords /\ todo' = pending' /\ sync' = "next"
    BY <1>1, <1>2, PendingType DEF GetPending, TypeOK
  <2> QED
    BY <1>1, <1>2, <2>1
       DEF PassTypeOK, GetPending, Running, SyncSteps, Verdicts, InHand, NoTally
<1>3. CASE TakeItem
  BY <1>1, <1>3 DEF PassTypeOK, TakeItem, Running, SyncSteps, InHand
<1>4. CASE SyncEmit
  BY <1>1, <1>4 DEF PassTypeOK, SyncEmit, Running, SyncSteps, InHand
<1>5. CASE SyncCreateItem \/ SyncAcknowledge
  BY <1>1, <1>5
     DEF PassTypeOK, SyncCreateItem, SyncAcknowledge, Running, SyncSteps, InHand
<1>6. CASE SyncMarkEmitted
  BY <1>1, <1>6 DEF PassTypeOK, SyncMarkEmitted, Running, SyncSteps, InHand
<1>7. CASE SyncItemError
  BY <1>1, <1>7 DEF PassTypeOK, SyncItemError, Running, SyncSteps, InHand
<1>8. CASE EndSync
  BY <1>1, <1>8 DEF PassTypeOK, EndSync, Running, SyncSteps, Verdicts, InHand
<1>9. CASE SyncCrash
  BY <1>1, <1>9 DEF PassTypeOK, SyncCrash, Running, SyncSteps, Verdicts, InHand
<1> QED
  BY <1>2, <1>3, <1>4, <1>5, <1>6, <1>7, <1>8, <1>9 DEF PassStep, SyncStep

(* Every step of the desk or of the pass keeps the types.                   *)
LEMMA SyncTypeStep == SyncTypeOK /\ [SyncNext]_syncVars => SyncTypeOK'
<1> SUFFICES ASSUME SyncTypeOK, [SyncNext]_syncVars PROVE SyncTypeOK'
  OBVIOUS
<1>1. TypeOK /\ PassTypeOK
  BY DEF SyncTypeOK
<1>2. CASE DeskStep
  <2>1. TypeOK'
    BY <1>1, <1>2, TypeStep DEF DeskStep
  <2>2. PassTypeOK'
    BY <1>1, <1>2 DEF PassTypeOK, DeskStep, Running, SyncSteps, Verdicts, InHand, NoTally
  <2> QED
    BY <2>1, <2>2 DEF SyncTypeOK
<1>3. CASE PassStep
  BY <1>3, PassKeepsTypes, PassKeepsPass DEF SyncTypeOK
<1>4. CASE UNCHANGED syncVars
  BY <1>1, <1>4 DEF SyncTypeOK, TypeOK, PassTypeOK, Running, syncVars, vars
<1> QED
  BY <1>2, <1>3, <1>4, StepCases

(* Type correctness of the desk with its pass; the pass runs alone and      *)
(* never holds a record that get_pending did not return.                    *)
THEOREM SyncTypeCorrect == SyncSpec => []SyncTypeOK
<1>1. SyncInit => SyncTypeOK
  <2> SUFFICES ASSUME SyncInit PROVE SyncTypeOK
    OBVIOUS
  <2>1. TypeOK
    BY NoCallFacts DEF SyncInit, Init, TypeOK, Steps
  <2>2. PassTypeOK
    BY DEF SyncInit, PassTypeOK, Running, SyncSteps, Verdicts, InHand, NoTally
  <2> QED
    BY <2>1, <2>2 DEF SyncTypeOK
<1> QED
  BY <1>1, SyncTypeStep, PTL DEF SyncSpec

-----------------------------------------------------------------------------
(* In a pass a record loses nothing but its pending mark, and only when the *)
(* pass marks it.                                                           *)
LEMMA PassRecords ==
    ASSUME SyncTypeOK, PassStep, NEW r \in ReceivingIds
    PROVE  /\ receiving_items'[r] # NoRow <=> receiving_items[r] # NoRow
           /\ receiving_items'[r] # NoRow =>
                 /\ receiving_items'[r].inv = receiving_items[r].inv
                 /\ receiving_items'[r].status = receiving_items[r].status
                 /\ receiving_items'[r].serial = receiving_items[r].serial
           /\ was_emitted(receiving_items, r) => was_emitted(receiving_items', r)
           /\ was_emitted(receiving_items', r) =>
                 was_emitted(receiving_items, r) \/ (SyncMarkEmitted /\ r = current.id)
<1>1. CASE UNCHANGED receiving_items
  BY <1>1
<1>2. CASE SyncMarkEmitted
  <2>1. /\ receiving_items \in [ReceivingIds -> ReceivingRow \cup {NoRow}]
        /\ current.id \in ReceivingIds
    BY <1>2 DEF SyncTypeOK, TypeOK, PassTypeOK, SyncMarkEmitted, InHand, PendingRecords
  <2>2. receiving_items' = mark_emitted(receiving_items, current.id)
    BY <1>2 DEF SyncMarkEmitted
  <2> QED
    BY <1>2, <2>1, <2>2, MarkOnlyMarks
<1> QED
  BY <1>1, <1>2, PassWrites

(* The items of the board stay where they are; a pass adds the row in hand. *)
LEMMA PassBoard ==
    ASSUME SyncTypeOK, PassStep
    PROVE  /\ SyncCreateItem \/ UNCHANGED board
           /\ SyncCreateItem => /\ board' = Append(board, ItemOfRow(current))
                                /\ Len(board') = Len(board) + 1
                                /\ board'[Len(board) + 1] = ItemOfRow(current)
           /\ Len(board) \in Nat /\ DOMAIN board = 1 .. Len(board)
           /\ DOMAIN board' = 1 .. Len(board')
           /\ \A k \in DOMAIN board : k \in DOMAIN board' /\ board'[k] = board[k]
<1>1. board \in Seq(BoardItem) /\ board' \in Seq(BoardItem)
  BY SyncTypeStep, PassKeepsTypes DEF SyncTypeOK, TypeOK
<1>2. CASE UNCHANGED board
  BY <1>1, <1>2 DEF SyncCreateItem
<1>3. CASE SyncCreateItem
  <2>1. board' = Append(board, ItemOfRow(current))
    BY <1>3 DEF SyncCreateItem
  <2> QED
    BY <1>1, <1>3, <2>1
<1> QED
  BY <1>2, <1>3, PassWrites

-----------------------------------------------------------------------------
(* What is posted, marked or remembered is on the board, the record of the  *)
(* pass included.                                                           *)
SyncPosted == sync \in {"posted", "mark"} => OnBoard(current.id)

BoardInv == PostedOnBoard /\ SyncPosted

LEMMA BoardInvStep == SyncTypeOK /\ BoardInv /\ [SyncNext]_syncVars => BoardInv'
<1> SUFFICES ASSUME SyncTypeOK, BoardInv, [SyncNext]_syncVars PROVE BoardInv'
  OBVIOUS
<1>0. TypeOK /\ PassTypeOK /\ PostedOnBoard /\ SyncPosted
  BY DEF SyncTypeOK, BoardInv
<1>1. CASE DeskStep
  BY <1>0, <1>1, PostedStep DEF BoardInv, SyncPosted, DeskStep
<1>2. CASE PassStep
  <2>1. UNCHANGED <<pc, scan>>
    BY <1>2, PassFrame
  <2>2. \A r : OnBoard(r) => OnBoard(r)'
    BY <1>2, PassBoard DEF OnBoard
  <2>3. \A w \in Workers : pc'[w] \in {"posted", "mark"} => OnBoard(rid(w))'
    BY <1>0, <2>1, <2>2 DEF PostedOnBoard, rid
  <2>4. \A r \in ReceivingIds : was_emitted(receiving_items', r) => OnBoard(r)'
    <3>1. SyncMarkEmitted => OnBoard(current.id)
      BY <1>0 DEF SyncMarkEmitted, SyncPosted
    <3>2. ASSUME NEW r \in ReceivingIds, was_emitted(receiving_items', r) PROVE OnBoard(r)
      <4>1. was_emitted(receiving_items, r) \/ (SyncMarkEmitted /\ r = current.id)
        BY <1>2, <3>2, PassRecords
      <4> QED
        BY <1>0, <3>1, <4>1 DEF PostedOnBoard, EmittedOnBoard
    <3> QED
      BY <2>2, <3>2
  <2>5. \A r \in seen' : OnBoard(r)'
    <3>1. SyncAcknowledge => seen' = seen \cup {current.id} /\ OnBoard(current.id)
      BY <1>0 DEF SyncAcknowledge, SyncPosted
    <3>2. SyncCrash => seen' = {}
      BY DEF SyncCrash
    <3> QED
      BY <1>0, <1>2, <2>2, <3>1, <3>2, PassWrites DEF PostedOnBoard, EmittedOnBoard
  <2>6. SyncPosted'
    <3>1. CASE SyncCreateItem
      <4>1. UNCHANGED current /\ ItemOfRow(current).id = current.id
        BY <3>1 DEF SyncCreateItem, ItemOfRow
      <4> QED
        BY <1>2, <3>1, <4>1, PassBoard DEF OnBoard, SyncPosted
    <3>2. CASE SyncAcknowledge
      BY <1>0, <2>2, <3>2 DEF SyncAcknowledge, SyncPosted
    <3>3. CASE SyncEmit
      <4>1. current.id \in seen => OnBoard(current.id)
        BY <1>0 DEF PostedOnBoard, EmittedOnBoard
      <4> QED
        BY <2>2, <3>3, <4>1 DEF SyncEmit, SyncPosted
    <3>4. CASE ~SyncCreateItem /\ ~SyncAcknowledge /\ ~SyncEmit
      BY <1>2, <3>4 DEF SyncPosted, PassStep, GetPending, SyncStep, TakeItem,
         SyncMarkEmitted, SyncItemError, EndSync, SyncCrash
    <3> QED
      BY <3>1, <3>2, <3>3, <3>4
  <2> QED
    BY <2>3, <2>4, <2>5, <2>6 DEF BoardInv, PostedOnBoard, EmittedOnBoard
<1>3. CASE UNCHANGED syncVars
  BY <1>0, <1>3 DEF BoardInv, PostedOnBoard, EmittedOnBoard, SyncPosted, OnBoard, rid,
     syncVars, vars
<1> QED
  BY <1>1, <1>2, <1>3, StepCases

(* The pass marks what the board has, as a scan does: also with the pass,   *)
(* its failing calls and its crashes, no record is marked emitted and no id *)
(* is remembered that the board never got.                                  *)
THEOREM SyncMarkedIsOnBoard == SyncSpec => []EmittedOnBoard
<1>1. SyncInit => BoardInv
  BY DEF SyncInit, Init, BoardInv, PostedOnBoard, EmittedOnBoard, SyncPosted, was_emitted
<1>2. BoardInv => EmittedOnBoard
  BY DEF BoardInv, PostedOnBoard
<1> QED
  BY <1>1, <1>2, BoardInvStep, SyncTypeCorrect, PTL DEF SyncSpec

-----------------------------------------------------------------------------
(* Records stay under the digest of their slot and claims keep their record *)
(* through every pass.                                                      *)
LEMMA SyncKeyedStep ==
    IdsTellSlotsApart /\ SyncTypeOK /\ KeyedInv /\ [SyncNext]_syncVars => KeyedInv'
<1> SUFFICES ASSUME IdsTellSlotsApart, SyncTypeOK, KeyedInv, [SyncNext]_syncVars
             PROVE  KeyedInv'
  OBVIOUS
<1>1. CASE DeskStep
  BY <1>1, KeyedStep DEF SyncTypeOK, DeskStep
<1>2. CASE PassStep
  <2>1. RecordIsKeyed'
    BY <1>2, PassRecords DEF KeyedInv, RecordIsKeyed
  <2>2. \A i \in InvIds : Claimed(i)' <=> Claimed(i)
    BY <1>2, PassFrame DEF Claimed
  <2>3. ClaimHasRecord'
    BY <1>2, <2>2, PassRecords DEF KeyedInv, ClaimHasRecord
  <2> QED
    BY <2>1, <2>3 DEF KeyedInv
<1>3. CASE UNCHANGED syncVars
  BY <1>3 DEF KeyedInv, RecordIsKeyed, ClaimHasRecord, Claimed, syncVars, vars
<1> QED
  BY <1>1, <1>2, <1>3, StepCases

LEMMA SyncKeyed == IdsTellSlotsApart => (SyncSpec => []KeyedInv)
<1> SUFFICES ASSUME IdsTellSlotsApart PROVE SyncSpec => []KeyedInv
  OBVIOUS
<1>1. SyncInit => KeyedInv
  BY DEF SyncInit, Init, KeyedInv, RecordIsKeyed, ClaimHasRecord, Claimed
<1>2. SyncTypeOK /\ KeyedInv /\ [SyncNext]_syncVars => KeyedInv'
  BY SyncKeyedStep
<1> QED
  BY <1>1, <1>2, SyncTypeCorrect, PTL DEF SyncSpec

(* T0-1 through passes too: what a pass marks, and where it ends, takes no  *)
(* record from a claimed slot.                                              *)
THEOREM SyncClaimedHasRecord == IdsTellSlotsApart => (SyncSpec => []ClaimHasRecord)
<1>1. KeyedInv => ClaimHasRecord
  BY DEF KeyedInv
<1> QED
  BY <1>1, SyncKeyed, PTL

-----------------------------------------------------------------------------
(* The records the repository holds are finitely many: what a pass counts   *)
(* can be counted.                                                          *)
Stored == {r \in ReceivingIds : receiving_items[r] # NoRow}

LEMMA StoredStep ==
    SyncTypeOK /\ IsFiniteSet(Stored) /\ [SyncNext]_syncVars => IsFiniteSet(Stored')
<1> SUFFICES ASSUME SyncTypeOK, IsFiniteSet(Stored), [SyncNext]_syncVars
             PROVE  IsFiniteSet(Stored')
  OBVIOUS
<1>1. CASE PassStep
  <2>1. Stored' = Stored
    BY <1>1, PassRecords DEF Stored
  <2> QED
    BY <2>1
<1>2. ASSUME NEW w \in Workers, ClaimAndSave(w) \/ SaveRecord(w) \/ MarkEmitted(w)
      PROVE  IsFiniteSet(Stored')
  <2>1. TypeOK /\ rid(w) \in ReceivingIds /\ build_record(scan[w]) \in ReceivingRow
    BY RidType, RecordType DEF SyncTypeOK, TypeOK, rid
  <2>2. \A r \in ReceivingIds : r # rid(w) => receiving_items'[r] = receiving_items[r]
    BY <1>2, <2>1 DEF TypeOK, ClaimAndSave, SaveRecord, MarkEmitted, save_record, mark_emitted
  <2>3. Stored' \in SUBSET (Stored \cup {rid(w)})
    BY <2>2 DEF Stored
  <2>4. IsFiniteSet(Stored \cup {rid(w)})
    BY FS_AddElement
  <2> QED
    BY <2>3, <2>4, FS_Subset
<1>3. CASE UNCHANGED receiving_items
  BY <1>3 DEF Stored
<1>4. DeskStep => [Next]_vars
  BY DEF DeskStep
<1>5. UNCHANGED syncVars => UNCHANGED receiving_items
  BY DEF syncVars, vars
<1> QED
  BY <1>1, <1>2, <1>3, <1>4, <1>5, StepCases, WhoWrites

(* What get_pending returns has one row for each pending record.            *)
LEMMA PendingFinite ==
    ASSUME IsFiniteSet(Stored)
    PROVE  IsFiniteSet({[id |-> r, row |-> receiving_items[r]] :
                           r \in get_pending(receiving_items)})
<1> DEFINE S == get_pending(receiving_items)
           T == {[id |-> r, row |-> receiving_items[r]] : r \in S}
           f == [r \in S |-> [id |-> r, row |-> receiving_items[r]]]
<1>1. S \in SUBSET Stored
  BY DEF get_pending, Stored
<1>2. IsFiniteSet(S)
  BY <1>1, FS_Subset
<1>3. f \in Surjection(S, T)
  BY DEF Surjection
<1> HIDE DEF S, T, f
<1>4. IsFiniteSet(T)
  BY <1>2, <1>3, FS_Surjection
<1> QED
  BY <1>4 DEF T, S

-----------------------------------------------------------------------------
(* VerdictTellsTable says nothing while the pass runs.  What makes it true  *)
(* at the end: the rows read still agree with the table, and the pending    *)
(* records that are not emitted are those the loop has not done, the one in *)
(* hand, and as many as there were errors.                                  *)
Unsent == {p \in pending : ~Emitted(p)}

InHandCount == IF sync \in InHand THEN 1 ELSE 0

HasPass == sync \notin {"none", "died"}

RowsAgree ==
    /\ \A p \in pending : /\ receiving_items[p.id] # NoRow
                          /\ receiving_items[p.id].inv = p.row.inv
                          /\ receiving_items[p.id].status = p.row.status
                          /\ receiving_items[p.id].serial = p.row.serial
    /\ \A p, q \in pending : p.id = q.id => p = q

LoopUnsent ==
    /\ \A p \in todo : ~Emitted(p)
    /\ sync \in InHand => ~Emitted(current)

Counted ==
    /\ IsFiniteSet(Stored) /\ IsFiniteSet(pending)
    /\ HasPass => Cardinality(Unsent) = Cardinality(todo) + InHandCount + tally.errors

Decided ==
    /\ sync = "kill" <=> sync \in Verdicts /\ HasPass
                         /\ BelowThreshold(Cardinality(pending), tally.errors)
    /\ sync = "pass" => tally.errors = 0
    /\ sync = "partial" => tally.errors > 0

(* Every record is emitted or among those the pass has read.                *)
Covered ==
    HasPass => \A r \in ReceivingIds : receiving_items[r] # NoRow =>
        was_emitted(receiving_items, r) \/ \E p \in pending : p.id = r

PassInv == RowsAgree /\ LoopUnsent /\ Counted /\ Decided /\ Covered

(* A step of the desk ends the account of the last pass.                    *)
LEMMA DeskEndsPass ==
    ASSUME SyncTypeOK, PassInv, DeskStep
    PROVE  PassInv'
<1>1. sync' = "none" /\ pending' = {} /\ todo' = {}
  BY DEF DeskStep, SyncTypeOK, PassTypeOK
<1>2. IsFiniteSet(Stored')
  BY StoredStep DEF SyncNext, PassInv, Counted
<1>3. IsFiniteSet({})
  BY FS_EmptySet
<1> QED
  BY <1>1, <1>2, <1>3
     DEF PassInv, RowsAgree, LoopUnsent, Counted, Decided, Covered, HasPass, InHand, Verdicts

(* A pass begins with every record that is not emitted, and no error.       *)
LEMMA PassBegins ==
    ASSUME SyncTypeOK, PassInv, GetPending
    PROVE  PassInv'
<1>1. /\ sync' = "next" /\ todo' = pending'
      /\ pending' = {[id |-> r, row |-> receiving_items[r]] : r \in get_pending(receiving_items)}
      /\ tally' = NoTally /\ UNCHANGED receiving_items
  BY DEF GetPending, vars
<1>2. \A p \in pending' : /\ p.id \in get_pending(receiving_items)
                          /\ p = [id |-> p.id, row |-> receiving_items[p.id]]
  BY <1>1
<1>3. \A r \in get_pending(receiving_items) :
         receiving_items[r] # NoRow /\ ~was_emitted(receiving_items, r)
  BY DEF get_pending, was_emitted
<1>4. RowsAgree'
  BY <1>1, <1>2, <1>3 DEF RowsAgree
<1>5. LoopUnsent'
  BY <1>1, <1>2, <1>3 DEF LoopUnsent, Emitted, InHand
<1>6. Counted'
  <2>1. IsFiniteSet(Stored') /\ IsFiniteSet(pending')
    BY <1>1, PendingFinite, StoredStep DEF PassInv, Counted, Stored
  <2>2. Unsent' = todo'
    BY <1>1, <1>2, <1>3 DEF Unsent, Emitted
  <2>3. Cardinality(todo') \in Nat
    BY <1>1, <2>1, FS_CardinalityType
  <2>4. InHandCount' = 0 /\ tally'.errors = 0
    BY <1>1 DEF InHandCount, InHand, NoTally
  <2>5. Cardinality(Unsent') = Cardinality(todo') + InHandCount' + tally'.errors
    BY <2>2, <2>3, <2>4
  <2> QED
    BY <2>1, <2>5 DEF Counted
<1>7. Decided'
  BY <1>1 DEF Decided, Verdicts
<1>8. Covered'
  <2>1. ASSUME NEW r \in ReceivingIds, receiving_items[r] # NoRow,
               ~was_emitted(receiving_items, r)
        PROVE  \E p \in pending' : p.id = r
    <3>1. r \in get_pending(receiving_items)
      BY <2>1 DEF get_pending, was_emitted
    <3>2. [id |-> r, row |-> receiving_items[r]] \in pending'
      BY <1>1, <3>1
    <3> QED
      BY <3>2
  <2> QED
    BY <1>1, <2>1 DEF Covered
<1> QED
  BY <1>4, <1>5, <1>6, <1>7, <1>8 DEF PassInv

(* A step of the loop that marks nothing leaves the account as it was, but  *)
(* for what it moves from todo to its hand, or from its hand to the errors. *)
LEMMA LoopKeepsAccount ==
    ASSUME SyncTypeOK, PassInv, SyncStep, ~SyncMarkEmitted
    PROVE  PassInv'
<1>1. UNCHANGED <<receiving_items, pending>> /\ HasPass /\ sync \in SyncSteps
  BY DEF SyncStep, TakeItem, SyncEmit, SyncCreateItem, SyncAcknowledge, SyncMarkEmitted,
     SyncItemError, EndSync, vars, HasPass, SyncSteps
<1>2. HasPass'
  BY DEF SyncStep, TakeItem, SyncEmit, SyncCreateItem, SyncAcknowledge, SyncMarkEmitted,
     SyncItemError, EndSync, HasPass
<1>3. RowsAgree' /\ Covered' /\ Unsent' = Unsent /\ Stored' = Stored
  BY <1>1, <1>2 DEF PassInv, RowsAgree, Covered, Unsent, Emitted, Stored
<1>4. LoopUnsent'
  <2>1. /\ todo' \subseteq todo
        /\ sync' \in InHand => \/ current' \in todo
                               \/ current' = current /\ sync \in InHand
    BY DEF SyncStep, TakeItem, SyncEmit, SyncCreateItem, SyncAcknowledge, SyncMarkEmitted,
       SyncItemError, EndSync, InHand
  <2> QED
    BY <1>1, <2>1 DEF PassInv, LoopUnsent, Emitted
<1>5. Counted'
  <2>1. IsFiniteSet(todo) /\ Cardinality(todo) \in Nat
    BY FS_Subset, FS_CardinalityType DEF PassInv, Counted, SyncTypeOK, PassTypeOK
  <2>2. tally.errors \in Nat
    BY DEF SyncTypeOK, PassTypeOK
  <2>3. Cardinality(Unsent) = Cardinality(todo) + InHandCount + tally.errors
    BY <1>1 DEF PassInv, Counted
  <2>4. CASE TakeItem
    <3>1. PICK p \in todo : todo' = todo \ {p}
      BY <2>4 DEF TakeItem
    <3>2. Cardinality(todo') = Cardinality(todo) - 1
      BY <2>1, <3>1, FS_RemoveElement
    <3>3. InHandCount' = 1 /\ InHandCount = 0 /\ UNCHANGED tally
      BY <2>4 DEF TakeItem, InHandCount, InHand
    <3> QED
      BY <1>1, <1>3, <2>1, <2>2, <2>3, <3>2, <3>3 DEF PassInv, Counted
  <2>5. CASE SyncItemError
    <3>1. /\ InHandCount' = 0 /\ InHandCount = 1 /\ UNCHANGED todo
          /\ tally'.errors = tally.errors + 1
      BY <2>5 DEF SyncItemError, InHandCount, InHand, SyncTypeOK, PassTypeOK
    <3> QED
      BY <1>1, <1>3, <2>1, <2>2, <2>3, <3>1 DEF PassInv, Counted
  <2>6. CASE ~TakeItem /\ ~SyncItemError
    <3>1. InHandCount' = InHandCount /\ UNCHANGED <<todo, tally>>
      BY <2>6 DEF SyncStep, SyncEmit, SyncCreateItem, SyncAcknowledge, SyncMarkEmitted,
         EndSync, InHandCount, InHand
    <3> QED
      BY <1>1, <1>3, <2>3, <3>1 DEF PassInv, Counted
  <2> QED
    BY <2>4, <2>5, <2>6
<1>6. Decided'
  <2>1. CASE EndSync
    <3>1. tally.errors \in Nat /\ UNCHANGED <<tally, pending>>
      BY <2>1 DEF EndSync, SyncTypeOK, PassTypeOK
    <3> QED
      BY <2>1, <3>1 DEF EndSync, Decided, Verdicts, HasPass
  <2>2. CASE ~EndSync
    <3>1. sync' \in SyncSteps
      BY <2>2 DEF SyncStep, TakeItem, SyncEmit, SyncCreateItem, SyncAcknowledge,
         SyncMarkEmitted, SyncItemError, SyncSteps
    <3> QED
      BY <3>1 DEF Decided, Verdicts, SyncSteps
  <2> QED
    BY <2>1, <2>2
<1> QED
  BY <1>3, <1>4, <1>5, <1>6 DEF PassInv

(* The mark takes the record in hand, and no other, from the unsent.        *)
LEMMA MarkKeepsAccount ==
    ASSUME SyncTypeOK, PassInv, SyncMarkEmitted
    PROVE  PassInv'
<1>1. /\ sync = "mark" /\ sync' = "next" /\ UNCHANGED <<pending, todo>>
      /\ current \in pending \ todo /\ pending \subseteq PendingRecords
  BY DEF SyncMarkEmitted, SyncTypeOK, PassTypeOK, InHand
<1>2. /\ receiving_items \in [ReceivingIds -> ReceivingRow \cup {NoRow}]
      /\ receiving_items' = mark_emitted(receiving_items, current.id)
      /\ \A p \in pending : p.id \in ReceivingIds
  BY <1>1 DEF SyncMarkEmitted, SyncTypeOK, TypeOK, PendingRecords
<1>3. PassStep
  BY DEF PassStep, SyncStep
<1>4. RowsAgree' /\ Covered'
  BY <1>1, <1>2, <1>3, PassRecords DEF PassInv, RowsAgree, Covered, HasPass
<1>5. was_emitted(receiving_items', current.id)
  <2>1. receiving_items[current.id] \in ReceivingRow
    BY <1>1, <1>2 DEF PassInv, RowsAgree
  <2>2. receiving_items'[current.id] = [receiving_items[current.id] EXCEPT !.emitted = TRUE]
    BY <1>1, <1>2, <2>1, NoRowAssumption DEF mark_emitted
  <2>3. receiving_items'[current.id].emitted = TRUE /\ receiving_items'[current.id] \in ReceivingRow
    BY <2>1, <2>2 DEF ReceivingRow
  <2> QED
    BY <2>3, NoRowAssumption DEF was_emitted
<1>6. \A p \in pending : Emitted(p)' <=> Emitted(p) \/ p = current
  BY <1>1, <1>2, <1>3, <1>5, PassRecords DEF PassInv, RowsAgree, Emitted
<1>7. LoopUnsent'
  BY <1>1, <1>6 DEF PassInv, LoopUnsent, SyncTypeOK, PassTypeOK, InHand
<1>8. Counted'
  <2>1. Unsent' = Unsent \ {current} /\ current \in Unsent
    BY <1>1, <1>6 DEF Unsent, PassInv, LoopUnsent, InHand
  <2>2. IsFiniteSet(Unsent) /\ IsFiniteSet(todo)
    BY FS_Subset DEF PassInv, Counted, Unsent, SyncTypeOK, PassTypeOK
  <2>3. Cardinality(Unsent') = Cardinality(Unsent) - 1
    BY <2>1, <2>2, FS_RemoveElement
  <2>4. Cardinality(todo) \in Nat /\ tally.errors \in Nat /\ tally'.errors = tally.errors
    BY <2>2, FS_CardinalityType DEF SyncTypeOK, PassTypeOK, SyncMarkEmitted
  <2>5. Cardinality(Unsent) = Cardinality(todo) + 1 + tally.errors
    BY <1>1 DEF PassInv, Counted, HasPass, InHandCount, InHand
  <2>6. IsFiniteSet(Stored')
    BY <1>3, StoredStep DEF PassInv, Counted, SyncNext, PassStep
  <2> QED
    BY <1>1, <2>3, <2>4, <2>5, <2>6 DEF PassInv, Counted, InHandCount, InHand
<1>9. Decided'
  BY <1>1 DEF Decided, Verdicts
<1> QED
  BY <1>4, <1>7, <1>8, <1>9 DEF PassInv

LEMMA PassInvStep == SyncTypeOK /\ PassInv /\ [SyncNext]_syncVars => PassInv'
<1> SUFFICES ASSUME SyncTypeOK, PassInv, [SyncNext]_syncVars PROVE PassInv'
  OBVIOUS
<1>1. CASE SyncCrash
  <2>1. /\ sync' = "died" /\ todo' = {}
        /\ UNCHANGED <<receiving_items, pending>>
    BY <1>1 DEF SyncCrash
  <2> QED
    BY <2>1 DEF PassInv, RowsAgree, LoopUnsent, Counted, Decided, Covered, HasPass, InHand,
       Verdicts, Stored
<1>2. CASE UNCHANGED syncVars
  BY <1>2 DEF PassInv, RowsAgree, LoopUnsent, Counted, Decided, Covered, HasPass,
     Unsent, Emitted, InHandCount, Stored, syncVars, vars
<1> QED
  BY <1>1, <1>2, DeskEndsPass, PassBegins, LoopKeepsAccount, MarkKeepsAccount, StepCases
     DEF PassStep

LEMMA SyncPassInv == SyncSpec => []PassInv
<1>1. SyncInit => PassInv
  <2> SUFFICES ASSUME SyncInit PROVE PassInv
    OBVIOUS
  <2>1. sync = "none" /\ pending = {} /\ todo = {} /\ Stored = {}
    BY DEF SyncInit, Init, Stored
  <2> QED
    BY <2>1, FS_EmptySet DEF PassInv, RowsAgree, LoopUnsent, Counted, Decided, Covered,
       HasPass, InHand, Verdicts
<1> QED
  BY <1>1, PassInvStep, SyncTypeCorrect, PTL DEF SyncSpec

(* The verdict of a pass, with any number of pending records and any        *)
(* failures: KILL when fewer than half of them got through and only then,   *)
(* PASS when all did, and a record left behind for every error counted.     *)
THEOREM VerdictIsTrue == SyncSpec => []VerdictTellsTable
<1>1. SyncTypeOK /\ PassInv => VerdictTellsTable
  <2> SUFFICES ASSUME SyncTypeOK, PassInv, sync \in {"pass", "partial", "kill"}
               PROVE  VerdictTellsTable
    BY DEF VerdictTellsTable
  <2> DEFINE done == {p \in pending : Emitted(p)}
  <2>1. todo = {} /\ tally.errors \in Nat
    BY DEF SyncTypeOK, PassTypeOK, Running, SyncSteps
  <2>2. Cardinality(Unsent) = tally.errors
    BY <2>1, FS_EmptySet DEF PassInv, Counted, HasPass, InHandCount, InHand
  <2>3. /\ IsFiniteSet(pending) /\ IsFiniteSet(Unsent)
        /\ pending \ done = Unsent /\ done = pending \ Unsent /\ pending \cap Unsent = Unsent
    BY FS_Subset DEF PassInv, Counted, Unsent
  <2>4. Cardinality(done) = Cardinality(pending) - Cardinality(Unsent)
    BY <2>3, FS_Difference
  <2>5. Cardinality(pending) \in Nat
    BY <2>3, FS_CardinalityType
  <2>6. Unsent = {} <=> tally.errors = 0
    BY <2>2, <2>3, FS_EmptySet
  <2>7. sync = "kill" <=> BelowThreshold(Cardinality(pending), tally.errors)
    BY DEF PassInv, Decided, Verdicts, HasPass
  <2>8. Cardinality(Unsent) <= Cardinality(pending)
    BY <2>3, FS_Subset DEF Unsent
  <2> HIDE DEF done
  <2>9. sync = "kill" => 2 * Cardinality(done) < Cardinality(pending)
    BY <2>1, <2>2, <2>4, <2>5, <2>7 DEF BelowThreshold
  <2>10. sync = "partial" => done # pending /\ 2 * Cardinality(done) >= Cardinality(pending)
    <3> SUFFICES ASSUME sync = "partial" 
                 PROVE  done # pending /\ 2 * Cardinality(done) >= Cardinality(pending)
      OBVIOUS
    <3>1. tally.errors > 0 /\ ~BelowThreshold(Cardinality(pending), tally.errors)
      BY <2>7 DEF PassInv, Decided
    <3>2. Cardinality(pending) > 0
      BY <2>1, <2>2, <2>5, <2>8, <3>1
    <3>3. done # pending
      BY <2>1, <2>2, <2>4, <2>5, <3>1
    <3> QED
      BY <2>1, <2>2, <2>4, <2>5, <3>1, <3>2, <3>3 DEF BelowThreshold
  <2>11. sync = "pass" => done = pending
    BY <2>1, <2>3, <2>6 DEF PassInv, Decided
  <2> QED
    BY <2>2, <2>3, <2>9, <2>10, <2>11 DEF VerdictTellsTable, done
<1> QED
  BY <1>1, SyncPassInv, SyncTypeCorrect, PTL DEF SyncSpec

-----------------------------------------------------------------------------
(* One scan at a time: the desk has one match thread, or its operator waits *)
(* for the answer before the next scan.                                     *)
OneWorker == \A u, v \in Workers : u = v

(* DuplicateNeedsLostPost is not inductive: it does not say when the desk   *)
(* may post again.  A POST that anybody still knows of, the sink, the       *)
(* record's emitted flag or the call that waits for its answer, is counted  *)
(* in full, and nobody is on the way to post an id that is known.           *)
InFlight(r) ==
    \/ \E w \in Workers : pc[w] = "posted" /\ rid(w) = r
    \/ sync = "posted" /\ current.id = r

Known(r) == r \in seen \/ was_emitted(receiving_items, r) \/ InFlight(r)

PostsCounted == \A r \in ReceivingIds : Posts(r) <= lost[r] + IF Known(r) THEN 1 ELSE 0

OnTheWay ==
    /\ \A w \in Workers : pc[w] \in {"emit", "post"} => ~was_emitted(receiving_items, rid(w))
    /\ \A w \in Workers : pc[w] = "post" => rid(w) \notin seen
    /\ sync = "post" => current.id \notin seen

PostsInv == PostsCounted /\ OnTheWay

(* The items of an id can be counted.                                       *)
LEMMA PostsType ==
    ASSUME board \in Seq(BoardItem), NEW r
    PROVE  Posts(r) \in Nat /\ IsFiniteSet({k \in DOMAIN board : board[k].id = r})
<1> DEFINE S == {k \in DOMAIN board : board[k].id = r}
<1>1. Len(board) \in Nat /\ DOMAIN board = 1 .. Len(board)
  OBVIOUS
<1>2. IsFiniteSet(1 .. Len(board))
  BY <1>1, FS_Interval
<1>3. IsFiniteSet(S)
  BY <1>1, <1>2, FS_Subset
<1> QED
  BY <1>3, FS_CardinalityType DEF Posts

(* Creating an item adds one to the count of its id and leaves the others.  *)
LEMMA PostsOfAppend ==
    ASSUME board \in Seq(BoardItem), NEW item \in BoardItem, board' = Append(board, item),
           NEW r
    PROVE  Posts(r)' = Posts(r) + IF item.id = r THEN 1 ELSE 0
<1> DEFINE S == {k \in DOMAIN board : board[k].id = r}
           n == Len(board) + 1
<1>1. /\ DOMAIN board' = (DOMAIN board) \cup {n} /\ n \notin DOMAIN board
      /\ board'[n] = item
      /\ \A k \in DOMAIN board : board'[k] = board[k]
  OBVIOUS
<1>2. {k \in DOMAIN board' : board'[k].id = r} = IF item.id = r THEN S \cup {n} ELSE S
  BY <1>1
<1>3. n \notin S /\ IsFiniteSet(S) /\ Posts(r) \in Nat
  BY <1>1, PostsType
<1>4. Posts(r) = Cardinality(S)
  BY DEF Posts
<1>5. Posts(r)' = Cardinality(IF item.id = r THEN S \cup {n} ELSE S)
  BY <1>2 DEF Posts
<1> HIDE DEF S, n
<1>6. Cardinality(S \cup {n}) = Cardinality(S) + 1
  BY <1>3, FS_AddElement
<1> QED
  BY <1>3, <1>4, <1>5, <1>6

(* What is known stays known, or its loss is counted.                       *)
KnownOrLost(r) == /\ lost'[r] \in Nat /\ lost'[r] >= lost[r]
                  /\ Known(r) => Known(r)' \/ lost'[r] >= lost[r] + 1

LEMMA CountedStays ==
    ASSUME SyncTypeOK, PostsCounted, UNCHANGED board,
           \A r \in ReceivingIds : KnownOrLost(r)
    PROVE  PostsCounted'
<1>1. lost \in [ReceivingIds -> Nat] /\ \A r : Posts(r)' = Posts(r)
  BY DEF SyncTypeOK, TypeOK, Posts
<1>2. \A r \in ReceivingIds : Posts(r) \in Nat
  BY PostsType DEF SyncTypeOK, TypeOK
<1>3. ASSUME NEW r \in ReceivingIds
      PROVE  Posts(r)' <= lost'[r] + IF Known(r)' THEN 1 ELSE 0
  <2>1. lost[r] \in Nat /\ Posts(r) \in Nat /\ KnownOrLost(r)
    BY <1>1, <1>2
  <2>2. Posts(r)' = Posts(r) /\ Posts(r) <= lost[r] + IF Known(r) THEN 1 ELSE 0
    BY <1>1 DEF PostsCounted
  <2> QED
    BY <2>1, <2>2 DEF KnownOrLost
<1> QED
  BY <1>3 DEF PostsCounted

(* The desk: a POST in flight is answered, or fails, or ends with the       *)
(* process.                                                                 *)
LEMMA DeskKnows ==
    ASSUME SyncTypeOK, DeskStep, NEW r \in ReceivingIds
    PROVE  KnownOrLost(r)
<1>1. TypeOK /\ [Next]_vars /\ sync # "posted" /\ lost \in [ReceivingIds -> Nat]
  BY DEF DeskStep, Running, SyncSteps, SyncTypeOK, TypeOK
<1>2. was_emitted(receiving_items, r) => was_emitted(receiving_items', r)
  BY <1>1, EmittedStays
<1>3. CASE Crash
  <2>1. lost' = [q \in ReceivingIds |-> lost[q] +
                    IF \/ q \in seen /\ ~was_emitted(receiving_items, q)
                       \/ \E w \in Workers : pc[w] = "posted" /\ rid(w) = q
                    THEN 1 ELSE 0]
    BY <1>3 DEF Crash, Forget
  <2>2. lost'[r] = lost[r] + IF \/ r \in seen /\ ~was_emitted(receiving_items, r)
                                \/ \E w \in Workers : pc[w] = "posted" /\ rid(w) = r
                             THEN 1 ELSE 0
    BY <2>1
  <2> QED
    BY <1>1, <1>2, <2>2 DEF KnownOrLost, Known, InFlight
<1>4. ASSUME NEW w \in Workers, SinkError(w) PROVE KnownOrLost(r)
  <2>1. lost'[r] = lost[r] + IF r \in (IF pc[w] = "posted" THEN {rid(w)} ELSE {}) THEN 1 ELSE 0
    BY <1>1, <1>4 DEF SinkError, Forget
  <2>2. UNCHANGED <<seen, receiving_items>>
    BY <1>4 DEF SinkError
  <2>3. \A u \in Workers : u # w => pc'[u] = pc[u] /\ rid(u)' = rid(u)
    BY <1>1, <1>4 DEF SinkError, Return, TypeOK, rid
  <2> QED
    BY <1>1, <2>1, <2>2, <2>3 DEF KnownOrLost, Known, InFlight
<1>5. ASSUME NEW w \in Workers, Acknowledge(w) PROVE KnownOrLost(r)
  <2>1. seen' = seen \cup {rid(w)} /\ UNCHANGED <<lost, receiving_items>>
    BY <1>5 DEF Acknowledge
  <2>2. \A u \in Workers : u # w => pc'[u] = pc[u] /\ rid(u)' = rid(u)
    BY <1>1, <1>5 DEF Acknowledge, Goto, TypeOK, rid
  <2> QED
    BY <1>1, <2>1, <2>2 DEF KnownOrLost, Known, InFlight
<1>6. CASE /\ UNCHANGED <<seen, lost>>
           /\ \A u \in Workers : pc[u] = "posted" => pc'[u] = "posted" /\ scan'[u] = scan[u]
  <2>1. \A u \in Workers : pc[u] = "posted" => pc'[u] = "posted" /\ rid(u)' = rid(u)
    BY <1>6 DEF rid
  <2> QED
    BY <1>1, <1>2, <1>6, <2>1 DEF KnownOrLost, Known, InFlight
<1>7. ASSUME NEW w \in Workers, Worker(w), ~SinkError(w), ~Acknowledge(w)
      PROVE  /\ UNCHANGED <<seen, lost>>
             /\ \A u \in Workers : pc[u] = "posted" => pc'[u] = "posted" /\ scan'[u] = scan[u]
  BY <1>1, <1>7 DEF TypeOK, Worker, Scan, FindClaimedBySerial, ClaimAndSave,
     SaveRecord, WasEmitted, Emit, CreateItem, MarkEmitted, RepositoryError, Goto, Return
<1> QED
  BY <1>1, <1>3, <1>4, <1>5, <1>6, <1>7
     DEF Next, vars, PopulateFetch, PopulateUpsert, RefreshAll

(* No match thread is in process_scan while the pass runs.                  *)
LEMMA PassAlone ==
    ASSUME SyncTypeOK, PassStep
    PROVE  \A w \in Workers : pc[w] = "idle" /\ pc'[w] = "idle"
<1>1. Running => \A w \in Workers : pc[w] = "idle"
  BY DEF SyncTypeOK, PassTypeOK
<1>2. \A w \in Workers : pc[w] = "idle"
  BY <1>1 DEF PassStep, GetPending, SyncStep, TakeItem, SyncEmit, SyncCreateItem,
     SyncAcknowledge, SyncMarkEmitted, SyncItemError, EndSync, SyncCrash, Running, SyncSteps
<1> QED
  BY <1>2, PassFrame

(* The pass: an item that fails, or the end of the process, is counted when *)
(* the POST was in flight.                                                  *)
LEMMA PassKnows ==
    ASSUME SyncTypeOK, PassStep, NEW r \in ReceivingIds
    PROVE  KnownOrLost(r)
<1>1. /\ lost \in [ReceivingIds -> Nat]
      /\ \A w \in Workers : pc[w] # "posted" /\ pc'[w] # "posted"
  BY PassAlone DEF SyncTypeOK, TypeOK
<1>2. was_emitted(receiving_items, r) => was_emitted(receiving_items', r)
  BY PassRecords
<1>3. CASE SyncCrash
  <2>1. lost'[r] = lost[r] + IF \/ r \in seen /\ ~was_emitted(receiving_items, r)
                                \/ sync = "posted" /\ current.id = r
                             THEN 1 ELSE 0
    BY <1>3 DEF SyncCrash, Forget
  <2> QED
    BY <1>1, <1>2, <2>1 DEF KnownOrLost, Known, InFlight
<1>4. CASE SyncItemError
  <2>1. lost'[r] = lost[r] + IF r \in (IF sync = "posted" THEN {current.id} ELSE {})
                             THEN 1 ELSE 0
    BY <1>4 DEF SyncItemError, Forget
  <2>2. UNCHANGED <<seen, receiving_items>>
    BY <1>4 DEF SyncItemError
  <2> QED
    BY <1>1, <2>1, <2>2 DEF KnownOrLost, Known, InFlight
<1>5. CASE SyncAcknowledge
  <2>1. seen' = seen \cup {current.id} /\ UNCHANGED <<lost, receiving_items>>
    BY <1>5 DEF SyncAcknowledge
  <2> QED
    BY <1>1, <2>1 DEF KnownOrLost, Known, InFlight
<1>6. CASE ~SyncCrash /\ ~SyncItemError /\ ~SyncAcknowledge
  <2>1. UNCHANGED <<seen, lost>> /\ sync # "posted"
    BY <1>6 DEF PassStep, GetPending, SyncStep, TakeItem, SyncEmit, SyncCreateItem,
       SyncMarkEmitted, EndSync, Running, SyncSteps, vars
  <2> QED
    BY <1>1, <1>2, <2>1 DEF KnownOrLost, Known, InFlight
<1> QED
  BY <1>3, <1>4, <1>5, <1>6

(* A POST is sent for an id that nobody knows to be on the board, so it is  *)
(* covered by the losses counted so far.                                    *)
LEMMA CreateIsCounted ==
    ASSUME SyncTypeOK, PostsCounted, NEW item \in BoardItem,
           board' = Append(board, item), UNCHANGED <<seen, receiving_items, lost>>,
           ~Known(item.id), Known(item.id)',
           \A r \in ReceivingIds : Known(r) => Known(r)'
    PROVE  PostsCounted'
<1> SUFFICES ASSUME NEW r \in ReceivingIds
             PROVE  Posts(r)' <= lost'[r] + IF Known(r)' THEN 1 ELSE 0
  BY DEF PostsCounted
<1>1. board \in Seq(BoardItem) /\ lost[r] \in Nat /\ lost'[r] = lost[r]
  BY DEF SyncTypeOK, TypeOK
<1>2. Posts(r) \in Nat /\ Posts(r)' = Posts(r) + IF item.id = r THEN 1 ELSE 0
  BY <1>1, PostsType, PostsOfAppend
<1>3. Posts(r) <= lost[r] + IF Known(r) THEN 1 ELSE 0
  BY DEF PostsCounted
<1> QED
  BY <1>1, <1>2, <1>3

LEMMA PostsCountedStep ==
    ASSUME OneWorker, SyncTypeOK, PassInv, PostsInv, [SyncNext]_syncVars
    PROVE  PostsCounted'
<1>1. CASE UNCHANGED board /\ (DeskStep \/ PassStep)
  BY <1>1, CountedStays, DeskKnows, PassKnows DEF PostsInv
<1>2. ASSUME NEW w \in Workers, DeskStep, CreateItem(w) PROVE PostsCounted'
  <2>1. /\ pc[w] = "post" /\ sync # "posted" /\ TypeOK
        /\ board' = Append(board, create_item(scan[w]))
        /\ UNCHANGED <<seen, receiving_items, lost>>
        /\ pc' = [pc EXCEPT ![w] = "posted"] /\ UNCHANGED scan
    BY <1>2 DEF CreateItem, Goto, DeskStep, Running, SyncSteps, SyncTypeOK
  <2>2. create_item(scan[w]) \in BoardItem /\ create_item(scan[w]).id = rid(w)
    BY <2>1, RecordType DEF TypeOK, create_item, rid
  <2>3. ~Known(rid(w))
    BY <2>1 DEF OneWorker, Known, InFlight, PostsInv, OnTheWay
  <2>4. rid(w)' = rid(w) /\ pc'[w] = "posted"
    BY <2>1 DEF rid, TypeOK
  <2>5. Known(rid(w))'
    BY <2>4 DEF Known, InFlight
  <2>6. \A u \in Workers : pc[u] = "posted" => pc'[u] = "posted" /\ rid(u)' = rid(u)
    BY <2>1 DEF rid, TypeOK
  <2>7. \A r \in ReceivingIds : Known(r) => Known(r)'
    BY <2>1, <2>6 DEF Known, InFlight
  <2> QED
    BY <2>1, <2>2, <2>3, <2>4, <2>5, <2>7, CreateIsCounted DEF PostsInv
<1>3. CASE SyncCreateItem
  <2>1. /\ sync = "post" /\ sync' = "posted" /\ UNCHANGED current
        /\ board' = Append(board, ItemOfRow(current))
        /\ UNCHANGED <<seen, receiving_items, lost, pc, scan>>
        /\ PassStep
    BY <1>3 DEF SyncCreateItem, PassStep, SyncStep
  <2>2. ItemOfRow(current) \in BoardItem /\ ItemOfRow(current).id = current.id
    BY <2>1 DEF SyncTypeOK, PassTypeOK, InHand, PendingRecords, ReceivingRow, BoardItem, ItemOfRow
  <2>3. ~Known(current.id)
    BY <2>1, PassAlone
       DEF Known, InFlight, PostsInv, OnTheWay, PassInv, LoopUnsent, Emitted, InHand
  <2>4. Known(current.id)'
    BY <2>1 DEF Known, InFlight
  <2>5. \A r \in ReceivingIds : Known(r) => Known(r)'
    BY <2>1, PassAlone DEF Known, InFlight
  <2> QED
    BY <2>1, <2>2, <2>3, <2>4, <2>5, CreateIsCounted DEF PostsInv
<1>4. CASE UNCHANGED syncVars
  BY <1>4 DEF PostsInv, PostsCounted, Posts, Known, InFlight, rid, syncVars, vars
<1>5. DeskStep => UNCHANGED board \/ \E w \in Workers : CreateItem(w)
  BY WhoWrites DEF DeskStep
<1> QED
  BY <1>1, <1>2, <1>3, <1>4, <1>5, StepCases, PassWrites

(* Only was_emitted and the sink's memory put a scan on the way to a POST,  *)
(* and with one scan at a time nothing they said goes stale on the way.     *)
LEMMA OnTheWayStep ==
    ASSUME OneWorker, SyncTypeOK, PostsInv, [SyncNext]_syncVars
    PROVE  OnTheWay'
<1>0. TypeOK /\ OnTheWay
  BY DEF SyncTypeOK, PostsInv
<1>1. CASE DeskStep
  <2> SUFFICES ASSUME NEW w \in Workers, pc'[w] \in {"emit", "post"}
               PROVE  /\ ~was_emitted(receiving_items', rid(w)')
                      /\ pc'[w] = "post" => rid(w)' \notin seen'
    BY <1>1 DEF OnTheWay, DeskStep
  <2>1. ASSUME NEW u \in Workers, Worker(u) PROVE WasEmitted(w) \/ Emit(w)
    <3>1. u = w
      BY DEF OneWorker
    <3> QED
      BY <1>0, <2>1, <3>1 DEF TypeOK, Worker, Scan, FindClaimedBySerial, ClaimAndSave,
         SaveRecord, CreateItem, Acknowledge, MarkEmitted, RepositoryError, SinkError,
         Goto, Return
  <2>2. CASE WasEmitted(w)
    <3>1. pc'[w] = "emit" /\ ~was_emitted(receiving_items, rid(w)) /\ UNCHANGED scan
          /\ UNCHANGED receiving_items
      BY <1>0, <2>2 DEF WasEmitted, Goto, Return, TypeOK
    <3> QED
      BY <3>1 DEF rid
  <2>3. CASE Emit(w)
    <3>1. /\ pc[w] = "emit" /\ UNCHANGED <<scan, receiving_items, seen>>
          /\ pc'[w] = "post" => rid(w) \notin seen
      BY <1>0, <2>3 DEF Emit, Goto, TypeOK
    <3> QED
      BY <1>0, <3>1 DEF OnTheWay, rid
  <2>4. CASE UNCHANGED <<pc, scan, receiving_items, seen>>
    BY <1>0, <2>4 DEF OnTheWay, rid
  <2>5. ~Crash
    BY DEF Crash
  <2> QED
    BY <1>1, <2>1, <2>2, <2>3, <2>4, <2>5
       DEF DeskStep, Next, PopulateFetch, PopulateUpsert, RefreshAll
<1>2. CASE PassStep
  <2>1. sync' = "post" => SyncEmit
    BY <1>2 DEF PassStep, GetPending, SyncStep, TakeItem, SyncEmit, SyncCreateItem,
       SyncAcknowledge, SyncMarkEmitted, SyncItemError, EndSync, SyncCrash
  <2>2. sync' = "post" => current'.id \notin seen'
    BY <2>1 DEF SyncEmit, vars
  <2> QED
    BY <1>2, <2>2, PassAlone DEF OnTheWay
<1>3. CASE UNCHANGED syncVars
  BY <1>0, <1>3 DEF OnTheWay, rid, syncVars, vars
<1> QED
  BY <1>1, <1>2, <1>3, StepCases

(* With one scan at a time, an item is on the board twice only if a POST    *)
(* that got through was forgotten, in a scan or in a pass, and never more   *)
(* often than that: retries, restarts, second passes and refreshes create   *)
(* no duplicate of their own.                                               *)
THEOREM PostsNeedLosses == OneWorker => (SyncSpec => []DuplicateNeedsLostPost)
<1> SUFFICES ASSUME OneWorker PROVE SyncSpec => []DuplicateNeedsLostPost
  OBVIOUS
<1>1. SyncInit => PostsInv
  <2> SUFFICES ASSUME SyncInit PROVE PostsInv
    OBVIOUS
  <2>1. \A r \in ReceivingIds : Posts(r) = 0 /\ lost[r] = 0
    <3>1. \A r : {k \in DOMAIN board : board[k].id = r} = {}
      BY DEF SyncInit, Init
    <3> QED
      BY <3>1, FS_EmptySet DEF Posts, SyncInit, Init
  <2>2. OnTheWay
    BY DEF SyncInit, Init, OnTheWay
  <2> QED
    BY <2>1, <2>2 DEF PostsInv, PostsCounted
<1>2. SyncTypeOK /\ PassInv /\ PostsInv /\ [SyncNext]_syncVars => PostsInv'
  BY PostsCountedStep, OnTheWayStep DEF PostsInv
<1>3. SyncTypeOK /\ PostsInv => DuplicateNeedsLostPost
  <2> SUFFICES ASSUME SyncTypeOK, PostsInv, NEW r \in ReceivingIds
               PROVE  Posts(r) <= 1 + lost[r]
    BY DEF DuplicateNeedsLostPost
  <2>1. Posts(r) \in Nat /\ lost[r] \in Nat
    BY PostsType DEF SyncTypeOK, TypeOK
  <2> QED
    BY <2>1 DEF PostsInv, PostsCounted
<1> QED
  BY <1>1, <1>2, <1>3, SyncPassInv, SyncTypeCorrect, PTL DEF SyncSpec

-----------------------------------------------------------------------------
(* A step that saves no record leaves slot, status and serial of every      *)
(* record as they are.                                                      *)
SameRecords == \A r \in ReceivingIds :
    /\ receiving_items'[r] # NoRow <=> receiving_items[r] # NoRow
    /\ receiving_items'[r] # NoRow =>
          /\ receiving_items'[r].inv = receiving_items[r].inv
          /\ receiving_items'[r].status = receiving_items[r].status
          /\ receiving_items'[r].serial = receiving_items[r].serial

Saves(w) == ClaimAndSave(w) \/ SaveRecord(w)

LEMMA DeskRecords ==
    ASSUME TypeOK, [Next]_vars
    PROVE  (\E w \in Workers : Saves(w)) \/ SameRecords
<1>1. ASSUME NEW w \in Workers, MarkEmitted(w) PROVE SameRecords
  <2>1. rid(w) \in ReceivingIds
    BY RidType DEF TypeOK, rid
  <2>2. /\ receiving_items \in [ReceivingIds -> ReceivingRow \cup {NoRow}]
        /\ receiving_items' = mark_emitted(receiving_items, rid(w))
    BY <1>1 DEF TypeOK, MarkEmitted
  <2> QED
    BY <2>1, <2>2, MarkOnlyMarks DEF SameRecords
<1>2. CASE UNCHANGED receiving_items
  BY <1>2 DEF SameRecords
<1> QED
  BY <1>1, <1>2, WhoWrites DEF Saves

(* What a save stores is the call's slot, status and serial.                *)
LEMMA SaveFacts ==
    ASSUME TypeOK, NEW w \in Workers, Saves(w)
    PROVE  /\ rid(w) \in ReceivingIds
           /\ \A r \in ReceivingIds : r # rid(w) => receiving_items'[r] = receiving_items[r]
           /\ receiving_items'[rid(w)] # NoRow
           /\ receiving_items'[rid(w)].inv = scan[w].inv
           /\ receiving_items'[rid(w)].status = MatchStatus(scan[w])
           /\ receiving_items'[rid(w)].serial = scan[w].serial
           /\ scan[w].inv \in InvIds \cup {NoInv}
           /\ pc' = [pc EXCEPT ![w] = "check"] /\ UNCHANGED <<scan, board, refreshes>>
<1>1. scan[w] \in ScanLocals
  BY DEF TypeOK
<1>2. /\ rid(w) \in ReceivingIds /\ build_record(scan[w]) \in ReceivingRow
      /\ receiving_items \in [ReceivingIds -> ReceivingRow \cup {NoRow}]
  BY <1>1, RidType, RecordType DEF TypeOK, rid
<1>3. receiving_items' = save_record(receiving_items, rid(w), build_record(scan[w]))
  BY DEF Saves, ClaimAndSave, SaveRecord
<1>4. /\ build_record(scan[w]).inv = scan[w].inv
      /\ build_record(scan[w]).status = MatchStatus(scan[w])
      /\ build_record(scan[w]).serial = scan[w].serial
  BY DEF build_record
<1>5. \A r \in ReceivingIds :
         /\ r # rid(w) => receiving_items'[r] = receiving_items[r]
         /\ r = rid(w) => /\ receiving_items'[r] # NoRow
                          /\ receiving_items'[r].inv = scan[w].inv
                          /\ receiving_items'[r].status = MatchStatus(scan[w])
                          /\ receiving_items'[r].serial = scan[w].serial
  BY <1>2, <1>3, <1>4, SaveWrites
<1> QED
  BY <1>1, <1>2, <1>5 DEF ScanLocals, Saves, ClaimAndSave, SaveRecord, Goto

(* The items of the board stay where they are; a desk step adds at most the *)
(* item of one call.                                                        *)
LEMMA DeskBoard ==
    ASSUME TypeOK, [Next]_vars
    PROVE  \/ UNCHANGED board
           \/ \E w \in Workers :
                 /\ CreateItem(w)
                 /\ DOMAIN board' = (DOMAIN board) \cup {Len(board) + 1}
                 /\ board'[Len(board) + 1] = create_item(scan[w])
                 /\ \A k \in DOMAIN board : board'[k] = board[k]
<1>1. ASSUME NEW w \in Workers, CreateItem(w)
      PROVE  /\ DOMAIN board' = (DOMAIN board) \cup {Len(board) + 1}
             /\ board'[Len(board) + 1] = create_item(scan[w])
             /\ \A k \in DOMAIN board : board'[k] = board[k]
  <2>1. board \in Seq(BoardItem) /\ board' = Append(board, create_item(scan[w]))
    BY <1>1 DEF TypeOK, CreateItem
  <2> QED
    BY <2>1
<1> QED
  BY <1>1, WhoWrites

-----------------------------------------------------------------------------
(* ReadyItemsAgreeWithRecord is not inductive: it does not say whose slots  *)
(* are free to be claimed.  Without refreshes a slot is claimed once; until *)
(* then it has no record and no item, and afterwards one record at most,    *)
(* with which its items agree.  That is so whatever the digests are; that   *)
(* the record is there is KeyedInv.                                         *)
RecordOfSlotAgrees ==
    \A k \in DOMAIN board : board[k].group = "READY" =>
        \A r \in ReceivingIds :
            receiving_items[r] # NoRow /\ receiving_items[r].inv = board[k].inv =>
                r = board[k].id /\ receiving_items[r].serial = board[k].serial

HasRecord(w) ==
    /\ receiving_items[rid(w)] # NoRow
    /\ receiving_items[rid(w)].inv = scan[w].inv
    /\ receiving_items[rid(w)].serial = scan[w].serial

Saved == {"check", "emit", "post", "posted", "mark"}

CallSlots ==
    \A w \in Workers :
        /\ pc[w] = "claim" => po_inventory[scan[w].inv] # NoRow /\ ~Claimed(scan[w].inv)
        /\ pc[w] \in {"dup", "save"} => scan[w].inv = NoInv
        /\ pc[w] \in Saved => HasRecord(w)

RecordSlots ==
    /\ \A r \in ReceivingIds : receiving_items[r] # NoRow =>
          /\ receiving_items[r].status = "received" <=> receiving_items[r].inv \in InvIds
          /\ receiving_items[r].inv \in InvIds => Claimed(receiving_items[r].inv)
    /\ \A r, q \in ReceivingIds :
          /\ receiving_items[r] # NoRow /\ receiving_items[q] # NoRow
          /\ receiving_items[r].inv = receiving_items[q].inv
          /\ receiving_items[r].inv \in InvIds
          => r = q

ItemSlots ==
    /\ \A k \in DOMAIN board :
          /\ board[k].group = "READY" <=> board[k].inv \in InvIds
          /\ board[k].inv \in InvIds => Claimed(board[k].inv)
    /\ RecordOfSlotAgrees

SlotInv == CallSlots /\ RecordSlots /\ ItemSlots

(* A claim takes a slot that nobody had, and only that one.                 *)
LEMMA ClaimFacts ==
    ASSUME TypeOK, CallSlots, NEW w \in Workers, ClaimAndSave(w)
    PROVE  /\ scan[w].inv \in InvIds /\ ~Claimed(scan[w].inv)
           /\ \A i \in InvIds : Claimed(i)' <=> Claimed(i) \/ i = scan[w].inv
<1>1. /\ scan[w].inv \in InvIds /\ ~Claimed(scan[w].inv) /\ po_inventory[scan[w].inv] # NoRow
      /\ po_inventory \in [InvIds -> InventoryRow \cup {NoRow}]
  BY DEF ClaimAndSave, TypeOK, ScanLocals, CallSlots
<1>2. \A i \in InvIds : po_inventory'[i] = IF i = scan[w].inv
                                         THEN [po_inventory[i] EXCEPT !.claimed = TRUE]
                                         ELSE po_inventory[i]
  BY <1>1 DEF ClaimAndSave, claim
<1>3. po_inventory[scan[w].inv] \in InventoryRow
  BY <1>1
<1>4. /\ [po_inventory[scan[w].inv] EXCEPT !.claimed = TRUE] \in InventoryRow
      /\ [po_inventory[scan[w].inv] EXCEPT !.claimed = TRUE].claimed = TRUE
  BY <1>3 DEF InventoryRow
<1> QED
  BY <1>1, <1>2, <1>4, NoRowAssumption DEF Claimed

(* The records: a save replaces at most the record of its own id.           *)
LEMMA RecordSlotsStep ==
    ASSUME TypeOK, SlotInv, [Next]_vars, refreshes' = refreshes
    PROVE  RecordSlots'
<1>1. \A i \in InvIds : Claimed(i) => Claimed(i)'
  BY ClaimsStay
<1>2. CASE SameRecords
  BY <1>1, <1>2 DEF SlotInv, RecordSlots, SameRecords
<1>3. ASSUME NEW w \in Workers, ClaimAndSave(w) PROVE RecordSlots'
  <2>1. Saves(w)
    BY <1>3 DEF Saves
  <2>2. /\ scan[w].inv \in InvIds /\ ~Claimed(scan[w].inv) /\ Claimed(scan[w].inv)'
        /\ MatchStatus(scan[w]) = "received"
    BY <1>3, <2>1, ClaimFacts, SaveFacts, RepositoryAssumption DEF SlotInv, MatchStatus
  <2>3. \A r \in ReceivingIds : receiving_items[r] # NoRow => receiving_items[r].inv # scan[w].inv
    BY <2>2 DEF SlotInv, RecordSlots
  <2> QED
    BY <1>1, <2>1, <2>2, <2>3, SaveFacts DEF SlotInv, RecordSlots
<1>4. ASSUME NEW w \in Workers, SaveRecord(w) PROVE RecordSlots'
  <2>1. Saves(w)
    BY <1>4 DEF Saves
  <2>2. scan[w].inv = NoInv /\ MatchStatus(scan[w]) = "no_match" /\ NoInv \notin InvIds
    BY <1>4, RepositoryAssumption DEF SaveRecord, SlotInv, CallSlots, MatchStatus
  <2> QED
    BY <1>1, <2>1, <2>2, SaveFacts DEF SlotInv, RecordSlots
<1> QED
  BY <1>2, <1>3, <1>4, DeskRecords DEF Saves

(* The calls: with one scan at a time, the row chosen stays free until it   *)
(* is claimed, and the record saved stays until the call returns.           *)
LEMMA CallSlotsStep ==
    ASSUME OneWorker, TypeOK, SlotInv, [Next]_vars, refreshes' = refreshes
    PROVE  CallSlots'
<1> SUFFICES ASSUME NEW w \in Workers
             PROVE  /\ pc'[w] = "claim" => /\ po_inventory'[scan'[w].inv] # NoRow
                                           /\ ~Claimed(scan[w].inv)'
                    /\ pc'[w] \in {"dup", "save"} => scan'[w].inv = NoInv
                    /\ pc'[w] \in Saved => HasRecord(w)'
  BY DEF CallSlots
<1>0. CallSlots
  BY DEF SlotInv
<1>1. ASSUME NEW po \in POs, NEW barcode \in Barcodes, NEW serial \in Serials \cup {NoSerial},
             Scan(w, po, barcode, serial)
      PROVE  /\ pc'[w] = "claim" => po_inventory'[scan'[w].inv] # NoRow /\ ~Claimed(scan[w].inv)'
             /\ pc'[w] \in {"dup", "save"} => scan'[w].inv = NoInv
             /\ pc'[w] \notin Saved
  <2>1. \A i \in MatchedRows(po, barcode) : po_inventory[i] # NoRow /\ ~po_inventory[i].claimed
    BY DEF MatchedRows, unclaimed_for_po
  <2>2. UNCHANGED po_inventory
    BY <1>1 DEF Scan
  <2>3. \/ \E i \in MatchedRows(po, barcode) : pc'[w] = "claim" /\ scan'[w].inv = i
        \/ pc'[w] \in {"dup", "save"} /\ scan'[w].inv = NoInv
    BY <1>1 DEF Scan, TypeOK
  <2> QED
    BY <2>1, <2>2, <2>3 DEF Claimed, Saved
<1>2. CASE Saves(w)
  <2>1. pc'[w] = "check" /\ rid(w)' = rid(w) /\ HasRecord(w)'
    BY <1>2, SaveFacts DEF TypeOK, rid, HasRecord
  <2> QED
    BY <2>1
<1>3. CASE /\ SameRecords /\ UNCHANGED scan[w]
           /\ pc'[w] \in Saved => pc[w] \in Saved
           /\ pc'[w] \in {"dup", "save"} => pc[w] \in {"dup", "save"}
           /\ pc'[w] # "claim"
  <2>1. rid(w)' = rid(w) /\ rid(w) \in ReceivingIds
    BY <1>3, RidType DEF TypeOK, rid
  <2> QED
    BY <1>0, <1>3, <2>1 DEF CallSlots, SameRecords, HasRecord
<1>4. CASE UNCHANGED <<pc, scan, receiving_items>> /\ ~RefreshAll
  <2>1. \A i \in InvIds : Claimed(i)' => Claimed(i)
    <3>1. ~ \E u \in Workers : ClaimAndSave(u)
      BY <1>4 DEF ClaimAndSave, Goto, TypeOK
    <3> QED
      BY <1>4, <3>1, ClaimsComeFromSaves
  <2>2. \A i \in InvIds : po_inventory[i] # NoRow => po_inventory'[i] # NoRow
    <3>1. ASSUME NEW po \in POs, PopulateUpsert(po), NEW i \in InvIds
          PROVE  po_inventory[i] # NoRow => po_inventory'[i] # NoRow
      <4>1. PICK rows \in SUBSET InvIds : po_inventory' = upsert_items(po_inventory, rows)
        BY <3>1 DEF PopulateUpsert
      <4>2. i \in rows => po_inventory'[i] \in InventoryRow
        BY <4>1, RepositoryAssumption DEF upsert_items, InventoryRow
      <4>3. i \notin rows => po_inventory'[i] = po_inventory[i]
        BY <4>1 DEF upsert_items
      <4> QED
        BY <4>2, <4>3, NoRowAssumption
    <3>2. UNCHANGED po_inventory \/ \E po \in POs : PopulateUpsert(po)
      BY <1>4, WhoWrites DEF ClaimAndSave, Goto, TypeOK
    <3> QED
      BY <3>1, <3>2
  <2>3. pc[w] = "claim" => scan[w].inv \in InvIds
    BY DEF TypeOK, ScanLocals
  <2>4. rid(w)' = rid(w)
    BY <1>4 DEF rid
  <2> QED
    BY <1>0, <1>4, <2>1, <2>2, <2>3, <2>4 DEF CallSlots, HasRecord
<1>5. ASSUME NEW u \in Workers, Worker(u)
      PROVE  \/ Saves(w)
             \/ \E po \in POs, barcode \in Barcodes, serial \in Serials \cup {NoSerial} :
                   Scan(w, po, barcode, serial)
             \/ /\ SameRecords /\ UNCHANGED scan[w]
                /\ pc'[w] \in Saved => pc[w] \in Saved
                /\ pc'[w] \in {"dup", "save"} => pc[w] \in {"dup", "save"}
                /\ pc'[w] # "claim"
             \/ pc'[w] = "idle"
  <2>1. u = w
    BY DEF OneWorker
  <2>2. ~Saves(w) => SameRecords
    BY <2>1, DeskRecords DEF OneWorker
  <2> QED
    BY <1>5, <2>1, <2>2 DEF TypeOK, Worker, Saves, FindClaimedBySerial, WasEmitted, Emit,
       CreateItem, Acknowledge, MarkEmitted, RepositoryError, SinkError, Goto, Return, Saved
<1>6. pc'[w] = "idle" => pc'[w] \notin Saved
  BY DEF Saved
<1>7. Crash => pc'[w] = "idle"
  BY DEF Crash
<1>8. ~RefreshAll
  BY DEF RefreshAll, TypeOK
<1> QED
  BY <1>1, <1>2, <1>3, <1>4, <1>5, <1>6, <1>7, <1>8
     DEF Next, vars, PopulateFetch, PopulateUpsert

(* The board: a new item is that of the slot's record, and a new record is  *)
(* that of a slot with no item.                                             *)
LEMMA ItemSlotsStep ==
    ASSUME TypeOK, SlotInv, [Next]_vars, refreshes' = refreshes
    PROVE  ItemSlots'
<1>0. CallSlots /\ RecordSlots /\ ItemSlots
  BY DEF SlotInv
<1>1. \A i \in InvIds : Claimed(i) => Claimed(i)'
  BY ClaimsStay
<1>2. CASE UNCHANGED board /\ SameRecords
  BY <1>0, <1>1, <1>2 DEF ItemSlots, RecordOfSlotAgrees, SameRecords
<1>3. ASSUME NEW w \in Workers, Saves(w) PROVE ItemSlots'
  <2>1. UNCHANGED board
    BY <1>3, SaveFacts
  <2>2. scan[w].inv = NoInv \/ (scan[w].inv \in InvIds /\ ~Claimed(scan[w].inv))
    <3>1. ClaimAndSave(w) => scan[w].inv \in InvIds /\ ~Claimed(scan[w].inv)
      BY <1>0, ClaimFacts
    <3>2. SaveRecord(w) => scan[w].inv = NoInv
      BY <1>0 DEF SaveRecord, CallSlots
    <3> QED
      BY <1>3, <3>1, <3>2 DEF Saves
  <2>3. \A k \in DOMAIN board : board[k].group = "READY" => board[k].inv # scan[w].inv
    BY <1>0, <2>2, RepositoryAssumption DEF ItemSlots
  <2>4. RecordOfSlotAgrees'
    BY <1>0, <1>3, <2>1, <2>3, SaveFacts DEF ItemSlots, RecordOfSlotAgrees
  <2> QED
    BY <1>0, <1>1, <2>1, <2>4 DEF ItemSlots
<1>4. ASSUME NEW w \in Workers, CreateItem(w),
             DOMAIN board' = (DOMAIN board) \cup {Len(board) + 1},
             board'[Len(board) + 1] = create_item(scan[w]),
             \A k \in DOMAIN board : board'[k] = board[k]
      PROVE  ItemSlots'
  <2>1. /\ UNCHANGED <<receiving_items, po_inventory>>
        /\ HasRecord(w) /\ rid(w) \in ReceivingIds
        /\ scan[w].inv \in InvIds \cup {NoInv}
    BY <1>0, <1>4, RidType DEF CreateItem, CallSlots, Saved, TypeOK, ScanLocals, rid
  <2> DEFINE item == create_item(scan[w])
  <2>2. /\ item.id = rid(w) /\ item.inv = scan[w].inv /\ item.serial = scan[w].serial
        /\ item.group = "READY" <=> scan[w].inv \in InvIds
    <3>1. item.group = IF scan[w].inv = NoInv THEN "NO_MATCH" ELSE "READY"
      BY DEF create_item
    <3> QED
      BY <2>1, <3>1, RepositoryAssumption DEF create_item, rid
  <2> HIDE DEF item
  <2>3. scan[w].inv \in InvIds => Claimed(scan[w].inv)
    BY <1>0, <2>1 DEF HasRecord, RecordSlots
  <2>4. \A i : Claimed(i)' <=> Claimed(i)
    BY <2>1 DEF Claimed
  <2>5. \A r \in ReceivingIds : receiving_items[r] # NoRow /\ receiving_items[r].inv = item.inv
                                /\ item.group = "READY"
                                => r = item.id /\ receiving_items[r].serial = item.serial
    BY <1>0, <2>1, <2>2 DEF HasRecord, RecordSlots
  <2>6. \A k \in DOMAIN board' : (k \in DOMAIN board /\ board'[k] = board[k]) \/ board'[k] = item
    BY <1>4 DEF item
  <2> QED
    BY <1>0, <2>1, <2>2, <2>3, <2>4, <2>5, <2>6 DEF ItemSlots, RecordOfSlotAgrees
<1>5. UNCHANGED board \/ ~ \E w \in Workers : Saves(w)
  BY SaveFacts
<1>6. (\E w \in Workers : CreateItem(w)) => UNCHANGED receiving_items
  BY DEF CreateItem
<1> QED
  BY <1>2, <1>3, <1>4, DeskBoard, DeskRecords

(* The pass: it posts the rows it read, and they are still the records.     *)
LEMMA SlotInvInPass ==
    ASSUME SyncTypeOK, PassInv, SlotInv, PassStep
    PROVE  SlotInv'
<1>1. \A i : Claimed(i)' <=> Claimed(i)
  BY PassFrame DEF Claimed
<1>2. SameRecords
  BY PassRecords DEF SameRecords
<1>3. CallSlots'
  BY PassAlone DEF CallSlots, Saved
<1>4. RecordSlots'
  BY <1>1, <1>2 DEF SlotInv, RecordSlots, SameRecords
<1>5. ItemSlots'
  <2>1. CASE UNCHANGED board
    BY <1>1, <1>2, <2>1 DEF SlotInv, ItemSlots, RecordOfSlotAgrees, SameRecords
  <2>2. CASE SyncCreateItem
    <3> DEFINE item == ItemOfRow(current)
    <3>1. /\ current \in pending /\ current \in PendingRecords /\ current.id \in ReceivingIds
          /\ UNCHANGED receiving_items
      BY <2>2 DEF SyncCreateItem, SyncTypeOK, PassTypeOK, InHand, PendingRecords
    <3>2. /\ receiving_items[current.id] # NoRow
          /\ receiving_items[current.id].inv = item.inv
          /\ receiving_items[current.id].serial = item.serial
          /\ item.id = current.id
          /\ item.group = "READY" <=> receiving_items[current.id].status = "received"
      BY <3>1 DEF PassInv, RowsAgree, ItemOfRow
    <3>3. /\ item.group = "READY" <=> item.inv \in InvIds
          /\ item.inv \in InvIds => Claimed(item.inv)
      BY <3>1, <3>2 DEF SlotInv, RecordSlots
    <3>4. \A r \in ReceivingIds : receiving_items[r] # NoRow /\ receiving_items[r].inv = item.inv
                                  /\ item.group = "READY"
                                  => r = item.id /\ receiving_items[r].serial = item.serial
      BY <3>1, <3>2, <3>3 DEF SlotInv, RecordSlots
    <3>5. \A k \in DOMAIN board' : (k \in DOMAIN board /\ board'[k] = board[k]) \/ board'[k] = item
      BY <2>2, PassBoard
    <3> HIDE DEF item
    <3> QED
      BY <1>1, <3>1, <3>3, <3>4, <3>5 DEF SlotInv, ItemSlots, RecordOfSlotAgrees
  <2> QED
    BY <2>1, <2>2, PassWrites
<1> QED
  BY <1>3, <1>4, <1>5 DEF SlotInv

NoRefresh == refreshes = 0

LEMMA StillNoRefresh ==
    ASSUME SyncTypeOK, [SyncNext]_syncVars, NoRefresh'
    PROVE  refreshes = 0 /\ refreshes' = refreshes
<1>1. refreshes \in Nat
  BY DEF SyncTypeOK, TypeOK
<1>2. refreshes' = refreshes \/ refreshes' = refreshes + 1
  BY StepCases, PassFrame, WhoWrites DEF DeskStep, syncVars, vars
<1> QED
  BY <1>1, <1>2 DEF NoRefresh

LEMMA SlotInvStep ==
    ASSUME OneWorker, SyncTypeOK, PassInv, NoRefresh => SlotInv, [SyncNext]_syncVars
    PROVE  NoRefresh' => SlotInv'
<1>1. NoRefresh' => refreshes = 0 /\ refreshes' = refreshes
  BY StillNoRefresh
<1>2. DeskStep => TypeOK /\ [Next]_vars
  BY DEF DeskStep, SyncTypeOK
<1>3. UNCHANGED syncVars /\ SlotInv => SlotInv'
  BY DEF SlotInv, CallSlots, RecordSlots, ItemSlots, RecordOfSlotAgrees, HasRecord,
     Claimed, rid, syncVars, vars
<1>4. SlotInv /\ DeskStep /\ refreshes' = refreshes => SlotInv'
  BY <1>2, CallSlotsStep, RecordSlotsStep, ItemSlotsStep DEF SlotInv
<1> QED
  BY <1>1, <1>3, <1>4, SlotInvInPass, StepCases DEF NoRefresh

LEMMA SyncSlotInv == OneWorker => (SyncSpec => [](NoRefresh => SlotInv))
<1> SUFFICES ASSUME OneWorker PROVE SyncSpec => [](NoRefresh => SlotInv)
  OBVIOUS
<1>1. SyncInit => SlotInv
  BY DEF SyncInit, Init, SlotInv, CallSlots, RecordSlots, ItemSlots,
     RecordOfSlotAgrees, Saved
<1>2. SyncTypeOK /\ PassInv /\ (NoRefresh => SlotInv) /\ [SyncNext]_syncVars
      => (NoRefresh => SlotInv)'
  BY SlotInvStep
<1> QED
  BY <1>1, <1>2, SyncPassInv, SyncTypeCorrect, PTL DEF SyncSpec

(* With one scan at a time, digests that tell slots apart and until the     *)
(* catalog is refreshed, the slot of a READY item has one record, that of   *)
(* the item's id with the item's serial, whether a scan or a pass has       *)
(* posted the item and however often.                                       *)
THEOREM ReadyItemsAgree ==
    OneWorker /\ IdsTellSlotsApart =>
        (SyncSpec => [](refreshes = 0 => ReadyItemsAgreeWithRecord))
<1> SUFFICES ASSUME OneWorker, IdsTellSlotsApart
             PROVE  SyncSpec => [](refreshes = 0 => ReadyItemsAgreeWithRecord)
  OBVIOUS
<1>1. (NoRefresh => SlotInv) /\ KeyedInv => (refreshes = 0 => ReadyItemsAgreeWithRecord)
  <2> SUFFICES ASSUME SlotInv, KeyedInv, NEW k \in DOMAIN board, board[k].group = "READY"
               PROVE  /\ RecordsOf(board[k].inv) = {board[k].id}
                      /\ receiving_items[board[k].id].serial = board[k].serial
    BY DEF NoRefresh, ReadyItemsAgreeWithRecord
  <2>1. board[k].inv \in InvIds /\ Claimed(board[k].inv)
    BY DEF SlotInv, ItemSlots
  <2>2. PICK r \in ReceivingIds : receiving_items[r] # NoRow /\ receiving_items[r].inv = board[k].inv
    BY <2>1 DEF KeyedInv, ClaimHasRecord
  <2>3. \A q \in RecordsOf(board[k].inv) :
           q = board[k].id /\ receiving_items[q].serial = board[k].serial
    BY DEF SlotInv, ItemSlots, RecordOfSlotAgrees, RecordsOf
  <2>4. r \in RecordsOf(board[k].inv)
    BY <2>2 DEF RecordsOf
  <2> QED
    BY <2>3, <2>4
<1> QED
  BY <1>1, SyncSlotInv, SyncKeyed, PTL

-----------------------------------------------------------------------------
(* ReceivedIsReady is not inductive: it needs to know, of a call that is    *)
(* still on its way, that its slot has no item before the POST and has one  *)
(* after it.  When digests tell slots apart, an id that is emitted or       *)
(* remembered is that of an item of the same slot.                          *)
BoardIsKeyed ==
    \A k \in DOMAIN board : \E po \in POs, b \in Barcodes :
        board[k].id = ReceivingIdOf[<<po, board[k].inv, b>>]

ReadyFor(s) == \E k \in DOMAIN board : /\ board[k].group = "READY"
                                       /\ board[k].inv = s.inv
                                       /\ board[k].serial = s.serial

CallItems ==
    \A w \in Workers : scan[w].inv \in InvIds =>
        /\ pc[w] \in {"check", "emit", "post"} =>
              \A k \in DOMAIN board : board[k].inv # scan[w].inv
        /\ pc[w] \in {"posted", "mark"} => ReadyFor(scan[w])

ReadyInv == CallItems /\ ReceivedIsReady

(* Every item of the board is stored under a digest of its slot.            *)
LEMMA BoardIsKeyedStep ==
    ASSUME SyncTypeOK, PassInv, RecordIsKeyed, BoardIsKeyed, [SyncNext]_syncVars
    PROVE  BoardIsKeyed'
<1>1. ASSUME DeskStep PROVE BoardIsKeyed'
  <2>1. TypeOK /\ [Next]_vars
    BY <1>1 DEF DeskStep, SyncTypeOK
  <2>2. ASSUME NEW w \in Workers
        PROVE  \E po \in POs, b \in Barcodes :
                  create_item(scan[w]).id = ReceivingIdOf[<<po, create_item(scan[w]).inv, b>>]
    BY <2>1 DEF create_item, make_receiving_id, TypeOK, ScanLocals
  <2>3. ASSUME NEW w \in Workers,
               DOMAIN board' = (DOMAIN board) \cup {Len(board) + 1},
               board'[Len(board) + 1] = create_item(scan[w]),
               \A k \in DOMAIN board : board'[k] = board[k]
        PROVE  BoardIsKeyed'
    <3>1. \A k \in DOMAIN board' : \/ k \in DOMAIN board /\ board'[k] = board[k]
                                   \/ board'[k] = create_item(scan[w])
      BY <2>3
    <3> QED
      BY <2>2, <3>1 DEF BoardIsKeyed
  <2>4. UNCHANGED board => BoardIsKeyed'
    BY DEF BoardIsKeyed
  <2> QED
    BY <2>1, <2>3, <2>4, DeskBoard
<1>2. ASSUME PassStep PROVE BoardIsKeyed'
  <2>1. CASE UNCHANGED board
    BY <2>1 DEF BoardIsKeyed
  <2>2. CASE SyncCreateItem
    <3>1. current \in pending /\ current.id \in ReceivingIds
      BY <2>2 DEF SyncCreateItem, SyncTypeOK, PassTypeOK, InHand, PendingRecords
    <3>0. /\ receiving_items[current.id] # NoRow
          /\ receiving_items[current.id].inv = current.row.inv
      BY <3>1 DEF PassInv, RowsAgree
    <3>2. \E po \in POs, b \in Barcodes :
             ItemOfRow(current).id = ReceivingIdOf[<<po, ItemOfRow(current).inv, b>>]
      BY <3>0, <3>1 DEF RecordIsKeyed, ItemOfRow
    <3>3. \A k \in DOMAIN board' : \/ k \in DOMAIN board /\ board'[k] = board[k]
                                   \/ board'[k] = ItemOfRow(current)
      BY <1>2, <2>2, PassBoard
    <3> QED
      BY <3>2, <3>3 DEF BoardIsKeyed
  <2> QED
    BY <1>2, <2>1, <2>2, PassWrites
<1>3. CASE UNCHANGED syncVars
  BY <1>3 DEF BoardIsKeyed, syncVars, vars
<1> QED
  BY <1>1, <1>2, <1>3, StepCases

(* The item of a call's id is an item of the call's slot.                   *)
LEMMA OnBoardIsOfSlot ==
    ASSUME IdsTellSlotsApart, TypeOK, BoardIsKeyed, NEW w \in Workers,
           scan[w].inv \in InvIds, OnBoard(rid(w))
    PROVE  \E k \in DOMAIN board : board[k].inv = scan[w].inv
<1>1. PICK k \in DOMAIN board : board[k].id = rid(w)
  BY DEF OnBoard
<1>2. board[k].inv \in InvIds \cup {NoInv}
  <2>1. board \in Seq(BoardItem)
    BY DEF TypeOK
  <2>2. board[k] \in BoardItem
    BY <2>1
  <2> QED
    BY <2>2 DEF BoardItem
<1>3. PICK po \in POs, b \in Barcodes : board[k].id = ReceivingIdOf[<<po, board[k].inv, b>>]
  BY <1>1 DEF BoardIsKeyed
<1>4. /\ rid(w) = ReceivingIdOf[<<scan[w].po, scan[w].inv, scan[w].barcode>>]
      /\ scan[w].po \in POs /\ scan[w].barcode \in Barcodes
  BY DEF rid, make_receiving_id, TypeOK, ScanLocals
<1>5. ReceivingIdOf[<<po, board[k].inv, b>>]
         = ReceivingIdOf[<<scan[w].po, scan[w].inv, scan[w].barcode>>]
      => board[k].inv = scan[w].inv
  BY <1>2, <1>3, <1>4, SlotOfId
<1> QED
  BY <1>1, <1>3, <1>4, <1>5

(* A call whose slot has no item is not told that its id is on the board.   *)
LEMMA NoItemNotKnown ==
    ASSUME IdsTellSlotsApart, TypeOK, PostedOnBoard, BoardIsKeyed, NEW w \in Workers,
           scan[w].inv \in InvIds, \A k \in DOMAIN board : board[k].inv # scan[w].inv
    PROVE  rid(w) \notin seen /\ ~was_emitted(receiving_items, rid(w))
<1>1. ~OnBoard(rid(w))
  BY OnBoardIsOfSlot
<1>2. rid(w) \in ReceivingIds
  BY RidType DEF TypeOK, rid
<1> QED
  BY <1>1, <1>2 DEF PostedOnBoard, EmittedOnBoard

(* An item that is ready for a call stays on the board.                     *)
LEMMA DeskKeepsReady ==
    ASSUME TypeOK, [Next]_vars
    PROVE  \A k \in DOMAIN board : k \in DOMAIN board' /\ board'[k] = board[k]
BY DeskBoard

LEMMA CallItemsInDesk ==
    ASSUME OneWorker, IdsTellSlotsApart, TypeOK, PostedOnBoard, BoardIsKeyed, SlotInv,
           CallItems, [Next]_vars, ~RefreshAll
    PROVE  CallItems'
<1> SUFFICES ASSUME NEW w \in Workers, scan'[w].inv \in InvIds
             PROVE  /\ pc'[w] \in {"check", "emit", "post"} =>
                          \A k \in DOMAIN board' : board'[k].inv # scan'[w].inv
                    /\ pc'[w] \in {"posted", "mark"} => ReadyFor(scan[w])'
  BY DEF CallItems
<1>1. \A k \in DOMAIN board : k \in DOMAIN board' /\ board'[k] = board[k]
  BY DeskKeepsReady
<1>2. ASSUME Saves(w)
      PROVE  /\ pc'[w] = "check"
             /\ \A k \in DOMAIN board' : board'[k].inv # scan'[w].inv
  <2>1. pc'[w] = "check" /\ UNCHANGED <<scan, board>>
    BY <1>2, SaveFacts DEF TypeOK
  <2>2. ClaimAndSave(w) => ~Claimed(scan[w].inv)
    BY ClaimFacts DEF SlotInv
  <2>3. ~SaveRecord(w)
    BY <2>1, RepositoryAssumption DEF SaveRecord, SlotInv, CallSlots
  <2> QED
    BY <1>2, <2>1, <2>2, <2>3 DEF Saves, SlotInv, ItemSlots
<1>3. ASSUME CreateItem(w)
      PROVE  pc'[w] = "posted" /\ ReadyFor(scan[w])'
  <2>1. pc'[w] = "posted" /\ UNCHANGED scan
    BY <1>3 DEF CreateItem, Goto, TypeOK
  <2>2. board \in Seq(BoardItem) /\ board' = Append(board, create_item(scan[w]))
    BY <1>3 DEF CreateItem, TypeOK
  <2>3. Len(board) + 1 \in DOMAIN board' /\ board'[Len(board) + 1] = create_item(scan[w])
    BY <2>2
  <2>4. create_item(scan[w]).group = IF scan[w].inv = NoInv THEN "NO_MATCH" ELSE "READY"
    BY DEF create_item
  <2>5. /\ create_item(scan[w]).group = "READY" /\ create_item(scan[w]).inv = scan[w].inv
        /\ create_item(scan[w]).serial = scan[w].serial
    BY <2>1, <2>4, RepositoryAssumption DEF create_item
  <2> QED
    BY <2>1, <2>3, <2>5 DEF ReadyFor
<1>4. ASSUME Emit(w)
      PROVE  /\ pc'[w] = "post"
             /\ \A k \in DOMAIN board' : board'[k].inv # scan'[w].inv
  <2>1. pc[w] = "emit" /\ UNCHANGED <<scan, board>>
    BY <1>4 DEF Emit, Goto
  <2>2. \A k \in DOMAIN board : board[k].inv # scan[w].inv
    BY <2>1 DEF CallItems
  <2>3. rid(w) \notin seen
    BY <2>1, <2>2, NoItemNotKnown
  <2> QED
    BY <1>4, <2>1, <2>2, <2>3 DEF Emit, Goto, TypeOK
<1>5. CASE /\ UNCHANGED <<scan[w], board>>
           /\ pc'[w] \in {"check", "emit", "post"} => pc[w] \in {"check", "emit", "post"}
           /\ pc'[w] \in {"posted", "mark"} => pc[w] \in {"posted", "mark"}
  BY <1>5 DEF CallItems, ReadyFor
<1>6. ASSUME NEW u \in Workers, Worker(u)
      PROVE  \/ Saves(w) \/ CreateItem(w) \/ Emit(w)
             \/ /\ UNCHANGED <<scan[w], board>>
                /\ pc'[w] \in {"check", "emit", "post"} => pc[w] \in {"check", "emit", "post"}
                /\ pc'[w] \in {"posted", "mark"} => pc[w] \in {"posted", "mark"}
             \/ pc'[w] \in {"idle", "claim", "dup", "save"}
  <2>1. u = w
    BY DEF OneWorker
  <2> QED
    BY <1>6, <2>1 DEF TypeOK, Worker, Saves, Scan, FindClaimedBySerial, WasEmitted,
       Acknowledge, MarkEmitted, RepositoryError, SinkError, Goto, Return
<1>7. Crash => pc'[w] = "idle"
  BY DEF Crash
<1> QED
  BY <1>2, <1>3, <1>4, <1>5, <1>6, <1>7 DEF Next, vars, PopulateFetch, PopulateUpsert

(* A call that returns 'received' has passed its POST: the guard cannot     *)
(* have answered that the id was emitted before.                            *)
LEMMA ReceivedInDesk ==
    ASSUME OneWorker, IdsTellSlotsApart, TypeOK, PostedOnBoard, BoardIsKeyed, SlotInv,
           ReadyInv, [Next]_vars, refreshes' = refreshes
    PROVE  ReceivedIsReady'
<1> SUFFICES ASSUME NEW w \in Workers, pc'[w] = "idle", scan'[w].outcome = "received"
             PROVE  /\ Claimed(scan[w].inv)'
                    /\ was_emitted(receiving_items, rid(w))'
                    /\ ReadyFor(scan[w])'
  BY DEF ReceivedIsReady, ReadyFor
<1>0. CallItems /\ ReceivedIsReady /\ scan[w] \in ScanLocals
  BY DEF ReadyInv, TypeOK
<1>1. \A k \in DOMAIN board : k \in DOMAIN board' /\ board'[k] = board[k]
  BY DeskKeepsReady
<1>2. \A i \in InvIds : Claimed(i) => Claimed(i)'
  BY ClaimsStay
<1>3. \A r \in ReceivingIds : was_emitted(receiving_items, r) => was_emitted(receiving_items', r)
  BY EmittedStays
<1>4. rid(w) \in ReceivingIds
  BY RidType DEF TypeOK, rid
<1>5. ASSUME pc[w] = "idle", scan[w].outcome = "received",
             scan'[w].inv = scan[w].inv, scan'[w].serial = scan[w].serial, rid(w)' = rid(w)
      PROVE  /\ Claimed(scan[w].inv)'
             /\ was_emitted(receiving_items, rid(w))'
             /\ ReadyFor(scan[w])'
  <2>1. /\ Claimed(scan[w].inv) /\ was_emitted(receiving_items, rid(w))
        /\ ReadyFor(scan[w])
    BY <1>0, <1>5 DEF ReceivedIsReady, ReadyFor
  <2>2. was_emitted(receiving_items, rid(w))'
    BY <1>3, <1>4, <1>5, <2>1 DEF was_emitted
  <2>3. ReadyFor(scan[w])'
    BY <1>1, <1>5, <2>1 DEF ReadyFor
  <2>4. \A i : Claimed(i)' <=> po_inventory'[i] # NoRow /\ po_inventory'[i].claimed
    BY DEF Claimed
  <2>5. PICK k \in DOMAIN board : board[k].group = "READY" /\ board[k].inv = scan[w].inv
    BY <2>1 DEF ReadyFor
  <2>6. scan[w].inv \in InvIds
    BY <2>5 DEF SlotInv, ItemSlots
  <2>7. Claimed(scan[w].inv)'
    BY <1>2, <1>5, <2>1, <2>4, <2>6 DEF Claimed
  <2> QED
    BY <2>2, <2>3, <2>7
<1>6. ASSUME MarkEmitted(w)
      PROVE  /\ Claimed(scan[w].inv)'
             /\ was_emitted(receiving_items, rid(w))'
             /\ ReadyFor(scan[w])'
  <2>1. /\ pc[w] = "mark" /\ UNCHANGED <<board, po_inventory>>
        /\ receiving_items' = mark_emitted(receiving_items, rid(w))
        /\ scan' = [scan EXCEPT ![w].outcome = IF receiving_items[rid(w)] = NoRow THEN "error"
                                               ELSE MatchStatus(scan[w])]
    BY <1>6 DEF MarkEmitted, Return
  <2>2. /\ scan'[w].inv = scan[w].inv /\ scan'[w].serial = scan[w].serial
        /\ scan'[w].po = scan[w].po /\ scan'[w].barcode = scan[w].barcode
        /\ MatchStatus(scan[w]) = "received" /\ receiving_items[rid(w)] # NoRow
    BY <1>0, <2>1 DEF ScanLocals, TypeOK
  <2>3. rid(w)' = rid(w)
    BY <2>2 DEF rid, make_receiving_id
  <2>4. scan[w].inv \in InvIds
    BY <1>0, <2>2 DEF MatchStatus, ScanLocals
  <2>5. HasRecord(w)
    BY <2>1 DEF SlotInv, CallSlots, Saved
  <2>6. Claimed(scan[w].inv)
    BY <1>4, <2>4, <2>5 DEF SlotInv, RecordSlots, HasRecord
  <2>7. ReadyFor(scan[w])'
    BY <1>0, <2>1, <2>2, <2>4 DEF CallItems, ReadyFor
  <2>8. was_emitted(receiving_items', rid(w))
    <3>1. receiving_items[rid(w)] \in ReceivingRow
      BY <1>4, <2>2 DEF TypeOK
    <3>2. receiving_items'[rid(w)] = [receiving_items[rid(w)] EXCEPT !.emitted = TRUE]
      BY <1>4, <2>1, <2>2 DEF mark_emitted, TypeOK
    <3>3. /\ receiving_items'[rid(w)] \in ReceivingRow
          /\ receiving_items'[rid(w)].emitted = TRUE
      BY <3>1, <3>2 DEF ReceivingRow
    <3> QED
      BY <3>3, NoRowAssumption DEF was_emitted
  <2>9. was_emitted(receiving_items, rid(w))'
    BY <2>3, <2>8 DEF was_emitted
  <2>10. Claimed(scan[w].inv)'
    BY <2>1, <2>2, <2>6 DEF Claimed
  <2> QED
    BY <2>7, <2>9, <2>10
<1>7. ~WasEmitted(w)
  <2> SUFFICES ASSUME WasEmitted(w) PROVE FALSE
    OBVIOUS
  <2>1. /\ pc[w] = "check" /\ was_emitted(receiving_items, rid(w))
        /\ scan' = [scan EXCEPT ![w].outcome = MatchStatus(scan[w])]
    BY DEF WasEmitted, Return, Goto, TypeOK
  <2>2. MatchStatus(scan[w]) = "received"
    BY <1>0, <2>1 DEF TypeOK, ScanLocals
  <2>3. scan[w].inv \in InvIds
    BY <1>0, <2>2 DEF MatchStatus, ScanLocals
  <2>4. \A k \in DOMAIN board : board[k].inv # scan[w].inv
    BY <1>0, <2>1, <2>3 DEF CallItems
  <2> QED
    BY <2>1, <2>3, <2>4, NoItemNotKnown
<1>8. ASSUME NEW u \in Workers, Worker(u), ~MarkEmitted(w), ~WasEmitted(w)
      PROVE  FALSE
  <2>1. u = w
    BY DEF OneWorker
  <2>2. \A result : Return(w, result) => scan'[w].outcome = result
    BY <1>0 DEF Return, TypeOK, ScanLocals
  <2> QED
    BY <1>8, <2>1, <2>2 DEF Worker, Scan, FindClaimedBySerial, ClaimAndSave, SaveRecord,
       Emit, CreateItem, Acknowledge, RepositoryError, SinkError, Goto, TypeOK
<1>9. ASSUME Crash
      PROVE  /\ pc[w] = "idle" /\ scan[w].outcome = "received"
             /\ scan'[w].inv = scan[w].inv /\ scan'[w].serial = scan[w].serial
             /\ rid(w)' = rid(w)
  <2>1. scan'[w] = [scan[w] EXCEPT !.outcome = IF pc[w] = "idle" THEN @ ELSE "error"]
    BY <1>9 DEF Crash
  <2>2. /\ scan'[w].inv = scan[w].inv /\ scan'[w].serial = scan[w].serial
        /\ scan'[w].po = scan[w].po /\ scan'[w].barcode = scan[w].barcode
        /\ pc[w] = "idle" /\ scan[w].outcome = "received"
    BY <1>0, <2>1 DEF ScanLocals
  <2> QED
    BY <2>2 DEF rid, make_receiving_id
<1>10. UNCHANGED <<pc, scan>> => /\ pc[w] = "idle" /\ scan[w].outcome = "received"
                                 /\ scan'[w].inv = scan[w].inv
                                 /\ scan'[w].serial = scan[w].serial /\ rid(w)' = rid(w)
  BY DEF rid
<1> QED
  BY <1>5, <1>6, <1>7, <1>8, <1>9, <1>10
     DEF Next, vars, PopulateFetch, PopulateUpsert, RefreshAll

LEMMA ReadyInvInPass ==
    ASSUME SyncTypeOK, ReadyInv, PassStep
    PROVE  ReadyInv'
<1>1. \A w \in Workers : pc'[w] = "idle" /\ pc[w] = "idle" /\ rid(w) \in ReceivingIds
  BY PassAlone, RidType DEF SyncTypeOK, TypeOK, rid
<1>2. /\ UNCHANGED <<po_inventory, scan>>
      /\ \A k \in DOMAIN board : k \in DOMAIN board' /\ board'[k] = board[k]
      /\ \A r \in ReceivingIds : was_emitted(receiving_items, r) => was_emitted(receiving_items', r)
  BY PassFrame, PassBoard, PassRecords
<1>3. CallItems'
  BY <1>1 DEF CallItems
<1>4. ReceivedIsReady'
  BY <1>1, <1>2 DEF ReadyInv, ReceivedIsReady, Claimed, rid, was_emitted
<1> QED
  BY <1>3, <1>4 DEF ReadyInv

(* What the last theorems rest on, and what the step lemmas give them.      *)
DeskInv ==
    /\ SyncTypeOK /\ PassInv /\ BoardInv /\ KeyedInv
    /\ NoRefresh => SlotInv

LEMMA SyncDeskInv == OneWorker /\ IdsTellSlotsApart => (SyncSpec => []DeskInv)
<1> SUFFICES ASSUME OneWorker, IdsTellSlotsApart PROVE SyncSpec => []DeskInv
  OBVIOUS
<1>1. SyncInit => BoardInv
  BY DEF SyncInit, Init, BoardInv, PostedOnBoard, EmittedOnBoard, SyncPosted, was_emitted
<1> QED
  BY <1>1, BoardInvStep, SyncTypeCorrect, SyncPassInv, SyncKeyed, SyncSlotInv, PTL
     DEF SyncSpec, DeskInv

LEMMA ReadyInvStep ==
    ASSUME OneWorker, IdsTellSlotsApart, DeskInv, BoardIsKeyed, NoRefresh => ReadyInv,
           [SyncNext]_syncVars
    PROVE  NoRefresh' => ReadyInv'
<1> SUFFICES ASSUME NoRefresh' PROVE ReadyInv'
  OBVIOUS
<1>0. SyncTypeOK /\ TypeOK /\ PostedOnBoard
  BY DEF DeskInv, BoardInv, SyncTypeOK
<1>1. refreshes = 0 /\ refreshes' = refreshes
  BY <1>0, StillNoRefresh
<1>2. SlotInv /\ ReadyInv
  BY <1>1 DEF DeskInv, NoRefresh
<1>3. CASE DeskStep
  <2>1. [Next]_vars /\ ~RefreshAll
    BY <1>1, <1>3 DEF DeskStep, RefreshAll
  <2> QED
    BY <1>0, <1>1, <1>2, <2>1, CallItemsInDesk, ReceivedInDesk DEF ReadyInv
<1>4. CASE PassStep
  BY <1>0, <1>2, <1>4, ReadyInvInPass
<1>5. CASE UNCHANGED syncVars
  BY <1>2, <1>5 DEF ReadyInv, CallItems, ReceivedIsReady, ReadyFor, Claimed, rid, was_emitted,
     syncVars, vars
<1> QED
  BY <1>3, <1>4, <1>5, StepCases

LEMMA SyncBoardKeyed == OneWorker /\ IdsTellSlotsApart => (SyncSpec => []BoardIsKeyed)
<1> SUFFICES ASSUME OneWorker, IdsTellSlotsApart PROVE SyncSpec => []BoardIsKeyed
  OBVIOUS
<1>1. SyncInit => BoardIsKeyed
  BY DEF SyncInit, Init, BoardIsKeyed
<1>2. DeskInv /\ BoardIsKeyed /\ [SyncNext]_syncVars => BoardIsKeyed'
  BY BoardIsKeyedStep DEF DeskInv, KeyedInv
<1> QED
  BY <1>1, <1>2, SyncDeskInv, PTL DEF SyncSpec

(* With one scan at a time, digests that tell slots apart and no refresh, a *)
(* scan that answers 'received' is believed rightly: the slot is claimed,   *)
(* its record is marked emitted and its READY item with the scanned serial  *)
(* is on the board, after any number of failures, retries, restarts and     *)
(* passes in between.                                                       *)
THEOREM ReceivedMeansReady ==
    OneWorker /\ IdsTellSlotsApart => (SyncSpec => [](refreshes = 0 => ReceivedIsReady))
<1> SUFFICES ASSUME OneWorker, IdsTellSlotsApart
             PROVE  SyncSpec => [](refreshes = 0 => ReceivedIsReady)
  OBVIOUS
<1>1. SyncInit => ReadyInv
  <2> SUFFICES ASSUME SyncInit PROVE ReadyInv
    OBVIOUS
  <2>1. \A w \in Workers : pc[w] = "idle" /\ scan[w] = NoCall
    BY DEF SyncInit, Init
  <2>2. NoCall.outcome = "none"
    BY NoCallFacts
  <2> QED
    BY <2>1, <2>2 DEF ReadyInv, CallItems, ReceivedIsReady
<1>2. DeskInv /\ BoardIsKeyed /\ (NoRefresh => ReadyInv) /\ [SyncNext]_syncVars
      => (NoRefresh => ReadyInv)'
  BY ReadyInvStep
<1>3. (NoRefresh => ReadyInv) => (refreshes = 0 => ReceivedIsReady)
  BY DEF NoRefresh, ReadyInv
<1> QED
  BY <1>1, <1>2, <1>3, SyncDeskInv, SyncBoardKeyed, PTL DEF SyncSpec

(* A pass that ends as a PASS has repaired whatever scans, failures and     *)
(* restarts left: every claimed slot has its READY item on the board, with  *)
(* the serial of its record.                                                *)
THEOREM PassHasRepaired ==
    OneWorker /\ IdsTellSlotsApart => (SyncSpec => [](refreshes = 0 => PassRepairs))
<1> SUFFICES ASSUME OneWorker, IdsTellSlotsApart
             PROVE  SyncSpec => [](refreshes = 0 => PassRepairs)
  OBVIOUS
<1>1. DeskInv /\ VerdictTellsTable /\ BoardIsKeyed => (refreshes = 0 => PassRepairs)
  <2> SUFFICES ASSUME DeskInv, VerdictTellsTable, BoardIsKeyed, refreshes = 0,
                      sync = "pass", NEW i \in InvIds, Claimed(i)
               PROVE  \E k \in DOMAIN board, r \in ReceivingIds :
                         /\ board[k].group = "READY" /\ board[k].inv = i
                         /\ board[k].id = r
                         /\ receiving_items[r] # NoRow
                         /\ board[k].serial = receiving_items[r].serial
    BY DEF PassRepairs
  <2>1. /\ SlotInv /\ KeyedInv /\ PassInv /\ PostedOnBoard /\ TypeOK
    BY DEF DeskInv, NoRefresh, BoardInv, SyncTypeOK
  <2>2. PICK r \in ReceivingIds : receiving_items[r] # NoRow /\ receiving_items[r].inv = i
    BY <2>1 DEF KeyedInv, ClaimHasRecord
  <2>3. was_emitted(receiving_items, r)
    <3>1. \A p \in pending : Emitted(p)
      BY DEF VerdictTellsTable
    <3> QED
      BY <2>1, <2>2, <3>1 DEF PassInv, Covered, HasPass, Emitted
  <2>4. PICK k \in DOMAIN board : board[k].id = r
    BY <2>1, <2>3 DEF PostedOnBoard, EmittedOnBoard, OnBoard
  <2>5. board[k].inv = i
    <3>1. PICK p \in POs, b \in Barcodes : r = ReceivingIdOf[<<p, i, b>>]
      BY <2>1, <2>2 DEF KeyedInv, RecordIsKeyed
    <3>2. PICK q \in POs, c \in Barcodes : r = ReceivingIdOf[<<q, board[k].inv, c>>]
      BY <2>4 DEF BoardIsKeyed
    <3>3. board[k].inv \in InvIds \cup {NoInv}
      <4>1. board \in Seq(BoardItem)
        BY <2>1 DEF TypeOK
      <4>2. board[k] \in BoardItem
        BY <2>4, <4>1
      <4> QED
        BY <4>2 DEF BoardItem
    <3>4. \A j \in InvIds \cup {NoInv} :
             ReceivingIdOf[<<q, j, c>>] = ReceivingIdOf[<<p, i, b>>] => j = i
      BY SlotOfId
    <3> QED
      BY <3>1, <3>2, <3>3, <3>4
  <2>6. board[k].group = "READY"
    BY <2>1, <2>5 DEF SlotInv, ItemSlots
  <2>7. board[k].serial = receiving_items[r].serial
    BY <2>1, <2>2, <2>4, <2>5, <2>6 DEF SlotInv, ItemSlots, RecordOfSlotAgrees
  <2> QED
    BY <2>2, <2>4, <2>5, <2>6, <2>7
<1> QED
  BY <1>1, SyncDeskInv, SyncBoardKeyed, VerdictIsTrue, PTL
=============================================================================
