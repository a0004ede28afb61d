------------------------- MODULE ReceiveSync_proofs -------------------------
(***************************************************************************)
(* Proofs about the robot, for any board, any portal and any number of     *)
(* failures, crashes and requeues.                                         *)
(***************************************************************************)
EXTENDS ReceiveSync, FiniteSetTheorems, SequenceTheorems, TLAPS

USE DEF board, pass, portal, history, item, move, set_status

(* What a poll returns is a sequence of items of the READY group.           *)
LEMMA SortedType ==
    ASSUME NEW q \in Sorted(poll_ready)
    PROVE  q \in Seq(Items) /\ \A k \in DOMAIN q : group[q[k]] = "READY"
<1>1. IsFiniteSet(poll_ready)
  BY FS_Subset, RobotAssumption DEF poll_ready
<1>2. Cardinality(poll_ready) \in Nat
  BY <1>1, FS_CardinalityType
<1>3. q \in [1 .. Cardinality(poll_ready) -> poll_ready]
  BY DEF Sorted
<1>4. poll_ready \subseteq Items /\ \A it \in poll_ready : group[it] = "READY"
  BY DEF poll_ready
<1>5. DOMAIN q = 1 .. Cardinality(poll_ready) /\ \A k \in DOMAIN q : q[k] \in poll_ready
  BY <1>3
<1>6. q \in [1 .. Cardinality(poll_ready) -> Items]
  BY <1>3, <1>4
<1>7. q \in Seq(Items)
  BY <1>2, <1>6
<1> QED
  BY <1>4, <1>5, <1>7

(* The current item and the rest of the pass.                               *)
LEMMA TodoFacts ==
    ASSUME NEW q \in Seq(Items), q # <<>>
    PROVE  /\ Head(q) \in Items /\ Head(q) = q[1] /\ 1 \in DOMAIN q
           /\ Tail(q) \in Seq(Items)
           /\ \A k \in DOMAIN Tail(q) : k \in Nat \ {0} /\ k + 1 \in DOMAIN q /\ Tail(q)[k] = q[k + 1]
OBVIOUS

(* An attempt adds its entry at the end of the log.                         *)
LEMMA AttemptFacts ==
    ASSUME TypeOK, NEW end \in Ends, Attempt(end)
    PROVE  /\ item \in Items /\ todo # <<>>
           /\ log' \in Seq([item : Items, end : Ends])
           /\ Len(log') = Len(log) + 1 /\ log'[Len(log) + 1] = [item |-> item, end |-> end]
           /\ \A k \in DOMAIN log : log'[k] = log[k]
BY TodoFacts DEF TypeOK, Attempt

(* Counting a fault keeps the type of the counters.                         *)
LEMMA SpendType ==
    ASSUME TypeOK, NEW kind \in DOMAIN Bounds, Spend(kind)
    PROVE  faults' \in [DOMAIN Bounds -> Nat]
BY DEF TypeOK, Spend

(* The fault kinds are the fields of Bounds.                                *)
LEMMA Kinds ==
    DOMAIN Bounds = {"raises", "glitches", "refusals", "errors", "crashes", "requeues"}
BY DEF Bounds

(* A receipt in the portal keeps its types.                                 *)
LEMMA FinalizeType ==
    ASSUME TypeOK, item \in Items, Finalize
    PROVE  bound' \in [Slots -> Items \cup {NoItem}] /\ receipts' \in [Items -> Nat]
BY DEF TypeOK, Finalize, Lowest, OpenSlots

(* Every step of the robot and of its surroundings keeps the types.         *)
LEMMA TypeStep == TypeOK /\ [Next]_vars => TypeOK'
<1> SUFFICES ASSUME TypeOK, [Next]_vars PROVE TypeOK'
  OBVIOUS
<1> USE DEF Steps, Groups, Statuses, Ends, SyncStatusRow
<1>0. todo # <<>> => item \in Items /\ Tail(todo) \in Seq(Items)
  BY TodoFacts DEF TypeOK
<1>1. CASE Poll
  BY <1>1, SortedType DEF TypeOK, Poll
<1>2. CASE StartPass
  BY <1>2 DEF TypeOK, StartPass, write_status
<1>3. CASE SkipInvalid
  BY <1>3, <1>0 DEF TypeOK, SkipInvalid
<1>4. CASE ReceiveItem
  BY <1>4, AttemptFacts, FinalizeType DEF TypeOK, ReceiveItem, Attempt, NotRefused
<1>4a. CASE ReceiveUnseen
  BY <1>4a, AttemptFacts, SpendType, Kinds DEF TypeOK, ReceiveUnseen, Attempt
<1>5. CASE NotFound
  BY <1>5, AttemptFacts DEF TypeOK, NotFound, Attempt, NotRefused
<1>6. CASE Glitch
  BY <1>6, AttemptFacts, SpendType, Kinds DEF TypeOK, Glitch, Attempt, NotRefused
<1>7. CASE RaiseBefore
  BY <1>7, AttemptFacts, SpendType, Kinds DEF TypeOK, RaiseBefore, Attempt, NotRefused
<1>8. CASE RaiseAfter
  <2>1. unknown' \in [Items -> Nat]
    <3>1. unknown' = [unknown EXCEPT ![item] = @ + 1] /\ todo # <<>>
      BY <1>8 DEF RaiseAfter, Attempt
    <3> QED
      BY <3>1, <1>0 DEF TypeOK
  <2>2. Attempt("raised") /\ Spend("raises") /\ Finalize /\ refused' = refused \ {item}
    BY <1>8 DEF RaiseAfter, NotRefused
  <2>3. faults' \in [DOMAIN Bounds -> Nat]
    BY <2>2, SpendType, Kinds
  <2>4. /\ bound' \in [Slots -> Items \cup {NoItem}] /\ receipts' \in [Items -> Nat]
        /\ log' \in Seq([item : Items, end : Ends])
    BY <2>2, AttemptFacts, FinalizeType
  <2>5. /\ todo # <<>> /\ pc' = "raised"
        /\ UNCHANGED <<group, status, todo, consecutive, failed, sync_status, cause>>
    BY <2>2 DEF Attempt
  <2>6. refused' \subseteq Items
    BY <2>2 DEF TypeOK
  <2> QED
    BY <2>1, <2>3, <2>4, <2>5, <2>6 DEF TypeOK
<1>9. CASE MarkReceivedStatus
  BY <1>9, <1>0 DEF TypeOK, MarkReceivedStatus
<1>10. CASE MarkReceivedMove
  BY <1>10, <1>0 DEF TypeOK, MarkReceivedMove
<1>11. CASE MarkNoMatch
  BY <1>11, <1>0 DEF TypeOK, MarkNoMatch
<1>12. CASE Settle
  BY <1>12, <1>0 DEF TypeOK, Settle, write_status
<1>13. CASE MarkNeedsAttention
  BY <1>13, <1>0 DEF TypeOK, MarkNeedsAttention
<1>14. CASE NextAfterFailure
  BY <1>14, <1>0 DEF TypeOK, NextAfterFailure, write_status
<1>15. CASE Kill
  BY <1>15 DEF TypeOK, Kill, write_status
<1>16. CASE EndPass
  BY <1>16 DEF TypeOK, EndPass, write_status
<1>17. ASSUME NEW why \in {"error", "crash"}, NEW kind \in DOMAIN Bounds, Spend(kind), Stop(why)
       PROVE  TypeOK'
  <2>1. pc \in {"received", "moving"} => item \in Items
    BY <1>0 DEF TypeOK
  <2>2. unknown' \in [Items -> Nat]
    BY <1>17, <2>1 DEF TypeOK, Stop
  <2> QED
    BY <1>17, <2>2, SpendType DEF TypeOK, Stop
<1>18. CASE Restart
  BY <1>18 DEF TypeOK, Restart
<1>19. ASSUME NEW it \in Items, Arrive(it) \/ Automation(it) PROVE TypeOK'
  BY <1>19 DEF TypeOK, Arrive, Automation
<1>20. ASSUME NEW it \in Items, Requeue(it) PROVE TypeOK'
  BY <1>20, SpendType, Kinds DEF TypeOK, Requeue
<1>21. CASE UNCHANGED vars
  <2>1. UNCHANGED <<group, status, bound, pc, todo, consecutive, failed, sync_status, cause,
                    log, receipts, unknown, refused, faults>>
    BY <1>21 DEF vars
  <2> QED
    BY <2>1 DEF TypeOK
<1> QED
  BY <1>1, <1>2, <1>3, <1>4, <1>4a, <1>5, <1>6, <1>7, <1>8, <1>9, <1>10, <1>11, <1>12, <1>13,
     <1>14, <1>15, <1>16, <1>17, <1>18, <1>19, <1>20, <1>21, Kinds
     DEF Next, Robot, UncaughtError, Crash

(* Type correctness of the robot: in the middle of an item there always is  *)
(* an item, whatever fails before or after.                                 *)
THEOREM RobotTypeCorrect == Spec => []TypeOK
<1>1. Init => TypeOK
  BY RobotAssumption, Kinds DEF Init, TypeOK, Groups, Statuses, Steps
<1> QED
  BY <1>1, TypeStep, PTL DEF Spec

-----------------------------------------------------------------------------
(* What the portal has received stays received: a slot that is open may be  *)
(* filled, a slot that is filled is never changed.                          *)
PortalKeeps == \A s \in Slots : bound[s] # NoItem => bound'[s] = bound[s]

LEMMA FinalizeKeeps ==
    ASSUME TypeOK, item \in Items, Finalize
    PROVE  PortalKeeps /\ \E s \in Slots : bound'[s] = item
BY DEF TypeOK, Finalize, Lowest, OpenSlots, PortalKeeps

LEMMA PortalKeepsStep == TypeOK /\ [Next]_vars => PortalKeeps
<1> SUFFICES ASSUME TypeOK, [Next]_vars PROVE PortalKeeps
  OBVIOUS
<1>1. CASE ReceiveItem \/ RaiseAfter
  BY <1>1, AttemptFacts, FinalizeKeeps DEF ReceiveItem, RaiseAfter, Ends
<1>2. CASE UNCHANGED bound
  BY <1>2 DEF PortalKeeps
<1> QED
  BY <1>1, <1>2
  DEF Next, Robot, vars, Poll, StartPass, SkipInvalid, ReceiveUnseen, NotFound, Glitch,
      RaiseBefore, Attempt,
      MarkReceivedStatus, MarkReceivedMove, MarkNoMatch, Settle, MarkNeedsAttention,
      NextAfterFailure, Kill, EndPass, UncaughtError, Crash, Stop, Restart, Arrive,
      Automation, Requeue

-----------------------------------------------------------------------------
(* What the counter of failures and the status row say of the log, at each  *)
(* step of a pass.                                                          *)
StreakInv ==
    /\ NoAttemptAfterTwoFailures
    /\ pc = "start" => consecutive = 0 /\ log = <<>>
    /\ pc = "next" => /\ consecutive = IF Raised(Len(log)) THEN 1 ELSE 0
                      /\ sync_status # NoStatus
                      /\ sync_status.state = "running" /\ sync_status.consecutive = consecutive
    /\ pc \in {"received", "moving", "no_match", "settled"} => ~ Raised(Len(log))
    /\ pc = "raised" => /\ Raised(Len(log))
                        /\ consecutive = IF Raised(Len(log) - 1) THEN 1 ELSE 0
    /\ pc = "failed" => Raised(Len(log)) /\ ~ Raised(Len(log) - 1) /\ consecutive = 1
    /\ pc = "kill" => Raised(Len(log)) /\ Raised(Len(log) - 1)

(* The log of a pass only grows, by one attempt.                            *)
LEMMA LogGrows ==
    ASSUME TypeOK, NEW end \in Ends, Attempt(end)
    PROVE  /\ Len(log) \in Nat /\ Len(log') = Len(log) + 1
           /\ DOMAIN log = 1 .. Len(log) /\ DOMAIN log' = 1 .. Len(log')
           /\ \A k \in 0 .. Len(log) : Raised(k)' <=> Raised(k)
           /\ Raised(Len(log))' <=> end = "raised"
<1> DEFINE e == [item |-> item, end |-> end]
<1>1. log \in Seq([item : Items, end : Ends]) /\ log' = Append(log, e)
  BY DEF TypeOK, Attempt
<1>2. e.end = end /\ e \in [item : Items, end : Ends]
  BY AttemptFacts
<1> HIDE DEF e
<1>3. /\ Len(log) \in Nat /\ Len(log') = Len(log) + 1
      /\ DOMAIN log = 1 .. Len(log) /\ DOMAIN log' = 1 .. Len(log')
      /\ \A k \in 1 .. Len(log) : log'[k] = log[k]
      /\ log'[Len(log')] = e
  BY <1>1, <1>2
<1>4. \A k \in 0 .. Len(log) : k \in DOMAIN log' <=> k \in DOMAIN log
  BY <1>3
<1>5. \A k \in 0 .. Len(log) : Raised(k)' <=> Raised(k)
  BY <1>3, <1>4 DEF Raised
<1>6. Raised(Len(log))' <=> end = "raised"
  BY <1>2, <1>3 DEF Raised
<1> QED
  BY <1>3, <1>5, <1>6

(* An attempt starts from a log whose last two entries are not both raised, *)
(* and only an attempt that raises can make two of them.                    *)
LEMMA AttemptStreak ==
    ASSUME TypeOK, StreakInv, NEW end \in Ends, Attempt(end)
    PROVE  StreakInv'
<1> DEFINE n == Len(log)
<1>1. /\ n \in Nat /\ Len(log') = n + 1
      /\ DOMAIN log = 1 .. n /\ DOMAIN log' = 1 .. n + 1
      /\ \A k \in 0 .. n : Raised(k)' <=> Raised(k)
      /\ Raised(Len(log))' <=> end = "raised"
  BY LogGrows
<1>2. pc = "next" /\ pc' = end /\ UNCHANGED consecutive
  BY DEF Attempt
<1>3. NoAttemptAfterTwoFailures'
  <2> SUFFICES ASSUME NEW k \in 1 .. n + 1, Raised(k)', Raised(k + 1)'
               PROVE  k + 1 = n + 1 /\ end = "raised"
    BY <1>1, <1>2 DEF NoAttemptAfterTwoFailures
  <2>1. k + 1 \in 1 .. n + 1
    BY <1>1 DEF Raised
  <2>2. CASE k + 1 = n + 1
    BY <2>2, <1>1
  <2>3. CASE k + 1 # n + 1
    <3>1. k \in 1 .. n /\ k + 1 \in 0 .. n /\ k \in 0 .. n
      BY <1>1, <2>1, <2>3
    <3>2. Raised(k) /\ Raised(k + 1)
      BY <1>1, <3>1
    <3> QED
      BY <1>1, <1>2, <3>1, <3>2 DEF StreakInv, NoAttemptAfterTwoFailures
  <2> QED
    BY <2>2, <2>3
<1>4. Raised(Len(log) - 1)' <=> Raised(n)
  BY <1>1
<1> QED
  BY <1>1, <1>2, <1>3, <1>4 DEF StreakInv, Ends

(* What write_status writes is a row.                                       *)
LEMMA StatusIsRow ==
    ASSUME NEW state \in {"running", "stopped"}, NEW n \in Nat,
           NEW last_outcome \in {"none", "success", "failure", "kill"},
           write_status(state, last_outcome, n)
    PROVE  /\ sync_status' # NoStatus
           /\ sync_status'.state = state /\ sync_status'.consecutive = n
BY NoStatusAssumption DEF write_status, SyncStatusRow

(* The streak is told truly at every step, attempts and all.                *)
LEMMA StreakStep == TypeOK /\ StreakInv /\ [Next]_vars => StreakInv'
<1> SUFFICES ASSUME TypeOK, StreakInv, [Next]_vars PROVE StreakInv'
  OBVIOUS
<1> USE DEF StreakInv, NoAttemptAfterTwoFailures, Raised
<1>1. CASE Poll
  BY <1>1 DEF Poll
<1>2. CASE StartPass
  <2>1. write_status("running", "none", 0) /\ pc' = "next" /\ UNCHANGED <<log, consecutive>>
    BY <1>2 DEF StartPass
  <2>2. sync_status' # NoStatus /\ sync_status'.state = "running" /\ sync_status'.consecutive = 0
    BY <2>1, StatusIsRow
  <2>3. consecutive = 0 /\ log = <<>>
    BY <1>2 DEF StartPass
  <2> QED
    BY <2>1, <2>2, <2>3
<1>3. CASE SkipInvalid
  BY <1>3 DEF SkipInvalid
<1>4. CASE ReceiveItem \/ ReceiveUnseen \/ NotFound \/ Glitch \/ RaiseBefore \/ RaiseAfter
  BY <1>4, AttemptStreak
  DEF ReceiveItem, ReceiveUnseen, NotFound, Glitch, RaiseBefore, RaiseAfter, Ends
<1>5. CASE MarkReceivedStatus \/ MarkReceivedMove \/ MarkNoMatch
  BY <1>5 DEF MarkReceivedStatus, MarkReceivedMove, MarkNoMatch
<1>6. CASE Settle
  BY <1>6, StatusIsRow DEF Settle, write_status, TypeOK
<1>7. CASE MarkNeedsAttention
  <2>1. /\ pc = "raised" /\ UNCHANGED log
        /\ pc' = IF consecutive + 1 >= 2 THEN "kill" ELSE "failed"
        /\ consecutive' = consecutive + 1
    BY <1>7 DEF MarkNeedsAttention, CONSECUTIVE_FAILURE_KILL
  <2>2. Raised(Len(log)) /\ consecutive = IF Raised(Len(log) - 1) THEN 1 ELSE 0
    BY <2>1
  <2>3. CASE Raised(Len(log) - 1)
    BY <2>1, <2>2, <2>3
  <2>4. CASE ~ Raised(Len(log) - 1)
    BY <2>1, <2>2, <2>4
  <2> QED
    BY <2>3, <2>4
<1>8. CASE NextAfterFailure
  BY <1>8, StatusIsRow DEF NextAfterFailure, write_status, TypeOK
<1>9. CASE Kill \/ EndPass \/ Restart
  BY <1>9 DEF Kill, EndPass, Restart
<1>10. CASE UncaughtError \/ Crash
  BY <1>10 DEF UncaughtError, Crash, Stop
<1>11. ASSUME NEW it \in Items, Arrive(it) \/ Automation(it) \/ Requeue(it) PROVE StreakInv'
  BY <1>11 DEF Arrive, Automation, Requeue
<1>12. CASE UNCHANGED vars
  BY <1>12 DEF vars
<1> QED
  BY <1>1, <1>2, <1>3, <1>4, <1>5, <1>6, <1>7, <1>8, <1>9, <1>10, <1>11, <1>12 DEF Next, Robot

LEMMA StreakInvariant == Spec => []StreakInv
<1>1. Init => TypeOK /\ StreakInv
  BY RobotAssumption, Kinds DEF Init, TypeOK, Groups, Statuses, Steps, StreakInv,
     NoAttemptAfterTwoFailures
<1>2. TypeOK /\ StreakInv /\ [Next]_vars => TypeOK' /\ StreakInv'
  BY TypeStep, StreakStep
<1> QED
  BY <1>1, <1>2, PTL DEF Spec

(* The kill rule: after two ExecutorErrors in a row the pass makes no       *)
(* further attempt, wherever in the pass they come and whatever came first. *)
THEOREM TwoFailuresEndThePass == Spec => []NoAttemptAfterTwoFailures
<1>1. StreakInv => NoAttemptAfterTwoFailures
  BY DEF StreakInv
<1> QED
  BY <1>1, StreakInvariant, PTL

(* Between two items the status row tells the streak of failures.           *)
THEOREM StatusIsTrue == Spec => []StatusTellsStreak
<1>1. StreakInv => StatusTellsStreak
  BY DEF StreakInv, StatusTellsStreak
<1> QED
  BY <1>1, StreakInvariant, PTL

-----------------------------------------------------------------------------
(* One receipt per entry.  What makes it inductive: an item of the pass is  *)
(* not in the RECEIVED group (the poll read READY, the pass holds an item   *)
(* once and nothing but the pass moves an item there), and a receipt that   *)
(* the board was not told of belongs to the item in hand or is counted.     *)
InHand(it) == pc \in {"received", "moving"} /\ item = it /\ it \notin refused

Distinct == \A j, k \in DOMAIN todo : todo[j] = todo[k] => j = k

NotYetReceived ==
    pc \notin {"dead", "sleep"} =>
        \A k \in DOMAIN todo : group[todo[k]] = "RECEIVED" => k = 1 /\ pc = "settled"

Counted ==
    \A it \in Items :
        /\ receipts[it] <= 1 + unknown[it]
        /\ group[it] # "RECEIVED" /\ ~ InHand(it) => receipts[it] <= unknown[it]

ReceiptInv == Distinct /\ NotYetReceived /\ Counted

(* Taking the head off the pass keeps it free of duplicates.                *)
LEMMA TailDistinct ==
    ASSUME TypeOK, todo # <<>>, Distinct, todo' = Tail(todo)
    PROVE  /\ Distinct'
           /\ \A k \in DOMAIN todo' : \E j \in DOMAIN todo : j # 1 /\ todo'[k] = todo[j]
<1>1. todo \in Seq(Items)
  BY DEF TypeOK
<1>2. \A k \in DOMAIN todo' : k \in Nat \ {0} /\ k + 1 \in DOMAIN todo /\ todo'[k] = todo[k + 1]
  BY <1>1, TodoFacts
<1> QED
  BY <1>2 DEF Distinct

(* A step that moves no item into or out of RECEIVED, receives nothing,     *)
(* leaves nothing in hand and, unless the pass is over, shortens the pass   *)
(* or leaves it as it is.                                                   *)
LEMMA QuietStep ==
    ASSUME TypeOK, ReceiptInv,
           \A it \in Items : group'[it] = "RECEIVED" <=> group[it] = "RECEIVED",
           UNCHANGED <<receipts, unknown>>,
           pc \notin {"received", "moving", "dead", "sleep"}, pc' \notin {"received", "moving"},
           \/ todo' = todo /\ pc # "settled"
           \/ todo' = Tail(todo) /\ todo # <<>>
    PROVE  ReceiptInv'
<1>1. Counted'
  BY DEF ReceiptInv, Counted, InHand
<1>2. CASE todo' = todo /\ pc # "settled"
  <2>1. \A k \in DOMAIN todo : todo[k] \in Items
    BY DEF TypeOK
  <2> QED
    BY <1>1, <1>2, <2>1 DEF ReceiptInv, Distinct, NotYetReceived
<1>3. CASE todo' = Tail(todo) /\ todo # <<>>
  <2>1. Distinct' /\ \A k \in DOMAIN todo' : \E j \in DOMAIN todo : j # 1 /\ todo'[k] = todo[j]
    BY <1>3, TailDistinct DEF ReceiptInv
  <2>2. \A k \in DOMAIN todo : todo[k] \in Items
    BY DEF TypeOK
  <2> QED
    BY <1>1, <2>1, <2>2 DEF ReceiptInv, NotYetReceived
<1> QED
  BY <1>2, <1>3

(* The item in hand, at the head of the pass, is not in RECEIVED before it  *)
(* is settled.                                                              *)
LEMMA HeadNotReceived ==
    ASSUME TypeOK, ReceiptInv, todo # <<>>, pc \notin {"dead", "sleep", "settled"}
    PROVE  item \in Items /\ group[item] # "RECEIVED"
<1>1. item \in Items /\ item = todo[1] /\ 1 \in DOMAIN todo
  BY TodoFacts DEF TypeOK
<1> QED
  BY <1>1 DEF ReceiptInv, NotYetReceived

(* The wizard finalizes once, for the item in hand.                         *)
LEMMA FinalizeCounts ==
    ASSUME TypeOK, item \in Items, Finalize
    PROVE  /\ receipts'[item] = receipts[item] + 1
           /\ \A it \in Items \ {item} : receipts'[it] = receipts[it]
BY DEF TypeOK, Finalize

LEMMA ReceiptStep == TypeOK /\ ReceiptInv /\ [Next]_vars => ReceiptInv'
<1> SUFFICES ASSUME TypeOK, ReceiptInv, [Next]_vars PROVE ReceiptInv'
  OBVIOUS
<1>1. CASE Poll
  <2>1. todo' \in Sorted(poll_ready) /\ UNCHANGED group
    BY <1>1 DEF Poll
  <2>2. Distinct'
    BY <2>1 DEF Sorted, Distinct
  <2>3. \A k \in DOMAIN todo' : group'[todo'[k]] = "READY"
    BY <2>1, SortedType
  <2>4. NotYetReceived'
    BY <2>3 DEF NotYetReceived
  <2> QED
    BY <1>1, <2>2, <2>4 DEF Poll, ReceiptInv, Counted, InHand
<1>2. CASE StartPass
  BY <1>2, QuietStep DEF StartPass
<1>3. CASE SkipInvalid
  <2>1. item \in Items /\ group[item] # "RECEIVED"
    BY <1>3, HeadNotReceived DEF SkipInvalid
  <2>2. \A it \in Items : group'[it] = "RECEIVED" <=> group[it] = "RECEIVED"
    BY <1>3, <2>1 DEF SkipInvalid, TypeOK
  <2> QED
    BY <1>3, <2>2, QuietStep DEF SkipInvalid
<1>4. CASE ReceiveItem
  <2>1. /\ pc = "next" /\ pc' = "received" /\ todo # <<>>
        /\ UNCHANGED <<group, todo, unknown>> /\ Finalize /\ refused' = refused \ {item}
    BY <1>4 DEF ReceiveItem, Attempt, NotRefused
  <2>2. item \in Items /\ group[item] # "RECEIVED"
    BY <2>1, HeadNotReceived
  <2>3. /\ receipts'[item] = receipts[item] + 1
        /\ \A it \in Items \ {item} : receipts'[it] = receipts[it]
    BY <2>1, <2>2, FinalizeCounts
  <2>4. /\ receipts[item] <= unknown[item]
        /\ \A it \in Items : receipts[it] \in Nat /\ unknown[it] \in Nat
    BY <2>1, <2>2 DEF ReceiptInv, Counted, InHand, TypeOK
  <2>5. ASSUME NEW it \in Items, it # item
        PROVE  /\ receipts'[it] <= 1 + unknown'[it]
               /\ group'[it] # "RECEIVED" => receipts'[it] <= unknown'[it]
    BY <2>1, <2>2, <2>3, <2>5 DEF ReceiptInv, Counted, InHand, TypeOK
  <2>6. receipts'[item] <= 1 + unknown'[item] /\ item' = item /\ InHand(item)'
    BY <2>1, <2>2, <2>3, <2>4 DEF InHand
  <2>7. Counted'
    BY <2>5, <2>6 DEF Counted, InHand
  <2> QED
    BY <2>1, <2>7 DEF ReceiptInv, Distinct, NotYetReceived
<1>4a. CASE ReceiveUnseen
  <2>1. /\ pc = "next" /\ pc' = "received" /\ todo # <<>> /\ refused' = refused \cup {item}
        /\ UNCHANGED <<group, todo, receipts, unknown>>
    BY <1>4a DEF ReceiveUnseen, Attempt
  <2>2. item \in Items /\ group[item] # "RECEIVED"
    BY <2>1, HeadNotReceived
  <2>3. Counted'
    BY <2>1, <2>2 DEF ReceiptInv, Counted, InHand
  <2> QED
    BY <2>1, <2>3 DEF ReceiptInv, Distinct, NotYetReceived
<1>5. CASE RaiseAfter
  <2>1. /\ pc = "next" /\ pc' = "raised" /\ todo # <<>>
        /\ UNCHANGED <<group, todo>> /\ Finalize
        /\ unknown' = [unknown EXCEPT ![item] = @ + 1]
    BY <1>5 DEF RaiseAfter, Attempt
  <2>2. item \in Items /\ group[item] # "RECEIVED"
    BY <2>1, HeadNotReceived
  <2>3. /\ receipts'[item] = receipts[item] + 1
        /\ \A it \in Items \ {item} : receipts'[it] = receipts[it]
    BY <2>1, <2>2, FinalizeCounts
  <2>4. /\ receipts[item] <= unknown[item]
        /\ \A it \in Items : receipts[it] \in Nat /\ unknown[it] \in Nat
    BY <2>1, <2>2 DEF ReceiptInv, Counted, InHand, TypeOK
  <2>5. ASSUME NEW it \in Items, it # item
        PROVE  /\ receipts'[it] <= 1 + unknown'[it]
               /\ group'[it] # "RECEIVED" => receipts'[it] <= unknown'[it]
    BY <2>1, <2>2, <2>3, <2>5 DEF ReceiptInv, Counted, InHand, TypeOK
  <2>6. receipts'[item] <= unknown'[item] /\ unknown'[item] \in Nat
    BY <2>1, <2>2, <2>3, <2>4 DEF TypeOK
  <2>7. Counted'
    BY <2>5, <2>6, <2>3, <2>4 DEF Counted
  <2> QED
    BY <2>1, <2>7 DEF ReceiptInv, Distinct, NotYetReceived
<1>6. CASE NotFound \/ Glitch \/ RaiseBefore
  <2>1. /\ pc = "next" /\ pc' \in {"no_match", "raised"}
        /\ UNCHANGED <<group, todo, receipts, unknown>>
    BY <1>6 DEF NotFound, Glitch, RaiseBefore, Attempt
  <2> QED
    BY <2>1, QuietStep
<1>7. CASE MarkReceivedStatus
  BY <1>7 DEF MarkReceivedStatus, ReceiptInv, Distinct, NotYetReceived, Counted, InHand
<1>8. CASE MarkReceivedMove
  <2>1. /\ pc = "moving" /\ pc' = "settled" /\ todo # <<>>
        /\ group' = [group EXCEPT ![item] = "RECEIVED"]
        /\ UNCHANGED <<todo, receipts, unknown>>
    BY <1>8 DEF MarkReceivedMove, TypeOK
  <2>2. item \in Items /\ item = todo[1] /\ 1 \in DOMAIN todo
    BY <2>1, TodoFacts DEF TypeOK
  <2>3. Counted'
    BY <2>1, <2>2 DEF ReceiptInv, Counted, InHand, TypeOK
  <2>4. \A k \in DOMAIN todo : todo[k] \in Items
    BY DEF TypeOK
  <2>5. NotYetReceived'
    BY <2>1, <2>2, <2>4 DEF ReceiptInv, Distinct, NotYetReceived, TypeOK
  <2> QED
    BY <2>1, <2>3, <2>5 DEF ReceiptInv, Distinct
<1>9. CASE MarkNoMatch
  <2>1. item \in Items /\ group[item] # "RECEIVED"
    BY <1>9, HeadNotReceived DEF MarkNoMatch, TypeOK
  <2>2. \A it \in Items : group'[it] = "RECEIVED" <=> group[it] = "RECEIVED"
    BY <1>9, <2>1 DEF MarkNoMatch, TypeOK
  <2> QED
    BY <1>9, <2>2, QuietStep DEF MarkNoMatch
<1>10. CASE Settle \/ NextAfterFailure
  BY <1>10, QuietStep DEF Settle, NextAfterFailure, TypeOK
<1>11. CASE MarkNeedsAttention
  BY <1>11, QuietStep DEF MarkNeedsAttention
<1>12. CASE Kill \/ EndPass \/ Restart
  BY <1>12 DEF Kill, EndPass, Restart, ReceiptInv, Distinct, NotYetReceived, Counted, InHand
<1>13. CASE UncaughtError \/ Crash
  <2>1. /\ pc' = "dead" /\ UNCHANGED <<group, todo, receipts, refused>>
        /\ unknown' = IF pc \in {"received", "moving"} /\ item \notin refused
                      THEN [unknown EXCEPT ![item] = @ + 1] ELSE unknown
    BY <1>13 DEF UncaughtError, Crash, Stop
  <2>2. pc \in {"received", "moving"} => item \in Items
    BY TodoFacts DEF TypeOK
  <2>3. ASSUME pc \in {"received", "moving"}, item \notin refused PROVE Counted'
    <3>1. \A it \in Items : /\ receipts[it] \in Nat /\ unknown[it] \in Nat
                            /\ unknown'[it] = unknown[it] + IF it = item THEN 1 ELSE 0
      BY <2>1, <2>3 DEF TypeOK
    <3> QED
      BY <2>1, <2>3, <3>1 DEF ReceiptInv, Counted, InHand
  <2>4. ASSUME pc \notin {"received", "moving"} \/ item \in refused PROVE Counted'
    BY <2>1, <2>4 DEF ReceiptInv, Counted, InHand
  <2>5. Counted'
    BY <2>3, <2>4
  <2> QED
    BY <2>1, <2>5 DEF ReceiptInv, Distinct, NotYetReceived
<1>14. ASSUME NEW it \in Items, Arrive(it) \/ Automation(it) \/ Requeue(it) PROVE ReceiptInv'
  <2>1. /\ UNCHANGED <<pc, todo, receipts, unknown, refused>>
        /\ \A i \in Items : group'[i] = "RECEIVED" <=> group[i] = "RECEIVED"
    BY <1>14 DEF Arrive, Automation, Requeue, TypeOK
  <2>2. \A k \in DOMAIN todo : todo[k] \in Items
    BY DEF TypeOK
  <2> QED
    BY <2>1, <2>2 DEF ReceiptInv, Distinct, NotYetReceived, Counted, InHand
<1>15. CASE UNCHANGED vars
  BY <1>15 DEF vars, ReceiptInv, Distinct, NotYetReceived, Counted, InHand
<1> QED
  BY <1>1, <1>2, <1>3, <1>4, <1>4a, <1>5, <1>6, <1>7, <1>8, <1>9, <1>10, <1>11, <1>12, <1>13,
     <1>14, <1>15 DEF Next, Robot

(* Nothing has been received or polled at the start.                        *)
LEMMA InitReceiptInv == Init => ReceiptInv
<1> SUFFICES ASSUME Init PROVE ReceiptInv
  OBVIOUS
<1>1. Distinct /\ NotYetReceived
  BY DEF Init, Distinct, NotYetReceived
<1>2. \A it \in Items : receipts[it] = 0 /\ unknown[it] = 0
  BY DEF Init
<1>3. Counted
  BY <1>2 DEF Counted
<1> QED
  BY <1>1, <1>3 DEF ReceiptInv

(* However passes fail, are cut off and are repeated, a unit is entered in  *)
(* the portal at most once more than the board was left untold of it.       *)
THEOREM OneReceiptPerEntry == Spec => []ReceiptNeedsUnknown
<1>1. Init => TypeOK
  BY RobotAssumption, Kinds DEF Init, TypeOK, Groups, Statuses, Steps
<1>2. Init => ReceiptInv
  BY InitReceiptInv
<1>3. TypeOK /\ ReceiptInv /\ [Next]_vars => TypeOK' /\ ReceiptInv'
  BY TypeStep, ReceiptStep
<1>4. TypeOK /\ ReceiptInv => ReceiptNeedsUnknown
  BY DEF TypeOK, ReceiptInv, Counted, ReceiptNeedsUnknown
<1> QED
  BY <1>1, <1>2, <1>3, <1>4, PTL DEF Spec

-----------------------------------------------------------------------------
(* The last click enters the item in hand and no other.                     *)
LEMMA FinalizeEnters ==
    ASSUME TypeOK, item \in Items, Finalize
    PROVE  Entered' = Entered \cup {item}
<1>1. PICK s \in Slots : bound[s] = NoItem /\ bound' = [bound EXCEPT ![s] = item]
  BY DEF Finalize, Lowest, OpenSlots
<1>2. /\ \A t \in Slots \ {s} : bound'[t] = bound[t]
      /\ bound'[s] = item
  BY <1>1 DEF TypeOK
<1>3. bound[s] \notin Items
  BY <1>1, RobotAssumption
<1> QED
  BY <1>2, <1>3 DEF Entered

(* ReceivedWasEntered is not inductive: mark_received moves the item one    *)
(* step after the wizard has returned, and what the robot knows in between  *)
(* is in its program counter.  A refusal is forgotten by the next attempt,  *)
(* which is never made for an item that is RECEIVED (ReceiptInv).           *)
EnteredInv ==
    /\ ReceivedWasEntered
    /\ pc \in {"received", "moving"} => item \in Entered \cup refused
    /\ \A it \in Entered : receipts[it] > 0

(* A step that forgets nothing and moves nothing into RECEIVED.             *)
LEMMA EnteredKeeps ==
    ASSUME TypeOK, EnteredInv, PortalKeeps,
           UNCHANGED <<bound, receipts, refused>>,
           \A it \in Items : group'[it] = "RECEIVED" => group[it] = "RECEIVED",
           \/ pc' \notin {"received", "moving"}
           \/ pc \in {"received", "moving"} /\ UNCHANGED todo
    PROVE  EnteredInv'
BY DEF EnteredInv, ReceivedWasEntered, Entered

(* An attempt that does not say received without cause.                     *)
LEMMA EnteredAttempt ==
    ASSUME TypeOK, EnteredInv, ReceiptInv, NEW end \in Ends, Attempt(end), NotRefused,
           \/ Finalize
           \/ UNCHANGED portal /\ end # "received"
    PROVE  EnteredInv'
<1>1. pc = "next" /\ todo # <<>> /\ pc' = end /\ UNCHANGED <<group, todo>>
  BY DEF Attempt
<1>2. item \in Items /\ group[item] # "RECEIVED"
  BY <1>1, HeadNotReceived
<1>3. refused' = refused \ {item}
  BY DEF NotRefused
<1>4. CASE Finalize
  <2>1. Entered' = Entered \cup {item}
    BY <1>2, <1>4, FinalizeEnters
  <2>2. /\ receipts'[item] = receipts[item] + 1
        /\ \A it \in Items \ {item} : receipts'[it] = receipts[it]
    BY <1>2, <1>4, FinalizeCounts
  <2>3. receipts[item] \in Nat /\ Entered \subseteq Items
    BY <1>2 DEF TypeOK, Entered
  <2> QED
    BY <1>1, <1>2, <1>3, <2>1, <2>2, <2>3 DEF EnteredInv, ReceivedWasEntered
<1>5. CASE UNCHANGED portal /\ end # "received"
  <2>1. UNCHANGED Entered
    BY <1>5 DEF Entered
  <2> QED
    BY <1>1, <1>2, <1>3, <1>5, <2>1 DEF EnteredInv, ReceivedWasEntered, Ends
<1> QED
  BY <1>4, <1>5

LEMMA EnteredStep == TypeOK /\ ReceiptInv /\ EnteredInv /\ [Next]_vars => EnteredInv'
<1> SUFFICES ASSUME TypeOK, ReceiptInv, EnteredInv, [Next]_vars PROVE EnteredInv'
  OBVIOUS
<1>1. PortalKeeps
  BY PortalKeepsStep
<1>2. CASE ReceiveItem \/ RaiseAfter \/ NotFound \/ Glitch \/ RaiseBefore
  BY <1>2, EnteredAttempt DEF ReceiveItem, RaiseAfter, NotFound, Glitch, RaiseBefore, Ends
<1>3. CASE ReceiveUnseen
  <2>1. /\ UNCHANGED <<group, todo, bound, receipts>> /\ refused' = refused \cup {item}
    BY <1>3 DEF ReceiveUnseen, Attempt
  <2> QED
    BY <2>1 DEF EnteredInv, ReceivedWasEntered, Entered
<1>4. CASE MarkReceivedMove
  <2>1. /\ pc = "moving" /\ pc' = "settled" /\ group' = [group EXCEPT ![item] = "RECEIVED"]
        /\ UNCHANGED <<bound, receipts, refused>>
    BY <1>4 DEF MarkReceivedMove
  <2> QED
    BY <2>1 DEF EnteredInv, ReceivedWasEntered, Entered, TypeOK
<1>5. CASE MarkReceivedStatus
  BY <1>1, <1>5, EnteredKeeps DEF MarkReceivedStatus
<1>6. CASE SkipInvalid \/ MarkNoMatch
  <2>1. /\ \A it \in Items : group'[it] = "RECEIVED" => group[it] = "RECEIVED"
        /\ pc' \notin {"received", "moving"} /\ UNCHANGED <<bound, receipts, refused>>
    BY <1>6 DEF SkipInvalid, MarkNoMatch, TypeOK
  <2> QED
    BY <1>1, <2>1, EnteredKeeps
<1>7. CASE \E it \in Items : Arrive(it) \/ Automation(it) \/ Requeue(it)
  <2>1. /\ \A it \in Items : group'[it] = "RECEIVED" => group[it] = "RECEIVED"
        /\ UNCHANGED <<pc, todo, bound, receipts, refused>>
    BY <1>7 DEF Arrive, Automation, Requeue, TypeOK
  <2> QED
    BY <1>1, <2>1, EnteredKeeps
<1>8. CASE \/ Poll \/ StartPass \/ Settle \/ MarkNeedsAttention \/ NextAfterFailure
           \/ Kill \/ EndPass \/ UncaughtError \/ Crash \/ Restart
  <2>1. UNCHANGED <<group, bound, receipts, refused>> /\ pc' \notin {"received", "moving"}
    BY <1>8 DEF Poll, StartPass, Settle, MarkNeedsAttention, NextAfterFailure, Kill, EndPass,
                UncaughtError, Crash, Restart, Stop
  <2> QED
    BY <1>1, <2>1, EnteredKeeps
<1>9. CASE UNCHANGED vars
  BY <1>9 DEF vars, EnteredInv, ReceivedWasEntered, Entered
<1> QED
  BY <1>2, <1>3, <1>4, <1>5, <1>6, <1>7, <1>8, <1>9 DEF Next, Robot

LEMMA InitEnteredInv == Init => EnteredInv
<1> SUFFICES ASSUME Init PROVE EnteredInv
  OBVIOUS
<1>1. Entered = {} /\ \A it \in Items : group[it] # "RECEIVED"
  BY RobotAssumption DEF Init, Entered
<1> QED
  BY <1>1 DEF Init, EnteredInv, ReceivedWasEntered

(* The board says RECEIVED of nothing but what the portal has received or   *)
(* has refused unseen in the last attempt, whatever else fails in the       *)
(* wizard, on the board or in the robot, and however often the robot is     *)
(* started again.                                                           *)
THEOREM ReceivedIsEnteredOrRefused == Spec => []ReceivedWasEntered
<1>1. Init => TypeOK /\ ReceiptInv /\ EnteredInv
  BY RobotAssumption, Kinds, InitReceiptInv, InitEnteredInv
  DEF Init, TypeOK, Groups, Statuses, Steps
<1>2. TypeOK /\ ReceiptInv /\ EnteredInv /\ [Next]_vars => TypeOK' /\ ReceiptInv' /\ EnteredInv'
  BY TypeStep, ReceiptStep, EnteredStep
<1>3. EnteredInv => ReceivedWasEntered
  BY DEF EnteredInv
<1> QED
  BY <1>1, <1>2, <1>3, PTL DEF Spec

-----------------------------------------------------------------------------
(* The robot implements ItemLifecycle.  The items of a pass are open until  *)
(* they are settled: the desk, the board's automation and the operator      *)
(* leave open items open, and the pass has each item once.                  *)
Open(it) == group[it] \in {"READY", "ATTENTION"}

StillOpen ==
    pc \notin {"dead", "sleep"} =>
        \A k \in DOMAIN todo : Open(todo[k]) \/ (k = 1 /\ pc = "settled")

LEMMA OpenStep == TypeOK /\ Distinct /\ StillOpen /\ [Next]_vars => StillOpen'
<1> SUFFICES ASSUME TypeOK, Distinct, StillOpen, [Next]_vars PROVE StillOpen'
  OBVIOUS
<1>1. /\ \A k \in DOMAIN todo : todo[k] \in Items
      /\ todo # <<>> => item = todo[1] /\ 1 \in DOMAIN todo
  BY TodoFacts DEF TypeOK
<1>2. ASSUME todo # <<>>, todo' = Tail(todo), pc \notin {"dead", "sleep"},
             \A it \in Items \ {item} : group'[it] = group[it]
      PROVE  StillOpen'
  <2>1. \A k \in DOMAIN todo' : \E j \in DOMAIN todo : j # 1 /\ todo'[k] = todo[j]
    BY <1>2, TailDistinct
  <2> QED
    BY <1>1, <1>2, <2>1 DEF Distinct, StillOpen, Open
<1>3. ASSUME todo' = todo, pc' = "settled", pc \notin {"dead", "sleep", "settled"}, todo # <<>>,
             \A it \in Items \ {item} : group'[it] = group[it]
      PROVE  StillOpen'
  BY <1>1, <1>3 DEF Distinct, StillOpen, Open
<1>4. CASE Poll
  <2>1. todo' \in Sorted(poll_ready) /\ UNCHANGED group
    BY <1>4 DEF Poll
  <2>2. \A k \in DOMAIN todo' : group'[todo'[k]] = "READY"
    BY <2>1, SortedType
  <2> QED
    BY <2>2 DEF StillOpen, Open
<1>5. CASE StartPass \/ MarkReceivedStatus \/ MarkNeedsAttention
  BY <1>5 DEF StartPass, MarkReceivedStatus, MarkNeedsAttention, StillOpen, Open
<1>6. CASE ReceiveItem \/ ReceiveUnseen \/ NotFound \/ Glitch \/ RaiseBefore \/ RaiseAfter
  BY <1>6
  DEF ReceiveItem, ReceiveUnseen, NotFound, Glitch, RaiseBefore, RaiseAfter, Attempt,
      StillOpen, Open
<1>7. CASE SkipInvalid
  BY <1>2, <1>7 DEF SkipInvalid, TypeOK
<1>8. CASE MarkReceivedMove \/ MarkNoMatch
  BY <1>3, <1>8 DEF MarkReceivedMove, MarkNoMatch, TypeOK
<1>9. CASE Settle \/ NextAfterFailure
  BY <1>2, <1>9 DEF Settle, NextAfterFailure, TypeOK
<1>10. CASE Kill \/ EndPass \/ UncaughtError \/ Crash \/ Restart
  BY <1>10 DEF Kill, EndPass, UncaughtError, Crash, Stop, Restart, StillOpen
<1>11. ASSUME NEW it \in Items, Arrive(it) \/ Automation(it) \/ Requeue(it) PROVE StillOpen'
  <2>1. \A x \in Items : Open(x) => Open(x)'
    BY <1>11 DEF Arrive, Automation, Requeue, TypeOK, Open
  <2>2. UNCHANGED <<pc, todo>>
    BY <1>11 DEF Arrive, Automation, Requeue
  <2> QED
    BY <1>1, <2>1, <2>2 DEF StillOpen
<1>12. CASE UNCHANGED vars
  BY <1>12 DEF vars, StillOpen, Open
<1> QED
  BY <1>4, <1>5, <1>6, <1>7, <1>8, <1>9, <1>10, <1>11, <1>12 DEF Next, Robot

(* The head of the pass is open before it is settled.                       *)
LEMMA HeadOpen ==
    ASSUME TypeOK, StillOpen, todo # <<>>, pc \notin {"dead", "sleep", "settled"}
    PROVE  item \in Items /\ Lifecycle!Open(item)
<1>1. item \in Items /\ item = todo[1] /\ 1 \in DOMAIN todo
  BY TodoFacts DEF TypeOK
<1> QED
  BY <1>1 DEF StillOpen, Open, Lifecycle!Open

(* Every step of the robot is an abstract step or changes nothing that the  *)
(* abstract specification sees.                                             *)
LEMMA LifecycleStep ==
    TypeOK /\ EnteredInv /\ StillOpen /\ [Next]_vars => [Lifecycle!Next]_(Lifecycle!vars)
<1> SUFFICES ASSUME TypeOK, EnteredInv, StillOpen, [Next]_vars
             PROVE  Lifecycle!Next \/ UNCHANGED <<group, receipts, refused>>
  BY DEF Lifecycle!vars
<1>1. ASSUME pc = "next", todo # <<>> PROVE item \in Items /\ Lifecycle!Open(item)
  BY <1>1, HeadOpen
<1>2. CASE ReceiveItem \/ RaiseAfter
  <2>1. /\ Finalize /\ UNCHANGED group /\ pc = "next" /\ todo # <<>>
        /\ refused' = refused \ {item}
    BY <1>2 DEF ReceiveItem, RaiseAfter, Attempt, NotRefused
  <2>2. receipts' = [receipts EXCEPT ![item] = @ + 1]
    BY <2>1 DEF Finalize
  <2>3. Lifecycle!Enter(item)
    BY <1>1, <2>1, <2>2 DEF Lifecycle!Enter
  <2> QED
    BY <1>1, <2>1, <2>3 DEF Lifecycle!Next
<1>3. CASE ReceiveUnseen
  <2>1. /\ UNCHANGED <<group, receipts>> /\ pc = "next" /\ todo # <<>>
        /\ refused' = refused \cup {item}
    BY <1>3 DEF ReceiveUnseen, Attempt
  <2>2. Lifecycle!RefuseUnseen(item)
    BY <1>1, <2>1 DEF Lifecycle!RefuseUnseen
  <2> QED
    BY <1>1, <2>1, <2>2 DEF Lifecycle!Next
<1>4. CASE NotFound \/ Glitch \/ RaiseBefore
  <2>1. /\ UNCHANGED <<group, receipts>> /\ pc = "next" /\ todo # <<>>
        /\ refused' = refused \ {item}
    BY <1>4 DEF NotFound, Glitch, RaiseBefore, Attempt, NotRefused
  <2>2. Lifecycle!Fail(item)
    BY <1>1, <2>1 DEF Lifecycle!Fail
  <2> QED
    BY <1>1, <2>1, <2>2 DEF Lifecycle!Next
<1>5. CASE MarkReceivedMove
  <2>1. /\ pc = "moving" /\ todo # <<>> /\ UNCHANGED <<receipts, refused>>
        /\ group' = [group EXCEPT ![item] = "RECEIVED"]
    BY <1>5 DEF MarkReceivedMove, TypeOK
  <2>2. item \in Items /\ Lifecycle!Open(item)
    BY <2>1, HeadOpen
  <2>3. receipts[item] > 0 \/ item \in refused
    BY <2>1 DEF EnteredInv
  <2>4. Lifecycle!Receive(item)
    BY <2>1, <2>2, <2>3 DEF Lifecycle!Receive
  <2> QED
    BY <2>2, <2>4 DEF Lifecycle!Next
<1>6. CASE SkipInvalid \/ MarkNoMatch
  <2>1. /\ pc \in {"next", "no_match"} /\ todo # <<>> /\ UNCHANGED <<receipts, refused>>
        /\ group' = [group EXCEPT ![item] = "NO_MATCH"]
    BY <1>6 DEF SkipInvalid, MarkNoMatch, TypeOK
  <2>2. item \in Items /\ Lifecycle!Open(item)
    BY <2>1, HeadOpen
  <2>3. Lifecycle!Reject(item)
    BY <2>1, <2>2 DEF Lifecycle!Reject
  <2> QED
    BY <2>2, <2>3 DEF Lifecycle!Next
<1>7. ASSUME NEW it \in Items, Arrive(it) PROVE Lifecycle!Arrive(it)
  BY <1>7 DEF Arrive, Lifecycle!Arrive
<1>8. ASSUME NEW it \in Items, Automation(it) \/ Requeue(it) PROVE Lifecycle!SetAside(it)
  BY <1>8 DEF Automation, Requeue, Lifecycle!SetAside, Lifecycle!Open
<1>9. CASE \/ Poll \/ StartPass \/ MarkReceivedStatus \/ Settle \/ MarkNeedsAttention
           \/ NextAfterFailure \/ Kill \/ EndPass \/ UncaughtError \/ Crash \/ Restart
  BY <1>9
  DEF Poll, StartPass, MarkReceivedStatus, Settle, MarkNeedsAttention, NextAfterFailure, Kill,
      EndPass, UncaughtError, Crash, Stop, Restart
<1>10. CASE UNCHANGED vars
  BY <1>10 DEF vars
<1> QED
  BY <1>2, <1>3, <1>4, <1>5, <1>6, <1>7, <1>8, <1>9, <1>10 DEF Next, Robot, Lifecycle!Next

(* The robot, with every failure it can meet, implements ItemLifecycle.     *)
THEOREM RobotKeepsThePromise == Spec => ImplementsLifecycle
<1>1. Init => TypeOK
  BY RobotAssumption, Kinds DEF Init, TypeOK, Groups, Statuses, Steps
<1>2. Init => ReceiptInv /\ EnteredInv
  BY InitReceiptInv, InitEnteredInv
<1>3. Init => StillOpen
  BY DEF Init, StillOpen
<1>4. Init => Lifecycle!Init
  BY DEF Init, Lifecycle!Init
<1> DEFINE Inv == TypeOK /\ EnteredInv /\ ReceiptInv /\ StillOpen
<1>5. Init => Inv
  BY <1>1, <1>2, <1>3
<1>6. Inv /\ [Next]_vars => Inv'
  BY TypeStep, EnteredStep, ReceiptStep, OpenStep DEF ReceiptInv
<1>7. Inv /\ [Next]_vars => [Lifecycle!Next]_(Lifecycle!vars)
  BY LifecycleStep
<1> HIDE DEF Inv
<1> QED
  BY <1>4, <1>5, <1>6, <1>7, PTL DEF Spec, ImplementsLifecycle, Lifecycle!Spec

-----------------------------------------------------------------------------
(* KillIsEarned speaks of the end of a streak; on the way there an item     *)
(* whose attempt raised is flagged as soon as the robot goes on, and stays  *)
(* so until an operator puts it back.                                       *)
Flagged(k) == status[log[k].item] = "NEEDS_ATTENTION" \/ faults["requeues"] > 0

FlagInv ==
    /\ pc \in {"next", "failed"} /\ Raised(Len(log)) => Flagged(Len(log))
    /\ pc = "raised" /\ Raised(Len(log) - 1) => Flagged(Len(log) - 1)
    /\ pc = "raised" => log[Len(log)].item = item
    /\ cause = "kill" => pc = "dead"
    /\ pc = "kill" \/ cause = "kill" =>
          /\ Raised(Len(log)) /\ Raised(Len(log) - 1)
          /\ Flagged(Len(log)) /\ Flagged(Len(log) - 1)

(* What has been counted stays counted.                                     *)
LEMMA CountsStay ==
    ASSUME TypeOK, UNCHANGED faults \/ \E kind \in DOMAIN Bounds : Spend(kind)
    PROVE  \A k \in DOMAIN Bounds : faults[k] > 0 => faults'[k] > 0
<1>1. CASE UNCHANGED faults
  BY <1>1
<1>2. CASE \E kind \in DOMAIN Bounds : Spend(kind)
  <2>1. PICK kind \in DOMAIN Bounds : faults' = [faults EXCEPT ![kind] = @ + 1]
    BY <1>2 DEF Spend
  <2>2. faults \in [DOMAIN Bounds -> Nat]
    BY DEF TypeOK
  <2> HIDE DEF Bounds
  <2> QED
    BY <2>1, <2>2
<1> QED
  BY <1>1, <1>2

(* A flag is taken back only by a requeue, which is counted.                *)
LEMMA FlagsStay ==
    ASSUME TypeOK, UNCHANGED log, NEW k \in DOMAIN log, Flagged(k),
           \/ UNCHANGED <<status, faults>>
           \/ UNCHANGED status /\ \E kind \in DOMAIN Bounds : Spend(kind)
           \/ UNCHANGED faults /\ todo # <<>> /\ set_status(item, "NEEDS_ATTENTION")
           \/ Spend("requeues")
    PROVE  Flagged(k)'
<1>1. log[k].item \in Items /\ (todo # <<>> => item \in Items)
  <2> DEFINE Entry == [item : Items, end : Ends]
  <2>1. log \in Seq(Entry)
    BY DEF TypeOK
  <2> HIDE DEF Entry
  <2>2. log[k] \in Entry
    BY <2>1
  <2>3. todo # <<>> => item \in Items
    BY TodoFacts DEF TypeOK
  <2> QED
    BY <2>2, <2>3 DEF Entry
<1>2. "requeues" \in DOMAIN Bounds /\ faults \in [DOMAIN Bounds -> Nat]
  BY Kinds DEF TypeOK
<1>3. CASE UNCHANGED <<status, faults>>
  BY <1>3 DEF Flagged
<1>4. CASE UNCHANGED status /\ \E kind \in DOMAIN Bounds : Spend(kind)
  <2>1. faults["requeues"] > 0 => faults'["requeues"] > 0
    BY <1>4, CountsStay, Kinds
  <2> QED
    BY <1>4, <2>1 DEF Flagged
<1>5. CASE UNCHANGED faults /\ todo # <<>> /\ set_status(item, "NEEDS_ATTENTION")
  BY <1>1, <1>5 DEF Flagged, TypeOK
<1>6. CASE Spend("requeues")
  BY <1>2, <1>6 DEF Flagged, Spend
<1> QED
  BY <1>3, <1>4, <1>5, <1>6

(* An attempt leaves the flag of the one before it alone.                   *)
LEMMA AttemptFlags ==
    ASSUME TypeOK, FlagInv, NEW end \in Ends, Attempt(end),
           UNCHANGED faults \/ \E kind \in DOMAIN Bounds : Spend(kind)
    PROVE  FlagInv'
<1> SUFFICES ASSUME NEW n, n = Len(log) PROVE FlagInv'
  OBVIOUS
<1>1. /\ n \in Nat /\ Len(log') = n + 1 /\ DOMAIN log = 1 .. n
      /\ Raised(n)' <=> Raised(n)
  BY LogGrows
<1>2. /\ pc = "next" /\ pc' = end /\ UNCHANGED <<status, todo, cause>>
      /\ log'[n + 1] = [item |-> item, end |-> end]
      /\ \A k \in DOMAIN log : log'[k] = log[k]
  BY AttemptFacts DEF Attempt
<1>3. cause # "kill"
  BY <1>2 DEF FlagInv
<1>4. ASSUME Raised(n)' PROVE Flagged(n)'
  <2>1. n \in DOMAIN log /\ Flagged(n)
    BY <1>1, <1>2, <1>4 DEF FlagInv, Raised
  <2>2. faults["requeues"] > 0 => faults'["requeues"] > 0
    BY CountsStay, Kinds
  <2> QED
    BY <1>2, <2>1, <2>2 DEF Flagged
<1>5. (Raised(Len(log) - 1))' => (Flagged(Len(log) - 1))'
  BY <1>1, <1>4
<1>6. pc' = "raised" => (log[Len(log)].item)' = item'
  BY <1>1, <1>2
<1> QED
  BY <1>2, <1>3, <1>5, <1>6 DEF FlagInv, Ends

LEMMA FlagStep == TypeOK /\ StreakInv /\ FlagInv /\ [Next]_vars => FlagInv'
<1> SUFFICES ASSUME TypeOK, StreakInv, FlagInv, [Next]_vars PROVE FlagInv'
  OBVIOUS
<1> USE DEF Raised
<1>1. DOMAIN log = 1 .. Len(log) /\ Len(log) \in Nat
  BY DEF TypeOK
<1>2. ASSUME UNCHANGED log, ~ Raised(Len(log)) \/ pc' \in {"sleep", "dead"}, cause' # "kill",
             pc' \notin {"kill", "raised"}
      PROVE  FlagInv'
  BY <1>2 DEF FlagInv
<1>3. ASSUME UNCHANGED <<pc, log, todo, cause>>,
             \A k \in DOMAIN log : Flagged(k) => Flagged(k)'
      PROVE  FlagInv'
  BY <1>3 DEF FlagInv
<1>4. CASE Poll
  BY <1>4 DEF Poll, FlagInv
<1>5. CASE StartPass
  BY <1>5 DEF StartPass, StreakInv, FlagInv
<1>6. CASE SkipInvalid
  BY <1>6 DEF SkipInvalid, FlagInv, Flagged
<1>7. CASE ReceiveItem \/ ReceiveUnseen \/ NotFound \/ Glitch \/ RaiseBefore \/ RaiseAfter
  BY <1>7, AttemptFlags, Kinds
  DEF ReceiveItem, ReceiveUnseen, NotFound, Glitch, RaiseBefore, RaiseAfter, Ends
<1>8. CASE MarkReceivedStatus \/ MarkReceivedMove \/ MarkNoMatch \/ Settle
  BY <1>2, <1>8 DEF MarkReceivedStatus, MarkReceivedMove, MarkNoMatch, Settle, StreakInv, FlagInv
<1>9. CASE MarkNeedsAttention
  <2>1. /\ pc = "raised" /\ todo # <<>> /\ pc' \in {"kill", "failed"} /\ cause # "kill"
        /\ set_status(item, "NEEDS_ATTENTION") /\ UNCHANGED <<todo, log, cause, faults>>
        /\ pc' = "kill" <=> consecutive + 1 >= CONSECUTIVE_FAILURE_KILL
    BY <1>9 DEF MarkNeedsAttention, TypeOK, FlagInv
  <2>2. Raised(Len(log)) /\ log[Len(log)].item = item
    BY <2>1 DEF StreakInv, FlagInv
  <2>3. Flagged(Len(log))'
    BY <2>1, <2>2, TodoFacts DEF Flagged, TypeOK
  <2>4. pc' = "kill" => Raised(Len(log) - 1)
    BY <2>1 DEF StreakInv, CONSECUTIVE_FAILURE_KILL
  <2>5. Raised(Len(log) - 1) => Flagged(Len(log) - 1)'
    BY <2>1, FlagsStay DEF FlagInv
  <2> QED
    BY <2>1, <2>2, <2>3, <2>4, <2>5 DEF FlagInv
<1>10. CASE NextAfterFailure
  BY <1>10 DEF NextAfterFailure, FlagInv, Flagged
<1>11. CASE Kill
  BY <1>11 DEF Kill, FlagInv, Flagged
<1>12. CASE EndPass \/ Restart
  BY <1>12 DEF EndPass, Restart, FlagInv
<1>13. CASE UncaughtError \/ Crash
  BY <1>13 DEF UncaughtError, Crash, Stop, FlagInv
<1>14. ASSUME NEW it \in Items, Arrive(it) \/ Automation(it) PROVE FlagInv'
  BY <1>3, <1>14 DEF Arrive, Automation, Flagged
<1>15. ASSUME NEW it \in Items, Requeue(it) PROVE FlagInv'
  <2>1. Spend("requeues") /\ UNCHANGED <<pc, log, todo, cause>>
    BY <1>15 DEF Requeue
  <2> QED
    BY <1>3, <2>1, FlagsStay
<1>16. CASE UNCHANGED vars
  BY <1>3, <1>16 DEF vars, Flagged
<1> QED
  BY <1>4, <1>5, <1>6, <1>7, <1>8, <1>9, <1>10, <1>11, <1>12, <1>13, <1>14, <1>15, <1>16
  DEF Next, Robot

(* The robot kills itself only after two attempts in a row that raised,     *)
(* with both items flagged for attention, unless an operator has put an     *)
(* item back.                                                               *)
THEOREM KillNeedsTwoFailures == Spec => []KillIsEarned
<1>1. Init => TypeOK
  BY RobotAssumption, Kinds DEF Init, TypeOK, Groups, Statuses, Steps
<1>2. Init => StreakInv /\ FlagInv
  BY DEF Init, StreakInv, NoAttemptAfterTwoFailures, FlagInv
<1>3. TypeOK /\ StreakInv /\ FlagInv /\ [Next]_vars => TypeOK' /\ StreakInv' /\ FlagInv'
  BY TypeStep, StreakStep, FlagStep
<1>4. FlagInv => KillIsEarned
  BY DEF FlagInv, Flagged, KillIsEarned
<1> QED
  BY <1>1, <1>2, <1>3, <1>4, PTL DEF Spec

-----------------------------------------------------------------------------
(* Each serial in its own slot.  The robot sorts the items of a pass by     *)
(* inventory id and the portal fills a line in an order of its own; the two *)
(* agree on lines of which this is true: an item with complete fields has a *)
(* slot to itself, and every slot that the portal fills before it has an    *)
(* item that is on the board from the start and sorts before it.            *)
LinesInOrder ==
    /\ \A i, j \in Valid : SlotOfItem[i] = SlotOfItem[j] => i = j
    /\ \A i \in Valid, t \in Slots :
          LineOfSlot[t] = LineOfSlot[SlotOfItem[i]]
            /\ PortalRank[t] < PortalRank[SlotOfItem[i]] =>
               \E j \in Valid \cap InitiallyReady : SlotOfItem[j] = t /\ SortsBefore(j, i)

(* Nothing has failed so far.                                               *)
Quiet == \A kind \in DOMAIN Bounds : faults[kind] = 0

InPass == pc \notin {"sleep", "dead"}

(* The pass is in the order of the ids.                                     *)
InOrder == \A j, k \in DOMAIN todo : SortsBefore(todo[j], todo[k]) => j < k

(* Who is in which slot, and what the board knows of it.                    *)
OwnSlots ==
    /\ \A s \in Slots : bound[s] # NoItem => bound[s] \in Valid /\ SlotOfItem[bound[s]] = s
    /\ \A it \in Entered : \/ group[it] = "RECEIVED"
                           \/ pc \in {"received", "moving"} /\ it = item

(* Who has had a turn: of the items left in a pass none is entered but the  *)
(* one in hand, and an item of the start that is not entered is left.       *)
Turns ==
    /\ \A k \in DOMAIN todo :
          InPass /\ todo[k] \in Entered => k = 1 /\ pc \in {"received", "moving", "settled"}
    /\ pc \in {"received", "moving", "settled"} => item \in Entered
    /\ \A it \in (Valid \cap InitiallyReady) \ Entered :
          group[it] = "READY" /\ (InPass => \E k \in DOMAIN todo : todo[k] = it)

(* Nothing looks like a failure.                                            *)
NoTrouble ==
    /\ pc \notin {"no_match", "raised", "failed", "kill", "dead"}
    /\ \A it \in Items : status[it] # "NEEDS_ATTENTION"

OwnInv == Quiet => NoTrouble /\ InOrder /\ Distinct /\ OwnSlots /\ Turns

(* An item that is next finds its slot open, and every slot that the portal *)
(* fills before it taken.                                                   *)
LEMMA OwnSlotIsNext ==
    ASSUME TypeOK, LinesInOrder, InOrder, OwnSlots, Turns,
           pc = "next", todo # <<>>, item \in Valid
    PROVE  /\ item \notin Entered /\ SlotOfItem[item] \in OpenSlots(item)
           /\ \A s \in Lowest(OpenSlots(item)) : s = SlotOfItem[item]
<1> DEFINE s0 == SlotOfItem[item]
<1>1. item \in Items /\ item = todo[1] /\ 1 \in DOMAIN todo
  BY TodoFacts DEF TypeOK
<1>2. s0 \in Slots
  BY <1>1, RobotAssumption
<1>3. item \notin Entered
  BY <1>1 DEF Turns, InPass
<1>4. s0 \in OpenSlots(item)
  <2>1. bound[s0] = NoItem
    <3> SUFFICES ASSUME bound[s0] # NoItem PROVE FALSE
      OBVIOUS
    <3>1. bound[s0] \in Valid /\ SlotOfItem[bound[s0]] = s0
      BY <1>2 DEF OwnSlots
    <3>2. bound[s0] = item
      BY <3>1 DEF LinesInOrder
    <3> QED
      BY <1>1, <1>2, <1>3, <3>2 DEF Entered
  <2> QED
    BY <1>2, <2>1 DEF OpenSlots
<1>5. ASSUME NEW s \in Lowest(OpenSlots(item)), s # s0 PROVE FALSE
  <2>1. s \in Slots /\ LineOfSlot[s] = LineOfSlot[s0] /\ bound[s] = NoItem
        /\ PortalRank[s] <= PortalRank[s0]
    BY <1>4, <1>5 DEF Lowest, OpenSlots
  <2>2. PortalRank[s] < PortalRank[s0]
    BY <1>2, <1>5, <2>1, RobotAssumption
  <2>3. PICK j \in Valid \cap InitiallyReady : SlotOfItem[j] = s /\ SortsBefore(j, item)
    BY <2>1, <2>2 DEF LinesInOrder
  <2>4. j \notin Entered
    <3> SUFFICES ASSUME NEW t \in Slots, bound[t] = j PROVE FALSE
      BY DEF Entered
    <3>1. j \in Items /\ bound[t] # NoItem
      BY RobotAssumption
    <3>2. t = s
      BY <2>3, <3>1 DEF OwnSlots
    <3> QED
      BY <2>1, <3>1, <3>2
  <2>5. PICK k \in DOMAIN todo : todo[k] = j
    BY <2>3, <2>4 DEF Turns, InPass
  <2>6. k < 1
    BY <1>1, <2>3, <2>5 DEF InOrder
  <2> QED
    BY <2>5, <2>6 DEF TypeOK
<1> QED
  BY <1>3, <1>4, <1>5

(* A step that enters nothing leaves the slots and who is in them.          *)
LEMMA EnteredKept == UNCHANGED bound => UNCHANGED Entered
BY DEF Entered

(* The rest of a pass is in order when the pass was.                        *)
LEMMA TailInOrder ==
    ASSUME TypeOK, todo # <<>>, Distinct, InOrder, todo' = Tail(todo)
    PROVE  /\ InOrder' /\ Distinct'
           /\ \A k \in DOMAIN todo' : \E j \in DOMAIN todo : j # 1 /\ todo'[k] = todo[j]
           /\ \A j \in DOMAIN todo : j # 1 => \E k \in DOMAIN todo' : todo'[k] = todo[j]
<1>1. todo \in Seq(Items) /\ DOMAIN todo = 1 .. Len(todo) /\ Len(todo) \in Nat \ {0}
  BY DEF TypeOK
<1>2. DOMAIN todo' = 1 .. Len(todo) - 1
  BY <1>1
<1>3. \A k \in DOMAIN todo' : k \in Nat \ {0} /\ k + 1 \in DOMAIN todo /\ todo'[k] = todo[k + 1]
  BY <1>1, TodoFacts
<1>4. ASSUME NEW j \in DOMAIN todo, j # 1 PROVE \E k \in DOMAIN todo' : todo'[k] = todo[j]
  <2>1. j - 1 \in DOMAIN todo' /\ (j - 1) + 1 = j
    BY <1>1, <1>2, <1>4
  <2> QED
    BY <1>3, <2>1
<1>5. InOrder'
  <2> SUFFICES ASSUME NEW j \in DOMAIN todo', NEW k \in DOMAIN todo',
                      SortsBefore(todo'[j], todo'[k])
               PROVE  j < k
    BY DEF InOrder, SortsBefore
  <2>1. j + 1 < k + 1
    BY <1>3 DEF InOrder
  <2> QED
    BY <1>3, <2>1
<1> QED
  BY <1>4, <1>5, TailDistinct

(* A fault is the end of the quiet.                                         *)
LEMMA QuietFacts ==
    ASSUME TypeOK
    PROVE  /\ \A kind \in DOMAIN Bounds : Spend(kind) => ~ Quiet'
           /\ UNCHANGED faults => (Quiet' <=> Quiet)
<1>1. ASSUME NEW kind \in DOMAIN Bounds, Spend(kind) PROVE ~ Quiet'
  <2>1. faults'[kind] = faults[kind] + 1 /\ faults[kind] \in Nat
    BY <1>1 DEF Spend, TypeOK
  <2>2. faults'[kind] # 0
    BY <2>1
  <2> QED
    BY <2>2 DEF Quiet
<1> QED
  BY <1>1 DEF Quiet

LEMMA OwnStep ==
    ASSUME TypeOK, LinesInOrder, OwnInv, [Next]_vars
    PROVE  OwnInv'
<1> SUFFICES ASSUME Quiet' PROVE (NoTrouble /\ InOrder /\ Distinct /\ OwnSlots /\ Turns)'
  BY DEF OwnInv
<1> USE DEF InPass
<1>1. todo # <<>> => item \in Items /\ item = todo[1] /\ 1 \in DOMAIN todo
  BY TodoFacts DEF TypeOK
<1>2. \A kind \in DOMAIN Bounds : ~ Spend(kind)
  BY QuietFacts
<1>3. ASSUME UNCHANGED faults PROVE NoTrouble /\ InOrder /\ Distinct /\ OwnSlots /\ Turns
  BY <1>3, QuietFacts DEF OwnInv
<1>4. ASSUME UNCHANGED todo PROVE UNCHANGED <<InOrder, Distinct>>
  BY <1>4 DEF InOrder, Distinct
<1>5. CASE Poll
  <2>1. /\ pc = "sleep" /\ pc' = "start" /\ todo' \in Sorted(poll_ready)
        /\ UNCHANGED <<group, status, bound, faults>>
    BY <1>5 DEF Poll
  <2>2. NoTrouble /\ OwnSlots /\ Turns
    BY <1>3, <2>1
  <2>3. InOrder' /\ Distinct'
    BY <2>1 DEF Sorted, InOrder, Distinct
  <2>4. \A k \in DOMAIN todo' : todo'[k] \in Items /\ group[todo'[k]] = "READY"
    BY <2>1, SortedType
  <2>5. \A it \in Entered : group[it] = "RECEIVED"
    BY <2>1, <2>2 DEF OwnSlots
  <2>6. \A it \in Items : group[it] = "READY" => \E k \in DOMAIN todo' : todo'[k] = it
    BY <2>1 DEF Sorted, poll_ready
  <2>7. Valid \subseteq Items
    BY RobotAssumption
  <2>8. Turns'
    BY <2>1, <2>2, <2>4, <2>5, <2>6, <2>7, EnteredKept DEF Turns
  <2> QED
    BY <2>1, <2>2, <2>3, <2>5, <2>8, EnteredKept DEF NoTrouble, OwnSlots
<1>6. CASE StartPass
  BY <1>3, <1>4, <1>6, EnteredKept DEF StartPass, NoTrouble, OwnSlots, Turns
<1>7. CASE SkipInvalid
  <2>1. /\ pc = "next" /\ pc' = "next" /\ todo # <<>> /\ todo' = Tail(todo) /\ item \notin Valid
        /\ group' = [group EXCEPT ![item] = "NO_MATCH"] /\ UNCHANGED <<status, bound, faults>>
    BY <1>7 DEF SkipInvalid
  <2>2. NoTrouble /\ InOrder /\ Distinct /\ OwnSlots /\ Turns
    BY <1>3, <2>1
  <2>3. /\ InOrder' /\ Distinct'
        /\ \A k \in DOMAIN todo' : \E j \in DOMAIN todo : j # 1 /\ todo'[k] = todo[j]
        /\ \A j \in DOMAIN todo : j # 1 => \E k \in DOMAIN todo' : todo'[k] = todo[j]
    BY <2>1, <2>2, TailInOrder
  <2>4. item \notin Entered /\ UNCHANGED Entered
    BY <1>1, <2>1, <2>2, EnteredKept DEF Turns
  <2>5. \A it \in Items \ {item} : group'[it] = group[it]
    BY <1>1, <2>1 DEF TypeOK
  <2>6. Valid \subseteq Items /\ Entered \subseteq Items
    BY RobotAssumption DEF Entered
  <2>7. OwnSlots'
    BY <2>1, <2>2, <2>4, <2>5, <2>6 DEF OwnSlots
  <2>8. Turns'
    BY <1>1, <2>1, <2>2, <2>3, <2>4, <2>5, <2>6 DEF Turns
  <2> QED
    BY <2>1, <2>2, <2>3, <2>7, <2>8 DEF NoTrouble
<1>8. CASE ReceiveItem
  <2>1. /\ pc = "next" /\ pc' = "received" /\ todo # <<>> /\ item \in Valid /\ Finalize
        /\ UNCHANGED <<todo, group, status, faults>>
    BY <1>8 DEF ReceiveItem, Attempt
  <2>2. NoTrouble /\ InOrder /\ Distinct /\ OwnSlots /\ Turns
    BY <1>3, <2>1
  <2>3. bound' = [bound EXCEPT ![SlotOfItem[item]] = item]
    BY <2>1, <2>2, OwnSlotIsNext DEF Finalize
  <2>4. Entered' = Entered \cup {item}
    BY <1>1, <2>1, FinalizeEnters
  <2>5. \A s \in Slots : bound'[s] # bound[s] => s = SlotOfItem[item] /\ bound'[s] = item
    BY <2>3 DEF TypeOK
  <2>6. OwnSlots'
    BY <2>1, <2>2, <2>4, <2>5 DEF OwnSlots
  <2>7. \A k \in DOMAIN todo : todo[k] = item => k = 1
    BY <1>1, <2>1, <2>2 DEF Distinct
  <2>8. Turns'
    BY <2>1, <2>2, <2>4, <2>7 DEF Turns
  <2> QED
    BY <1>4, <2>1, <2>2, <2>6, <2>8 DEF NoTrouble
<1>9. CASE NotFound
  <2>1. /\ pc = "next" /\ todo # <<>> /\ item \in Valid /\ OpenSlots(item) = {} /\ UNCHANGED faults
    BY <1>9 DEF NotFound, Attempt
  <2> QED
    BY <1>3, <2>1, OwnSlotIsNext
<1>10. CASE ReceiveUnseen \/ Glitch \/ RaiseBefore \/ RaiseAfter \/ UncaughtError \/ Crash
  BY <1>2, <1>10, Kinds DEF ReceiveUnseen, Glitch, RaiseBefore, RaiseAfter, UncaughtError, Crash
<1>11. CASE MarkReceivedStatus
  <2>1. /\ pc = "received" /\ pc' = "moving" /\ todo # <<>>
        /\ status' = [status EXCEPT ![item] = "RECEIVED"]
        /\ UNCHANGED <<todo, group, bound, faults>>
    BY <1>11 DEF MarkReceivedStatus, TypeOK
  <2>2. NoTrouble /\ InOrder /\ Distinct /\ OwnSlots /\ Turns
    BY <1>3, <2>1
  <2>3. \A it \in Items : status'[it] # "NEEDS_ATTENTION"
    BY <1>1, <2>1, <2>2 DEF NoTrouble, TypeOK
  <2> QED
    BY <1>4, <2>1, <2>2, <2>3, EnteredKept DEF NoTrouble, OwnSlots, Turns
<1>12. CASE MarkReceivedMove
  <2>1. /\ pc = "moving" /\ pc' = "settled" /\ todo # <<>>
        /\ group' = [group EXCEPT ![item] = "RECEIVED"]
        /\ UNCHANGED <<todo, status, bound, faults>>
    BY <1>12 DEF MarkReceivedMove, TypeOK
  <2>2. NoTrouble /\ InOrder /\ Distinct /\ OwnSlots /\ Turns
    BY <1>3, <2>1
  <2>3. group'[item] = "RECEIVED" /\ \A it \in Items \ {item} : group'[it] = group[it]
    BY <1>1, <2>1 DEF TypeOK
  <2>4. item \in Entered /\ UNCHANGED Entered /\ Entered \subseteq Items /\ Valid \subseteq Items
    BY <2>1, <2>2, EnteredKept, RobotAssumption DEF Turns, Entered
  <2>5. OwnSlots'
    BY <2>1, <2>2, <2>3, <2>4 DEF OwnSlots
  <2>6. Turns'
    BY <2>1, <2>2, <2>3, <2>4 DEF Turns
  <2> QED
    BY <1>4, <2>1, <2>2, <2>5, <2>6 DEF NoTrouble
<1>13. CASE Settle
  <2>1. /\ pc = "settled" /\ pc' = "next" /\ todo # <<>> /\ todo' = Tail(todo)
        /\ UNCHANGED <<group, status, bound, faults>>
    BY <1>13 DEF Settle, TypeOK
  <2>2. NoTrouble /\ InOrder /\ Distinct /\ OwnSlots /\ Turns
    BY <1>3, <2>1
  <2>3. /\ InOrder' /\ Distinct'
        /\ \A k \in DOMAIN todo' : \E j \in DOMAIN todo : j # 1 /\ todo'[k] = todo[j]
        /\ \A j \in DOMAIN todo : j # 1 => \E k \in DOMAIN todo' : todo'[k] = todo[j]
    BY <2>1, <2>2, TailInOrder
  <2>4. item \in Entered /\ UNCHANGED Entered
    BY <2>1, <2>2, EnteredKept DEF Turns
  <2>5. OwnSlots'
    BY <2>1, <2>2, <2>4 DEF OwnSlots
  <2>6. Turns'
    BY <1>1, <2>1, <2>2, <2>3, <2>4 DEF Turns
  <2> QED
    BY <2>1, <2>2, <2>3, <2>5, <2>6 DEF NoTrouble
<1>14. CASE MarkNoMatch \/ MarkNeedsAttention \/ NextAfterFailure \/ Kill \/ Restart
  <2>1. UNCHANGED faults /\ pc \in {"no_match", "raised", "failed", "kill", "dead"}
    BY <1>14 DEF MarkNoMatch, MarkNeedsAttention, NextAfterFailure, Kill, Restart
  <2> QED
    BY <1>3, <2>1 DEF NoTrouble
<1>15. CASE EndPass
  <2>1. /\ pc = "next" /\ pc' = "sleep" /\ UNCHANGED <<group, status, bound, todo, faults>>
    BY <1>15 DEF EndPass
  <2> QED
    BY <1>3, <1>4, <2>1, EnteredKept DEF NoTrouble, OwnSlots, Turns
<1>16. ASSUME NEW it \in Items, Arrive(it)
       PROVE  (NoTrouble /\ InOrder /\ Distinct /\ OwnSlots /\ Turns)'
  <2>1. /\ group[it] = "absent" /\ group' = [group EXCEPT ![it] = "READY"]
        /\ UNCHANGED <<pc, todo, status, bound, faults>>
    BY <1>16 DEF Arrive
  <2>2. NoTrouble /\ InOrder /\ Distinct /\ OwnSlots /\ Turns
    BY <1>3, <2>1
  <2>3. \A i \in Items : i # it => group'[i] = group[i]
    BY <2>1 DEF TypeOK
  <2>4. UNCHANGED Entered /\ Entered \subseteq Items /\ Valid \subseteq Items
    BY <2>1, EnteredKept, RobotAssumption DEF Entered
  <2>5. OwnSlots'
    BY <2>1, <2>2, <2>3, <2>4 DEF OwnSlots
  <2>6. Turns'
    BY <2>1, <2>2, <2>3, <2>4 DEF Turns
  <2> QED
    BY <1>4, <2>1, <2>2, <2>5, <2>6 DEF NoTrouble
<1>17. ASSUME NEW it \in Items, Automation(it) PROVE FALSE
  <2>1. UNCHANGED faults /\ status[it] = "NEEDS_ATTENTION"
    BY <1>17 DEF Automation
  <2> QED
    BY <1>3, <2>1 DEF NoTrouble
<1>18. ASSUME NEW it \in Items, Requeue(it) PROVE FALSE
  BY <1>2, <1>18, Kinds DEF Requeue
<1>19. CASE UNCHANGED vars
  BY <1>3, <1>4, <1>19, EnteredKept DEF vars, NoTrouble, OwnSlots, Turns
<1> QED
  BY <1>5, <1>6, <1>7, <1>8, <1>9, <1>10, <1>11, <1>12, <1>13, <1>14, <1>15, <1>16, <1>17,
     <1>18, <1>19 DEF Next, Robot

(* Items go lowest id first so that the portal, which takes no id, binds    *)
(* each serial to its own: on lines in order it does, for any number of     *)
(* items, passes and late arrivals, as long as nothing fails.               *)
THEOREM EachSerialInItsSlot == LinesInOrder => (Spec => []BoundToOwnSlot)
<1> SUFFICES ASSUME LinesInOrder PROVE Spec => []BoundToOwnSlot
  OBVIOUS
<1>1. Init => TypeOK
  BY RobotAssumption, Kinds DEF Init, TypeOK, Groups, Statuses, Steps
<1>2. Init => OwnInv
  <2> SUFFICES ASSUME Init PROVE NoTrouble /\ InOrder /\ Distinct /\ OwnSlots /\ Turns
    BY DEF OwnInv
  <2>1. Entered = {} /\ DOMAIN todo = {} /\ \A s \in Slots : bound[s] = NoItem
    BY RobotAssumption DEF Init, Entered
  <2>2. \A it \in InitiallyReady : group[it] = "READY"
    BY RobotAssumption DEF Init
  <2>3. \A it \in Items : status[it] = "READY"
    BY DEF Init
  <2> QED
    BY <2>1, <2>2, <2>3 DEF Init, NoTrouble, InOrder, Distinct, OwnSlots, Turns, InPass
<1>3. TypeOK /\ OwnInv /\ [Next]_vars => TypeOK' /\ OwnInv'
  BY TypeStep, OwnStep
<1>4. OwnInv => BoundToOwnSlot
  BY DEF OwnInv, Quiet, OwnSlots, BoundToOwnSlot
<1> QED
  BY <1>1, <1>2, <1>3, <1>4, PTL DEF Spec
=============================================================================
