------------------------- MODULE BatchAuctionProofs -------------------------
(***************************************************************************)
(* Theorems about BatchAuction, for any number of orders and any bounds;   *)
(* for any number of timers unless a theorem assumes a single one.         *)
(***************************************************************************)
EXTENDS BatchAuction, FiniteSetTheorems, SequenceTheorems, TLAPS

-----------------------------------------------------------------------------
(* What the statements of Store return *)

\* A statement on orders returns a table of orders.
LEMMA OrderTables ==
    ASSUME NEW rows \in [Orders -> OrderRow]
    PROVE  /\ \A o \in Orders, n \in Nat : InsertOrderRow(rows, o, n) \in [Orders -> OrderRow]
           /\ \A o \in Orders : CancelRow(rows, o) \in [Orders -> OrderRow]
           /\ \A S : ExpireOrders(rows, S) \in [Orders -> OrderRow]
           /\ \A S : \A b \in Nat : AssignToBatch(rows, S, b) \in [Orders -> OrderRow]
           /\ \A b : \A st \in OrderStatus :
                 UpdateBatchOrdersStatus(rows, b, st) \in [Orders -> OrderRow]
<1>1. ASSUME NEW o \in Orders, NEW n \in Nat
      PROVE  InsertOrderRow(rows, o, n) \in [Orders -> OrderRow]
  BY DEF InsertOrderRow, OrderRow, OrderStatus, NoBatch
<1>2. ASSUME NEW o \in Orders
      PROVE  CancelRow(rows, o) \in [Orders -> OrderRow]
  BY DEF CancelRow, OrderRow, OrderStatus
<1>3. ASSUME NEW S
      PROVE  ExpireOrders(rows, S) \in [Orders -> OrderRow]
  BY DEF ExpireOrders, OrderRow, OrderStatus
<1>4. ASSUME NEW S, NEW b \in Nat
      PROVE  AssignToBatch(rows, S, b) \in [Orders -> OrderRow]
  BY DEF AssignToBatch, OrderRow, OrderStatus
<1>5. ASSUME NEW b, NEW st \in OrderStatus
      PROVE  UpdateBatchOrdersStatus(rows, b, st) \in [Orders -> OrderRow]
  BY DEF UpdateBatchOrdersStatus, OrderRow
<1>6. QED BY <1>1, <1>2, <1>3, <1>4, <1>5

\* What a statement does to the status and to the batch of a row.
LEMMA OrderEffects ==
    ASSUME NEW rows \in [Orders -> OrderRow], NEW p \in Orders
    PROVE  /\ \A o \in Orders :
                 /\ \A n : /\ InsertOrderRow(rows, o, n)[p].status =
                                 IF p = o THEN "open" ELSE rows[p].status
                           /\ InsertOrderRow(rows, o, n)[p].batch =
                                 IF p = o THEN NoBatch ELSE rows[p].batch
                 /\ CancelRow(rows, o)[p].status =
                       IF p = o /\ rows[p].status = "open"
                       THEN "cancelled" ELSE rows[p].status
                 /\ CancelRow(rows, o)[p].batch = rows[p].batch
           /\ \A S : /\ ExpireOrders(rows, S)[p].status =
                           IF rows[p].status = "open" /\ p \in S
                           THEN "expired" ELSE rows[p].status
                     /\ ExpireOrders(rows, S)[p].batch = rows[p].batch
           /\ \A S, b : /\ AssignToBatch(rows, S, b)[p].status =
                              IF p \in S /\ rows[p].status = "open"
                              THEN "matched" ELSE rows[p].status
                        /\ AssignToBatch(rows, S, b)[p].batch =
                              IF p \in S /\ rows[p].status = "open"
                              THEN b ELSE rows[p].batch
           /\ \A b, st : /\ UpdateBatchOrdersStatus(rows, b, st)[p].status =
                               IF rows[p].batch = b THEN st ELSE rows[p].status
                         /\ UpdateBatchOrdersStatus(rows, b, st)[p].batch = rows[p].batch
<1> USE DEF OrderRow
<1>1. ASSUME NEW o \in Orders, NEW n
      PROVE  /\ InsertOrderRow(rows, o, n)[p].status =
                   IF p = o THEN "open" ELSE rows[p].status
             /\ InsertOrderRow(rows, o, n)[p].batch =
                   IF p = o THEN NoBatch ELSE rows[p].batch
  BY DEF InsertOrderRow
<1>2. ASSUME NEW o \in Orders
      PROVE  /\ CancelRow(rows, o)[p].status =
                   IF p = o /\ rows[p].status = "open"
                   THEN "cancelled" ELSE rows[p].status
             /\ CancelRow(rows, o)[p].batch = rows[p].batch
  BY DEF CancelRow
<1>3. ASSUME NEW S
      PROVE  /\ ExpireOrders(rows, S)[p].status =
                   IF rows[p].status = "open" /\ p \in S
                   THEN "expired" ELSE rows[p].status
             /\ ExpireOrders(rows, S)[p].batch = rows[p].batch
  BY DEF ExpireOrders
<1>4. ASSUME NEW S, NEW b
      PROVE  /\ AssignToBatch(rows, S, b)[p].status =
                   IF p \in S /\ rows[p].status = "open"
                   THEN "matched" ELSE rows[p].status
             /\ AssignToBatch(rows, S, b)[p].batch =
                   IF p \in S /\ rows[p].status = "open"
                   THEN b ELSE rows[p].batch
  BY DEF AssignToBatch
<1>5. ASSUME NEW b, NEW st
      PROVE  /\ UpdateBatchOrdersStatus(rows, b, st)[p].status =
                   IF rows[p].batch = b THEN st ELSE rows[p].status
             /\ UpdateBatchOrdersStatus(rows, b, st)[p].batch = rows[p].batch
  BY DEF UpdateBatchOrdersStatus
<1>6. QED BY <1>1, <1>2, <1>3, <1>4, <1>5

\* CreateBatch adds one collecting batch after those there are.
LEMMA CreateBatchRows ==
    ASSUME NEW rows \in Seq(BatchRow)
    PROVE  /\ CreateBatch(rows) \in Seq(BatchRow)
           /\ Len(rows) \in Nat
           /\ DOMAIN rows = 1..Len(rows)
           /\ DOMAIN CreateBatch(rows) = 1..(Len(rows) + 1)
           /\ \A b \in DOMAIN rows : CreateBatch(rows)[b] = rows[b]
           /\ CreateBatch(rows)[Len(rows) + 1] = NewBatch
<1>1. NewBatch \in BatchRow
  BY DEF NewBatch, BatchRow, BatchStatus
<1>2. QED BY <1>1, AppendProperties, LenProperties DEF CreateBatch

\* UpdateBatchStatus changes the status of one batch and nothing else.
LEMMA UpdateBatchStatusRows ==
    ASSUME NEW rows \in Seq(BatchRow), NEW b \in Nat, NEW st \in BatchStatus
    PROVE  /\ UpdateBatchStatus(rows, b, st) \in Seq(BatchRow)
           /\ DOMAIN UpdateBatchStatus(rows, b, st) = DOMAIN rows
           /\ \A c \in DOMAIN rows :
                 UpdateBatchStatus(rows, b, st)[c].status =
                    IF c = b THEN st ELSE rows[c].status
<1>1. /\ DOMAIN rows = 1..Len(rows)
      /\ rows \in [1..Len(rows) -> BatchRow]
      /\ Len(rows) \in Nat
  BY LenProperties
<1>2. CASE b \in DOMAIN rows
  <2> DEFINE row == [rows[b] EXCEPT !.status = st]
  <2>1. row \in BatchRow
    BY <1>1, <1>2 DEF BatchRow
  <2>2. UpdateBatchStatus(rows, b, st) = [rows EXCEPT ![b] = row]
    BY DEF UpdateBatchStatus
  <2>3. UpdateBatchStatus(rows, b, st) \in Seq(BatchRow)
    BY <1>1, <1>2, <2>1, <2>2, ExceptSeq
  <2>4. QED BY <1>1, <1>2, <2>1, <2>2, <2>3 DEF BatchRow
<1>3. CASE b \notin DOMAIN rows
  <2>1. UpdateBatchStatus(rows, b, st) = rows
    BY <1>1, <1>3 DEF UpdateBatchStatus
  <2>2. QED BY <1>3, <2>1
<1>4. QED BY <1>2, <1>3

\* MarkBatchSolved leaves every status as it is.
LEMMA MarkBatchSolvedRows ==
    ASSUME NEW rows \in Seq(BatchRow), NEW b \in Nat, NEW n \in Nat
    PROVE  /\ MarkBatchSolved(rows, b, n) \in Seq(BatchRow)
           /\ DOMAIN MarkBatchSolved(rows, b, n) = DOMAIN rows
           /\ \A c \in DOMAIN rows :
                 MarkBatchSolved(rows, b, n)[c].status = rows[c].status
<1>1. /\ DOMAIN rows = 1..Len(rows)
      /\ rows \in [1..Len(rows) -> BatchRow]
      /\ Len(rows) \in Nat
  BY LenProperties
<1>2. CASE b \in DOMAIN rows
  <2> DEFINE row == [rows[b] EXCEPT !.solved = TRUE, !.count = n]
  <2>1. row \in BatchRow /\ row.status = rows[b].status
    BY <1>1, <1>2 DEF BatchRow
  <2>2. MarkBatchSolved(rows, b, n) = [rows EXCEPT ![b] = row]
    BY DEF MarkBatchSolved
  <2>3. MarkBatchSolved(rows, b, n) \in Seq(BatchRow)
    BY <1>1, <1>2, <2>1, <2>2, ExceptSeq
  <2>4. QED BY <1>1, <1>2, <2>1, <2>2, <2>3
<1>3. CASE b \notin DOMAIN rows
  <2>1. MarkBatchSolved(rows, b, n) = rows
    BY <1>1, <1>3 DEF MarkBatchSolved
  <2>2. QED BY <2>1
<1>4. QED BY <1>2, <1>3

-----------------------------------------------------------------------------
(* Type correctness *)

\* Leaving close_and_solve resets the locals to values of their types.
LEMMA LeaveType ==
    ASSUME TypeOK, NEW t \in Timers, NEW label \in Labels, Leave(t, label)
    PROVE  /\ pc' \in [Timers -> Labels]
           /\ cur' \in [Timers -> Nat]
           /\ snap' \in [Timers -> SUBSET Orders]
           /\ plan' \in [Timers -> SUBSET Orders]
           /\ late' \in [Timers -> SUBSET Orders]
  BY DEF TypeOK, Leave, Goto, NoBatch

\* A step of the order API or of the clock preserves the types.
LEMMA ClientType ==
    ASSUME TypeOK, NEW o \in Orders, Client(o)
    PROVE  TypeOK'
<1> USE DEF TypeOK, tables, api, locals, limits
<1>1. CASE SubmitOrder(o)
  <2> DEFINE n == Cardinality({p \in Orders : started[p] # 0}) + 1
  <2>1. n \in Nat
    BY OrdersAssumption, FS_Subset, FS_CardinalityType
  <2>2. started' = [started EXCEPT ![o] = n]
    BY <1>1 DEF SubmitOrder
  <2> HIDE DEF n
  <2>3. QED BY <1>1, <2>1, <2>2 DEF SubmitOrder
<1>2. CASE InsertOrder(o)
  BY <1>2, OrderTables DEF InsertOrder
<1>3. CASE RequestCancel(o)
  BY <1>3 DEF RequestCancel
<1>4. CASE CancelOrder(o)
  BY <1>4, OrderTables DEF CancelOrder
<1>5. CASE Lapse(o)
  BY <1>5 DEF Lapse
<1>6. QED BY <1>1, <1>2, <1>3, <1>4, <1>5 DEF Client

\* A step of a timer preserves the types.
LEMMA TimerStepType ==
    ASSUME TypeOK, NEW t \in Timers, TimerStep(t)
    PROVE  TypeOK'
<1> USE DEF TypeOK, tables, api, locals, limits, Goto, Labels, CycleLabels, EnsureLabels
<1>1. CASE EnsureFound(t)
  BY <1>1 DEF EnsureFound
<1>2. CASE EnsureMissing(t)
  BY <1>2 DEF EnsureMissing
<1>3. CASE EnsureCreate(t)
  BY <1>3, CreateBatchRows DEF EnsureCreate
<1>4. CASE Tick(t)
  BY <1>4 DEF Tick
<1>5. CASE FindCurrent(t)
  <2>1. \A b \in DOMAIN batches : b \in Nat
    BY LenProperties
  <2>2. cur' \in [Timers -> Nat]
    BY <1>5, <2>1 DEF FindCurrent
  <2>3. QED BY <1>5, <2>2 DEF FindCurrent
<1>6. CASE CreateCurrent(t)
  BY <1>6, CreateBatchRows DEF CreateCurrent
<1>7. CASE Expire(t)
  BY <1>7, OrderTables DEF Expire
<1>8. CASE Fetch(t)
  <2>1. FindOpenUnassigned(orders, lapsed, BatchLimit) \in SUBSET Orders
    BY DEF FindOpenUnassigned, OpenUnassigned
  <2>2. QED BY <1>8, <2>1 DEF Fetch
<1>9. CASE Assign(t)
  BY <1>9, OrderTables DEF Assign
<1>10. CASE Close(t)
  BY <1>10, UpdateBatchStatusRows DEF Close, BatchStatus
<1>11. CASE Compete(t)
  <2>1. \A trades \in Solutions(snap[t]) : trades \in SUBSET Orders
    BY DEF Solutions, Matchable
  <2>2. plan' \in [Timers -> SUBSET Orders]
    <3>1. CASE \E trades \in Solutions(snap[t]) : plan' = [plan EXCEPT ![t] = trades]
      BY <2>1, <3>1
    <3>2. QED BY <1>11, <3>1 DEF Compete
  <2>3. pc' \in [Timers -> Labels]
    BY <1>11 DEF Compete
  <2>4. QED BY <1>11, <2>2, <2>3 DEF Compete
<1>12. CASE Persist(t)
  <2>1. [batch |-> cur[t], trades |-> plan[t]] \in SettlementRow
    BY DEF SettlementRow
  <2>2. QED BY <1>12, <2>1 DEF Persist, InsertSettlement
<1>13. CASE PersistConflict(t)
  BY <1>13, LeaveType DEF PersistConflict
<1>14. CASE MarkSolved(t)
  <2>1. Cardinality(snap[t]) \in Nat
    BY OrdersAssumption, FS_Subset, FS_CardinalityType
  <2>2. QED BY <1>14, <2>1, MarkBatchSolvedRows DEF MarkSolved
<1>15. CASE Settle(t)
  BY <1>15, UpdateBatchStatusRows DEF Settle, BatchStatus
<1>16. CASE SettleOrders(t)
  BY <1>16, OrderTables DEF SettleOrders, OrderStatus
<1>17. CASE FailBatch(t)
  BY <1>17, UpdateBatchStatusRows DEF FailBatch, BatchStatus
<1>18. CASE Reopen(t)
  BY <1>18, OrderTables DEF Reopen, OrderStatus
<1>19. CASE CreateNext(t)
  BY <1>19, CreateBatchRows, LeaveType DEF CreateNext
<1>20. QED
  BY <1>1, <1>2, <1>3, <1>4, <1>5, <1>6, <1>7, <1>8, <1>9, <1>10, <1>11, <1>12,
     <1>13, <1>14, <1>15, <1>16, <1>17, <1>18, <1>19 DEF TimerStep, Statement

\* A failure or a restart preserves the types.
LEMMA FailureType ==
    ASSUME TypeOK, NEW t \in Timers, Failure(t) \/ Restart(t)
    PROVE  TypeOK'
<1> USE BoundsAssumption
    DEF TypeOK, tables, api, locals, limits, Goto, Labels, CycleLabels, EnsureLabels
<1>1. CASE StatementFails(t)
  BY <1>1, LeaveType DEF StatementFails, CountFault
<1>2. CASE EnsureFails(t)
  BY <1>2 DEF EnsureFails, CountFault
<1>3. CASE SolverPanics(t)
  BY <1>3, LeaveType DEF SolverPanics, CountPanic
<1>4. CASE Crash(t)
  BY <1>4, LeaveType DEF Crash, CountFault
<1>5. CASE Restart(t)
  BY <1>5 DEF Restart
<1>6. QED BY <1>1, <1>2, <1>3, <1>4, <1>5 DEF Failure

\* TypeOK is inductive.
LEMMA TypeStep ==
    ASSUME TypeOK, [Next]_vars
    PROVE  TypeOK'
<1>1. CASE \E o \in Orders : Client(o)
  BY <1>1, ClientType
<1>2. CASE \E t \in Timers : TimerStep(t)
  BY <1>2, TimerStepType
<1>3. CASE \E t \in Timers : Failure(t) \/ Restart(t)
  BY <1>3, FailureType
<1>4. CASE UNCHANGED vars
  BY <1>4 DEF TypeOK, vars, tables, api, locals, limits
<1>5. QED BY <1>1, <1>2, <1>3, <1>4 DEF Next

LEMMA TypeInit == Init => TypeOK
<1>1. \A o \in Orders : NoOrder \in OrderRow
  BY DEF NoOrder, OrderRow, OrderStatus, NoBatch
<1>2. QED
  BY <1>1, EmptySeq DEF Init, TypeOK, NoBatch, Labels, EnsureLabels

\* Every variable keeps its type: the tables hold rows of the schema (a status
\* of the enum, a batch id), and a timer is at one of its statements.
THEOREM TypeCorrectness == Spec => []TypeOK
<1>1. TypeOK /\ [Next]_vars => TypeOK'
  BY TypeStep
<1>2. QED BY TypeInit, <1>1, PTL DEF Spec

-----------------------------------------------------------------------------
(* What the actions do to the tables *)

LEMMA OrderSteps ==
    ASSUME TypeOK, NEW p \in Orders
    PROVE  /\ \A o \in Orders : InsertOrder(o) =>
                 /\ orders'[p].status = IF p = o THEN "open" ELSE orders[p].status
                 /\ orders'[p].batch = IF p = o THEN NoBatch ELSE orders[p].batch
           /\ \A o \in Orders : CancelOrder(o) =>
                 /\ orders'[p].status = IF p = o /\ orders[p].status = "open"
                                        THEN "cancelled" ELSE orders[p].status
                 /\ orders'[p].batch = orders[p].batch
           /\ \A t \in Timers : Expire(t) =>
                 /\ orders'[p].status = IF orders[p].status = "open" /\ p \in lapsed
                                        THEN "expired" ELSE orders[p].status
                 /\ orders'[p].batch = orders[p].batch
           /\ \A t \in Timers : Assign(t) =>
                 /\ orders'[p].status = IF p \in snap[t] /\ orders[p].status = "open"
                                        THEN "matched" ELSE orders[p].status
                 /\ orders'[p].batch = IF p \in snap[t] /\ orders[p].status = "open"
                                       THEN cur[t] ELSE orders[p].batch
           /\ \A t \in Timers : SettleOrders(t) =>
                 /\ orders'[p].status = IF orders[p].batch = cur[t]
                                        THEN "settled" ELSE orders[p].status
                 /\ orders'[p].batch = orders[p].batch
           /\ \A t \in Timers : Reopen(t) =>
                 /\ orders'[p].status = IF orders[p].batch = cur[t]
                                        THEN "open" ELSE orders[p].status
                 /\ orders'[p].batch = orders[p].batch
<1>1. orders \in [Orders -> OrderRow]
  BY DEF TypeOK
<1>2. ASSUME NEW o \in Orders, InsertOrder(o)
      PROVE  /\ orders'[p].status = IF p = o THEN "open" ELSE orders[p].status
             /\ orders'[p].batch = IF p = o THEN NoBatch ELSE orders[p].batch
  BY <1>1, <1>2, OrderEffects DEF InsertOrder
<1>3. ASSUME NEW o \in Orders, CancelOrder(o)
      PROVE  /\ orders'[p].status = IF p = o /\ orders[p].status = "open"
                                    THEN "cancelled" ELSE orders[p].status
             /\ orders'[p].batch = orders[p].batch
  BY <1>1, <1>3, OrderEffects DEF CancelOrder
<1>4. ASSUME NEW t \in Timers, Expire(t)
      PROVE  /\ orders'[p].status = IF orders[p].status = "open" /\ p \in lapsed
                                    THEN "expired" ELSE orders[p].status
             /\ orders'[p].batch = orders[p].batch
  BY <1>1, <1>4, OrderEffects DEF Expire
<1>5. ASSUME NEW t \in Timers, Assign(t)
      PROVE  /\ orders'[p].status = IF p \in snap[t] /\ orders[p].status = "open"
                                    THEN "matched" ELSE orders[p].status
             /\ orders'[p].batch = IF p \in snap[t] /\ orders[p].status = "open"
                                   THEN cur[t] ELSE orders[p].batch
  BY <1>1, <1>5, OrderEffects DEF Assign
<1>6. ASSUME NEW t \in Timers, SettleOrders(t)
      PROVE  /\ orders'[p].status = IF orders[p].batch = cur[t]
                                    THEN "settled" ELSE orders[p].status
             /\ orders'[p].batch = orders[p].batch
  BY <1>1, <1>6, OrderEffects DEF SettleOrders
<1>7. ASSUME NEW t \in Timers, Reopen(t)
      PROVE  /\ orders'[p].status = IF orders[p].batch = cur[t]
                                    THEN "open" ELSE orders[p].status
             /\ orders'[p].batch = orders[p].batch
  BY <1>1, <1>7, OrderEffects DEF Reopen
<1>8. QED BY <1>2, <1>3, <1>4, <1>5, <1>6, <1>7

\* A step that creates a batch.
LEMMA CreateSteps ==
    ASSUME TypeOK, NEW t \in Timers,
           EnsureCreate(t) \/ CreateCurrent(t) \/ CreateNext(t)
    PROVE  /\ Len(batches) + 1 \notin DOMAIN batches
           /\ DOMAIN batches' = DOMAIN batches \cup {Len(batches) + 1}
           /\ \A b \in DOMAIN batches : batches'[b] = batches[b]
           /\ batches'[Len(batches) + 1].status = "collecting"
<1>1. batches \in Seq(BatchRow)
  BY DEF TypeOK
<1>2. batches' = CreateBatch(batches)
  BY DEF EnsureCreate, CreateCurrent, CreateNext
<1>3. /\ Len(batches) \in Nat
      /\ DOMAIN batches = 1..Len(batches)
      /\ DOMAIN batches' = 1..(Len(batches) + 1)
      /\ \A b \in DOMAIN batches : batches'[b] = batches[b]
      /\ batches'[Len(batches) + 1] = NewBatch
  BY <1>1, <1>2, CreateBatchRows
<1>4. QED BY <1>3 DEF NewBatch

\* A step that writes the status of the timer's batch.
LEMMA BatchSteps ==
    ASSUME TypeOK, NEW t \in Timers,
           Close(t) \/ MarkSolved(t) \/ Settle(t) \/ FailBatch(t)
    PROVE  /\ DOMAIN batches' = DOMAIN batches
           /\ \A b \in DOMAIN batches :
                 /\ b # cur[t] => batches'[b].status = batches[b].status
                 /\ Close(t) /\ b = cur[t] => batches'[b].status = "solving"
                 /\ MarkSolved(t) => batches'[b].status = batches[b].status
                 /\ Settle(t) /\ b = cur[t] => batches'[b].status = "settled"
                 /\ FailBatch(t) /\ b = cur[t] => batches'[b].status = "failed"
<1>1. batches \in Seq(BatchRow) /\ cur[t] \in Nat
  BY DEF TypeOK
<1>2. /\ Close(t) => pc[t] = "close"
      /\ MarkSolved(t) => pc[t] = "markSolved"
      /\ Settle(t) => pc[t] = "settle"
      /\ FailBatch(t) => pc[t] = "fail"
  BY DEF Close, MarkSolved, Settle, FailBatch
<1>3. \A st \in BatchStatus :
        /\ DOMAIN UpdateBatchStatus(batches, cur[t], st) = DOMAIN batches
        /\ \A b \in DOMAIN batches :
              UpdateBatchStatus(batches, cur[t], st)[b].status =
                 IF b = cur[t] THEN st ELSE batches[b].status
  BY <1>1, UpdateBatchStatusRows
<1>4. {"solving", "settled", "failed"} \subseteq BatchStatus
  BY DEF BatchStatus
<1>5. CASE Close(t)
  <2>1. batches' = UpdateBatchStatus(batches, cur[t], "solving")
    BY <1>5 DEF Close
  <2>2. QED BY <1>2, <1>3, <1>4, <1>5, <2>1
<1>6. CASE MarkSolved(t)
  <2>1. batches' = MarkBatchSolved(batches, cur[t], Cardinality(snap[t]))
    BY <1>6 DEF MarkSolved
  <2>2. Cardinality(snap[t]) \in Nat
    BY OrdersAssumption, FS_Subset, FS_CardinalityType DEF TypeOK
  <2>3. QED BY <1>1, <1>2, <1>6, <2>1, <2>2, MarkBatchSolvedRows
<1>7. CASE Settle(t)
  <2>1. batches' = UpdateBatchStatus(batches, cur[t], "settled")
    BY <1>7 DEF Settle
  <2>2. QED BY <1>2, <1>3, <1>4, <1>7, <2>1
<1>8. CASE FailBatch(t)
  <2>1. batches' = UpdateBatchStatus(batches, cur[t], "failed")
    BY <1>8 DEF FailBatch
  <2>2. QED BY <1>2, <1>3, <1>4, <1>8, <2>1
<1>9. QED BY <1>5, <1>6, <1>7, <1>8

-----------------------------------------------------------------------------
(* The rows of the table orders                                            *)

\* The statements that write the rows of a batch have one in hand.
BatchesInHand ==
    \A t \in Timers : pc[t] \in {"assign", "settleOrders", "reopen"} => cur[t] \in DOMAIN batches

LEMMA NoBatchIsNone == TypeOK => NoBatch \notin DOMAIN batches
  BY LenProperties DEF TypeOK, NoBatch

\* Nothing deletes a batch.
LEMMA BatchesGrow ==
    ASSUME TypeOK, [Next]_vars
    PROVE  DOMAIN batches \subseteq DOMAIN batches'
<1>1. CASE batches' = batches
  BY <1>1
<1>2. CASE \E t \in Timers : EnsureCreate(t) \/ CreateCurrent(t) \/ CreateNext(t)
  BY <1>2, CreateSteps
<1>3. CASE \E t \in Timers : Close(t) \/ MarkSolved(t) \/ Settle(t) \/ FailBatch(t)
  BY <1>3, BatchSteps
<1>4. \/ batches' = batches
      \/ \E t \in Timers : EnsureCreate(t) \/ CreateCurrent(t) \/ CreateNext(t)
      \/ \E t \in Timers : Close(t) \/ MarkSolved(t) \/ Settle(t) \/ FailBatch(t)
  BY DEF Next, vars, tables, Client, SubmitOrder, InsertOrder, RequestCancel,
         CancelOrder, Lapse, Restart, TimerStep, EnsureFound, EnsureMissing,
         Tick, Statement, FindCurrent, Expire, Fetch, Assign, Compete, Persist,
         PersistConflict, SettleOrders, Reopen,
         Failure, StatementFails, EnsureFails, SolverPanics, Crash
<1>5. QED BY <1>1, <1>2, <1>3, <1>4

\* What a step may do to a row: insert it, or move it on.  An order that is
\* open and in no batch was so before, or is the one inserted.
LEMMA RowSteps ==
    ASSUME TypeOK, RowsWellFormed, BatchesInHand, [Next]_vars, NEW p \in Orders
    PROVE  \/ InsertOrder(p)
           \/ /\ orders[p].status = "absent" <=> orders'[p].status = "absent"
              /\ orders'[p].batch # NoBatch => \/ orders'[p].batch = orders[p].batch
                                               \/ /\ orders[p].status # "absent"
                                                  /\ orders'[p].batch \in DOMAIN batches
              /\ orders'[p].status = "open" /\ orders'[p].batch = NoBatch
                    => orders[p].status = "open" /\ orders[p].batch = NoBatch
<1>1. CASE orders' = orders
  BY <1>1
<1>2. ASSUME NEW o \in Orders, InsertOrder(o), o # p
      PROVE  orders'[p].status = orders[p].status /\ orders'[p].batch = orders[p].batch
  BY <1>2, OrderSteps
<1>3. ASSUME NEW o \in Orders, CancelOrder(o)
      PROVE  /\ orders'[p].batch = orders[p].batch
             /\ orders'[p].status # orders[p].status =>
                   orders[p].status = "open" /\ orders'[p].status = "cancelled"
  BY <1>3, OrderSteps
<1>4. ASSUME NEW t \in Timers, Expire(t)
      PROVE  /\ orders'[p].batch = orders[p].batch
             /\ orders'[p].status # orders[p].status =>
                   orders[p].status = "open" /\ orders'[p].status = "expired"
  BY <1>4, OrderSteps
<1>5. ASSUME NEW t \in Timers, Assign(t)
      PROVE  \/ orders'[p].status = orders[p].status /\ orders'[p].batch = orders[p].batch
             \/ /\ orders[p].status = "open" /\ orders'[p].status = "matched"
                /\ orders'[p].batch \in DOMAIN batches
  <2>1. cur[t] \in DOMAIN batches
    BY <1>5 DEF Assign, BatchesInHand
  <2>2. QED BY <1>5, <2>1, OrderSteps
<1>6. ASSUME NEW t \in Timers, SettleOrders(t) \/ Reopen(t)
      PROVE  /\ orders'[p].batch = orders[p].batch
             /\ orders'[p].status # orders[p].status =>
                   /\ orders[p].batch # NoBatch
                   /\ orders'[p].status \in {"settled", "open"}
  <2>1. cur[t] \in DOMAIN batches
    BY <1>6 DEF SettleOrders, Reopen, BatchesInHand
  <2>2. QED BY <1>6, <2>1, NoBatchIsNone, OrderSteps
<1>7. orders[p].batch # NoBatch => orders[p].status # "absent"
  BY DEF RowsWellFormed
<1>8. \/ orders' = orders
      \/ \E o \in Orders : InsertOrder(o) \/ CancelOrder(o)
      \/ \E t \in Timers : Expire(t) \/ Assign(t) \/ SettleOrders(t) \/ Reopen(t)
  BY DEF Next, vars, tables, Client, SubmitOrder, RequestCancel, Lapse, Restart,
         TimerStep, EnsureFound, EnsureMissing, EnsureCreate, Tick, Statement,
         FindCurrent, CreateCurrent, Fetch, Close, Compete, Persist,
         PersistConflict, MarkSolved, Settle, FailBatch, CreateNext,
         Failure, StatementFails, EnsureFails, SolverPanics, Crash
<1>9. QED BY <1>1, <1>2, <1>3, <1>4, <1>5, <1>6, <1>7, <1>8

\* Which requests a step begins or commits.
LEMMA ApiSteps ==
    ASSUME [Next]_vars
    PROVE  \/ UNCHANGED <<started, creating>>
           \/ \E o \in Orders : SubmitOrder(o) \/ InsertOrder(o)
  BY DEF Next, vars, api, Client, RequestCancel,
         CancelOrder, Lapse, Restart, TimerStep, EnsureFound, EnsureMissing, EnsureCreate,
         Tick, Statement, FindCurrent, CreateCurrent, Expire, Fetch, Assign, Close,
         Compete, Persist, PersistConflict, MarkSolved, Settle, SettleOrders,
         FailBatch, Reopen, CreateNext,
         Failure, StatementFails, EnsureFails, SolverPanics, Crash

LEMMA SubmitSteps ==
    ASSUME TypeOK, NEW q \in Orders, SubmitOrder(q)
    PROVE  /\ started[q] = 0
           /\ started'[q] \in Nat \ {0}
           /\ started'[q] = Cardinality({p \in Orders : started[p] # 0}) + 1
           /\ \A o \in Orders \ {q} : started'[o] = started[o]
           /\ creating' = creating \cup {q}
           /\ UNCHANGED <<orders, batches, pc, late>>
<1> DEFINE n == Cardinality({p \in Orders : started[p] # 0})
<1>1. n \in Nat
  BY OrdersAssumption, FS_Subset, FS_CardinalityType
<1>2. started' = [started EXCEPT ![q] = n + 1]
  BY DEF SubmitOrder
<1> HIDE DEF n
<1>3. QED BY <1>1, <1>2 DEF SubmitOrder, TypeOK, tables, locals, n

LEMMA RowsStep ==
    ASSUME TypeOK, RowsWellFormed, BatchesInHand, [Next]_vars
    PROVE  RowsWellFormed'
<1>1. ASSUME NEW o \in Orders, o \in creating'
      PROVE  orders'[o].status = "absent"
  <2>1. ~InsertOrder(o)
    BY <1>1 DEF InsertOrder
  <2>2. orders[o].status = "absent"
    <3>1. CASE UNCHANGED <<started, creating>>
      BY <1>1, <3>1 DEF RowsWellFormed
    <3>2. ASSUME NEW q \in Orders, SubmitOrder(q)
          PROVE  orders[o].status = "absent"
      <4>1. started[q] = 0 /\ creating' = creating \cup {q}
        BY <3>2 DEF SubmitOrder
      <4>2. QED BY <1>1, <4>1 DEF RowsWellFormed
    <3>3. ASSUME NEW q \in Orders, InsertOrder(q)
          PROVE  orders[o].status = "absent"
      <4>1. o \in creating
        BY <1>1, <3>3 DEF InsertOrder
      <4>2. QED BY <4>1 DEF RowsWellFormed
    <3>4. QED BY <3>1, <3>2, <3>3, ApiSteps
  <2>3. QED BY <2>1, <2>2, RowSteps
<1>2. ASSUME NEW o \in Orders, o \in creating' \/ orders'[o].status # "absent"
      PROVE  started'[o] # 0
  <2>1. CASE InsertOrder(o)
    BY <2>1 DEF InsertOrder, RowsWellFormed
  <2>2. CASE ~InsertOrder(o)
    <3>1. orders'[o].status # "absent" => orders[o].status # "absent"
      BY <2>2, RowSteps
    <3>2. CASE UNCHANGED <<started, creating>>
      BY <1>2, <3>1, <3>2 DEF RowsWellFormed
    <3>3. ASSUME NEW q \in Orders, SubmitOrder(q)
          PROVE  started'[o] # 0
      <4>1. started'[q] # 0 /\ creating' = creating \cup {q}
        BY <3>3, SubmitSteps
      <4>2. o # q => started'[o] = started[o]
        BY <3>3, SubmitSteps
      <4>3. QED BY <1>2, <3>1, <4>1, <4>2 DEF RowsWellFormed
    <3>4. ASSUME NEW q \in Orders, InsertOrder(q)
          PROVE  started'[o] # 0
      <4>1. UNCHANGED started /\ creating' \subseteq creating
        BY <3>4 DEF InsertOrder
      <4>2. QED BY <1>2, <3>1, <4>1 DEF RowsWellFormed
    <3>5. QED BY <3>2, <3>3, <3>4, ApiSteps
  <2>3. QED BY <2>1, <2>2
<1>3. ASSUME NEW o \in Orders, orders'[o].batch # NoBatch
      PROVE  orders'[o].batch \in DOMAIN batches' /\ orders'[o].status # "absent"
  <2>1. ~InsertOrder(o)
    BY <1>3, OrderSteps
  <2>2. QED BY <1>3, <2>1, RowSteps, BatchesGrow DEF RowsWellFormed
<1>4. QED BY <1>1, <1>2, <1>3 DEF RowsWellFormed

-----------------------------------------------------------------------------
(* Whatever says "settled" is backed by a settlement                       *)
(*                                                                         *)
(* SettledIsBacked alone is not inductive: settle and settleOrders write   *)
(* the status without looking at the settlements.  SettlementFirst says    *)
(* that whoever is at these statements has passed persist.                 *)

\* A step that adds no settled batch and no settled order, and brings no
\* timer behind persist, preserves BackedInv.
LEMMA BackedFrame ==
    ASSUME BackedInv,
           settlements \subseteq settlements',
           \A b \in DOMAIN batches' : batches'[b].status = "settled"
               => b \in DOMAIN batches /\ batches[b].status = "settled",
           \A o \in Orders : orders'[o].status = "settled"
               => orders[o].status = "settled" /\ orders'[o].batch = orders[o].batch,
           \A t \in Timers : pc'[t] \in {"markSolved", "settle", "settleOrders"}
               => /\ pc[t] \in {"markSolved", "settle", "settleOrders"}
                  /\ cur'[t] = cur[t]
    PROVE  BackedInv'
  BY DEF BackedInv, SettledIsBacked, SettlementFirst, HasSettlement

LEMMA BackedClient ==
    ASSUME TypeOK, BackedInv, NEW o \in Orders, Client(o)
    PROVE  BackedInv'
<1>1. UNCHANGED <<batches, settlements, pc, cur>>
  BY DEF Client, SubmitOrder, InsertOrder, RequestCancel, CancelOrder, Lapse,
         tables, locals
<1>2. \A p \in Orders : orders'[p].status = "settled"
         => orders[p].status = "settled" /\ orders'[p].batch = orders[p].batch
  <2>1. CASE InsertOrder(o)
    BY <2>1, OrderSteps
  <2>2. CASE CancelOrder(o)
    BY <2>2, OrderSteps
  <2>3. CASE UNCHANGED orders
    BY <2>3
  <2>4. QED
    BY <2>1, <2>2, <2>3 DEF Client, SubmitOrder, RequestCancel, Lapse, tables
<1>3. QED BY <1>1, <1>2, BackedFrame

LEMMA BackedTimerStep ==
    ASSUME TypeOK, BackedInv, NEW t \in Timers, TimerStep(t)
    PROVE  BackedInv'
<1> USE DEF tables, locals, Goto
<1>1. /\ pc \in [Timers -> Labels]
      /\ cur \in [Timers -> Nat]
  BY DEF TypeOK
<1>2. CASE EnsureFound(t) \/ EnsureMissing(t) \/ Tick(t) \/ FindCurrent(t)
            \/ Fetch(t) \/ Compete(t) \/ PersistConflict(t)
  BY <1>1, <1>2, BackedFrame
     DEF EnsureFound, EnsureMissing, Tick, FindCurrent, Fetch, Compete,
         PersistConflict, Leave
<1>3. CASE EnsureCreate(t) \/ CreateCurrent(t) \/ CreateNext(t)
  <2>1. \A b \in DOMAIN batches' : batches'[b].status = "settled"
            => b \in DOMAIN batches /\ batches[b].status = "settled"
    BY <1>3, CreateSteps
  <2>2. QED
    BY <1>1, <1>3, <2>1, BackedFrame
       DEF EnsureCreate, CreateCurrent, CreateNext, Leave
<1>4. CASE Expire(t) \/ Assign(t) \/ Reopen(t)
  <2>1. \A p \in Orders : orders'[p].status = "settled"
            => orders[p].status = "settled" /\ orders'[p].batch = orders[p].batch
    BY <1>4, OrderSteps
  <2>2. QED BY <1>1, <1>4, <2>1, BackedFrame DEF Expire, Assign, Reopen
<1>5. CASE Close(t) \/ FailBatch(t) \/ MarkSolved(t)
  <2>1. \A b \in DOMAIN batches' : batches'[b].status = "settled"
            => b \in DOMAIN batches /\ batches[b].status = "settled"
    BY <1>5, BatchSteps
  <2>2. QED BY <1>1, <1>5, <2>1, BackedFrame DEF Close, FailBatch, MarkSolved
<1>6. CASE Persist(t)
  <2> DEFINE row == [batch |-> cur[t], trades |-> plan[t]]
  <2>1. settlements' = settlements \cup {row} /\ row.batch = cur[t]
    BY <1>6 DEF Persist, InsertSettlement
  <2> HIDE DEF row
  <2>2. HasSettlement(settlements', cur[t])
    BY <2>1 DEF HasSettlement
  <2>3. \A b : HasSettlement(settlements, b) => HasSettlement(settlements', b)
    BY <2>1 DEF HasSettlement
  <2>4. SettledIsBacked'
    BY <1>6, <2>3 DEF Persist, BackedInv, SettledIsBacked
  <2>5. SettlementFirst'
    BY <1>1, <1>6, <2>2, <2>3 DEF Persist, BackedInv, SettlementFirst
  <2>6. QED BY <2>4, <2>5 DEF BackedInv
<1>7. CASE Settle(t)
  <2>1. HasSettlement(settlements, cur[t])
    BY <1>7 DEF Settle, BackedInv, SettlementFirst
  <2>2. \A b \in DOMAIN batches' : batches'[b].status = "settled"
            => b = cur[t] \/ (b \in DOMAIN batches /\ batches[b].status = "settled")
    BY <1>7, BatchSteps
  <2>3. SettledIsBacked'
    BY <1>7, <2>1, <2>2 DEF Settle, BackedInv, SettledIsBacked
  <2>4. SettlementFirst'
    BY <1>1, <1>7 DEF Settle, BackedInv, SettlementFirst
  <2>5. QED BY <2>3, <2>4 DEF BackedInv
<1>8. CASE SettleOrders(t)
  <2>1. HasSettlement(settlements, cur[t])
    BY <1>8 DEF SettleOrders, BackedInv, SettlementFirst
  <2>2. \A p \in Orders : orders'[p].status = "settled"
            => /\ orders'[p].batch = orders[p].batch
               /\ orders[p].batch = cur[t] \/ orders[p].status = "settled"
    BY <1>8, OrderSteps
  <2>3. SettledIsBacked'
    BY <1>8, <2>1, <2>2 DEF SettleOrders, BackedInv, SettledIsBacked
  <2>4. SettlementFirst'
    BY <1>1, <1>8 DEF SettleOrders, BackedInv, SettlementFirst
  <2>5. QED BY <2>3, <2>4 DEF BackedInv
<1>9. QED
  BY <1>2, <1>3, <1>4, <1>5, <1>6, <1>7, <1>8 DEF TimerStep, Statement

LEMMA BackedFailure ==
    ASSUME TypeOK, BackedInv, NEW t \in Timers, Failure(t) \/ Restart(t)
    PROVE  BackedInv'
  BY BackedFrame
     DEF TypeOK, tables, api, locals, limits, Goto, Leave, Failure, StatementFails,
         EnsureFails, SolverPanics, Crash, Restart

\* A batch or an order that says "settled" belongs to a persisted settlement,
\* for any number of server instances and wherever a cycle was interrupted.
THEOREM SettledBacked == Spec => []SettledIsBacked
<1>1. Init => BackedInv
  BY EmptySeq DEF Init, BackedInv, SettledIsBacked, SettlementFirst, NoOrder
<1>2. TypeOK /\ BackedInv /\ [Next]_vars => BackedInv'
  <2> SUFFICES ASSUME TypeOK, BackedInv, [Next]_vars
               PROVE  BackedInv'
    OBVIOUS
  <2>1. CASE \E o \in Orders : Client(o)
    BY <2>1, BackedClient
  <2>2. CASE \E t \in Timers : TimerStep(t)
    BY <2>2, BackedTimerStep
  <2>3. CASE \E t \in Timers : Failure(t) \/ Restart(t)
    BY <2>3, BackedFailure
  <2>4. CASE UNCHANGED vars
    BY <2>4 DEF vars, tables, locals, BackedInv, SettledIsBacked, SettlementFirst
  <2>5. QED BY <2>1, <2>2, <2>3, <2>4 DEF Next
<1>3. BackedInv => SettledIsBacked
  BY DEF BackedInv
<1>4. QED BY <1>1, <1>2, <1>3, TypeCorrectness, PTL DEF Spec

-----------------------------------------------------------------------------
(* One instance: no order is traded twice                                  *)
(*                                                                         *)
(* An order could be traded twice if a cycle read an order that was traded *)
(* before, so a traded order must never be open again.  Two statements     *)
(* write the status of every row of a batch without looking at it, so the  *)
(* invariant says which rows can carry the id of the running batch, also   *)
(* after an interrupted cycle left its batch collecting with rows in it.   *)

\* Labels at which SingleInv says nothing of the timer.
Idle == {"ensure", "ensureCreate", "sleep", "current", "createCurrent",
         "createNext", "dead", "down"}

\* A step that leaves the tables alone, and takes a timer only to such a label.
LEMMA SingleFrame ==
    ASSUME SingleInv,
           UNCHANGED tables,
           RowsWellFormed',
           \A t \in Timers : \/ pc'[t] \in Idle
                             \/ /\ pc'[t] = pc[t]
                                /\ cur'[t] = cur[t]
                                /\ snap'[t] = snap[t]
                                /\ plan'[t] = plan[t]
    PROVE  SingleInv'
<1>1. UNCHANGED <<orders, batches, settlements>>
  BY DEF tables
<1>2. OneTradePerOrder' /\ TradedUnderItsBatch' /\ SettlementsOfClosed'
        /\ RunningRowsMatched'
  BY <1>1 DEF SingleInv, OneTradePerOrder, TradedUnderItsBatch,
              SettlementsOfClosed, RunningRowsMatched
<1>3. CycleBatch'
  BY <1>1 DEF SingleInv, CycleBatch, Idle, Collecting, HasSettlement
<1>4. CycleRows'
  <2>1. Traded' = Traded
    BY <1>1 DEF Traded
  <2>2. QED BY <1>1, <2>1 DEF SingleInv, CycleRows, Idle
<1>5. QED BY <1>2, <1>3, <1>4 DEF SingleInv

LEMMA SingleInHand == SingleInv => BatchesInHand
  BY DEF SingleInv, CycleBatch, Collecting, BatchesInHand

LEMMA SingleRows ==
    ASSUME TypeOK, SingleInv, [Next]_vars
    PROVE  RowsWellFormed'
  BY SingleInHand, RowsStep DEF SingleInv

\* A step that only takes open orders away (a cancellation, or the expiry at
\* the start of a cycle) and moves no timer to a label of CycleRows.
LEMMA SingleWithdraw ==
    ASSUME TypeOK, SingleInv,
           UNCHANGED <<batches, settlements, cur, snap, plan>>,
           RowsWellFormed',
           \A p \in Orders :
              /\ orders'[p].batch = orders[p].batch
              /\ orders'[p].status # orders[p].status =>
                    orders[p].status = "open" /\ orders'[p].status \in {"cancelled", "expired"},
           \A t \in Timers :
              \/ /\ pc'[t] = pc[t]
                 /\ \A p \in Orders : orders'[p].status = "expired" => orders[p].status = "expired"
              \/ pc[t] = "expire" /\ pc'[t] = "fetch"
    PROVE  SingleInv'
<1>1. OneTradePerOrder' /\ SettlementsOfClosed'
  BY DEF SingleInv, OneTradePerOrder, SettlementsOfClosed
<1>2. TradedUnderItsBatch'
  <2>1. \A s \in settlements : s.trades \subseteq Orders
    BY DEF TypeOK, SettlementRow
  <2>2. QED BY <2>1 DEF SingleInv, TradedUnderItsBatch
<1>3. RunningRowsMatched'
  BY DEF SingleInv, RunningRowsMatched
<1>4. CycleBatch'
  BY DEF SingleInv, CycleBatch, Collecting, HasSettlement
<1>5. CycleRows'
  <2>1. Traded' = Traded
    BY DEF Traded
  <2>2. \A t \in Timers : snap[t] \subseteq Orders
    BY DEF TypeOK
  <2>3. QED BY <2>1, <2>2 DEF SingleInv, CycleRows
<1>6. QED BY <1>1, <1>2, <1>3, <1>4, <1>5 DEF SingleInv

LEMMA SingleClient ==
    ASSUME TypeOK, SingleInv, NEW o \in Orders, Client(o)
    PROVE  SingleInv'
<1> USE DEF tables, locals, api, limits
<1> RowsWellFormed'
  BY SingleRows DEF Next
<1>1. CASE SubmitOrder(o) \/ RequestCancel(o) \/ Lapse(o)
  BY <1>1, SingleFrame DEF SubmitOrder, RequestCancel, Lapse
<1>2. CASE CancelOrder(o)
  <2>1. UNCHANGED <<batches, settlements, pc, cur, snap, plan>>
    BY <1>2 DEF CancelOrder
  <2>2. \A p \in Orders :
          /\ orders'[p].batch = orders[p].batch
          /\ orders'[p].status # orders[p].status =>
                orders[p].status = "open" /\ orders'[p].status = "cancelled"
    BY <1>2, OrderSteps
  <2>3. \A p \in Orders : orders'[p].status = "expired" => orders[p].status = "expired"
    BY <2>2
  <2>4. QED BY <2>1, <2>2, <2>3, SingleWithdraw
<1>3. CASE InsertOrder(o)
  <2>1. UNCHANGED <<batches, settlements, pc, cur, snap, plan>>
    BY <1>3 DEF InsertOrder
  <2>2. \A p \in Orders :
          /\ p # o => orders'[p].status = orders[p].status
                        /\ orders'[p].batch = orders[p].batch
          /\ p = o => orders'[p].status = "open" /\ orders'[p].batch = NoBatch
    BY <1>3, OrderSteps
  <2>3. orders[o].status = "absent" /\ orders[o].batch = NoBatch
    BY <1>3 DEF InsertOrder, SingleInv, RowsWellFormed
  <2>4. OneTradePerOrder' /\ SettlementsOfClosed'
    BY <2>1 DEF SingleInv, OneTradePerOrder, SettlementsOfClosed
  <2>5. TradedUnderItsBatch'
    <3>1. \A s \in settlements : s.trades \subseteq Orders /\ o \notin s.trades
      BY <2>3 DEF TypeOK, SettlementRow, SingleInv, TradedUnderItsBatch
    <3>2. QED BY <2>1, <2>2, <3>1 DEF SingleInv, TradedUnderItsBatch
  <2>6. RunningRowsMatched'
    BY <2>1, <2>2 DEF SingleInv, RunningRowsMatched
  <2>7. CycleBatch'
    BY <2>1, <2>2, NoBatchIsNone DEF SingleInv, CycleBatch, Collecting, HasSettlement
  <2>8. CycleRows'
    <3>1. Traded' = Traded
      BY <2>1 DEF Traded
    <3>2. \A t \in Timers : snap[t] \subseteq Orders
      BY DEF TypeOK
    <3>3. \A t \in Timers : pc[t] \in {"assign", "close", "compete", "persist"}
                               => o \notin snap[t]
      BY <2>3 DEF SingleInv, CycleRows
    <3>4. QED BY <2>1, <2>2, <3>1, <3>2, <3>3 DEF SingleInv, CycleRows
  <2>9. QED BY <2>4, <2>5, <2>6, <2>7, <2>8 DEF SingleInv
<1>4. QED BY <1>1, <1>2, <1>3 DEF Client

\* Creating a batch: its number is new, and no row carries it.
LEMMA SingleCreate ==
    ASSUME TypeOK, SingleInv, OneTimer, NEW t \in Timers,
           EnsureCreate(t) \/ CreateCurrent(t) \/ CreateNext(t)
    PROVE  SingleInv'
<1> DEFINE new == Len(batches) + 1
<1>1. /\ new \notin DOMAIN batches
      /\ DOMAIN batches' = DOMAIN batches \cup {new}
      /\ \A b \in DOMAIN batches : batches'[b] = batches[b]
      /\ batches'[new].status = "collecting"
  BY CreateSteps
<1>2. /\ UNCHANGED <<orders, settlements>>
      /\ pc'[t] \in {"sleep", "expire"}
      /\ pc'[t] = "expire" => cur'[t] = new
  BY DEF TypeOK, EnsureCreate, CreateCurrent, CreateNext, Goto, Leave, tables, api, locals
<1> HIDE DEF new
<1>3. OneTradePerOrder' /\ TradedUnderItsBatch'
  BY <1>2 DEF SingleInv, OneTradePerOrder, TradedUnderItsBatch
<1>4. RowsWellFormed'
  BY SingleRows DEF Next, TimerStep, Statement
<1>5. SettlementsOfClosed'
  BY <1>1, <1>2 DEF SingleInv, SettlementsOfClosed
<1>6. RunningRowsMatched'
  BY <1>1, <1>2 DEF SingleInv, RunningRowsMatched, RowsWellFormed
<1>7. CycleBatch'
  BY <1>1, <1>2 DEF OneTimer, CycleBatch, Collecting
<1>8. CycleRows'
  BY <1>2 DEF OneTimer, CycleRows
<1>9. QED BY <1>3, <1>4, <1>5, <1>6, <1>7, <1>8 DEF SingleInv

\* Steps of a cycle that change no table.
LEMMA SingleRead ==
    ASSUME TypeOK, SingleInv, OneTimer, NEW t \in Timers,
           FindCurrent(t) \/ Fetch(t) \/ Compete(t)
    PROVE  SingleInv'
<1> USE DEF Goto
<1>1. UNCHANGED <<orders, batches, settlements>>
  BY DEF FindCurrent, Fetch, Compete, tables, api
<1> RowsWellFormed'
  BY SingleRows DEF Next, TimerStep, Statement
<1>2. OneTradePerOrder' /\ TradedUnderItsBatch' /\ SettlementsOfClosed' /\ RunningRowsMatched'
  BY <1>1 DEF SingleInv, OneTradePerOrder, TradedUnderItsBatch, SettlementsOfClosed,
              RunningRowsMatched
<1>3. Traded' = Traded
  BY <1>1 DEF Traded
<1>4. CASE FindCurrent(t)
  <2>1. \/ pc'[t] = "expire" /\ cur'[t] \in Collecting(batches)
        \/ pc'[t] = "createCurrent"
    BY <1>4 DEF TypeOK, FindCurrent, IsCurrentCollecting
  <2>2. CycleBatch' /\ CycleRows'
    BY <1>1, <2>1 DEF OneTimer, CycleBatch, CycleRows, Collecting
  <2>3. QED BY <1>2, <2>2 DEF SingleInv
<1>5. CASE Fetch(t)
  <2>1. \/ pc'[t] = "createNext"
        \/ /\ pc'[t] = "assign" /\ pc[t] = "fetch" /\ cur' = cur
           /\ snap'[t] = FindOpenUnassigned(orders, lapsed, BatchLimit)
    BY <1>5 DEF TypeOK, Fetch
  <2>2. CASE pc'[t] = "createNext"
    <3>1. CycleBatch' /\ CycleRows'
      BY <2>2 DEF OneTimer, CycleBatch, CycleRows
    <3>2. QED BY <1>2, <3>1 DEF SingleInv
  <2>3. CASE pc'[t] # "createNext"
    <3>1. \A o \in snap'[t] : /\ o \in Orders
                              /\ orders[o].status = "open"
                              /\ orders[o].batch = NoBatch
      BY <2>1, <2>3 DEF FindOpenUnassigned, OpenUnassigned
    <3>2. snap'[t] \cap Traded = {}
      BY <3>1 DEF Traded, SingleInv, TradedUnderItsBatch
    <3>3. CycleBatch'
      BY <1>1, <2>1, <2>3 DEF SingleInv, OneTimer, CycleBatch, Collecting
    <3>4. CycleRows'
      BY <1>1, <1>3, <2>1, <2>3, <3>1, <3>2 DEF OneTimer, CycleRows
    <3>5. QED BY <1>2, <3>3, <3>4 DEF SingleInv
  <2>4. QED BY <2>2, <2>3
<1>6. CASE Compete(t)
  <2>1. /\ pc[t] = "compete" /\ cur' = cur /\ snap' = snap
        /\ \/ /\ pc'[t] = "persist"
              /\ plan'[t] \subseteq snap[t] /\ plan'[t] # {}
           \/ pc'[t] = "fail"
    BY <1>6 DEF TypeOK, Compete, Solutions, Matchable
  <2>2. CycleBatch'
    BY <1>1, <2>1 DEF SingleInv, OneTimer, CycleBatch, HasSettlement
  <2>3. CycleRows'
    BY <1>1, <1>3, <2>1 DEF SingleInv, OneTimer, CycleRows
  <2>4. QED BY <1>2, <2>2, <2>3 DEF SingleInv
<1>7. QED BY <1>4, <1>5, <1>6

\* Steps that write the status of the running batch.
LEMMA SingleBatchStatus ==
    ASSUME TypeOK, SingleInv, OneTimer, NEW t \in Timers,
           Close(t) \/ MarkSolved(t) \/ Settle(t) \/ FailBatch(t)
    PROVE  SingleInv'
<1> USE DEF Goto
<1>1. UNCHANGED <<orders, settlements, cur, snap, plan>>
  BY DEF Close, MarkSolved, Settle, FailBatch, api, locals
<1>2. /\ DOMAIN batches' = DOMAIN batches
      /\ cur[t] \in DOMAIN batches
      /\ \A b \in DOMAIN batches : b # cur[t] => batches'[b].status = batches[b].status
  BY BatchSteps DEF SingleInv, CycleBatch, Collecting, Close, MarkSolved, Settle, FailBatch
<1>3. \/ /\ pc[t] = "close" /\ pc'[t] = "compete"
         /\ batches[cur[t]].status = "collecting" /\ batches'[cur[t]].status = "solving"
      \/ /\ pc[t] = "markSolved" /\ pc'[t] = "settle"
         /\ batches[cur[t]].status = "solving" /\ batches'[cur[t]].status = "solving"
      \/ /\ pc[t] = "settle" /\ pc'[t] = "settleOrders"
         /\ batches[cur[t]].status = "solving" /\ batches'[cur[t]].status = "settled"
      \/ /\ pc[t] = "fail" /\ pc'[t] = "reopen"
         /\ ~HasSettlement(settlements, cur[t])
         /\ batches[cur[t]].status = "solving" /\ batches'[cur[t]].status = "failed"
  BY <1>2, BatchSteps
     DEF TypeOK, SingleInv, CycleBatch, Collecting, Close, MarkSolved, Settle, FailBatch
<1>4. OneTradePerOrder' /\ TradedUnderItsBatch'
  BY <1>1 DEF SingleInv, OneTradePerOrder, TradedUnderItsBatch
<1>5. RowsWellFormed'
  BY SingleRows DEF Next, TimerStep, Statement
<1>6. SettlementsOfClosed'
  BY <1>1, <1>2, <1>3 DEF SingleInv, SettlementsOfClosed, HasSettlement
<1>7. RunningRowsMatched'
  BY <1>1, <1>2, <1>3 DEF SingleInv, RunningRowsMatched, RowsWellFormed
<1>8. CycleBatch'
  <2>1. batches[cur[t]].status = "collecting" => ~HasSettlement(settlements, cur[t])
    BY DEF SingleInv, SettlementsOfClosed, HasSettlement
  <2>2. batches[cur[t]].status = "solving" =>
          \A o \in Orders : orders[o].batch = cur[t] => orders[o].status = "matched"
    BY <1>2, NoBatchIsNone DEF SingleInv, RunningRowsMatched
  <2>3. QED BY <1>1, <1>2, <1>3, <2>1, <2>2 DEF OneTimer, CycleBatch, HasSettlement
<1>9. CycleRows'
  <2>1. Traded' = Traded
    BY <1>1 DEF Traded
  <2>2. QED BY <1>1, <1>3, <2>1 DEF SingleInv, OneTimer, CycleRows
<1>10. QED BY <1>4, <1>5, <1>6, <1>7, <1>8, <1>9 DEF SingleInv

LEMMA SinglePersist ==
    ASSUME TypeOK, SingleInv, OneTimer, NEW t \in Timers, Persist(t)
    PROVE  SingleInv'
<1> DEFINE row == [batch |-> cur[t], trades |-> plan[t]]
<1>1. /\ UNCHANGED <<orders, batches, cur, snap, plan>>
      /\ pc[t] = "persist" /\ pc'[t] = "markSolved"
      /\ settlements' = settlements \cup {row}
      /\ row.batch = cur[t] /\ row.trades = plan[t]
  BY DEF TypeOK, Persist, InsertSettlement, Goto, api, locals
<1> HIDE DEF row
<1>2. plan[t] \subseteq snap[t] /\ snap[t] \cap Traded = {}
  BY <1>1 DEF SingleInv, CycleRows
<1>3. cur[t] \in DOMAIN batches /\ batches[cur[t]].status = "solving"
  BY <1>1 DEF SingleInv, CycleBatch
<1>4. OneTradePerOrder'
  <2>1. \A r \in settlements : r.trades \cap row.trades = {}
    BY <1>1, <1>2 DEF Traded
  <2>2. QED BY <1>1, <2>1 DEF SingleInv, OneTradePerOrder
<1>5. TradedUnderItsBatch'
  <2>1. \A o \in row.trades : \/ orders[o].batch = row.batch /\ orders[o].status = "matched"
                              \/ orders[o].status = "cancelled"
    BY <1>1, <1>2 DEF SingleInv, CycleRows
  <2>2. QED BY <1>1, <2>1 DEF SingleInv, TradedUnderItsBatch
<1> RowsWellFormed'
  BY SingleRows DEF Next, TimerStep, Statement
<1>6. RunningRowsMatched'
  BY <1>1 DEF SingleInv, RunningRowsMatched
<1>7. SettlementsOfClosed'
  BY <1>1, <1>3 DEF SingleInv, SettlementsOfClosed
<1>8. CycleBatch'
  BY <1>1, <1>3 DEF OneTimer, CycleBatch
<1>9. CycleRows'
  BY <1>1 DEF OneTimer, CycleRows
<1>10. QED BY <1>4, <1>5, <1>6, <1>7, <1>8, <1>9 DEF SingleInv

LEMMA SingleAssign ==
    ASSUME TypeOK, SingleInv, OneTimer, NEW t \in Timers, Assign(t)
    PROVE  SingleInv'
<1>1. /\ UNCHANGED <<batches, settlements, cur, snap, plan>>
      /\ pc[t] = "assign" /\ pc'[t] = "close"
  BY DEF TypeOK, Assign, Goto, api, locals
<1>2. \A p \in Orders :
        \/ /\ p \in snap[t] /\ orders[p].status = "open"
           /\ orders'[p].status = "matched" /\ orders'[p].batch = cur[t]
        \/ /\ ~(p \in snap[t] /\ orders[p].status = "open")
           /\ orders'[p].status = orders[p].status /\ orders'[p].batch = orders[p].batch
  BY OrderSteps
<1>3. cur[t] \in DOMAIN batches /\ batches[cur[t]].status = "collecting"
  BY <1>1 DEF SingleInv, CycleBatch, Collecting
<1>4. /\ snap[t] \subseteq Orders /\ snap[t] \cap Traded = {}
      /\ \A o \in snap[t] :
            orders[o].batch = NoBatch /\ orders[o].status \in {"open", "cancelled"}
  BY <1>1 DEF TypeOK, SingleInv, CycleRows
<1>5. OneTradePerOrder' /\ SettlementsOfClosed'
  BY <1>1 DEF SingleInv, OneTradePerOrder, SettlementsOfClosed
<1>6. TradedUnderItsBatch'
  <2>1. \A s \in settlements : s.trades \subseteq Orders /\ s.trades \cap snap[t] = {}
    BY <1>4 DEF TypeOK, SettlementRow, Traded
  <2>2. QED BY <1>1, <1>2, <2>1 DEF SingleInv, TradedUnderItsBatch
<1>7. RowsWellFormed'
  BY SingleRows DEF Next, TimerStep, Statement
<1>8. RunningRowsMatched'
  BY <1>1, <1>2 DEF SingleInv, RunningRowsMatched
<1>9. CycleBatch'
  BY <1>1, <1>3 DEF OneTimer, CycleBatch, Collecting
<1>10. CycleRows'
  <2>1. Traded' = Traded
    BY <1>1 DEF Traded
  <2>2. \A o \in snap[t] : \/ orders'[o].batch = cur[t] /\ orders'[o].status = "matched"
                           \/ orders'[o].batch = NoBatch /\ orders'[o].status = "cancelled"
    BY <1>2, <1>4
  <2>3. QED BY <1>1, <1>4, <2>1, <2>2 DEF OneTimer, CycleRows
<1>11. QED BY <1>5, <1>6, <1>7, <1>8, <1>9, <1>10 DEF SingleInv

\* The two statements that write the status of all rows of the batch.
LEMMA SingleBatchOrders ==
    ASSUME TypeOK, SingleInv, OneTimer, NEW t \in Timers,
           SettleOrders(t) \/ Reopen(t)
    PROVE  SingleInv'
<1>1. /\ UNCHANGED <<batches, settlements>>
      /\ pc[t] \in {"settleOrders", "reopen"} /\ pc'[t] = "createNext"
  BY DEF TypeOK, SettleOrders, Reopen, Goto, api
<1>2. \A p \in Orders :
        /\ orders'[p].batch = orders[p].batch
        /\ orders[p].batch # cur[t] => orders'[p].status = orders[p].status
        /\ orders[p].batch = cur[t] =>
              \/ pc[t] = "settleOrders" /\ orders'[p].status = "settled"
              \/ pc[t] = "reopen" /\ orders'[p].status = "open"
  BY OrderSteps DEF SettleOrders, Reopen
<1>3. /\ cur[t] \in DOMAIN batches
      /\ batches[cur[t]].status \in {"settled", "failed"}
      /\ pc[t] = "reopen" => ~HasSettlement(settlements, cur[t])
      /\ \A o \in Orders : orders[o].batch = cur[t] => orders[o].status = "matched"
  BY <1>1 DEF SingleInv, CycleBatch
<1>4. OneTradePerOrder' /\ SettlementsOfClosed'
  BY <1>1 DEF SingleInv, OneTradePerOrder, SettlementsOfClosed
<1>5. TradedUnderItsBatch'
  <2>1. \A s \in settlements : s.trades \subseteq Orders
    BY DEF TypeOK, SettlementRow
  <2>2. \A s \in settlements : pc[t] = "reopen" => s.batch # cur[t]
    BY <1>3 DEF HasSettlement
  <2>3. QED BY <1>1, <1>2, <1>3, <2>1, <2>2 DEF SingleInv, TradedUnderItsBatch
<1>6. RowsWellFormed'
  BY SingleRows DEF Next, TimerStep, Statement
<1>7. RunningRowsMatched'
  BY <1>1, <1>2, <1>3 DEF SingleInv, RunningRowsMatched
<1>8. CycleBatch' /\ CycleRows'
  BY <1>1 DEF OneTimer, CycleBatch, CycleRows
<1>9. QED BY <1>4, <1>5, <1>6, <1>7, <1>8 DEF SingleInv

LEMMA SingleTimerStep ==
    ASSUME TypeOK, SingleInv, OneTimer, NEW t \in Timers, TimerStep(t)
    PROVE  SingleInv'
<1> RowsWellFormed'
  BY SingleRows DEF Next
<1>1. CASE EnsureFound(t) \/ EnsureMissing(t) \/ Tick(t) \/ PersistConflict(t)
  <2>1. UNCHANGED tables
    BY <1>1 DEF EnsureFound, EnsureMissing, Tick, PersistConflict
  <2>2. pc'[t] \in {"sleep", "ensureCreate", "current", "ensure"}
    BY <1>1 DEF TypeOK, EnsureFound, EnsureMissing, Tick, PersistConflict, Goto, Leave
  <2>3. \A u \in Timers : pc'[u] \in Idle
    BY <2>2 DEF OneTimer, Idle
  <2>4. QED BY <2>1, <2>3, SingleFrame
<1>2. CASE Expire(t)
  <2>1. /\ UNCHANGED <<batches, settlements, cur, snap, plan>>
        /\ pc[t] = "expire" /\ pc'[t] = "fetch"
    BY <1>2 DEF TypeOK, Expire, Goto, api, locals
  <2>2. \A p \in Orders :
          /\ orders'[p].batch = orders[p].batch
          /\ orders'[p].status # orders[p].status =>
                orders[p].status = "open" /\ orders'[p].status \in {"cancelled", "expired"}
    BY <1>2, OrderSteps
  <2>3. \A u \in Timers : pc[u] = "expire" /\ pc'[u] = "fetch"
    BY <2>1 DEF OneTimer
  <2>4. QED BY <2>1, <2>2, <2>3, SingleWithdraw
<1>3. CASE EnsureCreate(t) \/ CreateCurrent(t) \/ CreateNext(t)
  BY <1>3, SingleCreate
<1>4. CASE FindCurrent(t) \/ Fetch(t) \/ Compete(t)
  BY <1>4, SingleRead
<1>5. CASE Close(t) \/ MarkSolved(t) \/ Settle(t) \/ FailBatch(t)
  BY <1>5, SingleBatchStatus
<1>6. CASE Persist(t)
  BY <1>6, SinglePersist
<1>7. CASE Assign(t)
  BY <1>7, SingleAssign
<1>8. CASE SettleOrders(t) \/ Reopen(t)
  BY <1>8, SingleBatchOrders
<1>9. QED BY <1>1, <1>2, <1>3, <1>4, <1>5, <1>6, <1>7, <1>8 DEF TimerStep, Statement

\* Whatever fails, the timer is then at a label of Idle: the rows of the cycle
\* stay as they are and no later cycle takes them up.
LEMMA SingleFailure ==
    ASSUME TypeOK, SingleInv, OneTimer, NEW t \in Timers, Failure(t) \/ Restart(t)
    PROVE  SingleInv'
<1>1. UNCHANGED tables /\ RowsWellFormed'
  BY SingleRows DEF Next, Failure, StatementFails, EnsureFails, SolverPanics, Crash, Restart
<1>2. pc'[t] \in {"ensure", "sleep", "dead", "down"}
  BY DEF TypeOK, Failure, StatementFails, EnsureFails, SolverPanics, Crash,
         Restart, Goto, Leave
<1>3. \A u \in Timers : pc'[u] \in Idle
  BY <1>2 DEF OneTimer, Idle
<1>4. QED BY <1>1, <1>3, SingleFrame

LEMMA SingleInit == Init => SingleInv
<1> SUFFICES ASSUME Init PROVE SingleInv
  OBVIOUS
<1>1. /\ settlements = {} /\ creating = {}
      /\ \A o \in Orders : orders[o].status = "absent" /\ orders[o].batch = NoBatch
      /\ \A t \in Timers : pc[t] = "ensure"
  BY DEF Init, NoOrder
<1>2. QED
  BY <1>1 DEF SingleInv, OneTradePerOrder, TradedUnderItsBatch, RowsWellFormed,
              SettlementsOfClosed, RunningRowsMatched, CycleBatch, CycleRows

LEMMA SingleStep ==
    ASSUME TypeOK, SingleInv, OneTimer, [Next]_vars
    PROVE  SingleInv'
<1>1. CASE UNCHANGED vars
  <2>1. UNCHANGED <<orders, batches, settlements, pc, cur, snap, plan>>
    BY <1>1 DEF vars, tables, locals
  <2>2. QED BY <2>1, SingleRows, SingleFrame DEF tables
<1>2. CASE Next
  BY <1>2, SingleClient, SingleTimerStep, SingleFailure DEF Next
<1>3. QED BY <1>1, <1>2

\* What one running instance keeps, whatever its clients do and wherever a
\* cycle fails, for any number of orders and any batch limit.
THEOREM SingleInvariance == ASSUME OneTimer PROVE Spec => []SingleInv
<1>1. Init => SingleInv
  BY SingleInit
<1>2. TypeOK /\ SingleInv /\ [Next]_vars => SingleInv'
  BY SingleStep
<1>3. Spec => []TypeOK
  BY TypeCorrectness
<1>4. QED BY <1>1, <1>2, <1>3, PTL DEF Spec

\* With one instance no two settlements trade the same order
\* (batch_service.rs, steps 3 to 8; trades.order_uid carries no constraint).
THEOREM TradesAreDisjoint == ASSUME OneTimer PROVE Spec => []OneTradePerOrder
<1>1. SingleInv => OneTradePerOrder
  BY DEF SingleInv
<1>2. QED BY <1>1, SingleInvariance, PTL

\* With one instance a traded order stays with the batch of its settlement,
\* and update_batch_orders_status never opens it again.
THEOREM TradedStaysTraded == ASSUME OneTimer PROVE Spec => []TradedUnderItsBatch
<1>1. SingleInv => TradedUnderItsBatch
  BY DEF SingleInv
<1>2. QED BY <1>1, SingleInvariance, PTL

-----------------------------------------------------------------------------
(* What a step of one instance may do to an order and to a batch           *)

LEMMA OrderMove ==
    ASSUME TypeOK, SingleInv, [Next]_vars, NEW o \in Orders
    PROVE  /\ orders'[o].status # orders[o].status =>
                 <<orders[o].status, orders'[o].status>> \in OrderMoves
           /\ orders[o].batch # NoBatch => orders'[o].batch = orders[o].batch
<1>1. CASE orders' = orders
  BY <1>1
<1>2. ASSUME NEW p \in Orders, InsertOrder(p)
      PROVE  /\ orders'[o].status # orders[o].status =>
                   orders[o].status = "absent" /\ orders'[o].status = "open"
             /\ orders[o].batch # NoBatch => orders'[o].batch = orders[o].batch
  <2>1. orders[p].status = "absent" /\ orders[p].batch = NoBatch
    BY <1>2 DEF InsertOrder, SingleInv, RowsWellFormed
  <2>2. QED BY <1>2, <2>1, OrderSteps
<1>3. ASSUME NEW p \in Orders, CancelOrder(p)
      PROVE  /\ orders'[o].status # orders[o].status =>
                   orders[o].status = "open" /\ orders'[o].status = "cancelled"
             /\ orders'[o].batch = orders[o].batch
  BY <1>3, OrderSteps
<1>4. ASSUME NEW t \in Timers, Expire(t)
      PROVE  /\ orders'[o].status # orders[o].status =>
                   orders[o].status = "open" /\ orders'[o].status = "expired"
             /\ orders'[o].batch = orders[o].batch
  BY <1>4, OrderSteps
<1>5. ASSUME NEW t \in Timers, Assign(t)
      PROVE  /\ orders'[o].status # orders[o].status =>
                   orders[o].status = "open" /\ orders'[o].status = "matched"
             /\ orders[o].batch # NoBatch => orders'[o].batch = orders[o].batch
  <2>1. \A p \in snap[t] : orders[p].batch = NoBatch
    BY <1>5 DEF Assign, SingleInv, CycleRows
  <2>2. QED BY <1>5, <2>1, OrderSteps
<1>6. ASSUME NEW t \in Timers, SettleOrders(t) \/ Reopen(t)
      PROVE  /\ orders'[o].status # orders[o].status =>
                   orders[o].status = "matched" /\ orders'[o].status \in {"settled", "open"}
             /\ orders'[o].batch = orders[o].batch
  <2>1. pc[t] \in {"settleOrders", "reopen"}
    BY <1>6 DEF SettleOrders, Reopen
  <2>2. orders[o].batch = cur[t] => orders[o].status = "matched"
    BY <2>1 DEF SingleInv, CycleBatch
  <2>3. QED BY <1>6, <2>2, OrderSteps
<1>7. \/ orders' = orders
      \/ \E p \in Orders : InsertOrder(p) \/ CancelOrder(p)
      \/ \E t \in Timers : Expire(t) \/ Assign(t) \/ SettleOrders(t) \/ Reopen(t)
  BY DEF Next, vars, tables, Client, SubmitOrder, RequestCancel, Lapse, Restart,
         TimerStep, EnsureFound, EnsureMissing, EnsureCreate, Tick, Statement,
         FindCurrent, CreateCurrent, Fetch, Close, Compete, Persist,
         PersistConflict, MarkSolved, Settle, FailBatch, CreateNext,
         Failure, StatementFails, EnsureFails, SolverPanics, Crash
<1>8. QED BY <1>1, <1>2, <1>3, <1>4, <1>5, <1>6, <1>7 DEF OrderMoves

\* With one instance an order is only moved along OrderMoves and keeps the
\* batch it was assigned to, whatever update_batch_orders_status overwrites.
THEOREM OrdersMoveLegally == ASSUME OneTimer PROVE Spec => OrderLifecycle
<1> DEFINE Moves == \A o \in Orders :
              /\ orders'[o].status # orders[o].status =>
                    <<orders[o].status, orders'[o].status>> \in OrderMoves
              /\ orders[o].batch # NoBatch => orders'[o].batch = orders[o].batch
<1>1. TypeOK /\ SingleInv /\ [Next]_vars => [Moves]_vars
  BY OrderMove
<1>2. Spec => []TypeOK /\ []SingleInv
  BY TypeCorrectness, SingleInvariance
<1> HIDE DEF Moves
<1>3. Spec => [][Moves]_vars
  BY <1>1, <1>2, PTL DEF Spec
<1>4. QED BY <1>3 DEF OrderLifecycle, Moves

LEMMA BatchMove ==
    ASSUME TypeOK, SingleInv, [Next]_vars, NEW b \in DOMAIN batches
    PROVE  batches'[b].status # batches[b].status =>
              <<batches[b].status, batches'[b].status>> \in BatchMoves
<1>1. CASE batches' = batches
  BY <1>1
<1>2. ASSUME NEW t \in Timers, EnsureCreate(t) \/ CreateCurrent(t) \/ CreateNext(t)
      PROVE  batches'[b] = batches[b]
  BY <1>2, CreateSteps
<1>3. ASSUME NEW t \in Timers, Close(t) \/ MarkSolved(t) \/ Settle(t) \/ FailBatch(t)
      PROVE  \/ batches'[b].status = batches[b].status
             \/ batches[b].status = "collecting" /\ batches'[b].status = "solving"
             \/ batches[b].status = "solving" /\ batches'[b].status \in {"settled", "failed"}
  <2>1. /\ Close(t) => batches[cur[t]].status = "collecting"
        /\ Settle(t) \/ FailBatch(t) => batches[cur[t]].status = "solving"
    BY DEF Close, Settle, FailBatch, SingleInv, CycleBatch, Collecting
  <2>2. QED BY <1>3, <2>1, BatchSteps
<1>4. \/ batches' = batches
      \/ \E t \in Timers : EnsureCreate(t) \/ CreateCurrent(t) \/ CreateNext(t)
      \/ \E t \in Timers : Close(t) \/ MarkSolved(t) \/ Settle(t) \/ FailBatch(t)
  BY DEF Next, vars, tables, Client, SubmitOrder, InsertOrder, RequestCancel,
         CancelOrder, Lapse, Restart, TimerStep, EnsureFound, EnsureMissing,
         Tick, Statement, FindCurrent, Expire, Fetch, Assign, Compete, Persist,
         PersistConflict, SettleOrders, Reopen,
         Failure, StatementFails, EnsureFails, SolverPanics, Crash
<1>5. QED BY <1>1, <1>2, <1>3, <1>4 DEF BatchMoves

\* With one instance a batch only moves along BatchMoves, although
\* update_status writes whatever it is told.
THEOREM BatchesMoveLegally == ASSUME OneTimer PROVE Spec => BatchLifecycle
<1> DEFINE Moves == \A b \in DOMAIN batches :
              batches'[b].status # batches[b].status =>
                 <<batches[b].status, batches'[b].status>> \in BatchMoves
<1>1. TypeOK /\ SingleInv /\ [Next]_vars => [Moves]_vars
  BY BatchMove
<1>2. Spec => []TypeOK /\ []SingleInv
  BY TypeCorrectness, SingleInvariance
<1> HIDE DEF Moves
<1>3. Spec => [][Moves]_vars
  BY <1>1, <1>2, PTL DEF Spec
<1>4. QED BY <1>3 DEF BatchLifecycle, Moves

=============================================================================
