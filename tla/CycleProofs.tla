----------------------------- MODULE CycleProofs -----------------------------
(***************************************************************************)
(* What a cycle carries from the rows it has read to its later statements, *)
(* for any number of server instances over one database.                   *)
(***************************************************************************)
EXTENDS BatchAuctionProofs

\* A cycle finds or creates its batch, and keeps it to its end.
LEMMA BatchKnownStep ==
    ASSUME TypeOK, BatchKnown, [Next]_vars
    PROVE  BatchKnown'
<1> DEFINE Inside == CycleLabels \ {"current", "createCurrent"}
<1>1. DOMAIN batches \subseteq DOMAIN batches'
  BY BatchesGrow
<1>2. CASE \A t \in Timers : pc'[t] \in Inside => pc[t] \in Inside /\ cur'[t] = cur[t]
  BY <1>1, <1>2 DEF BatchKnown
<1>3. ASSUME NEW t \in Timers, FindCurrent(t)
      PROVE  BatchKnown'
  <2>1. \/ pc'[t] = "expire" /\ cur'[t] \in DOMAIN batches
        \/ pc'[t] = "createCurrent"
    BY <1>3 DEF TypeOK, FindCurrent, IsCurrentCollecting, Collecting, Goto
  <2>2. \A u \in Timers \ {t} : pc'[u] = pc[u] /\ cur'[u] = cur[u]
    BY <1>3 DEF TypeOK, FindCurrent, Goto
  <2>3. QED BY <1>1, <2>1, <2>2 DEF BatchKnown
<1>4. ASSUME NEW t \in Timers, CreateCurrent(t)
      PROVE  BatchKnown'
  <2>1. cur'[t] \in DOMAIN batches'
    BY <1>4, CreateSteps DEF TypeOK, CreateCurrent
  <2>2. \A u \in Timers \ {t} : pc'[u] = pc[u] /\ cur'[u] = cur[u]
    BY <1>4 DEF TypeOK, CreateCurrent, Goto
  <2>3. QED BY <1>1, <2>1, <2>2 DEF BatchKnown
<1>5. CASE UNCHANGED vars \/ \E o \in Orders : Client(o)
  <2>1. UNCHANGED <<pc, cur>>
    BY <1>5 DEF vars, locals, Client, SubmitOrder, InsertOrder, RequestCancel,
                CancelOrder, Lapse
  <2>2. QED BY <1>2, <2>1
<1>6. ASSUME NEW t \in Timers, Failure(t) \/ Restart(t)
      PROVE  BatchKnown'
  <2>1. pc'[t] \notin Inside
    BY <1>6 DEF TypeOK, Failure, StatementFails, EnsureFails, SolverPanics, Crash,
                Restart, Goto, Leave, CycleLabels
  <2>2. \A u \in Timers \ {t} : pc'[u] = pc[u] /\ cur'[u] = cur[u]
    BY <1>6 DEF TypeOK, Failure, StatementFails, EnsureFails, SolverPanics, Crash,
                Restart, Goto, Leave, locals
  <2>3. QED BY <1>2, <2>1, <2>2
<1>7. ASSUME NEW t \in Timers, TimerStep(t), ~FindCurrent(t), ~CreateCurrent(t)
      PROVE  BatchKnown'
  <2>1. \A u \in Timers \ {t} : pc'[u] = pc[u] /\ cur'[u] = cur[u]
    BY <1>7 DEF TypeOK, TimerStep, EnsureFound, EnsureMissing, EnsureCreate, Tick,
         Statement, Expire, Fetch, Assign, Close, Compete, Persist, PersistConflict,
         MarkSolved, Settle, SettleOrders, FailBatch, Reopen, CreateNext,
         Goto, Leave, locals
  <2>2. pc'[t] \in Inside => pc[t] \in Inside /\ cur'[t] = cur[t]
    BY <1>7 DEF TypeOK, TimerStep, EnsureFound, EnsureMissing, EnsureCreate, Tick,
         Statement, Expire, Fetch, Assign, Close, Compete, Persist, PersistConflict,
         MarkSolved, Settle, SettleOrders, FailBatch, Reopen, CreateNext,
         Goto, Leave, locals, CycleLabels
  <2>3. QED BY <1>2, <2>1, <2>2
<1>8. QED BY <1>3, <1>4, <1>5, <1>6, <1>7 DEF Next

-----------------------------------------------------------------------------
(* The order_count of a batch                                              *)

\* What the statements on a batch do to its count.
LEMMA CountSteps ==
    ASSUME TypeOK, NEW t \in Timers, NEW b \in DOMAIN batches
    PROVE  /\ Close(t) \/ Settle(t) \/ FailBatch(t) =>
                 batches'[b].solved = batches[b].solved /\ batches'[b].count = batches[b].count
           /\ MarkSolved(t) =>
                 /\ b # cur[t] => batches'[b] = batches[b]
                 /\ b = cur[t] => batches'[b].count = Cardinality(snap[t])
<1>1. DOMAIN batches = 1..Len(batches) /\ batches \in [1..Len(batches) -> BatchRow]
  BY LenProperties DEF TypeOK
<1>2. ASSUME NEW st, batches' = UpdateBatchStatus(batches, cur[t], st)
      PROVE  batches'[b].solved = batches[b].solved /\ batches'[b].count = batches[b].count
  BY <1>1, <1>2 DEF UpdateBatchStatus, BatchRow
<1>3. ASSUME NEW n, batches' = MarkBatchSolved(batches, cur[t], n)
      PROVE  /\ b # cur[t] => batches'[b] = batches[b]
             /\ b = cur[t] => batches'[b].count = n
  BY <1>1, <1>3 DEF MarkBatchSolved, BatchRow
<1>4. QED BY <1>2, <1>3 DEF Close, Settle, FailBatch, MarkSolved

\* A step that touches neither batches nor settlements, and brings no timer to
\* persist or behind it.
LEMMA CountFrame ==
    ASSUME CountInv, BatchKnown', UNCHANGED <<batches, settlements>>,
           \A t \in Timers : pc'[t] \in {"persist", "markSolved"} =>
              /\ pc'[t] = pc[t] /\ cur'[t] = cur[t]
              /\ snap'[t] = snap[t] /\ plan'[t] = plan[t]
    PROVE  CountInv'
  BY DEF CountInv, CountCoversTrades, HasSettlement

LEMMA CountTimerStep ==
    ASSUME TypeOK, CountInv, BatchKnown', NEW t \in Timers, TimerStep(t)
    PROVE  CountInv'
<1> USE DEF Goto, locals
<1>1. /\ pc \in [Timers -> Labels]
      /\ cur \in [Timers -> Nat]
      /\ snap \in [Timers -> SUBSET Orders]
      /\ plan \in [Timers -> SUBSET Orders]
      /\ settlements \subseteq SettlementRow
  BY DEF TypeOK
<1>2. CASE EnsureFound(t) \/ EnsureMissing(t) \/ Tick(t) \/ FindCurrent(t)
            \/ Expire(t) \/ Fetch(t) \/ Assign(t) \/ PersistConflict(t)
            \/ SettleOrders(t) \/ Reopen(t)
  BY <1>1, <1>2, CountFrame
     DEF EnsureFound, EnsureMissing, Tick, FindCurrent, Expire, Fetch, Assign,
         PersistConflict, SettleOrders, Reopen, Leave, tables
<1>3. CASE EnsureCreate(t) \/ CreateCurrent(t) \/ CreateNext(t)
  <2>1. UNCHANGED settlements
    BY <1>3 DEF EnsureCreate, CreateCurrent, CreateNext
  <2>2. \A u \in Timers : pc'[u] \in {"persist", "markSolved"} =>
           /\ pc'[u] = pc[u] /\ cur'[u] = cur[u]
           /\ snap'[u] = snap[u] /\ plan'[u] = plan[u]
    BY <1>1, <1>3 DEF EnsureCreate, CreateCurrent, CreateNext, Leave
  <2>3. \A b \in DOMAIN batches : b \in DOMAIN batches' /\ batches'[b] = batches[b]
    BY <1>3, CreateSteps
  <2>4. CountCoversTrades'
    BY <2>1, <2>3 DEF CountInv, CountCoversTrades
  <2>5. \A b \in DOMAIN batches' : batches'[b].solved =>
           b \in DOMAIN batches /\ batches[b].solved
    <3>1. /\ DOMAIN batches' = 1..(Len(batches) + 1) /\ DOMAIN batches = 1..Len(batches)
          /\ Len(batches) \in Nat
          /\ batches'[Len(batches) + 1] = NewBatch
      BY <1>3, CreateBatchRows DEF TypeOK, EnsureCreate, CreateCurrent, CreateNext
    <3>2. ~NewBatch.solved
      BY DEF NewBatch
    <3>3. QED BY <2>3, <3>1, <3>2
  <2>6. QED
    BY <2>1, <2>2, <2>3, <2>4, <2>5 DEF CountInv, HasSettlement
<1>4. CASE Close(t) \/ Settle(t) \/ FailBatch(t)
  <2>1. UNCHANGED <<settlements, cur, snap, plan>>
    BY <1>4 DEF Close, Settle, FailBatch
  <2>2. \A u \in Timers : pc'[u] \in {"persist", "markSolved"} => pc'[u] = pc[u]
    BY <1>1, <1>4 DEF Close, Settle, FailBatch
  <2>3. /\ DOMAIN batches' = DOMAIN batches
        /\ \A b \in DOMAIN batches :
              batches'[b].solved = batches[b].solved /\ batches'[b].count = batches[b].count
    BY <1>4, BatchSteps, CountSteps
  <2>4. CountCoversTrades'
    BY <2>1, <2>3 DEF CountInv, CountCoversTrades
  <2>5. QED BY <2>1, <2>2, <2>3, <2>4 DEF CountInv, HasSettlement
<1>5. CASE Compete(t)
  <2>1. UNCHANGED <<batches, settlements, cur, snap>>
    BY <1>5 DEF Compete, tables
  <2>2. pc'[t] = "persist" => plan'[t] \subseteq snap[t]
    BY <1>1, <1>5 DEF Compete, Solutions, Matchable
  <2>3. /\ pc'[t] # "markSolved"
        /\ \A u \in Timers \ {t} : pc'[u] = pc[u] /\ plan'[u] = plan[u]
    BY <1>1, <1>5 DEF Compete
  <2>4. QED BY <2>1, <2>2, <2>3 DEF CountInv, CountCoversTrades, HasSettlement
<1>6. CASE Persist(t)
  <2> DEFINE row == [batch |-> cur[t], trades |-> plan[t]]
  <2>1. /\ UNCHANGED <<batches, cur, snap, plan>>
        /\ pc[t] = "persist" /\ pc'[t] = "markSolved"
        /\ \A u \in Timers \ {t} : pc'[u] = pc[u]
        /\ settlements' = settlements \cup {row}
        /\ ~HasSettlement(settlements, cur[t])
    BY <1>1, <1>6 DEF Persist, InsertSettlement
  <2>2. row.batch = cur[t] /\ row.trades = plan[t]
    OBVIOUS
  <2> HIDE DEF row
  <2>3. cur[t] \in DOMAIN batches /\ ~batches[cur[t]].solved
    BY <2>1 DEF CountInv, BatchKnown, CycleLabels
  <2>4. CountCoversTrades'
    BY <2>1, <2>2, <2>3 DEF CountInv, CountCoversTrades
  <2>5. \A b : HasSettlement(settlements, b) => HasSettlement(settlements', b)
    BY <2>1 DEF HasSettlement
  <2>6. /\ HasSettlement(settlements', cur[t])
        /\ \A s \in settlements' : s.batch = cur[t] => s.trades \subseteq snap[t]
    BY <2>1, <2>2 DEF CountInv, HasSettlement
  <2>7. \A u \in Timers \ {t} : pc'[u] = "markSolved" => cur[u] # cur[t]
    BY <2>1 DEF CountInv
  <2>8. QED BY <2>1, <2>2, <2>3, <2>4, <2>5, <2>6, <2>7 DEF CountInv
<1>7. CASE MarkSolved(t)
  <2>1. /\ UNCHANGED <<settlements, cur, snap, plan>>
        /\ pc[t] = "markSolved" /\ pc'[t] = "settle"
        /\ \A u \in Timers \ {t} : pc'[u] = pc[u]
    BY <1>1, <1>7 DEF MarkSolved
  <2>2. DOMAIN batches' = DOMAIN batches
    BY <1>7, BatchSteps
  <2>3. \A b \in DOMAIN batches :
          /\ b # cur[t] => batches'[b] = batches[b]
          /\ b = cur[t] => batches'[b].count = Cardinality(snap[t])
    BY <1>7, CountSteps
  <2>4. IsFiniteSet(snap[t])
    BY <1>1, OrdersAssumption, FS_Subset
  <2>5. \A s \in settlements : s.batch = cur[t] => Cardinality(s.trades) <= Cardinality(snap[t])
    BY <2>1, <2>4, FS_Subset DEF CountInv
  <2>6. CountCoversTrades'
    BY <2>1, <2>3, <2>5 DEF CountInv, CountCoversTrades
  <2>7. QED BY <2>1, <2>2, <2>3, <2>6 DEF CountInv
<1>8. QED BY <1>2, <1>3, <1>4, <1>5, <1>6, <1>7 DEF TimerStep, Statement

LEMMA CountStep ==
    ASSUME TypeOK, CountInv, [Next]_vars
    PROVE  CountInv'
<1>1. BatchKnown'
  BY BatchKnownStep DEF CountInv
<1>2. CASE UNCHANGED vars \/ \E o \in Orders : Client(o)
  <2>1. UNCHANGED <<batches, settlements, pc, cur, snap, plan>>
    BY <1>2 DEF vars, tables, locals, Client, SubmitOrder, InsertOrder,
                RequestCancel, CancelOrder, Lapse
  <2>2. QED BY <1>1, <2>1, CountFrame
<1>3. CASE \E t \in Timers : TimerStep(t)
  BY <1>1, <1>3, CountTimerStep
<1>4. CASE \E t \in Timers : Failure(t) \/ Restart(t)
  <2>1. UNCHANGED <<batches, settlements>>
    BY <1>4 DEF tables, Failure, StatementFails, EnsureFails, SolverPanics, Crash, Restart
  <2>2. \A u \in Timers : pc'[u] \in {"persist", "markSolved"} =>
           /\ pc'[u] = pc[u] /\ cur'[u] = cur[u]
           /\ snap'[u] = snap[u] /\ plan'[u] = plan[u]
    BY <1>4 DEF TypeOK, Failure, StatementFails, EnsureFails, SolverPanics, Crash,
                Restart, Goto, Leave, locals
  <2>3. QED BY <1>1, <2>1, <2>2, CountFrame
<1>5. QED BY <1>2, <1>3, <1>4 DEF Next

\* The order_count that mark_solved stores covers every trade of the batch, also
\* when several instances close the same batch from different reads.
THEOREM CountsCoverTrades == Spec => []CountCoversTrades
<1>1. Init => CountInv
  BY EmptySeq DEF Init, CountInv, CountCoversTrades, BatchKnown, CycleLabels
<1>2. TypeOK /\ CountInv /\ [Next]_vars => CountInv'
  BY CountStep
<1>3. CountInv => CountCoversTrades
  BY DEF CountInv
<1>4. QED BY <1>1, <1>2, <1>3, TypeCorrectness, PTL DEF Spec

-----------------------------------------------------------------------------
(* First come, first served                                                *)

\* created_at is written by the insert alone.
LEMMA CreatedSteps ==
    ASSUME TypeOK, [Next]_vars, NEW p \in Orders
    PROVE  \/ orders'[p].created = orders[p].created
           \/ InsertOrder(p)
<1>1. orders \in [Orders -> OrderRow]
  BY DEF TypeOK
<1>2. CASE orders' = orders
  BY <1>2
<1>3. ASSUME NEW o \in Orders, InsertOrder(o), o # p
      PROVE  orders'[p].created = orders[p].created
  BY <1>1, <1>3 DEF InsertOrder, InsertOrderRow
<1>4. ASSUME NEW o \in Orders, CancelOrder(o)
      PROVE  orders'[p].created = orders[p].created
  BY <1>1, <1>4 DEF CancelOrder, CancelRow, OrderRow
<1>5. ASSUME NEW t \in Timers, Expire(t)
      PROVE  orders'[p].created = orders[p].created
  BY <1>1, <1>5 DEF Expire, ExpireOrders, OrderRow
<1>6. ASSUME NEW t \in Timers, Assign(t)
      PROVE  orders'[p].created = orders[p].created
  BY <1>1, <1>6 DEF Assign, AssignToBatch, OrderRow
<1>7. ASSUME NEW t \in Timers, SettleOrders(t) \/ Reopen(t)
      PROVE  orders'[p].created = orders[p].created
  BY <1>1, <1>7 DEF SettleOrders, Reopen, UpdateBatchOrdersStatus, OrderRow
<1>8. \/ orders' = orders
      \/ \E o \in Orders : InsertOrder(o) \/ CancelOrder(o)
      \/ \E t \in Timers : Expire(t) \/ Assign(t) \/ SettleOrders(t) \/ Reopen(t)
  BY DEF Next, vars, tables, Client, SubmitOrder, RequestCancel, Lapse, Restart,
         TimerStep, EnsureFound, EnsureMissing, EnsureCreate, Tick, Statement,
         FindCurrent, CreateCurrent, Fetch, Close, Compete, Persist,
         PersistConflict, MarkSolved, Settle, FailBatch, CreateNext,
         Failure, StatementFails, EnsureFails, SolverPanics, Crash
<1>9. QED BY <1>2, <1>3, <1>4, <1>5, <1>6, <1>7, <1>8

\* find_open_unassigned reads a prefix of the queue.
LEMMA FetchIsPrefix ==
    ASSUME TypeOK,
           NEW o \in FindOpenUnassigned(orders, lapsed, BatchLimit),
           NEW p \in OpenUnassigned(orders, lapsed),
           orders[p].created < orders[o].created
    PROVE  p \in FindOpenUnassigned(orders, lapsed, BatchLimit)
<1> DEFINE S == OpenUnassigned(orders, lapsed)
           Before(q) == {r \in S : orders[r].created < orders[q].created}
<1>1. S \subseteq Orders /\ \A q \in S : orders[q].created \in Nat
  BY DEF TypeOK, OpenUnassigned, OrderRow
<1>2. o \in S /\ Cardinality(Before(o)) < BatchLimit
  BY DEF FindOpenUnassigned
<1>3. Before(p) \subseteq Before(o)
  BY <1>1, <1>2
<1>4. IsFiniteSet(Before(o))
  BY <1>1, OrdersAssumption, FS_Subset
<1>5. /\ Cardinality(Before(p)) \in Nat /\ Cardinality(Before(o)) \in Nat
      /\ Cardinality(Before(p)) <= Cardinality(Before(o))
  BY <1>3, <1>4, FS_Subset, FS_CardinalityType
<1>6. Cardinality(Before(p)) < BatchLimit
  BY <1>2, <1>5, BoundsAssumption
<1>7. QED BY <1>6 DEF FindOpenUnassigned

\* A batch is in hand at the statements that write its rows.
LEMMA KnownInHand == BatchKnown => BatchesInHand
  BY DEF BatchKnown, BatchesInHand, CycleLabels

\* A timer stays between the read and the assignment, or has just read.
LEMMA AssignLabel ==
    ASSUME TypeOK, [Next]_vars, NEW t \in Timers, pc'[t] = "assign"
    PROVE  \/ Fetch(t)
           \/ /\ pc[t] = "assign"
              /\ snap'[t] = snap[t]
              /\ late[t] \subseteq late'[t]
              /\ \A p \in Orders : InsertOrder(p) => p \in late'[t]
<1>1. ASSUME NEW p \in Orders, InsertOrder(p)
      PROVE  /\ pc[t] = "assign"
             /\ snap'[t] = snap[t]
             /\ late'[t] = late[t] \cup {p}
  BY <1>1 DEF InsertOrder
<1>2. ASSUME \A p \in Orders : ~InsertOrder(p),
             UNCHANGED vars \/ \E q \in Orders : Client(q)
      PROVE  pc[t] = "assign" /\ snap'[t] = snap[t] /\ late'[t] = late[t]
  BY <1>2 DEF vars, locals, Client, SubmitOrder, RequestCancel, CancelOrder, Lapse
<1>3. ASSUME NEW u \in Timers, Failure(u) \/ Restart(u)
      PROVE  pc[t] = "assign" /\ snap'[t] = snap[t] /\ late'[t] = late[t]
  BY <1>3 DEF TypeOK, Failure, StatementFails, EnsureFails, SolverPanics, Crash,
              Restart, Goto, Leave, locals
<1>4. ASSUME NEW u \in Timers, TimerStep(u)
      PROVE  \/ Fetch(t)
             \/ pc[t] = "assign" /\ snap'[t] = snap[t] /\ late'[t] = late[t]
  BY <1>4 DEF TypeOK, TimerStep, EnsureFound, EnsureMissing, EnsureCreate, Tick,
       Statement, FindCurrent, CreateCurrent, Expire, Fetch, Assign, Close,
       Compete, Persist, PersistConflict, MarkSolved, Settle, SettleOrders,
       FailBatch, Reopen, CreateNext, Goto, Leave, locals
<1>5. ASSUME \E u \in Timers : TimerStep(u) \/ Failure(u) \/ Restart(u)
      PROVE  \A p \in Orders : ~InsertOrder(p)
  <2>1. pc' # pc
    BY <1>5 DEF TypeOK, TimerStep, EnsureFound, EnsureMissing, EnsureCreate, Tick,
       Statement, FindCurrent, CreateCurrent, Expire, Fetch, Assign, Close,
       Compete, Persist, PersistConflict, MarkSolved, Settle, SettleOrders,
       FailBatch, Reopen, CreateNext, Goto, Leave, Failure, StatementFails,
       EnsureFails, SolverPanics, Crash, Restart, CycleLabels, EnsureLabels
  <2>2. QED BY <2>1 DEF InsertOrder
<1>6. QED BY <1>1, <1>2, <1>3, <1>4, <1>5 DEF Next

\* The order a timer reads the queue in survives whatever happens until it
\* assigns the rows: of the rows that were there, the queue only loses some.
LEMMA AheadStep ==
    ASSUME TypeOK, QueueInv, BatchesInHand, [Next]_vars
    PROVE  AheadOfQueue'
<1> SUFFICES ASSUME NEW t \in Timers, pc'[t] = "assign", NEW o \in snap'[t]
             PROVE  /\ orders'[o].status # "absent"
                    /\ \A p \in OpenUnassigned(orders', lapsed') \ late'[t] :
                          orders'[p].created < orders'[o].created => p \in snap'[t]
  BY DEF AheadOfQueue
<1>1. CASE Fetch(t)
  <2>1. /\ snap'[t] = FindOpenUnassigned(orders, lapsed, BatchLimit)
        /\ orders' = orders /\ lapsed' = lapsed
    BY <1>1 DEF TypeOK, Fetch, tables
  <2>2. orders[o].status # "absent"
    BY <2>1 DEF FindOpenUnassigned, OpenUnassigned
  <2>3. QED BY <2>1, <2>2, FetchIsPrefix
<1>2. CASE /\ pc[t] = "assign"
           /\ snap'[t] = snap[t]
           /\ late[t] \subseteq late'[t]
           /\ \A p \in Orders : InsertOrder(p) => p \in late'[t]
  <2>1. /\ o \in Orders
        /\ orders[o].status # "absent"
        /\ \A p \in OpenUnassigned(orders, lapsed) \ late[t] :
              orders[p].created < orders[o].created => p \in snap[t]
    BY <1>2 DEF QueueInv, AheadOfQueue, TypeOK
  <2>2. RowsWellFormed
    BY DEF QueueInv
  <2>3. ~InsertOrder(o)
    BY <2>1, <2>2 DEF InsertOrder, RowsWellFormed
  <2>4. orders'[o].status # "absent" /\ orders'[o].created = orders[o].created
    BY <2>1, <2>2, <2>3, RowSteps, CreatedSteps
  <2>5. ASSUME NEW p \in OpenUnassigned(orders', lapsed') \ late'[t],
               orders'[p].created < orders'[o].created
        PROVE  p \in snap'[t]
    <3>1. p \in Orders /\ orders'[p].status = "open" /\ orders'[p].batch = NoBatch
            /\ p \notin lapsed'
      BY <2>5 DEF OpenUnassigned
    <3>2. ~InsertOrder(p)
      BY <1>2, <2>5, <3>1
    <3>3. lapsed \subseteq lapsed'
      BY DEF Next, vars, Client, SubmitOrder, InsertOrder, RequestCancel, CancelOrder,
             Lapse, Restart, TimerStep, EnsureFound, EnsureMissing, EnsureCreate, Tick,
             Statement, FindCurrent, CreateCurrent, Expire, Fetch, Assign, Close,
             Compete, Persist, PersistConflict, MarkSolved, Settle, SettleOrders,
             FailBatch, Reopen, CreateNext,
             Failure, StatementFails, EnsureFails, SolverPanics, Crash
    <3>4. p \in OpenUnassigned(orders, lapsed)
      BY <2>2, <3>1, <3>2, <3>3, RowSteps DEF OpenUnassigned
    <3>5. orders'[p].created = orders[p].created
      BY <3>1, <3>2, CreatedSteps
    <3>6. QED BY <1>2, <2>1, <2>4, <2>5, <3>4, <3>5
  <2>6. QED BY <2>4, <2>5
<1>3. QED BY <1>1, <1>2, AssignLabel

LEMMA QueueStep ==
    ASSUME TypeOK, QueueInv, BatchesInHand, [Next]_vars
    PROVE  QueueInv'
<1>1. RowsWellFormed'
  BY RowsStep DEF QueueInv
<1>2. QED BY <1>1, AheadStep DEF QueueInv

LEMMA QueueInit == Init => QueueInv /\ BatchKnown
<1> SUFFICES ASSUME Init PROVE QueueInv /\ BatchKnown
  OBVIOUS
<1>1. /\ creating = {}
      /\ \A o \in Orders : orders[o].status = "absent" /\ orders[o].batch = NoBatch
      /\ \A t \in Timers : pc[t] = "ensure"
  BY DEF Init, NoOrder
<1>2. QED
  BY <1>1 DEF QueueInv, BatchKnown, CycleLabels, RowsWellFormed, AheadOfQueue

\* A timer that goes from its read to the next statement has assigned the rows.
LEMMA AssignSteps ==
    ASSUME TypeOK, [Next]_vars, NEW t \in Timers, pc[t] = "assign", pc'[t] = "close"
    PROVE  Assign(t)
<1>1. ~UNCHANGED vars /\ \A o \in Orders : ~Client(o)
  BY DEF vars, locals, Client, SubmitOrder, InsertOrder, RequestCancel, CancelOrder, Lapse
<1>2. \A u \in Timers : ~Failure(u) /\ ~Restart(u)
  BY DEF TypeOK, Failure, StatementFails, EnsureFails, SolverPanics, Crash, Restart,
         Goto, Leave, locals
<1>3. ASSUME NEW u \in Timers, TimerStep(u)
      PROVE  Assign(t)
  BY <1>3 DEF TypeOK, TimerStep, EnsureFound, EnsureMissing, EnsureCreate, Tick,
       Statement, FindCurrent, CreateCurrent, Expire, Fetch, Assign, Close,
       Compete, Persist, PersistConflict, MarkSolved, Settle, SettleOrders,
       FailBatch, Reopen, CreateNext, Goto, Leave, locals
<1>4. QED BY <1>1, <1>2, <1>3 DEF Next

\* assign_to_batch takes every row read that is still open, and of the orders
\* that were there to be read none that is older than one of them is left.
LEMMA ServedInOrder ==
    ASSUME TypeOK, QueueInv, [Next]_vars,
           NEW t \in Timers, pc[t] = "assign", pc'[t] = "close",
           NEW o \in Orders, NEW p \in Orders,
           orders[o].status = "open", orders'[o].status = "matched",
           p \in OpenUnassigned(orders, lapsed) \ late[t],
           orders[p].created < orders[o].created
    PROVE  orders'[p].status = "matched"
<1>1. Assign(t)
  BY AssignSteps
<1>2. o \in snap[t]
  BY <1>1, OrderSteps
<1>3. p \in snap[t] /\ orders[p].status = "open"
  BY <1>2 DEF QueueInv, AheadOfQueue, OpenUnassigned
<1>4. QED BY <1>1, <1>3, OrderSteps

\* No order is assigned before an older one that waits too and was there when
\* the queue was read, for any number of instances that read the queue and
\* assign from it concurrently, and whatever the order is in which concurrent
\* INSERTs, whose created_at is the start of their transaction, commit.
THEOREM ServedFirstComeFirst == Spec => FirstComeFirstServed
<1> DEFINE Served == \A t \in Timers : (pc[t] = "assign" /\ pc'[t] = "close") =>
              \A o, p \in Orders :
                 (/\ orders[o].status = "open" /\ orders'[o].status = "matched"
                  /\ p \in OpenUnassigned(orders, lapsed) \ late[t]
                  /\ orders[p].created < orders[o].created)
                 => orders'[p].status = "matched"
<1>1. TypeOK /\ QueueInv /\ [Next]_vars => [Served]_vars
  BY ServedInOrder
<1>2. TypeOK /\ QueueInv /\ BatchKnown /\ [Next]_vars => QueueInv' /\ BatchKnown'
  BY KnownInHand, QueueStep, BatchKnownStep
<1> HIDE DEF Served
<1>3. Spec => [][Served]_vars
  BY QueueInit, <1>1, <1>2, TypeCorrectness, PTL DEF Spec
<1>4. QED BY <1>3 DEF FirstComeFirstServed, Served

=============================================================================
