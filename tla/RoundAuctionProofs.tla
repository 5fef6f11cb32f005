------------------------- MODULE RoundAuctionProofs -------------------------
(***************************************************************************)
(* One server instance implements RoundAuction: every step of BatchAuction *)
(* is a step of the abstract auction or leaves its variables alone.        *)
(***************************************************************************)
EXTENDS BatchAuctionProofs

LEMMA RoundsInit == Init => Rounds!Init
<1> SUFFICES ASSUME Init PROVE Rounds!Init
  OBVIOUS
<1>1. /\ settlements = {}
      /\ \A o \in Orders : orders[o].status = "absent" /\ orders[o].batch = 0
  BY DEF Init, NoOrder, NoBatch
<1>2. QED BY <1>1 DEF Rounds!Init

\* A statement on the batches, or a step that changes no table.
LEMMA RoundsStutter ==
    ASSUME UNCHANGED <<orders, settlements>>
    PROVE  UNCHANGED Rounds!vars
  BY DEF Rounds!vars

\* A step that changes no batch id and keeps every waiting order and every
\* withdrawn one.
LEMMA RoundsKept ==
    ASSUME UNCHANGED settlements,
           \A p \in Orders :
              /\ orders'[p].batch = orders[p].batch
              /\ orders[p].batch = NoBatch => orders'[p].status = orders[p].status
    PROVE  UNCHANGED Rounds!vars
  BY DEF Rounds!vars

LEMMA RoundsEnter ==
    ASSUME TypeOK, SingleInv, NEW o \in Orders, InsertOrder(o)
    PROVE  Rounds!Enter(o)
<1>1. settlements' = settlements
  BY DEF InsertOrder
<1>2. orders[o].status = "absent" /\ orders[o].batch = 0
  BY DEF InsertOrder, SingleInv, RowsWellFormed, NoBatch
<1>3. \A p \in Orders :
        /\ orders'[p].status = IF p = o THEN "open" ELSE orders[p].status
        /\ orders'[p].batch = IF p = o THEN 0 ELSE orders[p].batch
  BY OrderSteps DEF NoBatch
<1>4. QED BY <1>1, <1>2, <1>3 DEF Rounds!Enter, NoBatch

\* Orders leave the table of open orders for one of the final statuses.
LEMMA RoundsWithdraw ==
    ASSUME UNCHANGED settlements,
           \A p \in Orders :
              /\ orders'[p].batch = orders[p].batch
              /\ orders'[p].status # orders[p].status =>
                    orders[p].status = "open" /\ orders'[p].status \in {"cancelled", "expired"}
    PROVE  Rounds!Withdraw
  BY DEF Rounds!Withdraw

\* assign_to_batch draws the orders that are still open, if any, into a batch
\* that is collecting and has therefore no settlement.
LEMMA RoundsDraw ==
    ASSUME TypeOK, SingleInv, NEW t \in Timers, Assign(t)
    PROVE  Rounds!Draw \/ UNCHANGED Rounds!vars
<1> DEFINE drawn == {o \in snap[t] : orders[o].status = "open"}
<1>1. /\ settlements' = settlements
      /\ pc[t] = "assign"
  BY DEF Assign
<1>2. /\ drawn \subseteq Orders
      /\ \A o \in drawn : orders[o].status = "open" /\ orders[o].batch = NoBatch
  BY <1>1 DEF TypeOK, SingleInv, CycleRows
<1>3. \A p \in Orders :
        /\ p \in drawn => orders'[p].status = "matched" /\ orders'[p].batch = cur[t]
        /\ p \notin drawn => /\ orders'[p].status = orders[p].status
                             /\ orders'[p].batch = orders[p].batch
  BY OrderSteps
<1>4. cur[t] # NoBatch
  BY <1>1, NoBatchIsNone DEF SingleInv, CycleBatch, Collecting
<1>5. ~Rounds!Filled(cur[t])
  BY <1>1 DEF SingleInv, CycleBatch, Collecting, SettlementsOfClosed, Rounds!Filled
<1> HIDE DEF drawn
<1>6. CASE drawn = {}
  <2>1. UNCHANGED Rounds!vars
    BY <1>1, <1>3, <1>6, RoundsKept
  <2>2. QED BY <2>1
<1>7. CASE drawn # {}
  <2> DEFINE W == {o \in Orders : orders[o].status = "open" /\ orders[o].batch = NoBatch}
             V == {o \in Orders : orders'[o].status = "open" /\ orders'[o].batch = NoBatch}
  <2>1. V \subseteq W /\ W \ V = drawn
    BY <1>2, <1>3, <1>4
  <2>2. cur[t] \in {orders'[o].batch : o \in drawn}
    BY <1>2, <1>3, <1>7
  <2>3. [o \in Orders |-> orders'[o].batch] =
          [o \in Orders |-> IF o \in drawn THEN cur[t] ELSE orders[o].batch]
    BY <1>3
  <2>4. Rounds!Draw
    BY <1>1, <1>2, <1>3, <1>4, <1>5, <2>1, <2>2, <2>3 DEF Rounds!Draw, NoBatch
  <2>5. QED BY <2>4
<1>8. QED BY <1>6, <1>7

\* update_batch_orders_status writes rows of the running batch, which are
\* neither waiting nor withdrawn, before and after.
LEMMA RoundsBatchOrders ==
    ASSUME TypeOK, SingleInv, NEW t \in Timers, SettleOrders(t) \/ Reopen(t)
    PROVE  UNCHANGED Rounds!vars
<1>1. settlements' = settlements /\ cur[t] # NoBatch
  BY NoBatchIsNone DEF SettleOrders, Reopen, SingleInv, CycleBatch
<1>2. \A p \in Orders :
        /\ orders'[p].batch = orders[p].batch
        /\ orders[p].batch # cur[t] => orders'[p].status = orders[p].status
  BY OrderSteps
<1>3. QED BY <1>1, <1>2, RoundsKept

\* persist_settlement fills the batch: what the winner trades was read by this
\* cycle, so it is in the batch or was cancelled meanwhile, and new.
LEMMA RoundsFill ==
    ASSUME TypeOK, SingleInv, NEW t \in Timers, Persist(t)
    PROVE  Rounds!Fill
<1> DEFINE row == [batch |-> cur[t], trades |-> plan[t]]
<1>1. /\ orders' = orders
      /\ settlements' = settlements \cup {row}
      /\ ~HasSettlement(settlements, cur[t])
      /\ pc[t] = "persist"
  BY DEF Persist, InsertSettlement
<1>2. row.batch = cur[t] /\ row.trades = plan[t]
  OBVIOUS
<1> HIDE DEF row
<1>3. ~Rounds!Filled(row.batch)
  BY <1>1, <1>2 DEF HasSettlement, Rounds!Filled
<1>4. row.trades # {} /\ row.trades \cap Rounds!Traded = {}
  BY <1>1, <1>2 DEF SingleInv, CycleRows, Traded, Rounds!Traded
<1>5. \A o \in row.trades :
        /\ o \in Orders
        /\ \/ orders[o].batch = row.batch
           \/ orders[o].status = "cancelled" /\ orders[o].batch = NoBatch
  BY <1>1, <1>2 DEF TypeOK, SingleInv, CycleRows
<1>6. QED BY <1>1, <1>3, <1>4, <1>5 DEF Rounds!Fill

\* Every step, under the invariant of one running instance.
LEMMA RoundsStep ==
    ASSUME TypeOK, SingleInv, [Next]_vars
    PROVE  [Rounds!Next]_(Rounds!vars)
<1>1. CASE UNCHANGED <<orders, settlements>>
  BY <1>1, RoundsStutter
<1>2. ASSUME NEW o \in Orders, InsertOrder(o)
      PROVE  Rounds!Next
  BY <1>2, RoundsEnter DEF Rounds!Next
<1>3. ASSUME NEW o \in Orders, CancelOrder(o)
      PROVE  Rounds!Next
  <2>1. \A p \in Orders :
          /\ orders'[p].batch = orders[p].batch
          /\ orders'[p].status # orders[p].status =>
                orders[p].status = "open" /\ orders'[p].status = "cancelled"
    BY <1>3, OrderSteps
  <2>2. QED BY <1>3, <2>1, RoundsWithdraw DEF CancelOrder, Rounds!Next
<1>4. ASSUME NEW t \in Timers, Expire(t)
      PROVE  Rounds!Next
  <2>1. \A p \in Orders :
          /\ orders'[p].batch = orders[p].batch
          /\ orders'[p].status # orders[p].status =>
                orders[p].status = "open" /\ orders'[p].status = "expired"
    BY <1>4, OrderSteps
  <2>2. QED BY <1>4, <2>1, RoundsWithdraw DEF Expire, Rounds!Next
<1>5. ASSUME NEW t \in Timers, Assign(t)
      PROVE  Rounds!Next \/ UNCHANGED Rounds!vars
  BY <1>5, RoundsDraw DEF Rounds!Next
<1>6. ASSUME NEW t \in Timers, SettleOrders(t) \/ Reopen(t)
      PROVE  UNCHANGED Rounds!vars
  BY <1>6, RoundsBatchOrders
<1>7. ASSUME NEW t \in Timers, Persist(t)
      PROVE  Rounds!Next
  BY <1>7, RoundsFill DEF Rounds!Next
<1>8. \/ UNCHANGED <<orders, settlements>>
      \/ \E o \in Orders : InsertOrder(o) \/ CancelOrder(o)
      \/ \E t \in Timers : \/ Expire(t) \/ Assign(t) \/ SettleOrders(t)
                           \/ Reopen(t) \/ Persist(t)
  BY DEF Next, vars, tables, Client, SubmitOrder, RequestCancel, Lapse, Restart,
         TimerStep, EnsureFound, EnsureMissing, EnsureCreate, Tick, Statement,
         FindCurrent, CreateCurrent, Fetch, Close, Compete,
         PersistConflict, MarkSolved, Settle, FailBatch, CreateNext,
         Failure, StatementFails, EnsureFails, SolverPanics, Crash
<1>9. QED BY <1>1, <1>2, <1>3, <1>4, <1>5, <1>6, <1>7, <1>8

\* With one instance every behaviour of the cycle, its clients and its failures
\* is one of the abstract auction: an order is drawn into one round, a round is
\* filled once, all together, and an order is traded in one round at most.
THEOREM AuctionImplementsRounds == ASSUME OneTimer PROVE Spec => ImplementsRounds
<1>1. TypeOK /\ SingleInv /\ [Next]_vars => [Rounds!Next]_(Rounds!vars)
  BY RoundsStep
<1>2. QED
  BY RoundsInit, <1>1, TypeCorrectness, SingleInvariance, PTL
     DEF Spec, ImplementsRounds, Rounds!Spec

=============================================================================
