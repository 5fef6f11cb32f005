---------------------------- MODULE BatchAuction ----------------------------
(***************************************************************************)
(* The batch auction: the batch timers (BatchService.close_and_solve, one  *)
(* SQL statement per step) and the order API (create, cancel) over the     *)
(* tables of Store, with failing statements, solver panics and crashes.    *)
(*                                                                         *)
(* A timer is one server instance's background task.  The deployment of    *)
(* docker-compose.yml runs one; Timers may have more.                      *)
(***************************************************************************)
EXTENDS Store

CONSTANTS
    Timers,             \* running server instances
    BatchLimit,         \* max_orders_per_batch
    MaxIdleTicks,       \* bound: ticks taken with nothing to do
    MaxFaults,          \* bound: failed statements and crashes
    MaxPanics,          \* bound: solver panics
    Unbounded           \* TRUE: faults and panics are not bounded

ASSUME BoundsAssumption ==
    /\ BatchLimit \in Nat
    /\ MaxIdleTicks \in Nat
    /\ MaxFaults \in Nat
    /\ MaxPanics \in Nat
    /\ Unbounded \in BOOLEAN

VARIABLES
    orders,             \* table orders
    batches,            \* table batches
    settlements,        \* tables settlements and trades
    lapsed,             \* orders whose valid_to has passed
    started,            \* NOW() of the transaction that inserts an order, or 0
    creating,           \* POST /v1/orders: the INSERT began, not committed
    cancelling,         \* DELETE /v1/orders/{uid}: read as open, not updated
    pc,                 \* the statement a timer executes next
    cur,                \* local batch_id of close_and_solve
    snap,               \* local orders: the rows read by find_open_unassigned
    plan,               \* local result: the orders the winner trades, {} if none
    late,               \* history: the orders whose INSERT committed since a
                        \* timer read the queue, until it has assigned
    idleTicks, faults, panics

tables == <<orders, batches, settlements>>
api    == <<started, creating, cancelling>>
locals == <<cur, snap, plan, late>>
limits == <<idleTicks, faults, panics>>
vars   == <<tables, lapsed, api, pc, locals, limits>>

\* The statements of ensure_collecting_batch and of close_and_solve.
EnsureLabels == {"ensure", "ensureCreate"}
CycleLabels  == {"current", "createCurrent", "expire", "fetch", "assign",
                 "close", "compete", "persist", "markSolved", "settle",
                 "settleOrders", "fail", "reopen", "createNext"}
Labels       == EnsureLabels \cup CycleLabels \cup {"sleep", "dead", "down"}

Init ==
    /\ orders = [o \in Orders |-> NoOrder]
    /\ batches = <<>>
    /\ settlements = {}
    /\ lapsed = {}
    /\ started = [o \in Orders |-> 0]
    /\ creating = {}
    /\ cancelling = {}
    /\ pc = [t \in Timers |-> "ensure"]
    /\ cur = [t \in Timers |-> NoBatch]
    /\ snap = [t \in Timers |-> {}]
    /\ plan = [t \in Timers |-> {}]
    /\ late = [t \in Timers |-> {}]
    /\ idleTicks = 0
    /\ faults = 0
    /\ panics = 0

-----------------------------------------------------------------------------
(* The order API and the clock.  A request that fails half way (an unknown *)
(* token, a lost connection) is one that never takes its second step.      *)

\* create_order, up to the INSERT: validate_order wants valid_to in the future.
\* created_at is NOW(), the time at which the transaction of the INSERT begins.
SubmitOrder(o) ==
    /\ started[o] = 0
    /\ o \notin lapsed
    /\ started' = [started EXCEPT ![o] = Cardinality({p \in Orders : started[p] # 0}) + 1]
    /\ creating' = creating \cup {o}
    /\ UNCHANGED <<tables, lapsed, cancelling, pc, locals, limits>>

\* The INSERT commits, in any order with those of other requests.
InsertOrder(o) ==
    /\ o \in creating
    /\ orders' = InsertOrderRow(orders, o, started[o])
    /\ creating' = creating \ {o}
    /\ late' = [t \in Timers |-> IF pc[t] = "assign" THEN late[t] \cup {o} ELSE late[t]]
    /\ UNCHANGED <<batches, settlements, lapsed, started, cancelling, pc, cur, snap, plan,
                   limits>>

\* cancel_order, up to the UPDATE: the status was read as open.
RequestCancel(o) ==
    /\ orders[o].status = "open"
    /\ o \notin cancelling
    /\ cancelling' = cancelling \cup {o}
    /\ UNCHANGED <<tables, lapsed, started, creating, pc, locals, limits>>

\* The UPDATE tests the status again; no row updated is an internal error.
CancelOrder(o) ==
    /\ o \in cancelling
    /\ orders' = CancelRow(orders, o)
    /\ cancelling' = cancelling \ {o}
    /\ UNCHANGED <<batches, settlements, lapsed, started, creating, pc, locals, limits>>

\* The clock passes the order's valid_to.  Nothing reads the valid_to of a row
\* that is not committed: an order that lapses before its INSERT commits is one
\* that lapses right behind it.
Lapse(o) ==
    /\ orders[o].status \in {"open", "matched"}
    /\ o \notin lapsed
    /\ lapsed' = lapsed \cup {o}
    /\ UNCHANGED <<tables, api, pc, locals, limits>>

-----------------------------------------------------------------------------
(* The batch timer.  Goto keeps the locals of close_and_solve, Leave drops *)
(* them: the function returns.                                             *)

Goto(t, label) == pc' = [pc EXCEPT ![t] = label]

Leave(t, label) ==
    /\ Goto(t, label)
    /\ cur' = [cur EXCEPT ![t] = NoBatch]
    /\ snap' = [snap EXCEPT ![t] = {}]
    /\ plan' = [plan EXCEPT ![t] = {}]
    /\ late' = [late EXCEPT ![t] = {}]

\* ensure_collecting_batch: at startup, and after a failed cycle.
EnsureFound(t) ==
    /\ pc[t] = "ensure"
    /\ Collecting(batches) # {}
    /\ Goto(t, "sleep")
    /\ UNCHANGED <<tables, lapsed, api, locals, limits>>

EnsureMissing(t) ==
    /\ pc[t] = "ensure"
    /\ Collecting(batches) = {}
    /\ Goto(t, "ensureCreate")
    /\ UNCHANGED <<tables, lapsed, api, locals, limits>>

EnsureCreate(t) ==
    /\ pc[t] = "ensureCreate"
    /\ batches' = CreateBatch(batches)
    /\ Goto(t, "sleep")
    /\ UNCHANGED <<orders, settlements, lapsed, api, locals, limits>>

\* A cycle can do something for these orders: assign or expire them.
Waiting ==
    {o \in Orders : /\ orders[o].status = "open"
                    /\ orders[o].batch = NoBatch \/ o \in lapsed}

\* The interval elapses.  The ticks that find no order to work on are bounded;
\* when failures are not, one that has a batch to create does not count.
Tick(t) ==
    /\ pc[t] = "sleep"
    /\ IF Waiting # {} \/ (Unbounded /\ Collecting(batches) = {})
       THEN UNCHANGED idleTicks
       ELSE idleTicks < MaxIdleTicks /\ idleTicks' = idleTicks + 1
    /\ Goto(t, "current")
    /\ UNCHANGED <<tables, lapsed, api, locals, faults, panics>>

\* Step 1: get_current_collecting, or create
FindCurrent(t) ==
    /\ pc[t] = "current"
    /\ \/ \E b \in DOMAIN batches :
             /\ IsCurrentCollecting(batches, b)
             /\ cur' = [cur EXCEPT ![t] = b]
             /\ Goto(t, "expire")
       \/ /\ Collecting(batches) = {}
          /\ Goto(t, "createCurrent")
          /\ UNCHANGED cur
    /\ UNCHANGED <<tables, lapsed, api, snap, plan, late, limits>>

CreateCurrent(t) ==
    /\ pc[t] = "createCurrent"
    /\ batches' = CreateBatch(batches)
    /\ cur' = [cur EXCEPT ![t] = Len(batches) + 1]
    /\ Goto(t, "expire")
    /\ UNCHANGED <<orders, settlements, lapsed, api, snap, plan, late, limits>>

\* Step 2
Expire(t) ==
    /\ pc[t] = "expire"
    /\ orders' = ExpireOrders(orders, lapsed)
    /\ Goto(t, "fetch")
    /\ UNCHANGED <<batches, settlements, lapsed, api, locals, limits>>

\* Step 3; with nothing to solve only a new batch is created
Fetch(t) ==
    /\ pc[t] = "fetch"
    /\ snap' = [snap EXCEPT ![t] = FindOpenUnassigned(orders, lapsed, BatchLimit)]
    /\ Goto(t, IF snap'[t] = {} THEN "createNext" ELSE "assign")
    /\ UNCHANGED <<tables, lapsed, api, cur, plan, late, limits>>

\* Step 4; the number of rows updated is ignored
Assign(t) ==
    /\ pc[t] = "assign"
    /\ orders' = AssignToBatch(orders, snap[t], cur[t])
    /\ late' = [late EXCEPT ![t] = {}]
    /\ Goto(t, "close")
    /\ UNCHANGED <<batches, settlements, lapsed, api, cur, snap, plan, limits>>

\* Step 5
Close(t) ==
    /\ pc[t] = "close"
    /\ batches' = UpdateBatchStatus(batches, cur[t], "solving")
    /\ Goto(t, "compete")
    /\ UNCHANGED <<orders, settlements, lapsed, api, locals, limits>>

\* The rows read in step 3 still say "open": is_matchable holds of an order
\* until its valid_to.
Matchable(read) == read \ lapsed

\* A trade needs orders on both sides of a pair.
TwoSided(read) == \E o, p \in Matchable(read) : o # p

\* What the competition may return: any trades at all of the rows read.
Solutions(read) ==
    {trades \in SUBSET Matchable(read) : trades # {} /\ TwoSided(read)}

\* Step 6
Compete(t) ==
    /\ pc[t] = "compete"
    /\ \/ \E trades \in Solutions(snap[t]) :
             /\ plan' = [plan EXCEPT ![t] = trades]
             /\ Goto(t, "persist")
       \/ Goto(t, "fail") /\ UNCHANGED plan
    /\ UNCHANGED <<tables, lapsed, api, cur, snap, late, limits>>

\* Mutant: the error of persist_settlement is dropped.
PersistSwallowed(t) ==
    /\ pc[t] = "persist"
    /\ Goto(t, "markSolved")
    /\ UNCHANGED <<tables, lapsed, api, locals, limits>>

\* Step 7: one transaction for the settlement, its trades and its prices
Persist(t) ==
    /\ pc[t] = "persist"
    /\ ~HasSettlement(settlements, cur[t])
    /\ settlements' = InsertSettlement(settlements, cur[t], plan[t])
    /\ Goto(t, "markSolved")
    /\ UNCHANGED <<orders, batches, lapsed, api, locals, limits>>

\* The UNIQUE constraint on settlements.batch_id rolls the transaction back.
PersistConflict(t) ==
    /\ pc[t] = "persist"
    /\ HasSettlement(settlements, cur[t])
    /\ Leave(t, "ensure")
    /\ UNCHANGED <<tables, lapsed, api, limits>>

\* Mutant: order_count is the number of rows that carry the batch id.
MarkSolvedByRows(t) ==
    /\ pc[t] = "markSolved"
    /\ batches' = MarkBatchSolved(batches, cur[t],
                      Cardinality({o \in Orders : orders[o].batch = cur[t]}))
    /\ Goto(t, "settle")
    /\ UNCHANGED <<orders, settlements, lapsed, api, locals, limits>>

\* Step 8: three statements
MarkSolved(t) ==
    /\ pc[t] = "markSolved"
    /\ batches' = MarkBatchSolved(batches, cur[t], Cardinality(snap[t]))
    /\ Goto(t, "settle")
    /\ UNCHANGED <<orders, settlements, lapsed, api, locals, limits>>

Settle(t) ==
    /\ pc[t] = "settle"
    /\ batches' = UpdateBatchStatus(batches, cur[t], "settled")
    /\ Goto(t, "settleOrders")
    /\ UNCHANGED <<orders, settlements, lapsed, api, locals, limits>>

SettleOrders(t) ==
    /\ pc[t] = "settleOrders"
    /\ orders' = UpdateBatchOrdersStatus(orders, cur[t], "settled")
    /\ Goto(t, "createNext")
    /\ UNCHANGED <<batches, settlements, lapsed, api, locals, limits>>

\* Mutant: a failed batch keeps its orders.
FailBatchOnly(t) ==
    /\ pc[t] = "fail"
    /\ batches' = UpdateBatchStatus(batches, cur[t], "failed")
    /\ Goto(t, "createNext")
    /\ UNCHANGED <<orders, settlements, lapsed, api, locals, limits>>

\* No solution: the batch fails, its orders return to open.  Their batch_id
\* is left as it is.
FailBatch(t) ==
    /\ pc[t] = "fail"
    /\ batches' = UpdateBatchStatus(batches, cur[t], "failed")
    /\ Goto(t, "reopen")
    /\ UNCHANGED <<orders, settlements, lapsed, api, locals, limits>>

\* Mutant: the status of the batch is written to its orders.
ReopenAsFailed(t) ==
    /\ pc[t] = "reopen"
    /\ orders' = UpdateBatchOrdersStatus(orders, cur[t], "failed")
    /\ Goto(t, "createNext")
    /\ UNCHANGED <<batches, settlements, lapsed, api, locals, limits>>

Reopen(t) ==
    /\ pc[t] = "reopen"
    /\ orders' = UpdateBatchOrdersStatus(orders, cur[t], "open")
    /\ Goto(t, "createNext")
    /\ UNCHANGED <<batches, settlements, lapsed, api, locals, limits>>

\* Step 9, and the end of a cycle that found no orders
CreateNext(t) ==
    /\ pc[t] = "createNext"
    /\ batches' = CreateBatch(batches)
    /\ Leave(t, "sleep")
    /\ UNCHANGED <<orders, settlements, lapsed, api, limits>>

-----------------------------------------------------------------------------
(* Failures.  A statement that takes effect and then fails (the reply is   *)
(* lost, the returned row does not decode) is the statement followed by    *)
(* StatementFails at the next label, hence "compete" is one of them.       *)

\* Without bounds, 1 stands for any number of failures.
CountFault ==
    /\ Unbounded \/ faults < MaxFaults
    /\ faults' = IF Unbounded THEN 1 ELSE faults + 1
    /\ UNCHANGED <<idleTicks, panics>>

CountPanic ==
    /\ Unbounded \/ panics < MaxPanics
    /\ panics' = IF Unbounded THEN 1 ELSE panics + 1
    /\ UNCHANGED <<idleTicks, faults>>

\* Mutant: the timer's loop ends with the error.
FailureEndsTimer(t) ==
    /\ pc[t] \in CycleLabels
    /\ CountFault
    /\ Leave(t, "stopped")
    /\ UNCHANGED <<tables, lapsed, api>>

\* `?` returns the error; run_batch_timer logs it and calls ensure.
StatementFails(t) ==
    /\ pc[t] \in CycleLabels
    /\ CountFault
    /\ Leave(t, "ensure")
    /\ UNCHANGED <<tables, lapsed, api>>

\* An error of ensure_collecting_batch is only logged.
EnsureFails(t) ==
    /\ pc[t] \in EnsureLabels
    /\ CountFault
    /\ Goto(t, "sleep")
    /\ UNCHANGED <<tables, lapsed, api, locals>>

\* A panic of solve() (a Decimal overflow, a division by zero) unwinds
\* through par_iter and ends the spawned task; the HTTP server goes on.
SolverPanics(t) ==
    /\ pc[t] = "compete"
    /\ TwoSided(snap[t])
    /\ CountPanic
    /\ Leave(t, "dead")
    /\ UNCHANGED <<tables, lapsed, api>>

Crash(t) ==
    /\ pc[t] # "down"
    /\ CountFault
    /\ Leave(t, "down")
    /\ UNCHANGED <<tables, lapsed, api>>

\* run_server spawns the timer again.
Restart(t) ==
    /\ pc[t] = "down"
    /\ Goto(t, "ensure")
    /\ UNCHANGED <<tables, lapsed, api, locals, limits>>

-----------------------------------------------------------------------------
\* What the timer does next when nothing fails.
Statement(t) ==
    \/ FindCurrent(t) \/ CreateCurrent(t)
    \/ Expire(t) \/ Fetch(t) \/ Assign(t) \/ Close(t)
    \/ Compete(t)
    \/ Persist(t) \/ PersistConflict(t)
    \/ MarkSolved(t) \/ Settle(t) \/ SettleOrders(t)
    \/ FailBatch(t) \/ Reopen(t)
    \/ CreateNext(t)

TimerStep(t) ==
    \/ EnsureFound(t) \/ EnsureMissing(t) \/ EnsureCreate(t)
    \/ Tick(t)
    \/ Statement(t)

Failure(t) ==
    \/ StatementFails(t) \/ EnsureFails(t) \/ SolverPanics(t) \/ Crash(t)

Client(o) ==
    \/ SubmitOrder(o) \/ InsertOrder(o)
    \/ RequestCancel(o) \/ CancelOrder(o)
    \/ Lapse(o)

Next ==
    \/ \E o \in Orders : Client(o)
    \/ \E t \in Timers : TimerStep(t) \/ Failure(t) \/ Restart(t)

Spec == Init /\ [][Next]_vars

\* The runtime polls a timer task that is ready, every statement returns, and
\* docker restarts an instance that exited (restart: unless-stopped).  Nothing
\* is assumed of clients, of the clock or of failures, and nothing restarts an
\* instance whose timer task alone died.
FairSpec ==
    /\ Spec
    /\ \A t \in Timers : WF_vars(TimerStep(t)) /\ WF_vars(Restart(t))

-----------------------------------------------------------------------------
(* Properties *)

TypeOK ==
    /\ orders \in [Orders -> OrderRow]
    /\ batches \in Seq(BatchRow)
    /\ settlements \subseteq SettlementRow
    /\ lapsed \subseteq Orders
    /\ started \in [Orders -> Nat]
    /\ creating \subseteq Orders
    /\ cancelling \subseteq Orders
    /\ pc \in [Timers -> Labels]
    /\ cur \in [Timers -> Nat]
    /\ snap \in [Timers -> SUBSET Orders]
    /\ plan \in [Timers -> SUBSET Orders]
    /\ late \in [Timers -> SUBSET Orders]
    /\ idleTicks \in Nat /\ faults \in Nat /\ panics \in Nat

\* No order is executed twice: the settlements of two batches trade disjoint
\* sets of orders, although a settlement, the status of its batch and the
\* statuses of its orders are written in separate transactions
\* (batch_service.rs, steps 7 and 8) and trades.order_uid is not unique.
OneTradePerOrder ==
    \A r, s \in settlements : r # s => r.trades \cap s.trades = {}

\* A traded order belongs to the batch it was traded in, unless a client
\* cancelled it after close_and_solve had read it; it is never open again.
TradedUnderItsBatch ==
    \A s \in settlements : \A o \in s.trades :
        \/ orders[o].batch = s.batch /\ orders[o].status \in {"matched", "settled"}
        \/ orders[o].status = "cancelled"

\* Whatever says "settled" is backed by a persisted settlement: the batch, and
\* the batch of a settled order.
SettledIsBacked ==
    /\ \A b \in DOMAIN batches :
          batches[b].status = "settled" => HasSettlement(settlements, b)
    /\ \A o \in Orders :
          orders[o].status = "settled" => HasSettlement(settlements, orders[o].batch)

\* The order_count that mark_solved stores covers every trade of the batch.
CountCoversTrades ==
    \A s \in settlements :
        batches[s.batch].solved => Cardinality(s.trades) <= batches[s.batch].count

\* The life of an order: open, then matched, cancelled or expired; matched,
\* then settled or open again; a batch once assigned is never replaced.
\* update_batch_orders_status overwrites any status, so this rests on which
\* rows can carry the batch id of a running cycle.
OrderMoves ==
    {<<"absent", "open">>, <<"open", "matched">>, <<"open", "cancelled">>,
     <<"open", "expired">>, <<"matched", "settled">>, <<"matched", "open">>}

OrderLifecycle ==
    [][\A o \in Orders :
          /\ orders'[o].status # orders[o].status =>
                <<orders[o].status, orders'[o].status>> \in OrderMoves
          /\ orders[o].batch # NoBatch => orders'[o].batch = orders[o].batch]_vars

\* The life of a batch: collecting, solving, then settled or failed.
\* update_status is unconditional, so this rests on get_current_collecting.
BatchMoves ==
    {<<"collecting", "solving">>, <<"solving", "settled">>, <<"solving", "failed">>}

BatchLifecycle ==
    [][\A b \in DOMAIN batches :
          batches'[b].status # batches[b].status =>
             <<batches[b].status, batches'[b].status>> \in BatchMoves]_vars

\* No order is assigned to a batch before an older one that could have been,
\* unless the INSERT of the older one committed behind the read of the queue:
\* the rows read by one statement are assigned by a later one, with inserts,
\* cancellations and expiries in between.
FirstComeFirstServed ==
    [][\A t \in Timers : (pc[t] = "assign" /\ pc'[t] = "close") =>
          \A o, p \in Orders :
             (/\ orders[o].status = "open" /\ orders'[o].status = "matched"
              /\ p \in OpenUnassigned(orders, lapsed) \ late[t]
              /\ orders[p].created < orders[o].created)
             => orders'[p].status = "matched"]_vars

Fails == \E t \in Timers : Failure(t)

\* Errors and crashes come as often as they like, but not for ever.
FailuresEnd == <>[][~Fails]_vars

\* A panic has ended the timer's task; only the end of the process helps.
TimerDead == \E t \in Timers : pc[t] = "dead"

\* Every order waiting for a batch stops waiting (it is assigned, cancelled or
\* expired), however often the cycle, the recovery and the process failed
\* before, unless a panic has ended the timer (TimerComesBack).  A statement
\* that fails every time (rows that never decode) is a failure without end.
OrdersServed ==
    FailuresEnd =>
        \A o \in Orders :
            (orders[o].status = "open" /\ orders[o].batch = NoBatch)
            ~> \/ ~(orders[o].status = "open" /\ orders[o].batch = NoBatch)
               \/ TimerDead

\* A cycle that fails leaves a window that accepts orders: there is again and
\* again a collecting batch (the recovery of run_batch_timer).
AlwaysReopens == FailuresEnd => []<>(Collecting(batches) # {} \/ TimerDead)

\* When nothing fails, a matched order is settled or open again.
ResolvedUnlessFault ==
    [](faults = 0 /\ panics = 0) =>
        \A o \in Orders : orders[o].status = "matched" ~> orders[o].status # "matched"

-----------------------------------------------------------------------------
(* What the auction promises: RoundAuction *)

Rounds == INSTANCE RoundAuction WITH
    waiting   <- {o \in Orders : orders[o].status = "open" /\ orders[o].batch = NoBatch},
    withdrawn <- {o \in Orders : /\ orders[o].status \in {"cancelled", "expired"}
                                 /\ orders[o].batch = NoBatch},
    round     <- [o \in Orders |-> orders[o].batch],
    fills     <- settlements

\* The cycle of close_and_solve, whatever clients do between its statements and
\* wherever it fails or the process dies, is a step of the abstract auction:
\* orders are drawn by assign_to_batch and traded by persist_settlement.
ImplementsRounds == Rounds!Spec

-----------------------------------------------------------------------------
(* Inductive invariants, for the proofs of BatchAuctionProofs *)

\* With any number of timers: the labels behind persist_settlement are reached
\* only when the settlement of the batch is there.
SettlementFirst ==
    \A t \in Timers : pc[t] \in {"markSolved", "settle", "settleOrders"}
                         => HasSettlement(settlements, cur[t])

BackedInv == SettledIsBacked /\ SettlementFirst

\* The deployment of docker-compose.yml: one instance, hence one timer.
OneTimer == \A t, u \in Timers : t = u

Traded == UNION {s.trades : s \in settlements}

\* An order is inserted once, and only rows of existing batches carry an id.
RowsWellFormed ==
    /\ \A o \in Orders : o \in creating => orders[o].status = "absent"
    /\ \A o \in Orders : o \in creating \/ orders[o].status # "absent" => started[o] # 0
    /\ \A o \in Orders : orders[o].batch # NoBatch =>
          /\ orders[o].batch \in DOMAIN batches
          /\ orders[o].status # "absent"

\* Settlements belong to batches that were closed and did not fail.
SettlementsOfClosed ==
    \A s \in settlements : /\ s.batch \in DOMAIN batches
                           /\ batches[s.batch].status \in {"solving", "settled"}

\* Until its batch is settled or failed, an assigned order is "matched", also
\* when the cycle that assigned it is gone: no client or expiry can touch it.
RunningRowsMatched ==
    \A o \in Orders :
        (/\ orders[o].batch # NoBatch
         /\ batches[orders[o].batch].status \in {"collecting", "solving"})
        => orders[o].status = "matched"

\* The batch of a running cycle, by the statement the timer is at.
CycleBatch ==
    \A t \in Timers :
        /\ pc[t] \in {"expire", "fetch", "assign", "close"}
              => cur[t] \in Collecting(batches)
        /\ pc[t] \in {"compete", "persist", "markSolved", "settle", "fail"}
              => cur[t] \in DOMAIN batches /\ batches[cur[t]].status = "solving"
        /\ pc[t] = "settleOrders"
              => cur[t] \in DOMAIN batches /\ batches[cur[t]].status = "settled"
        /\ pc[t] = "reopen"
              => cur[t] \in DOMAIN batches /\ batches[cur[t]].status = "failed"
        /\ pc[t] \in {"compete", "persist", "fail", "reopen"}
              => ~HasSettlement(settlements, cur[t])
        /\ pc[t] \in {"settleOrders", "reopen"}
              => \A o \in Orders : orders[o].batch = cur[t] => orders[o].status = "matched"

\* The rows a running cycle has read were not traded before; until they are
\* persisted they are assigned to its batch, or were cancelled meanwhile.
CycleRows ==
    \A t \in Timers :
        /\ pc[t] \in {"assign", "close", "compete", "persist"}
              => snap[t] \cap Traded = {}
        /\ pc[t] = "assign" => \A o \in snap[t] :
              orders[o].batch = NoBatch /\ orders[o].status \in {"open", "cancelled"}
        /\ pc[t] \in {"close", "compete", "persist"} => \A o \in snap[t] :
              \/ orders[o].batch = cur[t] /\ orders[o].status = "matched"
              \/ orders[o].batch = NoBatch /\ orders[o].status = "cancelled"
        /\ pc[t] = "persist" => plan[t] \subseteq snap[t] /\ plan[t] # {}

SingleInv ==
    /\ OneTradePerOrder
    /\ TradedUnderItsBatch
    /\ RowsWellFormed
    /\ SettlementsOfClosed
    /\ RunningRowsMatched
    /\ CycleBatch
    /\ CycleRows

\* With any number of timers: the batch of a running cycle exists.
BatchKnown ==
    \A t \in Timers : pc[t] \in CycleLabels \ {"current", "createCurrent"}
                         => cur[t] \in DOMAIN batches

\* What mark_solved counts is what the settlement was computed from: nobody
\* else persists a settlement of this batch in between.
CountInv ==
    /\ CountCoversTrades
    /\ BatchKnown
    /\ \A s \in settlements : s.batch \in DOMAIN batches
    /\ \A b \in DOMAIN batches : batches[b].solved => HasSettlement(settlements, b)
    /\ \A t \in Timers :
          /\ pc[t] = "persist" => plan[t] \subseteq snap[t]
          /\ pc[t] = "markSolved" =>
                /\ HasSettlement(settlements, cur[t])
                /\ \A s \in settlements : s.batch = cur[t] => s.trades \subseteq snap[t]

\* Between find_open_unassigned and assign_to_batch the rows read stay ahead
\* of every order that still waits and was there to be read.
AheadOfQueue ==
    \A t \in Timers : pc[t] = "assign" =>
        \A o \in snap[t] :
            /\ orders[o].status # "absent"
            /\ \A p \in OpenUnassigned(orders, lapsed) \ late[t] :
                  orders[p].created < orders[o].created => p \in snap[t]

QueueInv ==
    /\ RowsWellFormed
    /\ AheadOfQueue

-----------------------------------------------------------------------------
(* What the documentation says and the code does not do *)

\* order.rs: "Order is open and eligible for the next batch."
OpenIsEligible ==
    \A o \in Orders : orders[o].status = "open" => orders[o].batch = NoBatch

\* order.rs: a cancelled order "was cancelled by the user", a settled one is
\* "part of a winning solution"; README: only open orders can be cancelled.
CancelledNeverTraded ==
    \A s \in settlements : \A o \in s.trades : orders[o].status # "cancelled"

\* order.rs: a settled order "has been settled as part of a winning solution".
SettledWasTraded ==
    \A o \in Orders : orders[o].status = "settled" =>
        \E s \in settlements : s.batch = orders[o].batch /\ o \in s.trades

\* README: "The recovery logic ensures the system self-heals after transient
\* errors"; "Failure recovery ensures orders are never lost".
MatchedResolved ==
    FailuresEnd =>
      \A o \in Orders : orders[o].status = "matched" ~> orders[o].status # "matched"

\* The same sentence names solver panics: the timer comes back to its sleep.
TimerComesBack ==
    FailuresEnd => \A t \in Timers : []<>(pc[t] = "sleep")
=============================================================================
