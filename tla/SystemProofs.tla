---------------------------- MODULE SystemProofs ----------------------------
(***************************************************************************)
(* Theorems about BullSwap, the deployment of one server: for any number   *)
(* of orders, of solvers and of failures, any scores and any batch limit.  *)
(***************************************************************************)
EXTENDS BullSwap, RoundAuctionProofs, CycleProofs

-----------------------------------------------------------------------------
(* Steps of the composition as steps of BatchAuction                       *)

\* The rows of the transaction that is committed are the plan of the cycle:
\* the commit is the big step Persist.
LEMMA CommitIsPersist ==
    ASSUME TypeOK, SystemInv, NEW t \in Timers, CommitPersist(t)
    PROVE  Persist(t)
<1>1. PICK u \in Timers : tx.batch = cur[u] /\ tx.trades \subseteq plan[u]
  BY DEF CommitPersist, Shelf!Commit, SystemInv, TransactionInv
<1>2. u = t
  BY OneServer DEF OneTimer
<1>3. pc[t] = "persist" /\ ~HasSettlement(settlements, cur[t])
  BY DEF CommitPersist, SystemInv, SingleInv, CycleBatch
<1>4. plan[t] \subseteq tx.trades
  BY DEF CommitPersist
<1>5. tx.trades = plan[t]
  BY <1>1, <1>2, <1>4
<1>6. settlements' = InsertSettlement(settlements, cur[t], plan[t])
  BY <1>1, <1>2, <1>5 DEF CommitPersist, Shelf!Commit, InsertSettlement, Shelf!InsertSettlement
<1>7. QED BY <1>3, <1>6 DEF CommitPersist, Persist

\* Every step of the composition is a step of BatchAuction, or leaves it alone,
\* except the end of a competition: meanwhile some orders of the winner may
\* have lapsed.
LEMMA SystemSteps ==
    ASSUME TypeOK, SystemInv, [SystemNext]_Everything
    PROVE  [Next]_vars \/ \E t \in Timers : Won(t)
<1>1. CASE UNCHANGED Everything
  BY <1>1 DEF Everything
<1>2. ASSUME NEW o \in Orders, Client(o)
      PROVE  Next
  BY <1>2 DEF Next
<1>3. ASSUME NEW t \in Timers, OtherStatement(t)
      PROVE  Next
  BY <1>3 DEF OtherStatement, Next, TimerStep, Statement
<1>4. ASSUME NEW t \in Timers, SolverReturns(t)
      PROVE  UNCHANGED vars
  BY <1>4 DEF SolverReturns
<1>5. ASSUME NEW t \in Timers, Unsolved(t)
      PROVE  Next
  <2>1. Compete(t)
    BY <1>5 DEF Unsolved, Compete, locals
  <2>2. QED BY <2>1 DEF Next, TimerStep, Statement
<1>6. ASSUME NEW t \in Timers, PersistHead(t) \/ PersistTrade(t)
      PROVE  UNCHANGED vars
  BY <1>6 DEF PersistHead, PersistTrade, Shelf!InsertHead, Shelf!InsertTrade, vars, tables
<1>7. ASSUME NEW t \in Timers, CommitPersist(t)
      PROVE  Next
  BY <1>7, CommitIsPersist DEF Next, TimerStep, Statement
<1>8. ASSUME NEW t \in Timers, ReopenAll(t)
      PROVE  Next
  BY <1>8 DEF ReopenAll, Next, TimerStep, Statement
<1>9. ASSUME NEW t \in Timers, Abort(t) \/ Panic(t)
      PROVE  Next
  BY <1>9 DEF Abort, Panic, Next, Failure
<1>10. ASSUME NEW t \in Timers, StartServer(t)
       PROVE  Next
  BY <1>10 DEF StartServer, Next
<1>11. CASE Browse
  BY <1>11 DEF Browse
<1>12. QED
  BY <1>1, <1>2, <1>3, <1>4, <1>5, <1>6, <1>7, <1>8, <1>9, <1>10, <1>11 DEF SystemNext

\* What the end of a competition changes.
LEMMA WonPlan ==
    ASSUME TypeOK, SystemInv, NEW t \in Timers, Won(t)
    PROVE  /\ pc[t] = "compete" /\ pc' = [pc EXCEPT ![t] = "persist"]
           /\ UNCHANGED <<orders, batches, settlements, lapsed, started, creating, cancelling,
                          cur, snap, late, idleTicks, faults, panics, roster, results, tx>>
           /\ \E s \in Race!Solved :
                 /\ plan' = [plan EXCEPT ![t] = results[s].trades]
                 /\ results[s].trades # {} /\ results[s].trades \subseteq snap[t]
                 /\ Race!Winner(s)
<1>1. PICK s \in roster : Race!Winner(s) /\ plan' = [plan EXCEPT ![t] = results[s].trades]
  BY DEF Won
<1>2. s \in Race!Solved /\ pc[t] = "compete"
  BY <1>1 DEF Won, Race!Winner
<1>3. results[s].trades # {} /\ results[s].trades \subseteq snap[t]
  BY <1>2 DEF Race!Solved, SystemInv, ResultsInv
<1>4. QED
  BY <1>1, <1>2, <1>3 DEF Won, Goto, tables, api, limits, others, race

\* The invariants of BatchAuction at the end of a competition.
LEMMA WonKeeps ==
    ASSUME TypeOK, SystemInv, NEW t \in Timers, Won(t)
    PROVE  TypeOK' /\ SingleInv' /\ BackedInv' /\ QueueInv'
<1>1. PICK s : /\ plan' = [plan EXCEPT ![t] = results[s].trades]
               /\ results[s].trades # {} /\ results[s].trades \subseteq snap[t]
  BY WonPlan
<1>2. /\ pc[t] = "compete" /\ pc' = [pc EXCEPT ![t] = "persist"]
      /\ UNCHANGED <<orders, batches, settlements, lapsed, started, creating, cancelling,
                     cur, snap, late, idleTicks, faults, panics>>
  BY WonPlan
<1>3. pc \in [Timers -> Labels] /\ plan \in [Timers -> SUBSET Orders] /\ snap[t] \subseteq Orders
  BY DEF TypeOK
<1>4. /\ pc'[t] = "persist" /\ plan'[t] \subseteq snap[t] /\ plan'[t] # {}
      /\ \A u \in Timers : u # t => pc'[u] = pc[u] /\ plan'[u] = plan[u]
  BY <1>1, <1>2, <1>3
<1>5. TypeOK'
  BY <1>1, <1>2, <1>3 DEF TypeOK, Labels, CycleLabels
<1>6. SingleInv'
  <2>1. /\ OneTradePerOrder' /\ TradedUnderItsBatch' /\ RowsWellFormed'
        /\ SettlementsOfClosed' /\ RunningRowsMatched'
    BY <1>2 DEF SystemInv, SingleInv, OneTradePerOrder, TradedUnderItsBatch,
       RowsWellFormed, SettlementsOfClosed, RunningRowsMatched
  <2>2. CycleBatch'
    BY <1>2, <1>4 DEF SystemInv, SingleInv, CycleBatch, Collecting, HasSettlement
  <2>3. CycleRows'
    BY <1>2, <1>4 DEF SystemInv, SingleInv, CycleRows, Traded
  <2>4. QED BY <2>1, <2>2, <2>3 DEF SingleInv
<1>7. BackedInv'
  BY <1>2, <1>4 DEF SystemInv, BackedInv, SettledIsBacked, SettlementFirst, HasSettlement
<1>8. QueueInv'
  <2>1. AheadOfQueue'
    BY <1>2, <1>4 DEF SystemInv, QueueInv, AheadOfQueue, OpenUnassigned
  <2>2. QED BY <1>6, <2>1 DEF QueueInv, SingleInv
<1>9. QED BY <1>5, <1>6, <1>7, <1>8

LEMMA BackedStep ==
    ASSUME TypeOK, BackedInv, [Next]_vars
    PROVE  BackedInv'
<1>1. CASE UNCHANGED vars
  BY <1>1 DEF vars, tables, locals, BackedInv, SettledIsBacked, SettlementFirst, HasSettlement
<1>2. QED
  BY <1>1, BackedClient, BackedTimerStep, BackedFailure DEF Next

\* What holds of BatchAuction holds of the composition.
LEMMA AuctionKept ==
    ASSUME TypeOK, SystemInv, [SystemNext]_Everything
    PROVE  TypeOK' /\ SingleInv' /\ BackedInv' /\ QueueInv'
<1>1. CASE [Next]_vars
  BY <1>1, OneServer, TypeStep, SingleStep, BackedStep, SingleInHand, QueueStep
     DEF SystemInv
<1>2. QED BY <1>1, SystemSteps, WonKeeps

-----------------------------------------------------------------------------
(* The transaction and the results                                         *)

\* A step that touches neither the transaction nor the results, and takes a
\* timer only to labels at which they do not matter.
LEMMA CompanionsFrame ==
    ASSUME SystemInv, UNCHANGED <<roster, results, tx>>,
           \A t \in Timers :
              \/ /\ pc'[t] = pc[t] /\ cur'[t] = cur[t]
                 /\ snap'[t] = snap[t] /\ plan'[t] = plan[t]
              \/ /\ pc[t] \notin {"compete", "persist", "fail", "reopen"}
                 /\ pc'[t] \notin {"persist", "fail"}
              \/ pc[t] = "fail" /\ pc'[t] = "reopen"
    PROVE  TransactionInv' /\ ResultsInv'
<1>1. TransactionInv'
  BY DEF SystemInv, TransactionInv, Shelf!NoTx
<1>2. ResultsInv'
  <2> SUFFICES ASSUME NEW t \in Timers
               PROVE  /\ pc'[t] \notin {"compete", "persist", "fail", "reopen"}
                            => results = Race!NoResults
                      /\ pc'[t] \in {"compete", "persist"} =>
                            \A s \in Race!Solved : results[s].trades \subseteq snap'[t]
                      /\ pc'[t] = "persist" =>
                            \E s \in Race!Solved :
                               /\ plan'[t] = results[s].trades
                               /\ \A r \in Race!Solved : results[r].score <= results[s].score
                      /\ pc'[t] = "fail" =>
                            \A s \in roster : s \in DOMAIN results /\ results[s].trades = {}
    BY DEF ResultsInv, Race!Solved, Race!NoResults
  <2>1. CASE /\ pc[t] \notin {"compete", "persist", "fail", "reopen"}
             /\ pc'[t] \notin {"persist", "fail"}
    <3>1. Race!Solved = {}
      BY <2>1 DEF SystemInv, ResultsInv, Race!Solved, Race!NoResults
    <3>2. QED BY <2>1, <3>1 DEF SystemInv, ResultsInv
  <2>2. QED BY <2>1 DEF SystemInv, ResultsInv
<1>3. QED BY <1>1, <1>2

\* When the results are dropped the transaction is, and no timer is left where
\* they matter.
LEMMA CompanionsDropped ==
    ASSUME tx' = Shelf!NoTx, results' = Race!NoResults,
           \A t \in Timers : pc'[t] \notin {"compete", "persist", "fail"}
    PROVE  TransactionInv' /\ ResultsInv'
<1>1. TransactionInv'
  BY DEF TransactionInv, Shelf!NoTx
<1>2. ResultsInv'
  BY DEF ResultsInv, Race!NoResults
<1>3. QED BY <1>1, <1>2

\* What a solver returns trades rows that the cycle has read.
LEMMA ReturnKeeps ==
    ASSUME TypeOK, SystemInv, NEW t \in Timers, SolverReturns(t)
    PROVE  TransactionInv' /\ ResultsInv'
<1>1. PICK s \in Solvers : Race!Return(s, Solutions(snap[t]))
  BY DEF SolverReturns
<1>2. /\ pc[t] = "compete"
      /\ UNCHANGED <<pc, cur, snap, plan, tx>>
  BY DEF SolverReturns, vars, locals
<1>3. TransactionInv'
  BY <1>2 DEF SystemInv, TransactionInv, Shelf!NoTx
<1>4. \A r \in Race!Solved' : results'[r].trades \subseteq snap[t]
  <2>1. PICK result : /\ Race!Record(s, result) /\ result.trades \subseteq snap[t]
    <3>1. CASE \E trades \in Solutions(snap[t]), score \in Scores :
                  Race!Record(s, [trades |-> trades, score |-> score])
      <4>1. PICK trades \in Solutions(snap[t]), score \in Scores :
                    Race!Record(s, [trades |-> trades, score |-> score])
        BY <3>1
      <4>2. trades \subseteq snap[t]
        BY DEF Solutions, Matchable
      <4>3. QED BY <4>1, <4>2
    <3>2. CASE Race!Record(s, Race!NoSolution)
      BY <3>2 DEF Race!NoSolution
    <3>3. QED BY <1>1, <3>1, <3>2 DEF Race!Return
  <2>2. \A r \in Race!Solved : results[r].trades \subseteq snap[t]
    BY <1>2 DEF SystemInv, ResultsInv
  <2>3. QED BY <2>1, <2>2 DEF Race!Record, Race!Solved
<1>5. \A u \in Timers : u = t
  BY OneServer DEF OneTimer
<1>6. ResultsInv'
  BY <1>2, <1>4, <1>5 DEF ResultsInv, Race!Solved
<1>7. QED BY <1>3, <1>6

\* The winner's trades become the plan, and no result is better.
LEMMA WonBest ==
    ASSUME TypeOK, SystemInv, Race!TypeOK, NEW t \in Timers, Won(t)
    PROVE  TransactionInv' /\ ResultsInv'
<1>1. /\ pc[t] = "compete" /\ pc' = [pc EXCEPT ![t] = "persist"]
      /\ UNCHANGED <<cur, snap, roster, results, tx>>
  BY WonPlan
<1>2. PICK s \in Race!Solved : /\ plan' = [plan EXCEPT ![t] = results[s].trades]
                               /\ Race!Winner(s)
  BY WonPlan
<1>3. /\ pc \in [Timers -> Labels] /\ plan \in [Timers -> SUBSET Orders]
      /\ \A u \in Timers : u = t
  BY OneServer DEF TypeOK, OneTimer
<1>4. \A r \in Race!Solved : results[r].score <= results[s].score
  <2>1. ASSUME NEW r \in Race!Solved
        PROVE  results[r].score \in Nat
    <3>1. results[r] \in [trades : SUBSET Orders, score : Scores \cup {0}]
      BY DEF Race!TypeOK, Race!Solved, Race!Result
    <3>2. Scores \cup {0} \subseteq Nat
      BY SolversAssumption
    <3>3. QED BY <3>1, <3>2
  <2>2. QED BY <1>2, <2>1 DEF Race!Winner
<1>5. tx = Shelf!NoTx
  BY <1>1, <1>3 DEF SystemInv, TransactionInv
<1>6. TransactionInv'
  BY <1>1, <1>5 DEF TransactionInv, Shelf!NoTx
<1>7. ResultsInv'
  BY <1>1, <1>2, <1>3, <1>4 DEF SystemInv, ResultsInv, Race!Solved
<1>8. QED BY <1>6, <1>7

\* The transaction holds rows of the plan.
LEMMA InsertKeeps ==
    ASSUME TypeOK, SystemInv, NEW t \in Timers, PersistHead(t) \/ PersistTrade(t)
    PROVE  TransactionInv' /\ ResultsInv'
<1>1. /\ pc[t] = "persist" /\ \A u \in Timers : u = t
      /\ UNCHANGED <<pc, cur, snap, plan, roster, results>>
  BY OneServer DEF OneTimer, PersistHead, PersistTrade, locals, race
<1>2. tx'.batch = cur[t] /\ tx'.trades \subseteq plan[t]
  <2>1. CASE PersistHead(t)
    BY <2>1 DEF PersistHead, Shelf!InsertHead, Shelf!NoTx
  <2>2. CASE PersistTrade(t)
    <3>1. PICK o \in plan[t] : tx # Shelf!NoTx /\ tx' = [tx EXCEPT !.trades = @ \cup {o}]
      BY <2>2 DEF PersistTrade, Shelf!InsertTrade
    <3>2. tx.batch = cur[t] /\ tx.trades \subseteq plan[t]
      BY <1>1, <3>1 DEF SystemInv, TransactionInv
    <3>3. QED BY <3>1, <3>2
  <2>3. QED BY <2>1, <2>2
<1>3. TransactionInv'
  BY <1>1, <1>2 DEF TransactionInv
<1>4. ResultsInv'
  BY <1>1 DEF SystemInv, ResultsInv, Race!Solved, Race!NoResults
<1>5. QED BY <1>3, <1>4

LEMMA CompanionsKept ==
    ASSUME TypeOK, SystemInv, Race!TypeOK, [SystemNext]_Everything
    PROVE  TransactionInv' /\ ResultsInv'
<1> USE DEF TypeOK
<1>1. CASE UNCHANGED Everything \/ Browse
  BY <1>1, CompanionsFrame DEF Everything, Browse, vars, locals, others, race
<1>2. ASSUME NEW o \in Orders, Client(o), UNCHANGED others
      PROVE  TransactionInv' /\ ResultsInv'
  <2>1. UNCHANGED <<pc, cur, snap, plan, roster, results, tx>>
    BY <1>2 DEF Client, SubmitOrder, InsertOrder, RequestCancel, CancelOrder, Lapse,
       locals, others, race
  <2>2. QED BY <2>1, CompanionsFrame
<1>3. ASSUME NEW t \in Timers, OtherStatement(t), UNCHANGED others
      PROVE  TransactionInv' /\ ResultsInv'
  <2>1. \/ /\ pc[t] \notin {"compete", "persist", "fail", "reopen"}
           /\ pc'[t] \notin {"persist", "fail"}
        \/ pc[t] = "fail" /\ pc'[t] = "reopen"
    BY <1>3 DEF OtherStatement, EnsureFound, EnsureMissing, EnsureCreate, Tick,
       FindCurrent, CreateCurrent, Expire, Fetch, Assign, Close, MarkSolved, Settle,
       SettleOrders, FailBatch, CreateNext, Goto, Leave
  <2>2. UNCHANGED <<roster, results, tx>> /\ \A u \in Timers : u = t
    BY <1>3, OneServer DEF others, race, OneTimer
  <2>3. QED BY <2>1, <2>2, CompanionsFrame
<1>4. ASSUME NEW t \in Timers, Unsolved(t)
      PROVE  TransactionInv' /\ ResultsInv'
  <2>1. /\ pc[t] = "compete" /\ pc'[t] = "fail" /\ \A u \in Timers : u = t
        /\ UNCHANGED <<roster, results, tx>>
    BY <1>4, OneServer DEF Unsolved, Goto, others, race, OneTimer
  <2>2. \A s \in roster : s \in DOMAIN results /\ results[s].trades = {}
    BY <1>4 DEF Unsolved, Race!Finished, Race!NoWinner, Race!Solved
  <2>3. TransactionInv'
    BY <2>1 DEF SystemInv, TransactionInv, Shelf!NoTx
  <2>4. ResultsInv'
    BY <2>1, <2>2 DEF ResultsInv, Race!Solved
  <2>5. QED BY <2>3, <2>4
<1>5. ASSUME NEW t \in Timers, CommitPersist(t)
      PROVE  TransactionInv' /\ ResultsInv'
  <2>1. /\ tx' = Shelf!NoTx /\ results' = Race!NoResults
        /\ pc'[t] = "markSolved" /\ \A u \in Timers : u = t
    BY <1>5, OneServer DEF CommitPersist, Shelf!Commit, Race!Forget, Goto, OneTimer
  <2>2. QED BY <2>1, CompanionsDropped
<1>6. ASSUME NEW t \in Timers, ReopenAll(t)
      PROVE  TransactionInv' /\ ResultsInv'
  <2>1. /\ results' = Race!NoResults /\ tx' = tx
        /\ pc[t] = "reopen" /\ pc'[t] = "createNext" /\ \A u \in Timers : u = t
    BY <1>6, OneServer DEF ReopenAll, Reopen, Race!Forget, Goto, OneTimer
  <2>2. tx = Shelf!NoTx
    BY <2>1 DEF SystemInv, TransactionInv
  <2>3. QED BY <2>1, <2>2, CompanionsDropped
<1>7. ASSUME NEW t \in Timers, Abort(t)
      PROVE  TransactionInv' /\ ResultsInv'
  <2>1. /\ results' = Race!NoResults /\ tx' = Shelf!NoTx /\ \A u \in Timers : u = t
    BY <1>7, OneServer DEF Abort, Shelf!Rollback, Race!Forget, OneTimer
  <2>2. pc'[t] \in {"ensure", "sleep", "down"}
    BY <1>7 DEF Abort, StatementFails, EnsureFails, Crash, Goto, Leave
  <2>3. QED BY <2>1, <2>2, CompanionsDropped
<1>8. ASSUME NEW t \in Timers, Panic(t)
      PROVE  TransactionInv' /\ ResultsInv'
  <2>1. /\ results' = Race!NoResults /\ tx' = tx
        /\ pc[t] = "compete" /\ pc'[t] = "dead" /\ \A u \in Timers : u = t
    BY <1>8, OneServer DEF Panic, SolverPanics, Race!Forget, Goto, Leave, OneTimer
  <2>2. tx = Shelf!NoTx
    BY <2>1 DEF SystemInv, TransactionInv
  <2>3. QED BY <2>1, <2>2, CompanionsDropped
<1>9. ASSUME NEW t \in Timers, StartServer(t)
      PROVE  TransactionInv' /\ ResultsInv'
  <2>1. /\ results' = Race!NoResults /\ tx' = tx
        /\ pc[t] = "down" /\ pc'[t] = "ensure" /\ \A u \in Timers : u = t
    BY <1>9, OneServer DEF StartServer, Restart, Race!FindActive, Goto, OneTimer
  <2>2. tx = Shelf!NoTx
    BY <2>1 DEF SystemInv, TransactionInv
  <2>3. QED BY <2>1, <2>2, CompanionsDropped
<1>10. QED
  BY <1>1, <1>2, <1>3, <1>4, <1>5, <1>6, <1>7, <1>8, <1>9, ReturnKeeps, WonBest, InsertKeeps
     DEF SystemNext

-----------------------------------------------------------------------------
(* Settlements and rows                                                    *)

\* Only the commit of a transaction changes what is committed.
LEMMA OnlyCommitSettles ==
    ASSUME [SystemNext]_Everything
    PROVE  settlements' = settlements \/ \E t \in Timers : CommitPersist(t)
  BY DEF SystemNext, Everything, vars, tables, Client, SubmitOrder, InsertOrder, RequestCancel,
     CancelOrder, Lapse, OtherStatement, EnsureFound, EnsureMissing, EnsureCreate, Tick,
     FindCurrent, CreateCurrent, Expire, Fetch, Assign, Close, MarkSolved, Settle,
     SettleOrders, FailBatch, CreateNext, SolverReturns, Won, Unsolved, PersistHead,
     PersistTrade, Shelf!InsertHead, Shelf!InsertTrade, ReopenAll, Reopen, Abort,
     StatementFails, EnsureFails, Crash, Shelf!Rollback, Panic, SolverPanics, StartServer,
     Restart, Browse

LEMMA CommitRow ==
    ASSUME TypeOK, SystemInv, NEW t \in Timers, CommitPersist(t)
    PROVE  /\ settlements' = settlements \cup {[batch |-> cur[t], trades |-> plan[t]]}
           /\ ~HasSettlement(settlements, cur[t])
           /\ plan[t] # {}
<1>1. Persist(t) /\ pc[t] = "persist"
  BY CommitIsPersist DEF CommitPersist
<1>2. plan[t] # {}
  BY <1>1 DEF SystemInv, SingleInv, CycleRows
<1>3. QED BY <1>1, <1>2 DEF Persist, InsertSettlement

LEMMA WholeKept ==
    ASSUME TypeOK, SystemInv, [SystemNext]_Everything
    PROVE  SettlementsWhole'
<1>1. CASE settlements' = settlements
  BY <1>1 DEF SystemInv, SettlementsWhole
<1>2. ASSUME NEW t \in Timers, CommitPersist(t)
      PROVE  SettlementsWhole'
  <2> DEFINE row == [batch |-> cur[t], trades |-> plan[t]]
  <2>1. row.batch = cur[t] /\ row.trades = plan[t]
    OBVIOUS
  <2>2. settlements' = settlements \cup {row} /\ row.trades # {}
    BY <1>2, CommitRow
  <2>3. \A s \in settlements : s.batch # row.batch
    BY <1>2, <2>1, CommitRow DEF HasSettlement
  <2> HIDE DEF row
  <2>4. QED BY <2>2, <2>3 DEF SystemInv, SettlementsWhole
<1>3. QED BY <1>1, <1>2, OnlyCommitSettles

\* A row keeps its created_at.
LEMMA RowsKept ==
    ASSUME TypeOK, SystemInv, [SystemNext]_Everything, NEW p \in Orders
    PROVE  \/ InsertOrder(p)
           \/ /\ orders'[p].status = "absent" <=> orders[p].status = "absent"
              /\ orders'[p].created = orders[p].created
<1>1. CASE [Next]_vars
  <2>1. RowsWellFormed /\ BatchesInHand
    BY SingleInHand DEF SystemInv, SingleInv
  <2>2. QED BY <1>1, <2>1, RowSteps, CreatedSteps
<1>2. ASSUME NEW t \in Timers, Won(t)
      PROVE  orders' = orders
  BY <1>2, WonPlan
<1>3. QED BY <1>1, <1>2, SystemSteps

\* Transactions begin one after the other, in whatever order they commit.
LEMMA NumbersKept ==
    ASSUME TypeOK, SystemInv, [SystemNext]_Everything
    PROVE  RowsNumbered'
<1> DEFINE Begun == {p \in Orders : started[p] # 0}
           n == Cardinality(Begun)
<1>1. /\ IsFiniteSet(Begun) /\ n \in Nat
      /\ \A o \in Orders : started[o] \in Nat
  BY OrdersAssumption, FS_Subset, FS_CardinalityType DEF TypeOK
<1>2. /\ \A o \in Orders : orders[o].status # "absent" =>
            started[o] # 0 /\ orders[o].created = started[o]
      /\ \A o, p \in Orders : started[o] # 0 /\ started[o] = started[p] => o = p
      /\ \A o \in Orders : started[o] <= n
  BY DEF SystemInv, SingleInv, RowsWellFormed, RowsNumbered
<1>3. ASSUME UNCHANGED started
      PROVE  RowsNumbered'
  <2>1. ASSUME NEW o \in Orders, orders'[o].status # "absent"
        PROVE  orders'[o].created = started[o]
    <3>1. CASE InsertOrder(o)
      BY <3>1 DEF InsertOrder, InsertOrderRow, TypeOK
    <3>2. CASE ~InsertOrder(o)
      BY <1>2, <2>1, <3>2, RowsKept
    <3>3. QED BY <3>1, <3>2
  <2>2. QED BY <1>2, <1>3, <2>1 DEF RowsNumbered
<1>4. ASSUME NEW q \in Orders, SubmitOrder(q)
      PROVE  RowsNumbered'
  <2>1. /\ started[q] = 0 /\ started'[q] = n + 1
        /\ \A o \in Orders \ {q} : started'[o] = started[o]
        /\ orders' = orders
    BY <1>4, SubmitSteps
  <2>2. {p \in Orders : started'[p] # 0} = Begun \cup {q}
    BY <1>1, <2>1
  <2>3. q \notin Begun
    BY <2>1
  <2>4. Cardinality(Begun \cup {q}) = n + 1
    BY <1>1, <2>3, FS_AddElement
  <2> HIDE DEF n, Begun
  <2>5. \A o \in Orders : orders'[o].status # "absent" => orders'[o].created = started'[o]
    BY <1>2, <2>1
  <2>6. \A o, p \in Orders : started'[o] # 0 /\ started'[o] = started'[p] => o = p
    BY <1>1, <1>2, <2>1
  <2>7. \A o \in Orders : started'[o] <= n + 1
    BY <1>1, <1>2, <2>1
  <2>8. QED BY <2>2, <2>4, <2>5, <2>6, <2>7 DEF RowsNumbered
<1>5. CASE [Next]_vars
  BY <1>3, <1>4, <1>5, ApiSteps DEF InsertOrder
<1>6. ASSUME NEW t \in Timers, Won(t)
      PROVE  UNCHANGED started
  BY <1>6, WonPlan
<1>7. QED BY <1>3, <1>5, <1>6, SystemSteps

-----------------------------------------------------------------------------
(* Types                                                                   *)

LEMMA RaceTypeKept ==
    ASSUME TypeOK, Race!TypeOK, [SystemNext]_Everything
    PROVE  Race!TypeOK'
<1> USE DEF Race!TypeOK, Race!Result
<1>1. CASE UNCHANGED <<roster, results>>
  BY <1>1
<1>2. CASE /\ roster' = roster \/ roster' \in {Solvers, {}}
           /\ results' = Race!NoResults
  BY <1>2 DEF Race!NoResults
<1>3. ASSUME NEW t \in Timers, SolverReturns(t)
      PROVE  Race!TypeOK'
  <2>1. PICK s \in Solvers : Race!Return(s, Solutions(snap[t]))
    BY <1>3 DEF SolverReturns
  <2>2. PICK result \in Race!Result : Race!Record(s, result)
    <3>1. CASE Race!Record(s, Race!NoSolution)
      BY <3>1 DEF Race!NoSolution
    <3>2. ASSUME NEW trades \in Solutions(snap[t]), NEW score \in Scores,
                 Race!Record(s, [trades |-> trades, score |-> score])
          PROVE  \E result \in Race!Result : Race!Record(s, result)
      <4>1. trades \subseteq Orders
        BY DEF Solutions, Matchable, TypeOK
      <4>2. QED BY <3>2, <4>1
    <3>3. QED BY <2>1, <3>1, <3>2 DEF Race!Return
  <2>3. roster' = roster /\ s \in roster
    BY <2>1 DEF Race!Return
  <2>4. QED BY <2>2, <2>3 DEF Race!Record
<1>4. QED
  BY <1>1, <1>2, <1>3 DEF SystemNext, Everything, others, race, Won, Unsolved, PersistHead,
     PersistTrade, CommitPersist, ReopenAll, Abort, Panic, StartServer, Browse,
     Race!Forget, Race!FindActive

LEMMA ShelfTypeKept ==
    ASSUME TypeOK, TypeOK', Shelf!TypeOK, [SystemNext]_Everything
    PROVE  Shelf!TypeOK'
<1>1. Shelf!SettlementRow = SettlementRow /\ SettlementRow = [batch : Nat, trades : SUBSET Orders]
  BY DEF Shelf!SettlementRow, SettlementRow
<1>2. settlements' \subseteq SettlementRow /\ tx \in SettlementRow
  BY <1>1 DEF TypeOK, Shelf!TypeOK
<1>3. tx' \in SettlementRow
  <2>1. CASE tx' = tx
    BY <1>2, <2>1
  <2>2. CASE tx' = Shelf!NoTx
    BY <1>1, <2>2 DEF Shelf!NoTx, Shelf!NoBatch
  <2>3. ASSUME NEW t \in Timers, PersistHead(t)
        PROVE  tx' \in SettlementRow
    BY <1>1, <2>3 DEF PersistHead, Shelf!InsertHead, Shelf!NoTx, TypeOK
  <2>4. ASSUME NEW t \in Timers, PersistTrade(t)
        PROVE  tx' \in SettlementRow
    <3>1. PICK o \in plan[t] : tx' = [tx EXCEPT !.trades = @ \cup {o}]
      BY <2>4 DEF PersistTrade, Shelf!InsertTrade
    <3>2. o \in Orders
      BY DEF TypeOK
    <3>3. QED BY <1>1, <1>2, <3>1, <3>2
  <2>5. QED
    BY <2>1, <2>2, <2>3, <2>4 DEF SystemNext, Everything, others, SolverReturns, Won, Unsolved,
       CommitPersist, Shelf!Commit, ReopenAll, Abort, Shelf!Rollback, Panic, StartServer, Browse
<1>4. QED BY <1>1, <1>2, <1>3 DEF Shelf!TypeOK

LEMMA ReaderTypeKept ==
    ASSUME TypeOK, API!TypeOK, [SystemNext]_Everything
    PROVE  API!TypeOK'
<1> USE DEF API!TypeOK
<1>1. CASE UNCHANGED <<inquiry, walk>>
  BY <1>1
<1>2. CASE API!Read
  <2> USE DEF API!Inquiry, API!Walk, API!OrderStatus
  <2>1. ASSUME NEW o \in Orders, API!GetOrder(o)
        PROVE  API!TypeOK'
    <3>1. orders[o].status \in API!OrderStatus \cup {"absent"} /\ orders[o].batch \in Nat
      BY DEF TypeOK, OrderRow, OrderStatus
    <3>2. QED BY <2>1, <3>1 DEF API!GetOrder, API!NoInquiry
  <2>2. CASE API!FindHead
    BY <2>2 DEF API!FindHead
  <2>3. CASE API!FindTrades
    <3>1. UNION {s.trades : s \in {r \in settlements : r.batch = inquiry.batch}} \subseteq Orders
      BY DEF TypeOK, SettlementRow
    <3>2. QED BY <2>3, <3>1 DEF API!FindTrades
  <2>4. CASE API!WalkOrders \/ API!WalkBatches
    <3>1. /\ API!Rows("orders") \subseteq Nat
          /\ API!Rows("batches") \subseteq Nat
      BY LenProperties DEF API!Rows, TypeOK, OrderRow
    <3>2. PICK table \in {"orders", "batches"} : API!StartWalk(table)
      BY <2>4 DEF API!WalkOrders, API!WalkBatches
    <3>3. /\ walk' = [table |-> table, ended |-> FALSE, offset |-> 0, owed |-> API!Rows(table)]
          /\ inquiry' = inquiry
      BY <3>2 DEF API!StartWalk, API!NoWalk
    <3>4. API!Rows(table) \in SUBSET Nat
      BY <3>1
    <3>5. QED BY <3>3, <3>4
  <2>5. CASE API!NextPage
    <3>1. walk.offset + PageSize \in Nat
      BY PageAssumption
    <3>2. QED BY <2>5, <3>1 DEF API!NextPage
  <2>6. CASE API!Done
    BY <2>6 DEF API!Done, API!NoInquiry, API!NoWalk, API!NoBatch
  <2>7. QED BY <1>2, <2>1, <2>2, <2>3, <2>4, <2>5, <2>6 DEF API!Read
<1>3. QED
  BY <1>1, <1>2 DEF SystemNext, Everything, others, reading, SolverReturns, Won, Unsolved,
     PersistHead, PersistTrade, CommitPersist, ReopenAll, Abort, Panic, StartServer, Browse

-----------------------------------------------------------------------------
(* The inductive invariant                                                 *)

LEMMA SystemStart ==
    ASSUME SystemInit
    PROVE  SystemTypeOK /\ SystemInv
<1>1. Init /\ TypeOK /\ SingleInv /\ QueueInv
  BY TypeInit, SingleInit, QueueInit DEF SystemInit
<1>2. BackedInv
  BY <1>1, EmptySeq DEF Init, BackedInv, SettledIsBacked, SettlementFirst, NoOrder
<1>3. /\ settlements = {} /\ tx = Shelf!NoTx /\ results = Race!NoResults
      /\ \A t \in Timers : pc[t] = "ensure"
      /\ \A o \in Orders : orders[o].status = "absent"
  BY <1>1 DEF Init, SystemInit, Shelf!Init, Race!Init, NoOrder
<1>4. TransactionInv /\ ResultsInv /\ SettlementsWhole
  BY <1>3 DEF TransactionInv, ResultsInv, SettlementsWhole
<1>5. RowsNumbered
  <2>1. \A o \in Orders : started[o] = 0 /\ orders[o].status = "absent"
    BY <1>1, <1>3 DEF Init
  <2>2. Cardinality({p \in Orders : started[p] # 0}) \in Nat
    BY OrdersAssumption, FS_Subset, FS_CardinalityType
  <2>3. QED BY <2>1, <2>2 DEF RowsNumbered
<1>6. Race!TypeOK
  BY DEF SystemInit, Race!Init, Race!TypeOK, Race!NoResults
<1>7. Shelf!TypeOK
  BY <1>3 DEF Shelf!TypeOK, Shelf!NoTx, Shelf!NoBatch, Shelf!SettlementRow
<1>8. API!TypeOK
  <2>1. inquiry \in API!Inquiry
    BY DEF SystemInit, API!Init, API!NoInquiry, API!Inquiry, API!NoBatch
  <2>2. walk \in API!Walk
    BY DEF SystemInit, API!Init, API!NoWalk, API!Walk
  <2>3. QED BY <2>1, <2>2 DEF API!TypeOK
<1>9. QED BY <1>1, <1>2, <1>4, <1>5, <1>6, <1>7, <1>8 DEF SystemTypeOK, SystemInv

LEMMA SystemStep ==
    ASSUME SystemTypeOK, SystemInv, [SystemNext]_Everything
    PROVE  SystemTypeOK' /\ SystemInv'
<1> USE DEF SystemTypeOK
<1>1. TypeOK' /\ SingleInv' /\ BackedInv' /\ QueueInv'
  BY AuctionKept
<1>2. TransactionInv' /\ ResultsInv' /\ SettlementsWhole' /\ RowsNumbered'
  BY CompanionsKept, WholeKept, NumbersKept
<1>3. Race!TypeOK' /\ Shelf!TypeOK' /\ API!TypeOK'
  BY <1>1, RaceTypeKept, ShelfTypeKept, ReaderTypeKept
<1>4. QED BY <1>1, <1>2, <1>3 DEF SystemInv

-----------------------------------------------------------------------------
(* Theorems                                                                *)

\* The invariants of one instance hold of the composition, and with them: what
\* the transaction and the results have to do with the cycle that uses them.
THEOREM SystemInvariant == SystemSpec => [](SystemTypeOK /\ SystemInv)
<1>1. SystemTypeOK /\ SystemInv /\ [SystemNext]_Everything => (SystemTypeOK /\ SystemInv)'
  BY SystemStep
<1>2. QED BY <1>1, SystemStart, PTL DEF SystemSpec

\* Every component's variables keep their types: a solver that returned is one
\* of the roster, the transaction holds a row of the schema.
THEOREM SystemTypeCorrect == SystemSpec => []SystemTypeOK
  BY SystemInvariant, PTL

\* The composition with its solvers that return one by one and its transaction
\* of several statements still implements the abstract auction.
THEOREM SystemImplementsRounds == SystemSpec => ImplementsRounds
<1>1. SystemInit => Rounds!Init
  BY RoundsInit DEF SystemInit
<1>2. TypeOK /\ SystemInv /\ [SystemNext]_Everything => [Rounds!Next]_(Rounds!vars)
  <2> SUFFICES ASSUME TypeOK, SystemInv, [SystemNext]_Everything
               PROVE  [Rounds!Next]_(Rounds!vars)
    OBVIOUS
  <2>1. CASE [Next]_vars
    BY <2>1, RoundsStep DEF SystemInv
  <2>2. ASSUME NEW t \in Timers, Won(t)
        PROVE  UNCHANGED Rounds!vars
    BY <2>2, WonPlan, RoundsStutter
  <2>3. QED BY <2>1, <2>2, SystemSteps
<1>3. SystemTypeOK => TypeOK
  BY DEF SystemTypeOK
<1>4. QED
  BY <1>1, <1>2, <1>3, SystemInvariant, PTL DEF SystemSpec, ImplementsRounds, Rounds!Spec

\* What is committed is all of a best solution, with any number of solvers in
\* any order, and any scores.
THEOREM BestSolutionPersisted == SystemSpec => BestIsPersisted
<1> DEFINE Best == \A row \in settlements' \ settlements :
              \E s \in Race!Solved :
                 /\ row.trades = results[s].trades
                 /\ \A r \in Race!Solved : results[r].score <= results[s].score
<1>1. TypeOK /\ SystemInv /\ [SystemNext]_Everything => [Best]_Everything
  <2> SUFFICES ASSUME TypeOK, SystemInv, [SystemNext]_Everything
               PROVE  Best
    OBVIOUS
  <2>1. CASE settlements' = settlements
    BY <2>1
  <2>2. ASSUME NEW t \in Timers, CommitPersist(t)
        PROVE  Best
    <3>1. \A row \in settlements' \ settlements : row.trades = plan[t]
      BY <2>2, CommitRow
    <3>2. \E s \in Race!Solved :
             /\ plan[t] = results[s].trades
             /\ \A r \in Race!Solved : results[r].score <= results[s].score
      BY <2>2 DEF CommitPersist, SystemInv, ResultsInv
    <3>3. QED BY <3>1, <3>2
  <2>3. QED BY <2>1, <2>2, OnlyCommitSettles
<1>2. SystemTypeOK => TypeOK
  BY DEF SystemTypeOK
<1> HIDE DEF Best
<1>3. SystemSpec => [][Best]_Everything
  BY <1>1, <1>2, SystemInvariant, PTL DEF SystemSpec
<1>4. QED BY <1>3 DEF BestIsPersisted, Best

\* Only a step of FailBatch makes a batch "failed".
LEMMA OnlyFailBatchFails ==
    ASSUME TypeOK, SystemInv, [SystemNext]_Everything, NEW b \in DOMAIN batches,
           batches[b].status # "failed", batches'[b].status = "failed"
    PROVE  \E t \in Timers : FailBatch(t)
<1>1. CASE batches' = batches
  BY <1>1
<1>2. ASSUME NEW t \in Timers, EnsureCreate(t) \/ CreateCurrent(t) \/ CreateNext(t)
      PROVE  FALSE
  BY <1>2, CreateSteps
<1>3. ASSUME NEW t \in Timers, Close(t) \/ MarkSolved(t) \/ Settle(t)
      PROVE  FALSE
  BY <1>3, BatchSteps
<1>4. \/ batches' = batches
      \/ \E t \in Timers : \/ EnsureCreate(t) \/ CreateCurrent(t) \/ CreateNext(t)
                           \/ Close(t) \/ MarkSolved(t) \/ Settle(t) \/ FailBatch(t)
  BY DEF SystemNext, Everything, vars, tables, Client, SubmitOrder, InsertOrder, RequestCancel,
     CancelOrder, Lapse, OtherStatement, EnsureFound, EnsureMissing, Tick,
     FindCurrent, Expire, Fetch, Assign, SettleOrders, SolverReturns, Won, Unsolved,
     PersistHead, PersistTrade, CommitPersist, ReopenAll, Reopen, Abort,
     StatementFails, EnsureFails, Crash, Panic, SolverPanics, StartServer, Restart, Browse
<1>5. QED BY <1>1, <1>2, <1>3, <1>4

\* A batch fails only when no solver of the roster has a solution: the error of
\* one of them does not hide the solution of another.
THEOREM FailureMeansNoSolution == SystemSpec => FailedMeansUnsolved
<1> DEFINE Unsolvable == \A b \in DOMAIN batches :
              (batches[b].status # "failed" /\ batches'[b].status = "failed")
              => \A s \in roster : s \in DOMAIN results /\ results[s].trades = {}
<1>1. TypeOK /\ SystemInv /\ [SystemNext]_Everything => [Unsolvable]_Everything
  <2>1. ASSUME SystemInv, NEW t \in Timers, FailBatch(t)
        PROVE  \A s \in roster : s \in DOMAIN results /\ results[s].trades = {}
    BY <2>1 DEF FailBatch, SystemInv, ResultsInv
  <2>2. QED BY <2>1, OnlyFailBatchFails
<1>2. SystemTypeOK => TypeOK
  BY DEF SystemTypeOK
<1> HIDE DEF Unsolvable
<1>3. SystemSpec => [][Unsolvable]_Everything
  BY <1>1, <1>2, SystemInvariant, PTL DEF SystemSpec
<1>4. QED BY <1>3 DEF FailedMeansUnsolved, Unsolvable

=============================================================================
