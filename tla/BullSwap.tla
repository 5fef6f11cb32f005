------------------------------ MODULE BullSwap ------------------------------
(***************************************************************************)
(* The deployment of docker-compose.yml: one server.  BatchAuction with    *)
(* its two big steps taken apart: the competition is the solvers of        *)
(* Competition, returning one by one while orders are cancelled and        *)
(* expire, and the settlement is persisted by the transaction of           *)
(* SettlementStore.  A Reader asks the API meanwhile.                      *)
(***************************************************************************)
EXTENDS BatchAuction

CONSTANTS Solvers, Scores, PageSize

ASSUME OneServer == OneTimer

ASSUME SolversAssumption == Solvers \subseteq Nat /\ Scores \subseteq Nat

\* list_orders and list_batches clamp the limit to 1..100.
ASSUME PageAssumption == PageSize \in 1..100

VARIABLES roster, results, tx, inquiry, walk

Race  == INSTANCE Competition
Shelf == INSTANCE SettlementStore
API   == INSTANCE Reader

race    == <<roster, results>>
reading == <<inquiry, walk>>
others  == <<race, tx, reading>>

Everything == <<vars, others>>

SystemInit ==
    /\ Init
    /\ Race!Init
    /\ Shelf!Init
    /\ API!Init

-----------------------------------------------------------------------------
(* Step 6 *)

\* A solver is done.  There are orders: without, Fetch has ended the cycle.
SolverReturns(t) ==
    /\ pc[t] = "compete"
    /\ \E s \in Solvers : Race!Return(s, Solutions(snap[t]))
    /\ UNCHANGED <<vars, tx, reading>>

\* All solvers are done, or there are none.  The results are kept until the
\* settlement is written, for the properties.
Won(t) ==
    /\ pc[t] = "compete"
    /\ Race!Finished
    /\ \E s \in roster :
          /\ Race!Winner(s)
          /\ plan' = [plan EXCEPT ![t] = results[s].trades]
    /\ Goto(t, "persist")
    /\ UNCHANGED <<tables, lapsed, api, cur, snap, late, limits, others>>

Unsolved(t) ==
    /\ pc[t] = "compete"
    /\ Race!Finished
    /\ Race!NoWinner
    /\ Goto(t, "fail")
    /\ UNCHANGED <<tables, lapsed, api, locals, limits, others>>

-----------------------------------------------------------------------------
(* Step 7 *)

PersistHead(t) ==
    /\ pc[t] = "persist"
    /\ Shelf!InsertHead(cur[t])
    /\ UNCHANGED <<orders, batches, lapsed, api, pc, locals, limits, race, reading>>

PersistTrade(t) ==
    /\ pc[t] = "persist"
    /\ \E o \in plan[t] : Shelf!InsertTrade(o)
    /\ UNCHANGED <<orders, batches, lapsed, api, pc, locals, limits, race, reading>>

\* Mutant: the error of insert_full is dropped, with its transaction.
CommitSwallowed(t) ==
    /\ pc[t] = "persist"
    /\ Shelf!Rollback
    /\ Goto(t, "markSolved")
    /\ Race!Forget
    /\ UNCHANGED <<orders, batches, lapsed, api, locals, limits, reading>>

CommitPersist(t) ==
    /\ pc[t] = "persist"
    /\ plan[t] \subseteq tx.trades
    /\ Shelf!Commit
    /\ Goto(t, "markSolved")
    /\ Race!Forget
    /\ UNCHANGED <<orders, batches, lapsed, api, locals, limits, reading>>

-----------------------------------------------------------------------------
(* Everything else *)

\* The statements in which nothing of the other components takes part
OtherStatement(t) ==
    \/ EnsureFound(t) \/ EnsureMissing(t) \/ EnsureCreate(t)
    \/ Tick(t)
    \/ FindCurrent(t) \/ CreateCurrent(t)
    \/ Expire(t) \/ Fetch(t) \/ Assign(t) \/ Close(t)
    \/ MarkSolved(t) \/ Settle(t) \/ SettleOrders(t)
    \/ FailBatch(t)
    \/ CreateNext(t)

\* The results of a failed competition go with the end of its branch.
ReopenAll(t) ==
    /\ Reopen(t)
    /\ Race!Forget
    /\ UNCHANGED <<tx, reading>>

\* An error or the death of the process drops the transaction.  run() has no
\* errors of its own: at "compete" it is the update of step 5 that failed.
Abort(t) ==
    /\ \/ StatementFails(t) /\ (pc[t] = "compete" => results = Race!NoResults)
       \/ EnsureFails(t)
       \/ Crash(t)
    /\ Shelf!Rollback
    /\ Race!Forget
    /\ UNCHANGED reading

\* One solver panics, the others' results are lost with it.
Panic(t) ==
    /\ roster \ DOMAIN results # {}
    /\ SolverPanics(t)
    /\ Race!Forget
    /\ UNCHANGED <<tx, reading>>

StartServer(t) ==
    /\ Restart(t)
    /\ Race!FindActive
    /\ UNCHANGED <<tx, reading>>

Browse == API!Read /\ UNCHANGED <<vars, race, tx>>

SystemNext ==
    \/ \E o \in Orders : Client(o) /\ UNCHANGED others
    \/ \E t \in Timers :
          \/ OtherStatement(t) /\ UNCHANGED others
          \/ SolverReturns(t) \/ Won(t) \/ Unsolved(t)
          \/ PersistHead(t) \/ PersistTrade(t) \/ CommitPersist(t)
          \/ ReopenAll(t)
          \/ Abort(t) \/ Panic(t) \/ StartServer(t)
    \/ Browse

SystemSpec == SystemInit /\ [][SystemNext]_Everything

-----------------------------------------------------------------------------
(* Properties *)

SystemTypeOK ==
    /\ TypeOK
    /\ Race!TypeOK
    /\ Shelf!TypeOK
    /\ API!TypeOK

\* What is committed is all of the best solution: some solver returned exactly
\* these trades and no solver returned a better score.  Between the two are
\* the parallel solvers, max_by and a transaction of several statements.
BestIsPersisted ==
    [][\A row \in settlements' \ settlements :
          \E s \in Race!Solved :
             /\ row.trades = results[s].trades
             /\ \A r \in Race!Solved : results[r].score <= results[s].score]_Everything

\* A batch fails only when every solver of the server has returned an error:
\* the failure of one solver does not hide the solution of another.
FailedMeansUnsolved ==
    [][\A b \in DOMAIN batches :
          (batches[b].status # "failed" /\ batches'[b].status = "failed")
          => \A s \in roster : s \in DOMAIN results /\ results[s].trades = {}]_Everything

SettledIsTold     == API!SettledIsTold
DetailsAreWhole   == API!DetailsAreWhole
WalkMissesNothing == API!WalkMissesNothing

-----------------------------------------------------------------------------
(* The inductive invariant of SystemProofs *)

\* What the open transaction has of the settlement that is being written.
TransactionInv ==
    tx # Shelf!NoTx =>
        \E t \in Timers : /\ pc[t] = "persist"
                          /\ tx.batch = cur[t]
                          /\ tx.trades \subseteq plan[t]

\* The results live as long as the branch of the cycle that uses them, and they
\* trade rows that this cycle has read.
ResultsInv ==
    \A t \in Timers :
        /\ pc[t] \notin {"compete", "persist", "fail", "reopen"} => results = Race!NoResults
        /\ pc[t] \in {"compete", "persist"} =>
              \A s \in Race!Solved : results[s].trades \subseteq snap[t]
        /\ pc[t] = "persist" =>
              \E s \in Race!Solved :
                 /\ plan[t] = results[s].trades
                 /\ \A r \in Race!Solved : results[r].score <= results[s].score
        /\ pc[t] = "fail" =>
              \A s \in roster : s \in DOMAIN results /\ results[s].trades = {}

\* What is committed is whole: a settlement has trades, a batch one settlement.
SettlementsWhole ==
    /\ \A s \in settlements : s.trades # {}
    /\ \A r, s \in settlements : r.batch = s.batch => r = s

\* created_at is the number the order got when its transaction began: no two
\* orders have the same.
RowsNumbered ==
    /\ \A o \in Orders : orders[o].status # "absent" => orders[o].created = started[o]
    /\ \A o, p \in Orders : started[o] # 0 /\ started[o] = started[p] => o = p
    /\ \A o \in Orders : started[o] <= Cardinality({p \in Orders : started[p] # 0})

SystemInv ==
    /\ SingleInv /\ BackedInv /\ QueueInv
    /\ TransactionInv /\ ResultsInv
    /\ SettlementsWhole /\ RowsNumbered
=============================================================================
