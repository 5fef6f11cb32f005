-------------------------- MODULE SettlementStore --------------------------
(***************************************************************************)
(* The transaction of SettlementRepo.insert_full, statement by statement:  *)
(* BEGIN and the settlement, one INSERT per trade, COMMIT.  The clearing   *)
(* prices are inserted after the trades in the same way and add nothing.   *)
(*                                                                         *)
(* Other connections see what is committed.  A transaction that is dropped *)
(* by an error or with its connection is rolled back.                      *)
(***************************************************************************)
EXTENDS Store

VARIABLES
    settlements,        \* tables settlements and trades, committed
    tx                  \* the open transaction: the rows it has inserted

NoTx == [batch |-> NoBatch, trades |-> {}]

Init == settlements = {} /\ tx = NoTx

TypeOK == settlements \subseteq SettlementRow /\ tx \in SettlementRow

\* Mutant: without BEGIN the row of the settlement is committed at once.
InsertHeadAtOnce(b) ==
    /\ tx = NoTx
    /\ ~HasSettlement(settlements, b)
    /\ settlements' = InsertSettlement(settlements, b, {})
    /\ tx' = [NoTx EXCEPT !.batch = b]

InsertHead(b) ==
    /\ tx = NoTx
    /\ ~HasSettlement(settlements, b)
    /\ tx' = [NoTx EXCEPT !.batch = b]
    /\ UNCHANGED settlements

InsertTrade(o) ==
    /\ tx # NoTx
    /\ o \notin tx.trades
    /\ tx' = [tx EXCEPT !.trades = @ \cup {o}]
    /\ UNCHANGED settlements

Commit ==
    /\ tx # NoTx
    /\ settlements' = InsertSettlement(settlements, tx.batch, tx.trades)
    /\ tx' = NoTx

Rollback ==
    /\ tx' = NoTx
    /\ UNCHANGED settlements
=============================================================================
