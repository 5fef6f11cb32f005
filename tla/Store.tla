------------------------------- MODULE Store -------------------------------
(***************************************************************************)
(* The PostgreSQL tables of BullSwap and the SQL statements of src/src/db  *)
(* as functions from a table to a table.  Every statement runs in a        *)
(* transaction of its own (no caller opens one, SettlementRepo.insert_full *)
(* excepted), so a step of a client applies one of these functions.        *)
(*                                                                         *)
(* A row keeps what the control flow reads: the status of an order, the    *)
(* batch it is assigned to and its place in the order of created_at.  Its  *)
(* tokens, amounts, owner and signature are the solver's business.         *)
(***************************************************************************)
EXTENDS Naturals, Sequences, FiniteSets

CONSTANT Orders                 \* uids of the orders clients may submit

ASSUME OrdersAssumption == IsFiniteSet(Orders)

NoBatch == 0                    \* orders.batch_id IS NULL

\* An order that was not inserted yet has the status "absent".
OrderStatus == {"open", "matched", "settled", "cancelled", "expired"}

OrderRow == [status  : OrderStatus \cup {"absent"},
             batch   : Nat,
             created : Nat]

NoOrder == [status |-> "absent", batch |-> NoBatch, created |-> 0]

BatchStatus == {"collecting", "solving", "settled", "failed"}

\* Batches are numbered in the order of created_at, from 1.
BatchRow == [status : BatchStatus, solved : BOOLEAN, count : Nat]

-----------------------------------------------------------------------------
(* orders *)

\* OrderRepo.insert; created_at is NOW(), the start of its transaction.
InsertOrderRow(rows, o, now) ==
    [rows EXCEPT ![o] = [status |-> "open", batch |-> NoBatch, created |-> now]]

\* Mutant: the clause without status = 'open'.
AnyUnassigned(rows, lapsed) ==
    {o \in Orders : /\ rows[o].status # "absent"
                    /\ rows[o].batch = NoBatch
                    /\ o \notin lapsed}

\* Mutant: the clause without batch_id IS NULL.
OpenInAnyBatch(rows, lapsed) ==
    {o \in Orders : rows[o].status = "open" /\ o \notin lapsed}

\* The WHERE clause of find_open_unassigned.  lapsed: the orders whose
\* valid_to has passed.
OpenUnassigned(rows, lapsed) ==
    {o \in Orders : /\ rows[o].status = "open"
                    /\ rows[o].batch = NoBatch
                    /\ o \notin lapsed}

\* Mutant: ORDER BY created_at DESC.
NewestOpen(rows, lapsed, limit) ==
    LET S == OpenUnassigned(rows, lapsed)
    IN  {o \in S : Cardinality({p \in S : rows[p].created > rows[o].created}) < limit}

\* Mutant: OFFSET 1.
AllButFirst(rows, lapsed, limit) ==
    LET S == OpenUnassigned(rows, lapsed)
    IN  {o \in S : Cardinality({p \in S : rows[p].created < rows[o].created}) \in 1..limit}

\* ORDER BY created_at ASC LIMIT limit
FindOpenUnassigned(rows, lapsed, limit) ==
    LET S == OpenUnassigned(rows, lapsed)
    IN  {o \in S : Cardinality({p \in S : rows[p].created < rows[o].created}) < limit}

\* Mutant: the UPDATE without AND status = 'open'.
AssignAnyStatus(rows, uids, b) ==
    [o \in Orders |-> IF o \in uids
                      THEN [rows[o] EXCEPT !.status = "matched", !.batch = b]
                      ELSE rows[o]]

\* Mutant: the UPDATE as README.md quotes it, which sets the batch id alone.
AssignIdOnly(rows, uids, b) ==
    [o \in Orders |-> IF o \in uids /\ rows[o].status = "open"
                      THEN [rows[o] EXCEPT !.batch = b]
                      ELSE rows[o]]

AssignToBatch(rows, uids, b) ==
    [o \in Orders |-> IF o \in uids /\ rows[o].status = "open"
                      THEN [rows[o] EXCEPT !.status = "matched", !.batch = b]
                      ELSE rows[o]]

CancelRow(rows, o) ==
    [rows EXCEPT ![o].status = IF @ = "open" THEN "cancelled" ELSE @]

\* No filter on the status: every row of the batch is overwritten.
UpdateBatchOrdersStatus(rows, b, status) ==
    [o \in Orders |-> IF rows[o].batch = b
                      THEN [rows[o] EXCEPT !.status = status]
                      ELSE rows[o]]

ExpireOrders(rows, lapsed) ==
    [o \in Orders |-> IF rows[o].status = "open" /\ o \in lapsed
                      THEN [rows[o] EXCEPT !.status = "expired"]
                      ELSE rows[o]]

-----------------------------------------------------------------------------
(* batches *)

NewBatch == [status |-> "collecting", solved |-> FALSE, count |-> 0]

CreateBatch(rows) == Append(rows, NewBatch)

Collecting(rows) == {b \in DOMAIN rows : rows[b].status = "collecting"}

\* Mutant: the query without WHERE status = 'collecting'.
IsLatest(rows, b) == b \in DOMAIN rows /\ b = Len(rows)

\* get_current_collecting returns b: ORDER BY created_at DESC LIMIT 1.
IsCurrentCollecting(rows, b) ==
    b \in Collecting(rows) /\ \A c \in Collecting(rows) : c <= b

UpdateBatchStatus(rows, b, status) == [rows EXCEPT ![b].status = status]

MarkBatchSolved(rows, b, n) ==
    [rows EXCEPT ![b] = [@ EXCEPT !.solved = TRUE, !.count = n]]

-----------------------------------------------------------------------------
(* settlements, with the trades inserted in the same transaction *)

SettlementRow == [batch : Nat, trades : SUBSET Orders]

\* settlements.batch_id is UNIQUE
HasSettlement(rows, b) == \E s \in rows : s.batch = b

InsertSettlement(rows, b, trades) ==
    rows \cup {[batch |-> b, trades |-> trades]}
=============================================================================
