------------------------------- MODULE Reader -------------------------------
(***************************************************************************)
(* A client that only reads, one request at a time: it looks an order up   *)
(* and asks for the settlement of its batch, or it walks through a list    *)
(* page by page until a page is empty.                                     *)
(*                                                                         *)
(* Both lists are ORDER BY created_at DESC LIMIT OFFSET over tables that   *)
(* no code deletes from.  A row is named by its created_at, which no two   *)
(* rows of one table share here; an order whose transaction began early    *)
(* and committed late appears between the rows of a list.                  *)
(***************************************************************************)
EXTENDS Store

CONSTANT PageSize               \* the limit a client asks for, after the clamp

VARIABLES
    orders, batches, settlements,
    inquiry,            \* an order that was looked up, and its settlement
    walk                \* a walk through a list

\* status: what the order said, until its settlement is found
NoInquiry == [at |-> "idle", status |-> "absent", batch |-> NoBatch, trades |-> {}]

Inquiry == [at     : {"idle", "head", "trades", "told", "missing"},
            status : OrderStatus \cup {"absent"},
            batch  : Nat,
            trades : SUBSET Orders]

\* owed: the rows that were there when the walk began and that it has not been
\* given yet
NoWalk == [table |-> "none", ended |-> FALSE, offset |-> 0, owed |-> {}]

Walk == [table  : {"none", "orders", "batches"},
         ended  : BOOLEAN,
         offset : Nat,
         owed   : SUBSET Nat]

Init == inquiry = NoInquiry /\ walk = NoWalk

TypeOK == inquiry \in Inquiry /\ walk \in Walk

Idle == inquiry = NoInquiry /\ walk = NoWalk

-----------------------------------------------------------------------------
(* GET /v1/orders/{uid}, then GET /v1/settlements/{batch_id}               *)

\* get_order; the client goes on if the order has a batch_id.
GetOrder(o) ==
    /\ Idle
    /\ orders[o].batch # NoBatch
    /\ inquiry' = [NoInquiry EXCEPT !.at = "head",
                                    !.status = orders[o].status,
                                    !.batch = orders[o].batch]
    /\ UNCHANGED walk

\* find_by_batch_id, its first statement; none is NotFound.
FindHead ==
    /\ inquiry.at = "head"
    /\ inquiry' = IF HasSettlement(settlements, inquiry.batch)
                  THEN [inquiry EXCEPT !.at = "trades", !.status = "absent"]
                  ELSE [inquiry EXCEPT !.at = "missing"]
    /\ UNCHANGED walk

\* Its second statement, and the reply
FindTrades ==
    /\ inquiry.at = "trades"
    /\ inquiry' = [inquiry EXCEPT
                      !.at = "told",
                      !.trades = UNION {s.trades : s \in {r \in settlements :
                                                           r.batch = inquiry.batch}}]
    /\ UNCHANGED walk

-----------------------------------------------------------------------------
(* GET /v1/orders and GET /v1/batches, without a filter                    *)

\* Mutant: status defaults to open.
OpenRows(table) ==
    IF table = "orders" THEN {orders[o].created : o \in {p \in Orders : orders[p].status = "open"}}
                        ELSE DOMAIN batches

\* The rows of a table, by their created_at
Rows(table) ==
    IF table = "orders" THEN {orders[o].created : o \in {p \in Orders : orders[p].status # "absent"}}
                        ELSE DOMAIN batches

Newer(table, row) == {r \in Rows(table) : r > row}

\* OrderRepo.list, BatchRepo.list_recent: the newest rows first
Page(table, offset) ==
    {r \in Rows(table) :
        Cardinality(Newer(table, r)) \in offset..(offset + PageSize - 1)}

StartWalk(table) ==
    /\ Idle
    /\ walk' = [NoWalk EXCEPT !.table = table, !.owed = Rows(table)]
    /\ UNCHANGED inquiry

WalkOrders  == StartWalk("orders")
WalkBatches == StartWalk("batches")

\* The offset grows by the limit, whatever has happened to the table.
NextPage ==
    /\ walk.table # "none" /\ ~walk.ended
    /\ LET page == Page(walk.table, walk.offset)
       IN  walk' = IF page = {} THEN [walk EXCEPT !.ended = TRUE]
                   ELSE [walk EXCEPT !.offset = @ + PageSize, !.owed = @ \ page]
    /\ UNCHANGED inquiry

\* The client has its answer.
Done ==
    /\ inquiry.at \in {"told", "missing"} \/ walk.ended
    /\ inquiry' = NoInquiry
    /\ walk' = NoWalk

Read ==
    \/ \E o \in Orders : GetOrder(o)
    \/ FindHead \/ FindTrades
    \/ WalkOrders \/ WalkBatches \/ NextPage
    \/ Done

-----------------------------------------------------------------------------
(* Properties *)

\* A client that read "settled" and asks for the settlement gets one: the two
\* requests read different tables at different times, and the cycle writes the
\* settlement, the batch and the orders in transactions of their own.
SettledIsTold == inquiry.at = "missing" => inquiry.status # "settled"

\* The answer was and stays all of the settlement, although it is put together
\* from several SELECTs while insert_full writes row by row ("No partial
\* settlements", README.md).
DetailsAreWhole ==
    inquiry.at = "told" =>
        /\ inquiry.trades # {}
        /\ \A s \in settlements : s.batch = inquiry.batch => s.trades = inquiry.trades

\* A walk by LIMIT and OFFSET misses no row that was there when it began,
\* although rows are inserted between its pages.
WalkMissesNothing == walk.ended => walk.owed = {}

-----------------------------------------------------------------------------
(* The inductive invariant of SystemProofs *)

\* What was found is there, and what the order said of its settlement is true.
InquiryInv ==
    /\ inquiry.at = "head" /\ inquiry.status = "settled"
          => HasSettlement(settlements, inquiry.batch)
    /\ inquiry.at \in {"trades", "told"} => HasSettlement(settlements, inquiry.batch)

\* The rows that are owed are still ahead of the walk: inserts only push them
\* further on.
WalkInv ==
    walk.table # "none" =>
        /\ walk.owed \subseteq Rows(walk.table)
        /\ \A r \in walk.owed : Cardinality(Newer(walk.table, r)) >= walk.offset

ReaderInv ==
    /\ InquiryInv /\ SettledIsTold /\ DetailsAreWhole
    /\ WalkInv /\ WalkMissesNothing
=============================================================================
