---------------------------- MODULE ReaderProofs ----------------------------
(***************************************************************************)
(* Theorems about BullSwap as its clients see it: what a Reader is told,   *)
(* whatever happens between its requests and between the statements of one *)
(* request.                                                                *)
(***************************************************************************)
EXTENDS SystemProofs

-----------------------------------------------------------------------------
(* An order and its settlement                                             *)

LEMMA HasSettlementSame ==
    \A rows, b : API!HasSettlement(rows, b) <=> \E s \in rows : s.batch = b
  BY DEF API!HasSettlement

\* Nothing deletes or replaces a settlement.
LEMMA SettlementsGrow ==
    ASSUME TypeOK, SystemInv, [SystemNext]_Everything
    PROVE  settlements \subseteq settlements'
  BY OnlyCommitSettles, CommitRow

\* What a client was told stays true while it does not ask.
LEMMA InquiryFrame ==
    ASSUME TypeOK, SystemInv, [SystemNext]_Everything, UNCHANGED inquiry,
           API!InquiryInv, API!SettledIsTold, API!DetailsAreWhole
    PROVE  API!InquiryInv' /\ API!SettledIsTold' /\ API!DetailsAreWhole'
<1>1. settlements \subseteq settlements' /\ SettlementsWhole'
  BY SettlementsGrow, WholeKept
<1>2. API!InquiryInv'
  BY <1>1 DEF API!InquiryInv, API!HasSettlement
<1>3. API!SettledIsTold'
  BY DEF API!SettledIsTold
<1>4. API!DetailsAreWhole'
  <2> SUFFICES ASSUME inquiry.at = "told", NEW s \in settlements', s.batch = inquiry.batch
               PROVE  inquiry.trades # {} /\ s.trades = inquiry.trades
    BY DEF API!DetailsAreWhole
  <2>1. PICK r \in settlements : r.batch = inquiry.batch
    BY DEF API!InquiryInv, API!HasSettlement
  <2>2. r.trades = inquiry.trades /\ inquiry.trades # {}
    BY <2>1 DEF API!DetailsAreWhole
  <2>3. r = s
    BY <1>1, <2>1 DEF SettlementsWhole
  <2>4. QED BY <2>2, <2>3
<1>5. QED BY <1>2, <1>3, <1>4

\* A request reads what is committed.
LEMMA InquiryRead ==
    ASSUME SystemTypeOK, SystemInv, Browse,
           API!InquiryInv, API!SettledIsTold, API!DetailsAreWhole
    PROVE  API!InquiryInv' /\ API!SettledIsTold' /\ API!DetailsAreWhole'
<1> USE DEF API!InquiryInv, API!SettledIsTold, API!DetailsAreWhole
<1>1. UNCHANGED <<orders, batches, settlements>> /\ API!Read
  BY DEF Browse, vars, tables
<1>2. inquiry \in API!Inquiry
  BY DEF SystemTypeOK, API!TypeOK
<1>3. ASSUME NEW o \in Orders, API!GetOrder(o)
      PROVE  API!InquiryInv' /\ API!SettledIsTold' /\ API!DetailsAreWhole'
  <2>1. /\ inquiry'.at = "head"
        /\ inquiry'.status = orders[o].status /\ inquiry'.batch = orders[o].batch
    BY <1>3 DEF API!GetOrder, API!NoInquiry
  <2>2. orders[o].status = "settled" => API!HasSettlement(settlements, orders[o].batch)
    BY DEF SystemInv, BackedInv, SettledIsBacked, HasSettlement, API!HasSettlement
  <2>3. QED BY <1>1, <2>1, <2>2 DEF API!HasSettlement
<1>4. CASE API!FindHead
  <2>1. CASE API!HasSettlement(settlements, inquiry.batch)
    BY <1>1, <1>2, <1>4, <2>1 DEF API!FindHead, API!Inquiry, API!HasSettlement
  <2>2. CASE ~API!HasSettlement(settlements, inquiry.batch)
    BY <1>1, <1>2, <1>4, <2>2 DEF API!FindHead, API!Inquiry
  <2>3. QED BY <2>1, <2>2
<1>5. CASE API!FindTrades
  <2> DEFINE found == {r \in settlements : r.batch = inquiry.batch}
  <2>1. /\ inquiry.at = "trades" /\ inquiry'.at = "told"
        /\ inquiry'.batch = inquiry.batch
        /\ inquiry'.trades = UNION {s.trades : s \in found}
    BY <1>2, <1>5 DEF API!FindTrades, API!Inquiry
  <2>2. PICK r \in found : TRUE
    BY <2>1 DEF API!HasSettlement
  <2>3. found = {r} /\ r.trades # {}
    BY DEF SystemInv, SettlementsWhole
  <2>4. inquiry'.trades = r.trades
    BY <2>1, <2>3
  <2>5. \A s \in settlements : s.batch = inquiry.batch => s = r
    BY <2>3
  <2> HIDE DEF found
  <2>6. r \in settlements /\ r.batch = inquiry.batch
    BY DEF found
  <2>7. QED BY <1>1, <2>1, <2>3, <2>4, <2>5, <2>6 DEF API!HasSettlement
<1>6. CASE UNCHANGED inquiry
  BY <1>1, <1>6 DEF API!HasSettlement
<1>7. CASE API!Done
  BY <1>7 DEF API!Done, API!NoInquiry
<1>8. QED
  BY <1>1, <1>3, <1>4, <1>5, <1>6, <1>7
     DEF API!Read, API!WalkOrders, API!WalkBatches, API!StartWalk, API!NextPage

LEMMA OnlyBrowseAsks ==
    ASSUME [SystemNext]_Everything
    PROVE  Browse \/ UNCHANGED <<inquiry, walk>>
  BY DEF SystemNext, Everything, others, reading, SolverReturns, Won, Unsolved, PersistHead,
     PersistTrade, CommitPersist, ReopenAll, Abort, Panic, StartServer

-----------------------------------------------------------------------------
(* Walks                                                                   *)

\* Cardinality is the same in the modules that Reader extends.
LEMMA CardinalityAgrees ==
    ASSUME NEW S
    PROVE  API!Cardinality(S) = Cardinality(S)
  BY DEF API!Cardinality, Cardinality

\* The rows of a finite table have the numbers of newer rows 0, 1, 2, ...: no
\* number is left out up to that of any row.
LEMMA Ranks ==
    ASSUME NEW R, R \subseteq Nat, IsFiniteSet(R),
           NEW r \in R, NEW k \in Nat, k <= Cardinality({p \in R : p > r})
    PROVE  \E q \in R : Cardinality({p \in R : p > q}) = k
<1> DEFINE Above(q) == {p \in R : p > q}
           n == Cardinality(R)
           rank == [q \in R |-> Cardinality(Above(q))]
<1>1. n \in Nat
  BY FS_CardinalityType
<1>2. \A q \in R : /\ IsFiniteSet(Above(q))
                   /\ Cardinality(Above(q)) \in Nat
  BY FS_Subset, FS_CardinalityType
<1>3. \A q \in R : Cardinality(Above(q)) < n
  <2> SUFFICES ASSUME NEW q \in R PROVE Cardinality(Above(q)) < n
    OBVIOUS
  <2>1. Above(q) \subseteq R /\ Above(q) # R
    OBVIOUS
  <2>2. Cardinality(Above(q)) <= n /\ Cardinality(Above(q)) # n
    BY <2>1, FS_Subset
  <2> HIDE DEF Above, n
  <2>3. QED BY <1>1, <1>2, <2>2
<1>4. \A p, q \in R : p < q => Cardinality(Above(q)) < Cardinality(Above(p))
  <2> SUFFICES ASSUME NEW p \in R, NEW q \in R, p < q
               PROVE  Cardinality(Above(q)) < Cardinality(Above(p))
    OBVIOUS
  <2>1. Above(q) \subseteq Above(p) /\ q \in Above(p) /\ q \notin Above(q)
    <3>1. \A x \in R : x \in Nat
      OBVIOUS
    <3>2. \A x \in R : x > q => x > p
      BY <3>1
    <3>3. q > p /\ ~(q > q)
      BY <3>1
    <3>4. QED BY <3>2, <3>3
  <2>2. /\ Cardinality(Above(q)) <= Cardinality(Above(p))
        /\ Cardinality(Above(q)) # Cardinality(Above(p))
    BY <1>2, <2>1, FS_Subset
  <2> HIDE DEF Above
  <2>3. QED BY <1>2, <2>2
<1>5. rank \in Injection(R, 0..(n - 1))
  <2> HIDE DEF Above, n
  <2>1. \A p, q \in R : p # q => p < q \/ q < p
    OBVIOUS
  <2>2. \A p, q \in R : p # q => Cardinality(Above(p)) # Cardinality(Above(q))
    BY <1>2, <1>4, <2>1
  <2>3. rank \in [R -> 0..(n - 1)]
    BY <1>1, <1>2, <1>3
  <2>4. \A p, q \in R : rank[p] = rank[q] => p = q
    BY <2>2
  <2> HIDE DEF rank
  <2>5. QED BY <2>3, <2>4 DEF Injection, IsInjective
<1>6. IsFiniteSet(0..(n - 1)) /\ Cardinality(0..(n - 1)) = n
  <2> HIDE DEF n
  <2>1. Cardinality(0..(n - 1)) = IF 0 > n - 1 THEN 0 ELSE (n - 1) - 0 + 1
    BY <1>1, FS_Interval
  <2>2. QED BY <1>1, <2>1, FS_Interval
<1>7. rank \in Surjection(R, 0..(n - 1))
  BY <1>5, <1>6, FS_Injection
<1>8. k \in 0..(n - 1)
  <2>1. k <= Cardinality(Above(r))
    OBVIOUS
  <2> HIDE DEF Above, n
  <2>2. QED BY <1>1, <1>2, <1>3, <2>1
<1>9. PICK q \in R : rank[q] = k
  <2> HIDE DEF rank, n
  <2>1. QED BY <1>7, <1>8 DEF Surjection
<1>10. QED BY <1>9

\* A table is a finite set of rows that never loses one; an INSERT that began
\* before the last one but commits after it puts its row between others.
RowsFinite ==
    \A table \in {"orders", "batches"} :
        API!Rows(table) \subseteq Nat /\ IsFiniteSet(API!Rows(table))

LEMMA RowsOf == SystemTypeOK /\ SystemInv => RowsFinite
<1> SUFFICES ASSUME SystemTypeOK, SystemInv, NEW table \in {"orders", "batches"}
             PROVE  API!Rows(table) \subseteq Nat /\ IsFiniteSet(API!Rows(table))
  BY DEF RowsFinite
<1>1. CASE table = "orders"
  <2> DEFINE n == Cardinality({p \in Orders : started[p] # 0})
  <2>1. n \in Nat
    BY OrdersAssumption, FS_Subset, FS_CardinalityType
  <2>2. \A o \in Orders : orders[o].status # "absent" => orders[o].created \in 0..n
    <3>1. \A o \in Orders : started[o] \in Nat /\ started[o] <= n
      BY DEF SystemTypeOK, TypeOK, SystemInv, RowsNumbered
    <3> HIDE DEF n
    <3>2. QED BY <2>1, <3>1 DEF SystemInv, RowsNumbered
  <2> HIDE DEF n
  <2>3. API!Rows(table) \subseteq 0..n
    BY <1>1, <2>2 DEF API!Rows
  <2>4. IsFiniteSet(0..n)
    BY <2>1, FS_Interval
  <2>5. QED BY <2>1, <2>3, <2>4, FS_Subset
<1>2. CASE table = "batches"
  <2>1. Len(batches) \in Nat /\ DOMAIN batches = 1..Len(batches)
    BY LenProperties DEF SystemTypeOK, TypeOK
  <2>2. QED BY <1>2, <2>1, FS_Interval DEF API!Rows
<1>3. QED BY <1>1, <1>2

LEMMA RowsGrow ==
    ASSUME SystemTypeOK, SystemInv, [SystemNext]_Everything,
           NEW table \in {"orders", "batches"}
    PROVE  API!Rows(table) \subseteq API!Rows(table)'
<1>1. TypeOK
  BY DEF SystemTypeOK
<1>2. CASE table = "orders"
  <2>1. \A p \in Orders : orders[p].status # "absent" =>
           orders'[p].status # "absent" /\ orders'[p].created = orders[p].created
    BY <1>1, RowsKept DEF InsertOrder, SystemInv, SingleInv, RowsWellFormed
  <2>2. QED BY <1>2, <2>1 DEF API!Rows
<1>3. CASE table = "batches"
  <2>1. CASE [Next]_vars
    BY <1>1, <1>3, <2>1, BatchesGrow DEF API!Rows
  <2>2. ASSUME NEW t \in Timers, Won(t)
        PROVE  batches' = batches
    BY <1>1, <2>2, WonPlan
  <2>3. CASE batches' = batches
    BY <1>3, <2>3 DEF API!Rows
  <2>4. QED BY <1>1, <2>1, <2>2, <2>3, SystemSteps
<1>4. QED BY <1>2, <1>3

\* How many rows are newer than a row.
LEMMA NewerRows ==
    ASSUME SystemTypeOK, SystemInv, NEW table \in {"orders", "batches"}, NEW r
    PROVE  /\ API!Cardinality(API!Newer(table, r)) = Cardinality(API!Newer(table, r))
           /\ API!Newer(table, r) = {p \in API!Rows(table) : p > r}
           /\ IsFiniteSet(API!Newer(table, r))
           /\ Cardinality(API!Newer(table, r)) \in Nat
<1>1. API!Newer(table, r) = {p \in API!Rows(table) : p > r}
  BY DEF API!Newer
<1>2. QED
  BY <1>1, CardinalityAgrees, RowsOf, FS_Subset, FS_CardinalityType DEF RowsFinite

\* Rows that are inserted push the owed ones further on, never back.
LEMMA WalkFrame ==
    ASSUME SystemTypeOK, SystemInv, [SystemNext]_Everything, UNCHANGED walk,
           API!WalkInv, API!WalkMissesNothing, RowsFinite'
    PROVE  API!WalkInv' /\ API!WalkMissesNothing'
<1>1. walk.offset \in Nat /\ walk.table \in {"none", "orders", "batches"}
  BY DEF SystemTypeOK, API!TypeOK, API!Walk
<1>2. ASSUME walk.table # "none", NEW r \in walk.owed
      PROVE  /\ r \in API!Rows(walk.table)'
             /\ API!Cardinality(API!Newer(walk.table, r)') >= walk.offset
  <2>1. PICK table \in {"orders", "batches"} : table = walk.table
    BY <1>1, <1>2
  <2>2. API!Rows(table) \subseteq API!Rows(table)'
    BY RowsGrow
  <2>3. /\ r \in API!Rows(table)
        /\ Cardinality(API!Newer(table, r)) >= walk.offset
        /\ Cardinality(API!Newer(table, r)) \in Nat
    BY <1>2, <2>1, NewerRows DEF API!WalkInv
  <2>4. API!Newer(table, r) \subseteq API!Newer(table, r)'
    BY <2>2 DEF API!Newer
  <2>5. IsFiniteSet(API!Newer(table, r)')
    <3>1. IsFiniteSet(API!Rows(table)')
      BY DEF RowsFinite
    <3>2. QED BY <3>1, FS_Subset DEF API!Newer
  <2>6. /\ Cardinality(API!Newer(table, r)) <= Cardinality(API!Newer(table, r)')
        /\ Cardinality(API!Newer(table, r)') \in Nat
    BY <2>4, <2>5, FS_Subset, FS_CardinalityType
  <2>7. Cardinality(API!Newer(table, r)') >= walk.offset
    BY <1>1, <2>3, <2>6
  <2>8. API!Cardinality(API!Newer(table, r)') = Cardinality(API!Newer(table, r)')
    BY CardinalityAgrees
  <2>9. QED BY <2>1, <2>2, <2>3, <2>7, <2>8
<1>3. API!WalkInv'
  BY <1>2 DEF API!WalkInv
<1>4. QED BY <1>3 DEF API!WalkMissesNothing

\* A page that is empty has no row behind it, and a page that is not leaves the
\* rows behind it ahead of the next one.
LEMMA NextPageStep ==
    ASSUME SystemTypeOK, SystemInv, UNCHANGED <<orders, batches>>, API!NextPage,
           API!WalkInv, API!WalkMissesNothing
    PROVE  API!WalkInv' /\ API!WalkMissesNothing'
<1>0. PICK table : table = walk.table
  OBVIOUS
<1> DEFINE page == API!Page(table, walk.offset)
           rank(r) == Cardinality(API!Newer(table, r))
<1>1. /\ walk.offset \in Nat /\ table \in {"orders", "batches"} /\ ~walk.ended
      /\ walk \in API!Walk
  BY <1>0 DEF SystemTypeOK, API!TypeOK, API!Walk, API!NextPage
<1>2. /\ API!Rows(table)' = API!Rows(table)
      /\ \A r : API!Newer(table, r)' = API!Newer(table, r)
  BY DEF API!Rows, API!Newer
<1>3. PageSize \in Nat /\ PageSize >= 1
  BY PageAssumption
<1>4. \A r : API!Cardinality(API!Newer(table, r)) = rank(r) /\ rank(r) \in Nat
  BY <1>1, NewerRows
<1>5. page = {r \in API!Rows(table) : rank(r) \in walk.offset..(walk.offset + PageSize - 1)}
  BY <1>4 DEF API!Page
<1>6. \A r \in walk.owed : r \in API!Rows(table) /\ rank(r) >= walk.offset
  BY <1>0, <1>1, <1>4 DEF API!WalkInv
<1>7. CASE page = {}
  <2>1. walk' = [walk EXCEPT !.ended = TRUE]
    BY <1>0, <1>7 DEF API!NextPage
  <2>2. walk.owed = {}
    <3> SUFFICES ASSUME NEW r \in walk.owed PROVE FALSE
      OBVIOUS
    <3>1. \E q \in API!Rows(table) : rank(q) = walk.offset
      <4>1. \A q : API!Newer(table, q) = {p \in API!Rows(table) : p > q}
        BY DEF API!Newer
      <4>2. walk.offset <= rank(r) /\ r \in API!Rows(table)
        BY <1>1, <1>4, <1>6
      <4>3. API!Rows(table) \subseteq Nat /\ IsFiniteSet(API!Rows(table))
        BY <1>1, RowsOf DEF RowsFinite
      <4>4. QED BY <1>1, <4>1, <4>2, <4>3, Ranks
    <3> HIDE DEF rank, page
    <3>2. page # {}
      BY <1>1, <1>3, <1>5, <3>1
    <3>3. QED BY <1>7, <3>2
  <2>3. walk'.owed = {} /\ walk'.table = table
    BY <1>0, <1>1, <2>1, <2>2 DEF API!Walk
  <2>4. QED BY <2>3 DEF API!WalkInv, API!WalkMissesNothing
<1>8. CASE page # {}
  <2>1. walk' = [walk EXCEPT !.offset = @ + PageSize, !.owed = @ \ page]
    BY <1>0, <1>8 DEF API!NextPage
  <2>2. /\ walk'.table = table /\ walk'.offset = walk.offset + PageSize
        /\ walk'.owed = walk.owed \ page /\ walk'.ended = walk.ended
    BY <1>0, <1>1, <2>1 DEF API!Walk
  <2>3. ASSUME NEW r \in walk'.owed
        PROVE  /\ r \in API!Rows(table)
               /\ API!Cardinality(API!Newer(table, r)) >= walk'.offset
    <3> HIDE DEF rank, page
    <3>1. r \in API!Rows(table) /\ rank(r) >= walk.offset /\ r \notin page
      BY <1>6, <2>2, <2>3
    <3>2. rank(r) >= walk.offset + PageSize
      BY <1>1, <1>3, <1>4, <1>5, <3>1
    <3>3. QED BY <1>4, <2>2, <3>1, <3>2
  <2>4. API!WalkInv'
    BY <1>2, <2>2, <2>3 DEF API!WalkInv
  <2>5. QED BY <1>1, <2>2, <2>4 DEF API!WalkMissesNothing
<1>9. QED BY <1>7, <1>8

LEMMA StartWalkStep ==
    ASSUME SystemTypeOK, SystemInv, UNCHANGED <<orders, batches>>,
           NEW table \in {"orders", "batches"}, API!StartWalk(table)
    PROVE  API!WalkInv' /\ API!WalkMissesNothing'
<1>1. walk' = [table |-> table, ended |-> FALSE, offset |-> 0, owed |-> API!Rows(table)]
  BY DEF API!StartWalk, API!NoWalk
<1>2. /\ API!Rows(table)' = API!Rows(table)
      /\ \A r : API!Newer(table, r)' = API!Newer(table, r)
  BY DEF API!Rows, API!Newer
<1>3. \A r : API!Cardinality(API!Newer(table, r)) >= 0
  BY NewerRows
<1>4. API!WalkInv'
  <2>1. walk'.table = table /\ walk'.offset = 0 /\ walk'.owed = API!Rows(table)
    BY <1>1
  <2>2. QED BY <1>2, <1>3, <2>1 DEF API!WalkInv
<1>5. API!WalkMissesNothing'
  BY <1>1 DEF API!WalkMissesNothing
<1>6. QED BY <1>4, <1>5

-----------------------------------------------------------------------------
(* Theorems                                                                *)

LEMMA ReaderStart == SystemInit => API!ReaderInv
  BY DEF SystemInit, API!Init, API!ReaderInv, API!InquiryInv, API!SettledIsTold,
     API!DetailsAreWhole, API!WalkInv, API!WalkMissesNothing, API!NoInquiry, API!NoWalk

LEMMA ReaderStep ==
    ASSUME SystemTypeOK, SystemInv, API!ReaderInv, RowsFinite', [SystemNext]_Everything
    PROVE  API!ReaderInv'
<1> USE DEF API!ReaderInv
<1>1. CASE UNCHANGED <<inquiry, walk>>
  BY <1>1, InquiryFrame, WalkFrame DEF SystemTypeOK
<1>2. CASE Browse
  <2>1. API!InquiryInv' /\ API!SettledIsTold' /\ API!DetailsAreWhole'
    BY <1>2, InquiryRead
  <2>2. UNCHANGED <<orders, batches>> /\ API!Read
    BY <1>2 DEF Browse, vars, tables
  <2>3. API!WalkInv' /\ API!WalkMissesNothing'
    <3>1. CASE UNCHANGED walk
      BY <3>1, WalkFrame
    <3>2. CASE API!NextPage
      BY <2>2, <3>2, NextPageStep
    <3>3. CASE API!WalkOrders \/ API!WalkBatches
      BY <2>2, <3>3, StartWalkStep DEF API!WalkOrders, API!WalkBatches
    <3>4. CASE API!Done
      BY <3>4 DEF API!Done, API!NoWalk, API!WalkInv, API!WalkMissesNothing
    <3>5. QED
      BY <2>2, <3>1, <3>2, <3>3, <3>4
         DEF API!Read, API!GetOrder, API!FindHead, API!FindTrades
  <2>4. QED BY <2>1, <2>3
<1>3. QED BY <1>1, <1>2, OnlyBrowseAsks

\* What a client was told of a settlement is there, and the rows it is owed are
\* ahead of its walk.
THEOREM ReaderInvariant == SystemSpec => []API!ReaderInv
<1>1. SystemTypeOK /\ SystemInv /\ API!ReaderInv /\ RowsFinite' /\ [SystemNext]_Everything
         => API!ReaderInv'
  BY ReaderStep
<1>2. QED BY <1>1, RowsOf, ReaderStart, SystemInvariant, PTL DEF SystemSpec

\* An order that says "settled" has a settlement to ask for, although the two
\* requests read tables that the cycle writes in separate transactions.
THEOREM SettledOrderIsTold == SystemSpec => []SettledIsTold
<1>1. API!ReaderInv => SettledIsTold
  BY DEF API!ReaderInv, SettledIsTold
<1>2. QED BY <1>1, ReaderInvariant, PTL

\* A settlement that is given to a client is given whole and stays as given.
THEOREM SettlementIsWhole == SystemSpec => []DetailsAreWhole
<1>1. API!ReaderInv => DetailsAreWhole
  BY DEF API!ReaderInv, DetailsAreWhole
<1>2. QED BY <1>1, ReaderInvariant, PTL

\* A walk by LIMIT and OFFSET misses no row that was there when it began, for
\* any page size and any inserts between the pages.
THEOREM WalkIsComplete == SystemSpec => []WalkMissesNothing
<1>1. API!ReaderInv => WalkMissesNothing
  BY DEF API!ReaderInv, WalkMissesNothing
<1>2. QED BY <1>1, ReaderInvariant, PTL

=============================================================================
