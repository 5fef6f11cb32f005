# A TLA+ verification of BullSwap

BullSwap is a batch auction: traders post limit orders over HTTP, a background
timer closes a batch every 30 seconds, solvers look for trades among its
orders, and the winner's settlement is written to PostgreSQL. This directory
holds TLA+ models of that code, the TLC runs that check them on small
instances, and theorems about them that the TLA+ proof system checks for every
value of the constants. Paths below are relative to the repository.

## Inventory

| Component | Code | State | Operations | Model |
|---|---|---|---|---|
| Order store | `src/db/order_repo.rs` | table `orders` | insert, find_by_uid, list, find_open_unassigned, assign_to_batch, cancel, update_batch_orders_status, expire_orders | `Store`; the reads in `Reader` |
| Batch store | `src/db/batch_repo.rs` | table `batches` | create, get_current_collecting, update_status, mark_solved, list_recent | `Store`; the list in `Reader` |
| Settlement store | `src/db/settlement_repo.rs`, `src/services/settlement_service.rs` | tables `settlements`, `trades`, `clearing_prices` | insert_full (one transaction), find_by_batch_id (three reads) | one step in `Store`; statement by statement in `SettlementStore` and `Reader` |
| Order API | `src/services/order_service.rs`, `src/api/routes_orders.rs` | none | create_order, cancel_order (each a read, then a write), get_order, list_orders | `BatchAuction`, `Reader` |
| Query API | `src/api/routes_batches.rs`, `routes_settlements.rs` | none | list_batches, get_settlement | `Reader` |
| Batch service | `src/services/batch_service.rs` | locals of `close_and_solve` | ensure_collecting_batch, close_and_solve | `BatchAuction` |
| Batch timer | `src/tasks/batch_timer.rs` | the task | sleep, cycle, recovery | `BatchAuction` |
| Startup | `src/startup.rs` | the process | read the solvers, spawn the timer, serve HTTP | `BatchAuction`, `BullSwap` |
| Naive solver | `src/solver/naive_solver.rs`, `cow_finder.rs`, `optimizer.rs` | locals of `solve` | find_cows, compute_clearing_prices, optimize_execution | `NaiveSolver` |
| Surplus | `src/solver/surplus.rs` | none | surplus of a trade | `NaiveSolver` |
| Competition | `src/solver/competition.rs` | results of the running solvers | run, winner by score | `Competition` |
| Solver registry | `src/db/solver_repo.rs` | table `solvers` | find_active, once at startup | `Competition` |
| Token registry | `src/db/token_repo.rs` | table `tokens` | insert, exists | not modelled |
| MEV helpers | `src/solver/mev_protection.rs` | none | hashes | not modelled |
| Health, middleware, errors, config, telemetry | `src/api`, `src/errors.rs`, `src/config.rs`, `src/telemetry.rs` | none | routing, JSON, environment | not modelled |

**How they interact.** HTTP handlers and the timer share nothing but the
database. No caller opens a transaction (`insert_full` does, for its own
inserts), so every SQL statement commits alone. A cycle of the timer is a
sequence of about ten statements; between any two of them a handler may insert
or cancel an order, the clock may pass an order's `valid_to`, a statement may
fail, the process may die, and another server on the same database may run the
same cycle.

**What is hard.** The rows a cycle reads in step 3 are used until step 8, while
clients change them. Two UPDATEs (`update_batch_orders_status`,
`update_status`) have no condition on what they overwrite. A failure leaves the
statements before it in place. Recovery after an error is one call that makes
sure a collecting batch exists. The solver runs inside the timer's task, over a
hash map's keys, and asks the clock again in each of its passes. Several
solvers do so in parallel, and their results are ranked. A reader puts its
answer together from several SELECTs, or from several requests. `PROJECT.json`
lists each hazard at its line, with the properties that cover it.

**What makes it correct.** An order is traded at most once; a status that says
"settled" is backed by a persisted settlement; an order and a batch only move
along their life cycle; the oldest orders are served first; every waiting order
is eventually served and every matched one resolved; the window reopens after
every failure. For the solver: no trader gets less than the limit price, as the
code computes it; no order is filled twice; no possible match is left behind,
and the best orders are matched first; a surplus that is reported was earned.
For the competition: what is persisted is a best solution, all of it, and a
batch fails only if no solver has one. For readers: a settlement is seen whole,
an order that says "settled" leads to one, and a walk through a list misses
nothing. All of the cycle together promises what `RoundAuction` says.

## Modules

`Store` has the tables, and the SQL statements as functions from a table to a
table. A row keeps what the control flow reads: the status of an order, its
batch and `created_at`, which is a number: the transactions that insert orders
are numbered in the order in which they begin. The batch has its status,
`solved_at` and `order_count`; batches are numbered by creation. An order that
was not inserted yet has the status `absent`.

`BatchAuction` extends it with the actors. `pc[t]` is the statement that timer
`t` executes next, `cur[t]`, `snap[t]` and `plan[t]` are the locals `batch_id`,
`orders` and `result` of `close_and_solve`:

| Label | Statement | Action |
|---|---|---|
| `ensure`, `ensureCreate` | ensure_collecting_batch | `EnsureFound`, `EnsureMissing`, `EnsureCreate` |
| `sleep` | the interval | `Tick` |
| `current`, `createCurrent` | step 1 | `FindCurrent`, `CreateCurrent` |
| `expire` | step 2 | `Expire` |
| `fetch` | step 3 | `Fetch` |
| `assign` | step 4 | `Assign` |
| `close` | step 5 | `Close` |
| `compete` | step 6 | `Compete` |
| `persist` | step 7 | `Persist`, `PersistConflict` (UNIQUE on batch_id) |
| `markSolved`, `settle`, `settleOrders` | step 8 | `MarkSolved`, `Settle`, `SettleOrders` |
| `fail`, `reopen` | no solution | `FailBatch`, `Reopen` |
| `createNext` | step 9, and the end of an empty cycle | `CreateNext` |
| `dead`, `down` | the task panicked; the process is down | `SolverPanics`; `Crash`, `Restart` |

The API is `SubmitOrder` then `InsertOrder`, `RequestCancel` then
`CancelOrder`: two steps each, with anything in between. `SubmitOrder` ends
where the transaction of the INSERT begins, which is what `NOW()` returns
(`started`); `InsertOrder` is its commit. The inserts that have begun
(`creating`) commit in any order, so an older row may become visible behind a
younger one, and behind the read of the queue. The history variable `late` has
the orders inserted between a timer's `Fetch` and its `Assign`; only
`FirstComeFirstServed` reads it. `Lapse` is the clock passing an order's
`valid_to`. `Timers` is the set of running servers: one in the deployment of
`docker-compose.yml`, two in the run that asks what two would do.

`NaiveSolver` is one call of `solve`, one action per iteration of its loops:
`Group`, `VisitPair`, `MatchHeads`, `LeavePair`, `Collect` are `find_cows`,
`Regroup`, `PricePair`, `Execute` are the optimizer. A sorted list is the set
of its elements and its head is the best of them. The keys of the hash maps are
visited in any order. `DivisionByZero` and `Overflow` are the panics of
`Decimal`'s operators.

`Decimals` has the arithmetic of `rust_decimal::Decimal`, rounded. A number is
the count of its units, the last digit that a `Decimal` may have (10^-28);
every operation returns the representable number nearest to the exact result,
half to even. How many digits there are is given by constants: `Unit` units are
one, a number has less than `Limit` of its last digits, and what the last digit
may be worth is in `Steps`. The code has 10^28, 10^28 and the powers of ten up
to 10^28; the runs have a few digits, where the same roundings are frequent.

The two fit together at one place: `BatchAuction.Compete` lets the competition
return any non-empty set of trades of the rows read, provided two of them can
be matched, and a solver panic takes two such rows as well.
`NaiveSolver.SolutionIsTwoSided` says both of the solver.

`RoundAuction` is the promise without tables, statements and failures: an order
waits, is withdrawn, or is drawn into a round; a round is filled at most once,
all its trades together, with orders that no other round has traded; a round
that is not filled may give its orders back. `BatchAuction.ImplementsRounds`
maps the tables to it: `waiting` is the open orders without a batch, `round` an
order's `batch_id`, `fills` the settlements. Of the cycle's statements only the
expiry, the assignment and the commit of the settlement are steps of the
abstract auction, the others stutter. The code never takes the step `Return`:
the orders of a failed batch keep their `batch_id` (`open_not_eligible` below).
The abstraction is as weak as the code: a round may trade an order that was
withdrawn before it was drawn (`cancelled_traded` below), and it may leave its
orders unresolved for ever (`stranded_orders`).

`BullSwap` is the whole server. It extends `BatchAuction`, takes its two big
steps apart and adds a client that reads; the parts are modules of their own:

| Module | Code | State | Actions |
|---|---|---|---|
| `Competition` | `SolverCompetition::run`, `find_active` at startup | `roster`: the solvers read at startup; `results`: what the solvers that are done have returned | `FindActive`, `Return`, `Winner`, `NoWinner` |
| `SettlementStore` | `insert_full` | `settlements`; `tx`: the rows of the open transaction | `InsertHead`, `InsertTrade`, `Commit`, `Rollback` |
| `Reader` | `GET` of an order, of a settlement, of the lists | `inquiry`: an order looked up, then the settlement of its batch; `walk`: the offset of the next page and the rows still owed | `GetOrder`, `FindHead`, `FindTrades`; `WalkOrders`, `WalkBatches`, `NextPage` |

In place of `Compete` there are `SolverReturns`, `Won` and `Unsolved`; in place
of `Persist` there are `PersistHead`, `PersistTrade` and `CommitPersist`. An
error, a panic, a crash drop the results and roll the transaction back
(`Abort`, `Panic`); a restart reads the solvers again (`StartServer`). All
other steps of `BatchAuction` are taken as they are. An order that expires
after its solver has looked at the clock and before the last solver is done can
be traded here; in `BatchAuction` the competition is one step and it cannot.
`PersistConflict` is left out: with one server no settlement of the batch
exists at `persist`, which `CycleBatch`, proved below, says.

`MCBatchAuction`, `MCNaiveSolver` and `MCBullSwap` instantiate the three for
TLC. The proofs are in `BatchAuctionProofs`, `CycleProofs` and
`RoundAuctionProofs` for the auction, `DecimalProofs` and `SolverProofs` for
the solver, `SystemProofs` and `ReaderProofs` for the composition.

## Abstractions and assumptions

- A statement that takes effect and then fails (the reply is lost, the returned
  row does not decode) is the statement followed by `StatementFails` at the
  next label.
- The repositories name columns `status AS "status: OrderStatus"`, a syntax of
  sqlx's checked macros, in run-time queries, and `#[derive(FromRow)]` looks
  for a column `status`. As the code is written, then, a statement that returns
  rows of orders or batches fails every time, when it decodes them. For the
  safety properties this is one more way to fail. The liveness properties
  assume that failures end (`FailuresEnd`), and so say what the code does once
  the alias is the plain column name; as long as it is not, nothing is served.
- The database and the servers have one clock. `created_at` of an order is the
  start of the transaction that inserts it, and commits come in any order. For
  batches, which a timer creates one at a time, the order of `created_at` is
  the order of the commits; with two servers two inserts may cross, and the
  current batch then be the other of two collecting ones. No property of
  `auction_pair`, and no theorem for several servers, depends on which one is
  current.
- A request that fails half way is one that never takes its second step.
- A `Decimal` has a coefficient of 96 bits and at most 28 digits behind the
  point; `Decimals` gives it 28 digits throughout, where the code has room for
  one more digit up to 7.9 in front. Both round to the nearest number, and the
  theorems hold for every precision that `DecimalsAssumption` allows: it wants
  the steps to divide each other.
- Whether a result overflows is not computed. `Overflow` is a choice at every
  step that calculates; a division by a price that was rounded to 0 always
  panics (`DivisionByZero`), so `MatchHeads` requires that it is not. In
  `BatchAuction` the panic is `SolverPanics`, which needs two matchable orders
  because every operator that can panic runs on a pair.
- What a solver returns to the competition is any two-sided set of trades with
  any of two scores; the score is the sum of the surpluses of `NaiveSolver`'s
  trades, and the two are not computed from each other. Solvers are numbered in
  the order of their names, the order of the roster and of `max_by`.
- The settlement's clearing prices are written and read after its trades, in
  the same transaction and by one more SELECT; they are left out.
- No two rows of a table have the same `created_at`: two transactions that
  begin in the same microsecond are ordered one way or the other. If two have,
  the order of a page is up to the database, and a walk may miss one of them.
- In the solver, `Lapse` is taken right before the clock is asked only
  (`AsksClock`): an order that expires anywhere else is first seen to have
  expired there.
- Ties of equal prices are broken in any way: the position of an order in its
  batch is not modelled, and any position is possible.

## Runs

| Run | Instance | Question |
|---|---|---|
| `auction_single` | 3 orders, 1 server, batches of at most 2, 2 failures, 1 expiry | all safety properties of the auction, and that it implements `RoundAuction` |
| `system` | 2 orders, 1 server, 2 solvers with 2 scores, pages of 1, 1 failure, 1 panic | is the best solution persisted, all of it; does a batch fail only without one; what do readers see; does the whole still implement `RoundAuction` |
| `auction_pair` | 2 orders, 2 servers, 1 panic | what two servers on one database still keep |
| `auction_live` | 2 orders, 1 server, batches of 2, any number of failures and panics, fair | are orders served, does the window reopen, are matched orders resolved |
| `solver` | every book of 4 orders, 3 tokens, amounts 4 and 90, numbers of two digits, one order may expire meanwhile | limits, single fills, no match left behind, best orders first, surpluses that are earned, one side only in the second phase, termination |
| `open_not_eligible`, `cancelled_traded`, `settled_untraded`, `stranded_orders`, `timer_dies`, `phantom_fill`, `uniform_price` | 1 to 4 orders | a statement of the documentation that the code does not keep (below) |

**Bounds.** `MaxIdleTicks` bounds the ticks that find nothing to do, each of
which leaves one more collecting batch and can be followed by another. Without
such ticks (`auction_single`, `system`) there are still cycles that find
nothing: an order may be cancelled after the tick; a newer batch then hides an
older one. `auction_live` has one, besides the ticks that have a window to
reopen. Cycles that find something are bounded by the orders, which are
inserted once. `MaxFaults` bounds failed statements and crashes: with one, a
failure at every point of every cycle and the cycles after it; with two
(`auction_single`), also a failure of the recovery or of the cycle that takes
up what the first one left. `MaxPanics` bounds panics. `Unbounded` lifts both
bounds, in `auction_live`: any number of failures, in a row or of the recovery
itself, with the counters standing at 1 as soon as there was one. Three orders
with batches of two let a cycle take some and leave one, and let a later cycle
trade what an earlier one left; two orders in one batch are what a trade needs.
In `system` two solvers with two scores give a tie, a better first and a better
last one, and one that fails beside one that does not; pages of one row let a
row be inserted between any two rows of a walk. The reader goes through one
inquiry or one walk at a time, again and again. In `solver`, four orders allow
two matches in one pair, a match and a priced pair, and pairs that share a
token. Its numbers have two digits, one of which may stand behind the point
(`Unit` 10, `Limit` 100, amounts 40 and 900 units). The prices are 4/90, 1 and
90/4: the first is rounded to 0 and the last to 22, the midpoints with 1 are
0.5 and, rounded, 12. A match of two prices of 0 divides by zero. The two runs
with documentation properties have three digits and amounts 1 and 2, so that
what they show is no matter of rounding. `MaxLapses` bounds the orders that
expire: one of the three in `auction_single`, any of the two elsewhere.

**Reductions.** Orders differ in their name alone. In the runs of
`MCBatchAuction` their requests begin in the order of the names, in `solver`
the orders of a book are listed in one order only (`Listed`); both are sound
with liveness, where a symmetry set is not. `system` has the orders as a
symmetry set, `auction_pair` the servers.

**Fairness.** A timer takes its next step if it has one (`WF` on `TimerStep`):
the runtime polls a ready task, `sleep` ends, and a statement returns, with an
error if need be. `WF` on `Restart` is `restart: unless-stopped` of
`docker-compose.yml`. `solve` is sequential code; an overflow is never forced.
Nothing is assumed of clients, of the clock or of failures. `OrdersServed` and
`AlwaysReopens` have the hypothesis `FailuresEnd`: failures come as often as
they like, at any statement, but from some time on there are none. They except
the timer whose task has panicked (`TimerDead`), which is what `timer_dies`
shows. `ResolvedUnlessFault` is about behaviours without any failure;
`stranded_orders` shows why.

**Deadlock** is not checked for the auction: when all orders are done and the
idle ticks are used up, nothing remains to happen. It is checked for the
solver.

**What the violations show.**

- `open_not_eligible`: a failed batch sets its orders to `open` and leaves
  their `batch_id`, and `find_open_unassigned` wants `batch_id IS NULL`. They
  do not "return to Open status for the next batch": no cycle reads them again.
- `cancelled_traded`: the competition runs on the rows read in step 3. An order
  cancelled between the fetch and the assignment is traded, although its owner
  was told that it is cancelled.
- `settled_untraded`: all orders of a settled batch become `settled`, those the
  winner did not trade included.
- `stranded_orders`: a statement that fails behind the assignment leaves the
  orders `matched`. After the next cycle that creates a batch the old one is
  never the current one again, so this is permanent: it does not come from the
  bound on idle ticks.
- `timer_dies`: a panic in a solver ends the timer's task while the HTTP server
  goes on accepting orders.
- `phantom_fill`: the optimizer sets a price where the lowest seller's price is
  at most the highest buyer's. That is the case where the two do *not* overlap
  (where they do, `find_cows` has matched them). One order is then filled
  without a counterparty. The two sides of a pair are never both filled in this
  phase (`PricesFillOneSide`): a common rate within both limits would be an
  overlap that `NoCowLeft` excludes, unless rounding has made one of the fills
  larger than the prices say.
- `uniform_price`: `find_cows` takes the midpoint of every matched pair of
  orders, so one pair of tokens trades at several prices.

**What rounding does.** Let a seller give 1 for 3 and a buyer give 3 for 1. The
price 1/3 is rounded to 0.3333333333333333333333333333, the amount 1/price to
3.0000000000000000000000000003: the buyer gives more than its 3, and the
seller, not the buyer, has a surplus of 3 * 10^-28. So the code does not keep
the exact limits, and in such a match one side has a surplus and the other
none. The properties say what does hold. A match keeps to the limits as the
code computes them, that is to quotients by the rounded limit price, and the
smaller amount is exactly within both orders (`LimitsRespected`). A priced fill
is checked against the demand itself and keeps it exactly. A reported surplus
is never an artefact of rounding: an order that has one has beaten its exact
limit, provided the product of the two amounts that it is computed from fits in
a `Decimal` (`SurplusIsReal`).

Other divergences that need no model: the README quotes `assign_to_batch`
without `AND status = 'open'` (the mutant `AssignIdOnly` and `OrderLifecycle`
show what the condition is for). It says that solvers can be activated "at
runtime via the database without restarting the server" (`README.md`:144),
while `run_server` reads them once, and that a failing step of the startup ends
the process, "no half-initialized state" (:81), while a failing `find_active`
leaves a server without solvers (`unwrap_or_default`): `Competition.FindActive`
has both. It says that several equal solvers "compete to ensure determinism"
(:112): with three tokens each of them visits the pairs in its own hash order,
overwrites prices in that order, and may return another solution; the model
lets every solver return any. A walk with a filter on the status can miss
orders, because matched ones leave the filtered list and move the others
forward; the mutant `OpenRows` shows how. The routes' comments promise no more
than a limit and an offset.

With two servers `OneTradePerOrder`, `TradedUnderItsBatch` and the two life
cycles do not hold: both cycles work on the same batch. `EVALUATION.md` (1.3.9)
names that race and the deployment runs one server, so these are checked and
proved for one. `SettledIsBacked` and `FirstComeFirstServed` hold for two.

**How the properties relate.** `OrderLifecycle` includes that a batch id is
never replaced; that it is not removed either is the defect of
`open_not_eligible`. `SolutionIsTwoSided` is about the whole batch, orders
included that expired meanwhile, and so is weaker than `TwoSided` in
`BatchAuction`, which is about the orders valid at one moment; `BullSwap.Won`
allows for the difference. `AlwaysReopens` needs the loop to go on after an
error, not the recovery in it: step 1 of the next cycle opens a window too, an
interval later. `WalkMissesNothing` has rows that appear in front of the page
and rows that appear in the middle of the list, from transactions that began
earlier; both only push rows further on.

## Proofs

Every safety property of the passing runs is a theorem. For any number of
orders and any bounds, of `BatchAuction`:

| Theorem | For | States |
|---|---|---|
| `TypeCorrectness` | any number of servers | `Spec => []TypeOK` |
| `SettledBacked` | any number of servers | `Spec => []SettledIsBacked` |
| `SingleInvariance` | one server | `Spec => []SingleInv` |
| `TradesAreDisjoint` | one server | `Spec => []OneTradePerOrder` |
| `TradedStaysTraded` | one server | `Spec => []TradedUnderItsBatch` |
| `OrdersMoveLegally` | one server | `Spec => OrderLifecycle` |
| `BatchesMoveLegally` | one server | `Spec => BatchLifecycle` |
| `CountsCoverTrades` | any number of servers | `Spec => []CountCoversTrades` |
| `ServedFirstComeFirst` | any number of servers | `Spec => FirstComeFirstServed` |
| `AuctionImplementsRounds` | one server | `Spec => ImplementsRounds` |

Of `NaiveSolver`, for every finite batch, any tokens, any amounts above zero
and numbers of any precision:

| Theorem | States |
|---|---|
| `SolverTypeCorrect` | `Spec => []TypeOK` |
| `OrdersFilledOnce` | `Spec => []FilledOnce` |
| `MatchingIsComplete` | `Spec => []NoCowLeft` |
| `BestOrdersMatched` | `Spec => []BestMatchedFirst` |
| `LimitsHold` | `Spec => []LimitsRespected` |
| `SurplusesAreReal` | `Spec => []SurplusIsReal` |
| `PricesAreOneSided` | `Spec => []PricesFillOneSide` |
| `SolutionsAreTwoSided` | `Spec => []SolutionIsTwoSided` |

Of `BullSwap`, one server, for any number of orders, of solvers and of
failures, any scores and any page size:

| Theorem | States |
|---|---|
| `SystemTypeCorrect` | `SystemSpec => []SystemTypeOK` |
| `SystemImplementsRounds` | `SystemSpec => ImplementsRounds` |
| `BestSolutionPersisted` | `SystemSpec => BestIsPersisted` |
| `FailureMeansNoSolution` | `SystemSpec => FailedMeansUnsolved` |
| `SettledOrderIsTold` | `SystemSpec => []SettledIsTold` |
| `SettlementIsWhole` | `SystemSpec => []DetailsAreWhole` |
| `WalkIsComplete` | `SystemSpec => []WalkMissesNothing` |

The assumptions are those of the modules. `OrdersAssumption` and
`BatchAssumption`: finitely many orders. `BoundsAssumption`: the bounds are
numbers. `DataAssumption`: amounts are whole and above zero, since
`create_order` wants them above zero (a `Decimal` counts units of its last
digit). `DecimalsAssumption`: the steps divide each other, also into the bound
of a shorter one, and there is a largest. `OneTimer` where the table says one
server, and `OneServer` in `BullSwap`, which has the results and the
transaction of one cycle only. `SolversAssumption`: scores are ordered like
numbers. `PageAssumption`: the clamp of the limit.

### The auction

`SettledIsBacked` is not inductive: `settle` writes a status without looking at
the settlements. `SettlementFirst` adds that whoever is at `markSolved` or
behind has passed `persist`; settlements are never deleted.

`SingleInv` ties the tables to the statement the cycle is at. Its core is
`RunningRowsMatched`: until its batch is settled or failed, an order with a
batch is `matched`, also when the cycle that assigned it is gone, since clients
and the expiry only touch open orders and `Fetch` only takes orders without a
batch. Hence the unconditional `update_batch_orders_status` of a running cycle
overwrites `matched` rows only. `CycleRows` says that the rows a cycle has read
were traded by no one before, and are, once assigned, rows of its batch or in
no batch and cancelled: this makes the trades of two settlements disjoint.
`CycleBatch` gives the status of the cycle's batch at each label, which makes
the unconditional `update_status` safe.

`AuctionImplementsRounds` maps each action under `SingleInv`: `InsertOrder` is
`Enter`, `CancelOrder` and `Expire` are `Withdraw`, `Assign` is `Draw` (or a
stutter, when every row read was cancelled meanwhile), `Persist` is `Fill`, and
the rest leaves the abstract variables alone. `Fill` is where the invariant is
needed: what the winner trades was never traded, and is in the batch or
withdrawn.

`CountInv` says what lies between `persist` and `mark_solved`: the settlement
of the batch is this cycle's own, computed from the rows it is about to count,
since the UNIQUE constraint lets nobody else persist one. `QueueInv` says what
lies between reading the queue and assigning from it: an order that waits and
was not read is younger than every row read, or was inserted since
(`AheadOfQueue`). It is preserved because the queue only loses orders or gains
one that goes into `late`: an order that returns to open keeps its batch and
does not rejoin the queue. It does not matter in which order inserts commit;
what it takes is that an order is inserted once and keeps its `created_at`
(`RowsWellFormed`).

The inductive invariants are definitions of the modules they are about, so that
TLC can check them on the instances of the runs: that came before each proof.

The lemmas come in three layers: what each SQL statement does to a row
(`OrderEffects`, `CreateBatchRows`, `UpdateBatchStatusRows`), what each action
does to a row (`OrderSteps`, `CreateSteps`, `BatchSteps`), and that each action
preserves each invariant.

### The solver

`DecimalProofs` has what the rounded arithmetic is relied on for. A number
always has a last digit, the least step that leaves it few enough digits
(`LastDigitExists`); rounding is monotone, also where the step changes
(`RoundedMonotone`), and leaves a representable number alone (`RoundedFixed`);
hence the operations are monotone, in their divisor antitone. A midpoint lies
between the midpoints of each of the two prices with itself: that is a price as
it comes out of the sum and the halving, the price itself unless its double has
a digit too many (`AsMidpoint`). A quotient of an exact product that is less
than a representable number is so because the exact quotient is less too
(`ExactProductQuotient`), which is what makes a reported surplus real.

`NoCowLeft` says something at one label only. `SolverInv` carries it through
the loops: among the unmatched orders of every pair that was visited nobody
overlaps with anybody, except in the pair that is being matched, of which
`sellers` and `buyers` are exactly the unmatched orders (`VisitedPairsDone`).
The lemma `HeadsDecide` is the reason the greedy loop may stop early: if the
most generous seller and the least demanding buyer do not overlap, no two of
the lists do. From there `NoOverlapIn(remaining)` goes on into the second
phase, where it is what `PricesFillOneSide` needs: orders on both sides of a
pair that one rate fills would overlap, unless one of the two fills is more
than its price says (`FillableOverlap`). `LimitsRespected` and `SurplusIsReal`
follow match by match, from the overlap of the two heads and the monotony of
rounding. `BestMatchedFirst` is inductive together with `VisitedPairsDone`: the
heads are the best of what is left of their pair. The theorems are of `Spec`;
the run takes the books of one listing only, a restriction of it.

### The composition

`SystemSteps` shows that a step of `BullSwap` is a step of `BatchAuction` on
its variables, or leaves them alone, or is `Won`, the one step with an outcome
that `Compete` does not have (an order that expired meanwhile is traded). Where
it is a step, the invariants of the auction are kept by the theorems above; for
`Won` they are shown again (`WonKeeps`). `CommitIsPersist` is the heart of it:
the rows of the transaction that is committed are those of the plan
(`TransactionInv`), so the inserts of `insert_full` and its commit are together
the big step `Persist`.

`SystemInv` adds to the auction's invariants what the parts know of each other:
the results belong to the branch of the cycle that uses them, a plan that is
being persisted is a best result, and at `fail` every solver has returned an
error (`ResultsInv`); a settlement has trades and is the only one of its batch
(`SettlementsWhole`); transactions begin one after another, so that the
`created_at` of two orders differ, in whatever order they commit
(`RowsNumbered`). `ReaderInv` is about the requests in flight. A client that
read `settled` finds the settlement, since the status is backed when it is read
(`BackedInv`) and settlements are never deleted. The rows a walk still owes are
those with at least `offset` newer ones (`WalkInv`): an insert can only raise
that number, wherever in the list it lands, and a page takes away exactly the
rows below the next offset. At an empty page nothing is owed, because the table
has no row so far back: the rows of a finite table have 0, 1, 2, ... newer ones
without a gap (`Ranks`).

### Only model-checked

Liveness: `Terminates` of the solver, and the properties of the run
`auction_live`. They rest on fairness and on what is enabled, which the provers
do not handle. The violations listed under Runs are counterexamples of small
instances and need no proof.

## Not modelled

- The token registry: tokens are only ever inserted, so the check of
  `create_order` that a token exists cannot go stale.
- The MEV helpers: hash functions over strings that no other code calls.
- Routing, JSON, status codes, the health check, configuration and telemetry:
  they keep no state. `MAX_ORDERS_PER_BATCH` is the constant `BatchLimit`.
- `OrderRepo::update_status`, `SolverRepo::insert`, `find_by_id` and
  `find_by_name`, `calculate_total_surplus`: nothing calls them.
- Whether a `Decimal` overflows (see above).

## Plan

1. *Done:* `Store`, `BatchAuction` and `RoundAuction`, their runs and the proof of
   every safety property of the runs `auction_single` and `auction_pair`;
   `NaiveSolver` with surpluses; `Competition`, `SettlementStore` and `Reader`,
   composed in `BullSwap`.
2. *Done:* the proof of every safety property of the runs `solver` and `system`.
3. *Done:* inserts that commit in any order, rounded arithmetic with its panics, and
   liveness under any number of failures.
4. What two servers keep of the abstract auction, proved and checked.
