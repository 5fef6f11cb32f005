---------------------------- MODULE NaiveSolver ----------------------------
(***************************************************************************)
(* NaiveSolver.solve on one batch: the coincidences of wants of            *)
(* cow_finder, then the clearing prices and the fills of optimizer.        *)
(*                                                                         *)
(* The two passes iterate over the keys of a HashMap, in any order, and    *)
(* each of them asks the clock again whether an order is still valid.  The *)
(* place of an order in the batch only breaks ties of equal prices; it is  *)
(* not modelled, ties are broken in any way.  Decimal's operators panic on  *)
(* overflow; whether a result overflows is not computed, so every step that *)
(* calculates may panic.                                                   *)
(***************************************************************************)
EXTENDS Decimals, FiniteSets

CONSTANTS
    Batch,              \* the orders handed to solve()
    Tokens,             \* token ids; Uuids are ordered, hence numbers
    Amounts,            \* the amounts an order may ask or offer, in units
    MaxLapses           \* bound: orders that expire while solve() runs

ASSUME BatchAssumption == IsFiniteSet(Batch)

ASSUME DataAssumption ==
    /\ Tokens \subseteq Nat
    /\ Amounts \subseteq Nat \ {0}
    /\ MaxLapses \in Nat

\* An order gives `give` of the token `sell` for at least `want` of `buy`.
\* validate_order wants positive amounts and different tokens.
OrderData ==
    {d \in [sell : Tokens, buy : Tokens, give : Amounts, want : Amounts] :
        d.sell # d.buy}

TradeData == [order : Batch, by : {"cow", "price"},
              sold : Nat, bought : Nat, surplus : Nat]

VARIABLES
    book,               \* orders: what each order asks and offers
    lapsed,             \* orders whose valid_to has passed
    at,                 \* where solve() is
    live,               \* pair_groups, pair_orders: the orders grouped
    pairs,              \* keys: the pairs not visited yet
    sellers, buyers,    \* the orders of the pair from si and from bi on
    remaining,          \* remaining_orders
    prices,             \* clearing_prices, 0 where there is no entry
    trades              \* all_trades

cowVars   == <<sellers, buyers>>
priceVars == <<remaining, prices>>
vars == <<book, lapsed, at, live, pairs, cowVars, priceVars, trades>>

Places == {"start", "group", "pairs", "match", "collect",
           "regroup", "pricing", "execute", "done", "panicked"}

Init ==
    /\ book \in [Batch -> OrderData]
    /\ lapsed = {}
    /\ at = "start"
    /\ live = {}
    /\ pairs = {}
    /\ sellers = {}
    /\ buyers = {}
    /\ remaining = {}
    /\ prices = [k \in Tokens |-> 0]
    /\ trades = {}

\* is_matchable: the rows were read as open, only the clock matters.
Matchable == Batch \ lapsed

Traded == {t.order : t \in trades}

-----------------------------------------------------------------------------
(* Limit prices, of the second token of a pair in units of the first *)

SellerPrice(o) == DividedBy(book[o].give, book[o].want)
BuyerPrice(o)  == DividedBy(book[o].want, book[o].give)

Forward(S, p)  == {o \in S : book[o].sell = p[1] /\ book[o].buy = p[2]}
Backward(S, p) == {o \in S : book[o].sell = p[2] /\ book[o].buy = p[1]}

\* A pair is visited once, from its smaller token, and skipped if one of its
\* sides is empty.
TwoSidedPairs(S) ==
    {p \in Tokens \X Tokens :
        p[1] < p[2] /\ Forward(S, p) # {} /\ Backward(S, p) # {}}

\* Mutant: the sellers sorted ascending.
LeastGenerous(s) == \A o \in sellers : SellerPrice(s) <= SellerPrice(o)

\* Mutant: the buyers sorted descending.
MostDemanding(b) == \A o \in buyers : BuyerPrice(o) <= BuyerPrice(b)

\* The heads of the two sorted lists.
MostGenerous(s)   == \A o \in sellers : SellerPrice(o) <= SellerPrice(s)
LeastDemanding(b) == \A o \in buyers : BuyerPrice(b) <= BuyerPrice(o)

Overlap(s, b) == BuyerPrice(b) <= SellerPrice(s)

Heads(s, b) == MostGenerous(s) /\ LeastDemanding(b) /\ Overlap(s, b)

-----------------------------------------------------------------------------
(* The clock, and the guard of solve() *)

\* Where solve() asks the clock.  An order that expires anywhere else is one that
\* expires right before solve() asks again.
AsksClock == {"start", "group", "collect", "regroup", "execute"}

Lapse(o) ==
    /\ at \in AsksClock
    /\ o \notin lapsed
    /\ Cardinality(lapsed) < MaxLapses
    /\ lapsed' = lapsed \cup {o}
    /\ UNCHANGED <<book, at, live, pairs, cowVars, priceVars, trades>>

\* NoMatchableOrders, or the first phase
Start ==
    /\ at = "start"
    /\ at' = IF Matchable = {} THEN "done" ELSE "group"
    /\ UNCHANGED <<book, lapsed, live, pairs, cowVars, priceVars, trades>>

-----------------------------------------------------------------------------
(* Phase 1: find_cows *)

Group ==
    /\ at = "group"
    /\ live' = Matchable
    /\ pairs' = TwoSidedPairs(Matchable)
    /\ at' = "pairs"
    /\ UNCHANGED <<book, lapsed, cowVars, priceVars, trades>>

VisitPair ==
    /\ at = "pairs"
    /\ \E p \in pairs :
          /\ pairs' = pairs \ {p}
          /\ sellers' = Forward(live, p) \ Traded
          /\ buyers' = Backward(live, p) \ Traded
    /\ at' = "match"
    /\ UNCHANGED <<book, lapsed, live, priceVars, trades>>

\* Mutant: the sum of the two limit prices, not halved.
SumOfPrices(s, b) == Plus(SellerPrice(s), BuyerPrice(b))

CowPrice(s, b) == Midpoint(SellerPrice(s), BuyerPrice(b))

MatchedA(s, b) ==
    IF book[s].give <= book[b].want THEN book[s].give ELSE book[b].want

\* calculate_trade_surplus, and the seller's surplus in find_cows: more bought
\* than the limit asks for.
BuyingSurplus(o, sold, bought) ==
    Excess(bought, DividedBy(Times(sold, book[o].want), book[o].give))

\* The buyer's surplus in find_cows: less sold than the limit allows.
SellingSurplus(o, sold, bought) ==
    Excess(DividedBy(Times(bought, book[o].give), book[o].want), sold)

CowTrades(s, b) ==
    LET a == MatchedA(s, b)
        c == DividedBy(a, CowPrice(s, b))
    IN  {[order |-> s, by |-> "cow", sold |-> a, bought |-> c,
          surplus |-> BuyingSurplus(s, a, c)],
         [order |-> b, by |-> "cow", sold |-> c, bought |-> a,
          surplus |-> SellingSurplus(b, c, a)]}

\* Mutant: the cursors are not advanced.
StuckCursors ==
    /\ at = "match"
    /\ \E s \in sellers, b \in buyers :
          /\ Heads(s, b)
          /\ CowPrice(s, b) # 0
          /\ trades' = trades \cup CowTrades(s, b)
    /\ UNCHANGED <<book, lapsed, at, live, pairs, cowVars, priceVars>>

\* One turn of the while loop.  A price of 0 is divided by: DivisionByZero.
MatchHeads ==
    /\ at = "match"
    /\ \E s \in sellers, b \in buyers :
          /\ Heads(s, b)
          /\ CowPrice(s, b) # 0
          /\ trades' = trades \cup CowTrades(s, b)
          /\ sellers' = sellers \ {s}
          /\ buyers' = buyers \ {b}
    /\ UNCHANGED <<book, lapsed, at, live, pairs, priceVars>>

\* The loop ends: a list is empty, or the heads do not overlap
LeavePair ==
    /\ at = "match"
    /\ \A s \in sellers, b \in buyers : ~Heads(s, b)
    /\ sellers' = {}
    /\ buyers' = {}
    /\ at' = "pairs"
    /\ UNCHANGED <<book, lapsed, live, pairs, priceVars, trades>>

PairsVisited ==
    /\ at = "pairs"
    /\ pairs = {}
    /\ at' = "collect"
    /\ UNCHANGED <<book, lapsed, live, pairs, cowVars, priceVars, trades>>

\* Mutant: matched orders are collected as well.
AllMatchable == Matchable

Unmatched == Matchable \ Traded

\* unmatched_order_indices, which solve() copies to remaining_orders
Collect ==
    /\ at = "collect"
    /\ remaining' = Unmatched
    /\ at' = IF Unmatched = {} THEN "done" ELSE "regroup"
    /\ UNCHANGED <<book, lapsed, live, pairs, cowVars, prices, trades>>

-----------------------------------------------------------------------------
(* Phase 2: compute_clearing_prices and optimize_execution *)

Regroup ==
    /\ at = "regroup"
    /\ live' = remaining \cap Matchable
    /\ pairs' = TwoSidedPairs(live')
    /\ at' = "pricing"
    /\ UNCHANGED <<book, lapsed, cowVars, priceVars, trades>>

BestAsk(p, s) == \A o \in Forward(live, p) : SellerPrice(s) <= SellerPrice(o)
BestBid(p, b) == \A o \in Backward(live, p) : BuyerPrice(o) <= BuyerPrice(b)

\* The prices are keyed by token: those of an earlier pair are overwritten.  A
\* price of 0 is no price to execute at, like no entry.
PricePair ==
    /\ at = "pricing"
    /\ \E p \in pairs :
          /\ pairs' = pairs \ {p}
          /\ \E s \in Forward(live, p), b \in Backward(live, p) :
                /\ BestAsk(p, s) /\ BestBid(p, b)
                /\ LET c == Midpoint(SellerPrice(s), BuyerPrice(b))
                   IN  prices' = CASE SellerPrice(s) > BuyerPrice(b) -> prices
                                   [] c = 0 -> [prices EXCEPT ![p[1]] = 0]
                                   [] OTHER -> [prices EXCEPT ![p[1]] = c,
                                                              ![p[2]] = DividedBy(Unit, c)]
    /\ UNCHANGED <<book, lapsed, at, live, cowVars, remaining, trades>>

PairsPriced ==
    /\ at = "pricing"
    /\ pairs = {}
    /\ at' = "execute"
    /\ UNCHANGED <<book, lapsed, live, pairs, cowVars, priceVars, trades>>

Priced(o) == prices[book[o].sell] # 0 /\ prices[book[o].buy] # 0

EffectiveBuy(o) ==
    DividedBy(Times(book[o].give, prices[book[o].sell]), prices[book[o].buy])

Fillable(o) == Priced(o) /\ book[o].want <= EffectiveBuy(o)

PriceTrade(o) ==
    [order |-> o, by |-> "price", sold |-> book[o].give, bought |-> EffectiveBuy(o),
     surplus |-> BuyingSurplus(o, book[o].give, EffectiveBuy(o))]

\* Mutant: orders without a price are filled at their limits.
ExecuteAnyway ==
    /\ at = "execute"
    /\ trades' = trades \cup
          {[order |-> o, by |-> "price", sold |-> book[o].give, bought |-> book[o].want,
            surplus |-> 0] : o \in {q \in remaining \cap Matchable : ~Priced(q)}}
    /\ at' = "done"
    /\ UNCHANGED <<book, lapsed, live, pairs, cowVars, priceVars>>

Execute ==
    /\ at = "execute"
    /\ trades' = trades \cup
          {PriceTrade(o) : o \in {q \in remaining \cap Matchable : Fillable(q)}}
    /\ at' = "done"
    /\ UNCHANGED <<book, lapsed, live, pairs, cowVars, priceVars>>

-----------------------------------------------------------------------------
(* Decimal's operators panic, and solve() with them *)

\* Both prices of a match were rounded to 0.
DivisionByZero ==
    /\ at = "match"
    /\ \E s \in sellers, b \in buyers : Heads(s, b) /\ CowPrice(s, b) = 0
    /\ at' = "panicked"
    /\ UNCHANGED <<book, lapsed, live, pairs, cowVars, priceVars, trades>>

\* A result is too large.
Overflow ==
    /\ \/ at \in {"pairs", "pricing"} /\ pairs # {}
       \/ at = "match" /\ \E s \in sellers, b \in buyers : Heads(s, b)
       \/ at = "execute" /\ \E o \in remaining \cap Matchable : Priced(o)
    /\ at' = "panicked"
    /\ UNCHANGED <<book, lapsed, live, pairs, cowVars, priceVars, trades>>

\* The result is returned: NoSolution if there are no trades.
Returned == at \in {"done", "panicked"} /\ UNCHANGED vars

Step ==
    \/ Start
    \/ Group \/ VisitPair \/ MatchHeads \/ LeavePair \/ PairsVisited \/ Collect
    \/ Regroup \/ PricePair \/ PairsPriced \/ Execute
    \/ DivisionByZero

Next ==
    \/ Step
    \/ Overflow
    \/ \E o \in Batch : Lapse(o)
    \/ Returned

Spec == Init /\ [][Next]_vars

\* solve() is sequential code that nothing interrupts; no result need be too large.
FairSpec == Spec /\ WF_vars(Step)

-----------------------------------------------------------------------------
(* Properties *)

TypeOK ==
    /\ book \in [Batch -> OrderData]
    /\ lapsed \subseteq Batch
    /\ at \in Places
    /\ live \subseteq Batch
    /\ pairs \subseteq Tokens \X Tokens
    /\ sellers \subseteq Batch /\ buyers \subseteq Batch
    /\ remaining \subseteq Batch
    /\ prices \in [Tokens -> Nat]
    /\ trades \subseteq TradeData

\* The order gives the first token of its pair: in find_cows it is a seller.
GivesFirst(o) == book[o].sell < book[o].buy

\* What a limit price becomes as a midpoint: itself, unless its double has a
\* digit too many.
AsMidpoint(price) == Midpoint(price, price)

\* Whichever phase fills an order, it gets its limit price or better.  For a
\* match this is the limit as the code computes it, a rounded quotient: the
\* midpoint of two overlapping limits is within both, and the smaller amount is
\* within the offer of the one and the demand of the other.  The other amount is
\* computed from the price, and by rounding it may exceed the offer.
LimitsRespected ==
    \A t \in trades :
        LET o == t.order
        IN  /\ t.by = "price" => t.sold = book[o].give /\ book[o].want <= t.bought
            /\ (t.by = "cow" /\ GivesFirst(o)) =>
                  /\ t.sold <= book[o].give
                  /\ DividedBy(t.sold, AsMidpoint(SellerPrice(o))) <= t.bought
            /\ (t.by = "cow" /\ ~GivesFirst(o)) =>
                  /\ t.bought <= book[o].want
                  /\ AsMidpoint(BuyerPrice(o)) # 0 =>
                        t.sold <= DividedBy(t.bought, AsMidpoint(BuyerPrice(o)))

\* No order is filled twice: not by two matches, not by a match and a price.
FilledOnce ==
    \A t, u \in trades : t.order = u.order => t = u

\* The greedy loop leaves no coincidence of wants behind: of the orders that
\* find_cows grouped, no two unmatched ones have overlapping limits, although
\* the loop breaks at the first pair of heads that do not overlap.
NoCowLeft ==
    at = "collect" =>
        \A s, b \in live \ Traded :
            (book[s].sell < book[s].buy /\ book[s].sell = book[b].buy
             /\ book[s].buy = book[b].sell) => ~Overlap(s, b)

\* The matched orders of a side of a pair are the best ones: none of them is
\* less generous than an order of that side that was left.
BestMatchedFirst ==
    at \in {"pairs", "match", "collect"} =>
        \A o \in Traded : \A q \in live \ Traded :
            (book[o].sell = book[q].sell /\ book[o].buy = book[q].buy) =>
                IF GivesFirst(o) THEN SellerPrice(q) <= SellerPrice(o)
                                 ELSE BuyerPrice(o) <= BuyerPrice(q)

\* The product of two amounts needs no rounding.
ExactProduct(p, q) == Times(p, q) * Unit = p * q

\* A match that reports a surplus has beaten the exact limit of its order: the
\* surplus is no artefact of the quotients it is computed from, which are
\* rounded one by one.  The amount matched times the other amount of the order
\* must not be too long for a Decimal.
SurplusIsReal ==
    \A t \in trades :
        LET d == book[t.order]
        IN  (/\ t.by = "cow" /\ t.surplus > 0
             /\ IF GivesFirst(t.order) THEN ExactProduct(t.sold, d.want)
                                       ELSE ExactProduct(t.bought, d.give))
            => t.sold * d.want < t.bought * d.give

\* Rounding has made the fill larger than the prices say.
RoundedUp(t) ==
    t.bought * prices[book[t.order].buy] > t.sold * prices[book[t.order].sell]

\* The second phase does not fill orders on both sides of a pair: a common rate
\* within two opposite limits would be an overlap that find_cows left behind.
\* It takes a fill that was rounded up.
PricesFillOneSide ==
    \A t, u \in trades :
        (/\ t.by = "price" /\ u.by = "price"
         /\ book[t.order].sell = book[u.order].buy
         /\ book[t.order].buy = book[u.order].sell)
        => RoundedUp(t) \/ RoundedUp(u)

\* A solution needs orders on both sides of a pair ("Single-direction order
\* should not produce a solution", solver_competition_test.rs), and so does a
\* panic.  The batch auction's TwoSided rests on it.
SolutionIsTwoSided ==
    (trades # {} \/ at = "panicked") =>
        \E o, q \in Batch : book[o].sell = book[q].buy /\ book[o].buy = book[q].sell

\* solve() returns or panics.
Terminates == <>(at \in {"done", "panicked"})

-----------------------------------------------------------------------------
(* The inductive invariant of SolverProofs *)

Opposite(o, q) == book[o].sell = book[q].buy /\ book[o].buy = book[q].sell

\* Among S nobody could trade with anybody.
NoOverlapIn(S) == \A o, q \in S : GivesFirst(o) /\ Opposite(o, q) => ~Overlap(o, q)

\* What a visit to the pair p leaves of S.
NoOverlapOf(S, p) == \A s \in Forward(S, p), b \in Backward(S, p) : ~Overlap(s, b)

\* Every pair that was visited is done with, except the one that is being
\* matched, of which the two lists hold exactly the orders not matched yet.
VisitedPairsDone ==
    /\ at = "pairs" => \A p \in TwoSidedPairs(live) \ pairs : NoOverlapOf(live \ Traded, p)
    /\ at = "match" => \E p \in TwoSidedPairs(live) :
          /\ sellers = Forward(live, p) \ Traded
          /\ buyers = Backward(live, p) \ Traded
          /\ \A q \in TwoSidedPairs(live) \ (pairs \cup {p}) : NoOverlapOf(live \ Traded, q)
    /\ at = "collect" => \A p \in TwoSidedPairs(live) : NoOverlapOf(live \ Traded, p)

SolverInv ==
    /\ FilledOnce
    /\ BestMatchedFirst
    /\ VisitedPairsDone
    /\ pairs \subseteq TwoSidedPairs(live)
    /\ at \in {"start", "group"} => trades = {}
    /\ at \in {"pairs", "match", "collect"} => Matchable \subseteq live
    /\ at \in {"regroup", "pricing", "execute"} =>
          remaining \cap Traded = {} /\ NoOverlapIn(remaining)
    /\ at # "done" => \A t \in trades : t.by = "cow"
    /\ (trades # {} \/ at = "panicked" \/ \E k \in Tokens : prices[k] # 0)
          => \E o, q \in Batch : Opposite(o, q)

-----------------------------------------------------------------------------
(* What the documentation says and the code does not do *)

\* optimizer.rs: only fills orders "from actual matched pairs - prevents
\* phantom fills without counterparty".
NoPhantomFills ==
    \A t \in trades : t.by = "price" =>
        \E u \in trades : book[u.order].sell = book[t.order].buy

\* settlement.rs: "all trades of the same token pair receive the same uniform
\* clearing price"; here to within a tenth, far more than rounding.
UniformPrice ==
    \A t, u \in trades :
        (book[t.order].sell = book[u.order].sell /\ book[t.order].buy = book[u.order].buy)
        => 10 * t.bought * u.sold <= 11 * u.bought * t.sold
=============================================================================
