---------------------------- MODULE SolverProofs ----------------------------
(***************************************************************************)
(* Theorems about NaiveSolver, for any number of orders and of tokens, any *)
(* positive amounts, any number of digits of a Decimal, and any orders     *)
(* that expire while solve() runs.                                         *)
(***************************************************************************)
EXTENDS NaiveSolver, DecimalProofs, FiniteSetTheorems

-----------------------------------------------------------------------------
(* The heads of the sorted lists exist                                     *)

\* A finite set that is not empty has a greatest element in a total order.
LEMMA GreatestExists ==
    ASSUME NEW S, IsFiniteSet(S), S # {}, NEW R,
           \A x, y \in S : <<x, y>> \in R \/ <<y, x>> \in R,
           \A x, y, z \in S : <<x, y>> \in R /\ <<y, z>> \in R => <<x, z>> \in R
    PROVE  \E m \in S : \A x \in S : <<x, m>> \in R
<1> DEFINE Above(x) == {y \in S : <<y, x>> \notin R}
           Counts == {Cardinality(Above(x)) : x \in S}
<1>1. \A x \in S : IsFiniteSet(Above(x)) /\ Cardinality(Above(x)) \in Nat
  BY FS_Subset, FS_CardinalityType
<1>2. Counts \subseteq Nat /\ Counts # {}
  BY <1>1
<1>3. PICK n \in Counts : \A k \in Counts : ~(<<k, n>> \in OpToRel(<, Nat))
  <2> HIDE DEF Counts
  <2>1. QED BY <1>2, WFMin, NatLessThanWellFounded
<1>4. \A k \in Counts : ~(k < n)
  <2> HIDE DEF Counts
  <2>1. QED BY <1>2, <1>3 DEF OpToRel
<1>5. PICK m \in S : n = Cardinality(Above(m))
  OBVIOUS
<1>6. ASSUME NEW x \in S, <<x, m>> \notin R
      PROVE  FALSE
  <2>1. x \in Above(m) /\ x \notin Above(x)
    BY <1>6
  <2>2. Above(x) \subseteq Above(m)
    BY <1>6
  <2>3. Cardinality(Above(x)) <= Cardinality(Above(m))
          /\ Cardinality(Above(x)) # Cardinality(Above(m))
    BY <1>1, <2>1, <2>2, FS_Subset
  <2> HIDE DEF Above
  <2>4. Cardinality(Above(x)) < n
    BY <1>1, <1>5, <2>3
  <2>5. QED BY <1>4, <2>4
<1>7. QED BY <1>6

-----------------------------------------------------------------------------
(* Prices of orders                                                        *)

LEMMA BookTypes ==
    ASSUME TypeOK, NEW o \in Batch
    PROVE  /\ book[o].sell \in Tokens /\ book[o].buy \in Tokens
           /\ book[o].sell \in Nat /\ book[o].buy \in Nat
           /\ book[o].sell # book[o].buy
           /\ book[o].give \in Nat \ {0} /\ book[o].want \in Nat \ {0}
           /\ SellerPrice(o) \in Nat /\ BuyerPrice(o) \in Nat
<1>1. book[o] \in OrderData
  BY DEF TypeOK
<1>2. /\ book[o].sell \in Tokens /\ book[o].buy \in Tokens
      /\ book[o].sell # book[o].buy
      /\ book[o].give \in Nat \ {0} /\ book[o].want \in Nat \ {0}
  BY <1>1, DataAssumption DEF OrderData
<1>3. QED BY <1>2, DataAssumption, OperationTypes DEF SellerPrice, BuyerPrice

\* The first of the sellers, by descending limit.
LEMMA SellerHead ==
    ASSUME TypeOK, sellers # {}
    PROVE  \E s \in sellers : MostGenerous(s)
<1> DEFINE R == {r \in sellers \X sellers : SellerPrice(r[1]) <= SellerPrice(r[2])}
<1>1. sellers \subseteq Batch /\ IsFiniteSet(sellers)
  BY BatchAssumption, FS_Subset DEF TypeOK
<1>2. \A o \in sellers : SellerPrice(o) \in Nat
  BY <1>1, BookTypes
<1>3. \A x, y \in sellers : <<x, y>> \in R <=> SellerPrice(x) <= SellerPrice(y)
  OBVIOUS
<1> HIDE DEF R
<1>4. ASSUME NEW x \in sellers, NEW y \in sellers
      PROVE  <<x, y>> \in R \/ <<y, x>> \in R
  <2>1. SellerPrice(x) \in Nat /\ SellerPrice(y) \in Nat
    BY <1>2
  <2>2. SellerPrice(x) <= SellerPrice(y) \/ SellerPrice(y) <= SellerPrice(x)
    BY <2>1
  <2>3. QED BY <1>3, <2>2
<1>5. \A x, y, z \in sellers : <<x, y>> \in R /\ <<y, z>> \in R => <<x, z>> \in R
  BY <1>2, <1>3
<1>6. \E m \in sellers : \A x \in sellers : <<x, m>> \in R
  BY <1>1, <1>4, <1>5, GreatestExists
<1>7. QED BY <1>3, <1>6 DEF MostGenerous

\* The first of the buyers, by ascending limit.
LEMMA BuyerHead ==
    ASSUME TypeOK, buyers # {}
    PROVE  \E b \in buyers : LeastDemanding(b)
<1> DEFINE R == {r \in buyers \X buyers : BuyerPrice(r[2]) <= BuyerPrice(r[1])}
<1>1. buyers \subseteq Batch /\ IsFiniteSet(buyers)
  BY BatchAssumption, FS_Subset DEF TypeOK
<1>2. \A o \in buyers : BuyerPrice(o) \in Nat
  BY <1>1, BookTypes
<1>3. \A x, y \in buyers : <<x, y>> \in R <=> BuyerPrice(y) <= BuyerPrice(x)
  OBVIOUS
<1> HIDE DEF R
<1>4. ASSUME NEW x \in buyers, NEW y \in buyers
      PROVE  <<x, y>> \in R \/ <<y, x>> \in R
  <2>1. BuyerPrice(x) \in Nat /\ BuyerPrice(y) \in Nat
    BY <1>2
  <2>2. BuyerPrice(x) <= BuyerPrice(y) \/ BuyerPrice(y) <= BuyerPrice(x)
    BY <2>1
  <2>3. QED BY <1>3, <2>2
<1>5. \A x, y, z \in buyers : <<x, y>> \in R /\ <<y, z>> \in R => <<x, z>> \in R
  BY <1>2, <1>3
<1>6. \E m \in buyers : \A x \in buyers : <<x, m>> \in R
  BY <1>1, <1>4, <1>5, GreatestExists
<1>7. QED BY <1>3, <1>6 DEF LeastDemanding

\* The price of a match is between the two limits, as far as a midpoint can
\* tell.
LEMMA CowPriceBetween ==
    ASSUME TypeOK, NEW s \in Batch, NEW b \in Batch, Overlap(s, b)
    PROVE  /\ CowPrice(s, b) \in Nat
           /\ AsMidpoint(SellerPrice(s)) \in Nat /\ AsMidpoint(BuyerPrice(b)) \in Nat
           /\ AsMidpoint(BuyerPrice(b)) <= CowPrice(s, b)
           /\ CowPrice(s, b) <= AsMidpoint(SellerPrice(s))
<1>1. SellerPrice(s) \in Nat /\ BuyerPrice(b) \in Nat
  BY BookTypes
<1>2. QED BY <1>1, OperationTypes, MidpointMonotone DEF CowPrice, AsMidpoint, Overlap

LEMMA MatchedAType ==
    ASSUME TypeOK, NEW s \in Batch, NEW b \in Batch
    PROVE  /\ MatchedA(s, b) \in Nat \ {0}
           /\ MatchedA(s, b) <= book[s].give
           /\ MatchedA(s, b) <= book[b].want
  BY BookTypes DEF MatchedA

-----------------------------------------------------------------------------
(* Type correctness                                                        *)

LEMMA SurplusType ==
    ASSUME TypeOK, NEW o \in Batch, NEW sold \in Nat, NEW bought \in Nat
    PROVE  /\ BuyingSurplus(o, sold, bought) \in Nat
           /\ SellingSurplus(o, sold, bought) \in Nat
<1>1. book[o].give \in Nat \ {0} /\ book[o].want \in Nat \ {0}
  BY BookTypes
<1>2. Times(sold, book[o].want) \in Nat /\ Times(bought, book[o].give) \in Nat
  BY <1>1, OperationTypes
<1>3. /\ DividedBy(Times(sold, book[o].want), book[o].give) \in Nat
      /\ DividedBy(Times(bought, book[o].give), book[o].want) \in Nat
  BY <1>1, <1>2, OperationTypes
<1>4. QED BY <1>3, OperationTypes DEF BuyingSurplus, SellingSurplus

LEMMA CowTradesType ==
    ASSUME TypeOK, NEW s \in Batch, NEW b \in Batch, Overlap(s, b), CowPrice(s, b) # 0
    PROVE  CowTrades(s, b) \subseteq TradeData
<1> DEFINE a == MatchedA(s, b)
           c == DividedBy(a, CowPrice(s, b))
<1>1. a \in Nat /\ c \in Nat
  BY MatchedAType, CowPriceBetween, OperationTypes
<1> HIDE DEF a, c
<1>2. BuyingSurplus(s, a, c) \in Nat /\ SellingSurplus(b, c, a) \in Nat
  BY <1>1, SurplusType
<1>3. QED BY <1>1, <1>2 DEF CowTrades, TradeData, a, c

LEMMA PriceTradeType ==
    ASSUME TypeOK, NEW o \in Batch, Fillable(o)
    PROVE  /\ prices[book[o].sell] \in Nat \ {0} /\ prices[book[o].buy] \in Nat \ {0}
           /\ EffectiveBuy(o) \in Nat
           /\ PriceTrade(o) \in TradeData
<1>1. /\ book[o].sell \in Tokens /\ book[o].buy \in Tokens
      /\ book[o].give \in Nat
  BY BookTypes
<1>2. prices[book[o].sell] \in Nat \ {0} /\ prices[book[o].buy] \in Nat \ {0}
  BY <1>1 DEF TypeOK, Fillable, Priced
<1>3. EffectiveBuy(o) \in Nat
  BY <1>1, <1>2, OperationTypes DEF EffectiveBuy
<1>4. BuyingSurplus(o, book[o].give, EffectiveBuy(o)) \in Nat
  BY <1>1, <1>3, SurplusType
<1>5. QED BY <1>1, <1>2, <1>3, <1>4 DEF PriceTrade, TradeData

\* What a visit to a pair does to the prices.
LEMMA PairPrice ==
    ASSUME TypeOK, PricePair
    PROVE  \E p \in pairs :
              /\ pairs' = pairs \ {p}
              /\ p[1] \in Tokens /\ p[2] \in Tokens
              /\ \/ prices' = prices
                 \/ prices' = [prices EXCEPT ![p[1]] = 0]
                 \/ \E c, d \in Nat : prices' = [prices EXCEPT ![p[1]] = c, ![p[2]] = d]
<1>1. PICK p \in pairs :
         /\ pairs' = pairs \ {p}
         /\ \E s \in Forward(live, p), b \in Backward(live, p) :
               LET c == Midpoint(SellerPrice(s), BuyerPrice(b))
               IN  prices' = CASE SellerPrice(s) > BuyerPrice(b) -> prices
                               [] c = 0 -> [prices EXCEPT ![p[1]] = 0]
                               [] OTHER -> [prices EXCEPT ![p[1]] = c,
                                                          ![p[2]] = DividedBy(Unit, c)]
  BY DEF PricePair
<1>2. PICK s \in Batch, b \in Batch :
         LET c == Midpoint(SellerPrice(s), BuyerPrice(b))
         IN  prices' = CASE SellerPrice(s) > BuyerPrice(b) -> prices
                         [] c = 0 -> [prices EXCEPT ![p[1]] = 0]
                         [] OTHER -> [prices EXCEPT ![p[1]] = c,
                                                    ![p[2]] = DividedBy(Unit, c)]
  BY <1>1 DEF Forward, Backward, TypeOK
<1> DEFINE c == Midpoint(SellerPrice(s), BuyerPrice(b))
<1>3. c \in Nat /\ Unit \in Nat
  BY BookTypes, OperationTypes, DecimalsAssumption
<1>4. c # 0 => DividedBy(Unit, c) \in Nat
  BY <1>3, OperationTypes
<1>5. SellerPrice(s) \in Nat /\ BuyerPrice(b) \in Nat
  BY BookTypes
<1>6. p[1] \in Tokens /\ p[2] \in Tokens
  BY DEF TypeOK
<1>7. \/ prices' = prices
      \/ prices' = [prices EXCEPT ![p[1]] = 0]
      \/ c # 0 /\ prices' = [prices EXCEPT ![p[1]] = c, ![p[2]] = DividedBy(Unit, c)]
  BY <1>2
<1> HIDE DEF c
<1>8. QED BY <1>1, <1>3, <1>4, <1>6, <1>7

LEMMA SolverTypeStep ==
    ASSUME TypeOK, [Next]_vars
    PROVE  TypeOK'
<1> USE DEF TypeOK, Places, cowVars, priceVars
<1>1. \A S : TwoSidedPairs(S) \subseteq Tokens \X Tokens
  BY DEF TwoSidedPairs
<1>2. \A S, p : Forward(S, p) \subseteq S /\ Backward(S, p) \subseteq S
  BY DEF Forward, Backward
<1>3. CASE UNCHANGED vars \/ Returned
  BY <1>3 DEF vars, Returned
<1>4. ASSUME NEW o \in Batch, Lapse(o)
      PROVE  TypeOK'
  BY <1>4 DEF Lapse
<1>5. CASE Start \/ LeavePair \/ PairsVisited \/ PairsPriced \/ DivisionByZero \/ Overflow
  BY <1>5 DEF Start, LeavePair, PairsVisited, PairsPriced, DivisionByZero, Overflow
<1>6. CASE Group
  BY <1>1, <1>6 DEF Group, Matchable
<1>7. CASE VisitPair
  <2>1. /\ pairs' \subseteq Tokens \X Tokens
        /\ sellers' \subseteq Batch /\ buyers' \subseteq Batch
    BY <1>2, <1>7 DEF VisitPair
  <2>2. QED BY <1>7, <2>1 DEF VisitPair
<1>8. CASE MatchHeads
  <2>1. PICK s \in sellers, b \in buyers :
           /\ Heads(s, b)
           /\ CowPrice(s, b) # 0
           /\ trades' = trades \cup CowTrades(s, b)
           /\ sellers' = sellers \ {s}
           /\ buyers' = buyers \ {b}
    BY <1>8 DEF MatchHeads
  <2>2. trades' \subseteq TradeData
    BY <2>1, CowTradesType DEF Heads
  <2>3. QED BY <1>8, <2>1, <2>2 DEF MatchHeads
<1>9. CASE Collect
  BY <1>9 DEF Collect, Unmatched, Matchable
<1>10. CASE Regroup
  BY <1>1, <1>10 DEF Regroup
<1>11. CASE PricePair
  <2>1. pairs' \subseteq pairs /\ prices' \in [Tokens -> Nat]
    BY <1>11, PairPrice
  <2>2. QED BY <1>11, <2>1 DEF PricePair
<1>12. CASE Execute
  <2>1. trades' \subseteq TradeData
    BY <1>12, PriceTradeType DEF Execute
  <2>2. QED BY <1>12, <2>1 DEF Execute
<1>13. QED
  BY <1>3, <1>4, <1>5, <1>6, <1>7, <1>8, <1>9, <1>10, <1>11, <1>12 DEF Next, Step

-----------------------------------------------------------------------------
(* What a visit to a pair leaves                                           *)

\* When the loop breaks at the first two heads, no two orders of the pair
\* overlap: all the others have worse limits.
LEMMA HeadsDecide ==
    ASSUME TypeOK,
           \A s \in sellers, b \in buyers : ~Heads(s, b)
    PROVE  \A s \in sellers, b \in buyers : ~Overlap(s, b)
<1> SUFFICES ASSUME NEW s \in sellers, NEW b \in buyers, Overlap(s, b)
             PROVE  FALSE
  OBVIOUS
<1>1. PICK m \in sellers : MostGenerous(m)
  BY SellerHead
<1>2. PICK n \in buyers : LeastDemanding(n)
  BY BuyerHead
<1>3. /\ SellerPrice(s) \in Nat /\ SellerPrice(m) \in Nat
      /\ BuyerPrice(b) \in Nat /\ BuyerPrice(n) \in Nat
  BY BookTypes DEF TypeOK
<1>4. /\ BuyerPrice(n) <= BuyerPrice(b)
      /\ BuyerPrice(b) <= SellerPrice(s)
      /\ SellerPrice(s) <= SellerPrice(m)
  BY <1>1, <1>2 DEF MostGenerous, LeastDemanding, Overlap
<1>5. Overlap(m, n)
  BY <1>3, <1>4 DEF Overlap
<1>6. QED BY <1>1, <1>2, <1>5 DEF Heads

\* When all pairs are visited, nobody is left who could trade with anybody.
LEMMA NobodyOverlaps ==
    ASSUME TypeOK, \A p \in TwoSidedPairs(live) : NoOverlapOf(live \ Traded, p)
    PROVE  NoOverlapIn(live \ Traded)
<1> SUFFICES ASSUME NEW o \in live \ Traded, NEW q \in live \ Traded,
                    GivesFirst(o), Opposite(o, q)
             PROVE  ~Overlap(o, q)
  BY DEF NoOverlapIn
<1> DEFINE p == <<book[o].sell, book[o].buy>>
<1>1. book[o].sell \in Tokens /\ book[o].buy \in Tokens
  BY BookTypes DEF TypeOK
<1>2. /\ o \in Forward(live, p) /\ o \in Forward(live \ Traded, p)
      /\ q \in Backward(live, p) /\ q \in Backward(live \ Traded, p)
  BY DEF Forward, Backward, Opposite
<1>3. p \in TwoSidedPairs(live)
  BY <1>1, <1>2 DEF TwoSidedPairs, GivesFirst
<1>4. QED BY <1>2, <1>3 DEF NoOverlapOf

\* The two lists of the pair that is being matched hold orders that have no
\* trade yet, and no order is on both.
LEMMA ListsUntraded ==
    ASSUME TypeOK, SolverInv, at = "match"
    PROVE  /\ sellers \cap Traded = {} /\ buyers \cap Traded = {}
           /\ \A s \in sellers, b \in buyers :
                 s # b /\ Opposite(s, b) /\ GivesFirst(s) /\ ~GivesFirst(b)
<1>1. PICK p \in TwoSidedPairs(live) :
         sellers = Forward(live, p) \ Traded /\ buyers = Backward(live, p) \ Traded
  BY DEF SolverInv, VisitedPairsDone
<1>2. p[1] \in Nat /\ p[2] \in Nat /\ p[1] < p[2]
  BY DataAssumption DEF TwoSidedPairs
<1>3. \A s \in sellers, b \in buyers :
         s \in Batch /\ Opposite(s, b) /\ GivesFirst(s) /\ ~GivesFirst(b)
  BY <1>1, <1>2 DEF Forward, Backward, Opposite, GivesFirst, TypeOK
<1>4. QED BY <1>1, <1>3

-----------------------------------------------------------------------------
(* The inductive invariant, action by action                               *)

LEMMA SolverInit ==
    ASSUME Init
    PROVE  TypeOK /\ SolverInv
<1>1. TypeOK
  BY DEF Init, TypeOK, Places
<1>2. SolverInv
  BY DEF Init, SolverInv, FilledOnce, BestMatchedFirst, VisitedPairsDone, Traded
<1>3. QED BY <1>1, <1>2

\* As long as nothing is matched and no orders are grouped, what was matched
\* stays the best, and the pairs stay two-sided.
LEMMA Undisturbed ==
    ASSUME SolverInv, UNCHANGED <<book, live, trades>>, pairs' \subseteq pairs,
           at' \in {"pairs", "match", "collect"} => at \in {"pairs", "match", "collect"}
    PROVE  /\ Traded' = Traded
           /\ FilledOnce'
           /\ BestMatchedFirst'
           /\ (pairs \subseteq TwoSidedPairs(live))'
           /\ (\E o, q \in Batch : Opposite(o, q)) => (\E o, q \in Batch : Opposite(o, q))'
<1>1. Traded' = Traded
  BY DEF Traded
<1>2. FilledOnce'
  BY DEF SolverInv, FilledOnce
<1>3. BestMatchedFirst'
  BY <1>1 DEF SolverInv, BestMatchedFirst, GivesFirst, SellerPrice, BuyerPrice
<1>4. TwoSidedPairs(live)' = TwoSidedPairs(live)
  BY DEF TwoSidedPairs, Forward, Backward
<1>5. (pairs \subseteq TwoSidedPairs(live))'
  BY <1>4 DEF SolverInv
<1>6. QED BY <1>1, <1>2, <1>3, <1>5 DEF Opposite

\* Time passes: fewer orders are matchable, and nothing else changes.
LEMMA LapseStep ==
    ASSUME TypeOK, SolverInv, NEW o \in Batch, Lapse(o)
    PROVE  SolverInv'
<1> USE DEF cowVars, priceVars, Matchable
<1>1. /\ UNCHANGED <<book, at, live, pairs, sellers, buyers, remaining, prices, trades>>
      /\ lapsed' = lapsed \cup {o}
  BY DEF Lapse
<1>2. VisitedPairsDone'
  BY <1>1 DEF SolverInv, VisitedPairsDone, TwoSidedPairs, NoOverlapOf, Forward,
         Backward, Overlap, SellerPrice, BuyerPrice, Traded
<1>3. NoOverlapIn(remaining) => NoOverlapIn(remaining)'
  BY <1>1 DEF NoOverlapIn, Opposite, Overlap, SellerPrice, BuyerPrice, GivesFirst
<1>4. QED BY <1>1, <1>2, <1>3, Undisturbed DEF SolverInv

\* The orders are grouped, and all their pairs are still to be visited.
LEMMA GroupStep ==
    ASSUME TypeOK, SolverInv, Start \/ Group
    PROVE  SolverInv'
<1> USE DEF cowVars, priceVars, Matchable
<1>1. /\ UNCHANGED <<book, lapsed, remaining, prices, trades>>
      /\ at' \in {"group", "done", "pairs"} /\ at \in {"start", "group"}
      /\ trades = {} /\ Traded = {}
  BY DEF Start, Group, SolverInv, Traded
<1>2. (pairs \subseteq TwoSidedPairs(live))'
  BY DEF Start, Group, SolverInv, TwoSidedPairs, Forward, Backward
<1>3. VisitedPairsDone'
  BY DEF Start, Group, VisitedPairsDone, TwoSidedPairs, Forward, Backward
<1>4. (at \in {"pairs", "match", "collect"} => Matchable \subseteq live)'
  BY DEF Start, Group
<1>5. FilledOnce' /\ BestMatchedFirst'
  BY <1>1 DEF FilledOnce, BestMatchedFirst, Traded
<1>6. (\E k \in Tokens : prices[k] # 0)' => (\E o, q \in Batch : Opposite(o, q))'
  BY <1>1 DEF SolverInv, Opposite
<1>7. QED BY <1>1, <1>2, <1>3, <1>4, <1>5, <1>6 DEF SolverInv

\* A pair is removed from those to visit; the others are not disturbed.
LEMMA VisitPairStep ==
    ASSUME TypeOK, SolverInv, VisitPair
    PROVE  SolverInv'
<1> USE DEF cowVars, priceVars, Matchable
<1>1. PICK p \in pairs :
         /\ pairs' = pairs \ {p}
         /\ sellers' = Forward(live, p) \ Traded
         /\ buyers' = Backward(live, p) \ Traded
  BY DEF VisitPair
<1>2. /\ p \in TwoSidedPairs(live)
      /\ at = "pairs" /\ at' = "match"
      /\ UNCHANGED <<book, lapsed, live, remaining, prices, trades>>
  BY DEF VisitPair, SolverInv
<1>3. /\ Traded' = Traded /\ FilledOnce' /\ BestMatchedFirst'
      /\ (pairs \subseteq TwoSidedPairs(live))'
      /\ (\E o, q \in Batch : Opposite(o, q)) => (\E o, q \in Batch : Opposite(o, q))'
  BY <1>1, <1>2, Undisturbed
<1>4. \A q \in TwoSidedPairs(live) \ pairs : NoOverlapOf(live \ Traded, q)
  BY <1>2 DEF SolverInv, VisitedPairsDone
<1>5. VisitedPairsDone'
  <2>1. \A q \in TwoSidedPairs(live)' \ (pairs' \cup {p}) : NoOverlapOf(live \ Traded, q)'
    BY <1>1, <1>2, <1>3, <1>4 DEF TwoSidedPairs, NoOverlapOf, Forward, Backward, Overlap,
       SellerPrice, BuyerPrice
  <2>2. /\ sellers' = (Forward(live, p) \ Traded)'
        /\ buyers' = (Backward(live, p) \ Traded)'
        /\ p \in TwoSidedPairs(live)'
    BY <1>1, <1>2, <1>3 DEF TwoSidedPairs, Forward, Backward
  <2>3. QED BY <1>2, <2>1, <2>2 DEF VisitedPairsDone
<1>6. QED BY <1>2, <1>3, <1>5 DEF SolverInv

\* A match trades two orders that had no trade, the best of those left.
LEMMA MatchHeadsStep ==
    ASSUME TypeOK, SolverInv, MatchHeads
    PROVE  SolverInv'
<1> USE DEF cowVars, priceVars
<1>1. PICK s \in sellers, b \in buyers :
         /\ Heads(s, b)
         /\ trades' = trades \cup CowTrades(s, b)
         /\ sellers' = sellers \ {s}
         /\ buyers' = buyers \ {b}
  BY DEF MatchHeads
<1>2. at = "match" /\ UNCHANGED <<book, lapsed, at, live, pairs, remaining, prices>>
  BY DEF MatchHeads
<1>3. /\ s \in Batch /\ b \in Batch /\ s # b /\ Opposite(s, b)
      /\ GivesFirst(s) /\ ~GivesFirst(b)
      /\ s \notin Traded /\ b \notin Traded
  BY <1>2, ListsUntraded DEF TypeOK
<1> DEFINE a == MatchedA(s, b)
           c == DividedBy(a, CowPrice(s, b))
           t == [order |-> s, by |-> "cow", sold |-> a, bought |-> c,
                 surplus |-> BuyingSurplus(s, a, c)]
           u == [order |-> b, by |-> "cow", sold |-> c, bought |-> a,
                 surplus |-> SellingSurplus(b, c, a)]
<1>4. /\ CowTrades(s, b) = {t, u}
      /\ t.order = s /\ t.by = "cow" /\ u.order = b /\ u.by = "cow"
  BY DEF CowTrades
<1> HIDE DEF t, u
<1>5. Traded' = Traded \cup {s, b}
  BY <1>1, <1>4 DEF Traded
<1>6. FilledOnce'
  BY <1>1, <1>3, <1>4 DEF SolverInv, FilledOnce, Traded
<1>7. PICK p \in TwoSidedPairs(live) :
         /\ sellers = Forward(live, p) \ Traded
         /\ buyers = Backward(live, p) \ Traded
         /\ \A q \in TwoSidedPairs(live) \ (pairs \cup {p}) : NoOverlapOf(live \ Traded, q)
  BY <1>2 DEF SolverInv, VisitedPairsDone
<1>8. VisitedPairsDone'
  <2>1. /\ sellers' = (Forward(live, p) \ Traded)'
        /\ buyers' = (Backward(live, p) \ Traded)'
    <3>1. s \notin Backward(live, p) /\ b \notin Forward(live, p)
      BY <1>3, <1>7, BookTypes DEF Forward, Backward, TypeOK
    <3>2. Forward(live, p)' = Forward(live, p) /\ Backward(live, p)' = Backward(live, p)
      BY <1>2 DEF Forward, Backward
    <3>3. QED BY <1>1, <1>5, <1>7, <3>1, <3>2
  <2>2. TwoSidedPairs(live)' = TwoSidedPairs(live)
    BY <1>2 DEF TwoSidedPairs, Forward, Backward
  <2>3. \A q \in TwoSidedPairs(live)' \ (pairs' \cup {p}) : NoOverlapOf(live \ Traded, q)'
    <3>1. \A q : NoOverlapOf(live \ Traded, q) => NoOverlapOf(live \ Traded, q)'
      BY <1>2, <1>5 DEF NoOverlapOf, Forward, Backward, Overlap, SellerPrice, BuyerPrice
    <3>2. QED BY <1>2, <1>7, <2>2, <3>1
  <2>4. QED BY <1>2, <2>1, <2>2, <2>3 DEF VisitedPairsDone
<1>9. BestMatchedFirst'
  <2>1. ASSUME NEW o \in Traded', NEW q \in live \ Traded',
               book[o].sell = book[q].sell, book[o].buy = book[q].buy
        PROVE  IF GivesFirst(o) THEN SellerPrice(q) <= SellerPrice(o)
                                ELSE BuyerPrice(o) <= BuyerPrice(q)
    <3>1. CASE o \in Traded
      BY <1>2, <1>5, <2>1, <3>1 DEF SolverInv, BestMatchedFirst
    <3>2. CASE o = s
      <4>1. q \in sellers
        BY <1>1, <1>5, <1>7, <2>1, <3>2 DEF Forward
      <4>2. QED BY <1>1, <1>3, <3>2, <4>1 DEF Heads, MostGenerous
    <3>3. CASE o = b
      <4>1. q \in buyers
        BY <1>1, <1>5, <1>7, <2>1, <3>3 DEF Backward
      <4>2. QED BY <1>1, <1>3, <3>3, <4>1 DEF Heads, LeastDemanding
    <3>4. QED BY <1>5, <3>1, <3>2, <3>3
  <2>2. QED BY <1>2, <2>1 DEF BestMatchedFirst, GivesFirst, SellerPrice, BuyerPrice
<1>10. \A x \in trades' : x.by = "cow"
  BY <1>1, <1>2, <1>4 DEF SolverInv
<1>11. (\E o, q \in Batch : Opposite(o, q))'
  BY <1>2, <1>3 DEF Opposite
<1>12. (pairs \subseteq TwoSidedPairs(live))'
  BY <1>2 DEF SolverInv, TwoSidedPairs, Forward, Backward
<1>13. QED BY <1>2, <1>6, <1>8, <1>9, <1>10, <1>11, <1>12 DEF SolverInv, Matchable

\* The loop ends: nothing that overlaps is left of the pair.
LEMMA LeavePairStep ==
    ASSUME TypeOK, SolverInv, LeavePair
    PROVE  SolverInv'
<1> USE DEF cowVars, priceVars, Matchable
<1>1. at = "match" /\ at' = "pairs"
      /\ UNCHANGED <<book, lapsed, live, pairs, remaining, prices, trades>>
  BY DEF LeavePair
<1>2. \A s \in sellers, b \in buyers : ~Overlap(s, b)
  BY HeadsDecide DEF LeavePair
<1>3. PICK p \in TwoSidedPairs(live) :
         /\ sellers = Forward(live, p) \ Traded
         /\ buyers = Backward(live, p) \ Traded
         /\ \A q \in TwoSidedPairs(live) \ (pairs \cup {p}) : NoOverlapOf(live \ Traded, q)
  BY <1>1 DEF SolverInv, VisitedPairsDone
<1>4. NoOverlapOf(live \ Traded, p)
  BY <1>2, <1>3 DEF NoOverlapOf, Forward, Backward
<1>5. \A q \in TwoSidedPairs(live) \ pairs : NoOverlapOf(live \ Traded, q)
  BY <1>3, <1>4
<1>6. VisitedPairsDone'
  BY <1>1, <1>5 DEF VisitedPairsDone, TwoSidedPairs, NoOverlapOf, Forward, Backward,
     Overlap, SellerPrice, BuyerPrice, Traded
<1>7. QED BY <1>1, <1>6, Undisturbed DEF SolverInv

LEMMA PairsVisitedStep ==
    ASSUME TypeOK, SolverInv, PairsVisited
    PROVE  SolverInv'
<1> USE DEF cowVars, priceVars, Matchable
<1>1. at = "pairs" /\ at' = "collect"
      /\ UNCHANGED <<book, lapsed, live, pairs, remaining, prices, trades>>
  BY DEF PairsVisited
<1>2. VisitedPairsDone'
  BY DEF PairsVisited, SolverInv, VisitedPairsDone, TwoSidedPairs, NoOverlapOf,
     Forward, Backward, Overlap, SellerPrice, BuyerPrice, Traded
<1>3. QED BY <1>1, <1>2, Undisturbed DEF SolverInv

\* The orders that go on to the second phase have no trade, and no two of them
\* overlap.
LEMMA CollectStep ==
    ASSUME TypeOK, SolverInv, Collect
    PROVE  SolverInv'
<1> USE DEF cowVars
<1>1. /\ at = "collect" /\ at' \in {"done", "regroup"}
      /\ UNCHANGED <<book, lapsed, live, pairs, prices, trades>>
  BY DEF Collect
<1>2. NoOverlapIn(live \ Traded)
  BY <1>1, NobodyOverlaps DEF SolverInv, VisitedPairsDone
<1>3. remaining' \subseteq live \ Traded /\ Traded' = Traded
  BY DEF Collect, SolverInv, Unmatched, Traded
<1>4. (remaining \cap Traded = {} /\ NoOverlapIn(remaining))'
  BY <1>1, <1>2, <1>3 DEF NoOverlapIn, Opposite, GivesFirst, Overlap, SellerPrice, BuyerPrice
<1>5. VisitedPairsDone'
  BY <1>1 DEF VisitedPairsDone
<1>6. QED BY <1>1, <1>4, <1>5, Undisturbed DEF SolverInv

\* The second phase does not disturb the orders that remain.
LEMMA RegroupStep ==
    ASSUME TypeOK, SolverInv, Regroup \/ PairsPriced
    PROVE  SolverInv'
<1> USE DEF cowVars, priceVars
<1>1. /\ at \in {"regroup", "pricing"} /\ at' \in {"pricing", "execute"}
      /\ UNCHANGED <<book, lapsed, remaining, prices, trades>>
  BY DEF Regroup, PairsPriced
<1>2. (remaining \cap Traded = {} /\ NoOverlapIn(remaining))'
  BY <1>1 DEF SolverInv, NoOverlapIn, Opposite, GivesFirst, Overlap, SellerPrice,
     BuyerPrice, Traded
<1>3. (pairs \subseteq TwoSidedPairs(live))'
  BY DEF Regroup, PairsPriced, SolverInv, TwoSidedPairs, Forward, Backward
<1>4. VisitedPairsDone' /\ BestMatchedFirst' /\ FilledOnce'
  BY <1>1 DEF SolverInv, VisitedPairsDone, BestMatchedFirst, FilledOnce
<1>5. QED BY <1>1, <1>2, <1>3, <1>4 DEF SolverInv, Opposite

\* Orders on the two sides of a pair that is still to be visited.
LEMMA PairHasBothSides ==
    ASSUME TypeOK, SolverInv, pairs # {}
    PROVE  \E o, q \in Batch : Opposite(o, q)
<1>1. PICK p \in pairs : Forward(live, p) # {} /\ Backward(live, p) # {}
  BY DEF SolverInv, TwoSidedPairs
<1>2. QED BY <1>1 DEF Forward, Backward, Opposite, TypeOK

\* A price is set from orders on both sides of a pair.
LEMMA PricePairStep ==
    ASSUME TypeOK, SolverInv, PricePair
    PROVE  SolverInv'
<1> USE DEF cowVars
<1>1. /\ at = "pricing" /\ at' = "pricing" /\ pairs # {}
      /\ UNCHANGED <<book, lapsed, live, remaining, trades>>
  BY DEF PricePair
<1>2. pairs' \subseteq pairs
  BY PairPrice
<1>3. (remaining \cap Traded = {} /\ NoOverlapIn(remaining))'
  BY <1>1 DEF SolverInv, NoOverlapIn, Opposite, GivesFirst, Overlap, SellerPrice,
     BuyerPrice, Traded
<1>4. (\E o, q \in Batch : Opposite(o, q))'
  BY <1>1, PairHasBothSides DEF Opposite
<1>5. VisitedPairsDone'
  BY <1>1 DEF VisitedPairsDone
<1>6. QED BY <1>1, <1>2, <1>3, <1>4, <1>5, Undisturbed DEF SolverInv

\* Orders that have no trade yet are filled, one trade each, and only at prices
\* that somebody's orders have set.
LEMMA ExecuteStep ==
    ASSUME TypeOK, SolverInv, Execute
    PROVE  SolverInv'
<1> USE DEF cowVars, priceVars
<1> DEFINE New == {PriceTrade(o) : o \in {q \in remaining \cap Matchable : Fillable(q)}}
<1>1. /\ trades' = trades \cup New /\ at = "execute" /\ at' = "done"
      /\ UNCHANGED <<book, live, pairs, prices>>
  BY DEF Execute
<1>2. \A o : PriceTrade(o).order = o
  BY DEF PriceTrade
<1>3. \A t \in New : t.order \in remaining /\ t = PriceTrade(t.order)
  BY <1>2
<1>4. \A t \in New, u \in trades : t.order # u.order
  BY <1>1, <1>3 DEF SolverInv, Traded
<1>5. FilledOnce'
  <2> HIDE DEF New
  <2>1. QED BY <1>1, <1>3, <1>4 DEF SolverInv, FilledOnce
<1>6. New # {} => \E o, q \in Batch : Opposite(o, q)
  <2>1. ASSUME NEW o \in remaining, Fillable(o)
        PROVE  \E k \in Tokens : prices[k] # 0
    BY <2>1, BookTypes DEF Fillable, Priced, TypeOK
  <2>2. QED BY <2>1 DEF SolverInv
<1>7. (trades # {} \/ at = "panicked" \/ \E k \in Tokens : prices[k] # 0)'
        => (\E o, q \in Batch : Opposite(o, q))'
  BY <1>1, <1>6 DEF SolverInv, Opposite
<1>8. (pairs \subseteq TwoSidedPairs(live))'
  BY <1>1 DEF SolverInv, TwoSidedPairs, Forward, Backward
<1>9. QED BY <1>1, <1>5, <1>7, <1>8 DEF SolverInv, VisitedPairsDone, BestMatchedFirst

\* A panic takes orders on both sides of a pair, too.
LEMMA PanicStep ==
    ASSUME TypeOK, SolverInv, DivisionByZero \/ Overflow
    PROVE  SolverInv'
<1> USE DEF cowVars, priceVars
<1>1. /\ at \in {"pairs", "pricing", "match", "execute"} /\ at' = "panicked"
      /\ UNCHANGED <<book, live, pairs, trades>>
  BY DEF DivisionByZero, Overflow
<1>2. \E o, q \in Batch : Opposite(o, q)
  <2>1. CASE pairs # {}
    BY <2>1, PairHasBothSides
  <2>2. CASE at = "match" /\ \E s \in sellers, b \in buyers : Heads(s, b)
    BY <2>2, ListsUntraded DEF TypeOK
  <2>3. CASE at = "execute" /\ \E o \in remaining \cap Matchable : Priced(o)
    <3>1. \E k \in Tokens : prices[k] # 0
      BY <2>3, BookTypes DEF Priced, TypeOK
    <3>2. QED BY <3>1 DEF SolverInv
  <2>4. QED BY <2>1, <2>2, <2>3 DEF DivisionByZero, Overflow
<1>3. VisitedPairsDone'
  BY <1>1 DEF VisitedPairsDone
<1>4. QED BY <1>1, <1>2, <1>3, Undisturbed DEF SolverInv

LEMMA SolverStep ==
    ASSUME TypeOK, SolverInv, [Next]_vars
    PROVE  SolverInv'
<1>1. CASE UNCHANGED vars \/ Returned
  <2> USE DEF Matchable
  <2>1. UNCHANGED <<book, lapsed, at, live, pairs, sellers, buyers, remaining, prices, trades>>
    BY <1>1 DEF vars, cowVars, priceVars, Returned
  <2>2. VisitedPairsDone'
    BY <2>1 DEF SolverInv, VisitedPairsDone, TwoSidedPairs, NoOverlapOf, Forward,
       Backward, Overlap, SellerPrice, BuyerPrice, Traded
  <2>3. NoOverlapIn(remaining) => NoOverlapIn(remaining)'
    BY <2>1 DEF NoOverlapIn, Opposite, Overlap, SellerPrice, BuyerPrice, GivesFirst
  <2>4. QED BY <2>1, <2>2, <2>3, Undisturbed DEF SolverInv
<1>2. QED
  BY <1>1, LapseStep, GroupStep, VisitPairStep, MatchHeadsStep, LeavePairStep,
     PairsVisitedStep, CollectStep, RegroupStep, PricePairStep, ExecuteStep, PanicStep
     DEF Next, Step

-----------------------------------------------------------------------------
(* Limits, surpluses, and the side that the prices fill                    *)

LEMMA BookUnchanged ==
    ASSUME [Next]_vars
    PROVE  /\ UNCHANGED book
           /\ UNCHANGED trades \/ MatchHeads \/ Execute
  BY DEF Next, Step, vars, cowVars, priceVars, Lapse, Start, Group, VisitPair, MatchHeads,
     LeavePair, PairsVisited, Collect, Regroup, PricePair, PairsPriced, Execute,
     DivisionByZero, Overflow, Returned

\* What a turn of the loop adds.
LEMMA MatchedTrades ==
    ASSUME TypeOK, SolverInv, MatchHeads
    PROVE  \E s, b \in Batch :
              /\ trades' = trades \cup CowTrades(s, b)
              /\ Overlap(s, b) /\ CowPrice(s, b) # 0
              /\ GivesFirst(s) /\ ~GivesFirst(b)
<1>1. PICK s \in sellers, b \in buyers :
         /\ Heads(s, b)
         /\ CowPrice(s, b) # 0
         /\ trades' = trades \cup CowTrades(s, b)
  BY DEF MatchHeads
<1>2. s \in Batch /\ b \in Batch /\ GivesFirst(s) /\ ~GivesFirst(b)
  BY ListsUntraded DEF MatchHeads, TypeOK
<1>3. QED BY <1>1, <1>2 DEF Heads

\* What the second phase adds.
LEMMA PricedTrades ==
    ASSUME TypeOK, SolverInv, Execute, NEW t \in trades', t \notin trades
    PROVE  /\ t.order \in remaining /\ t.order \in Batch
           /\ Fillable(t.order) /\ t = PriceTrade(t.order)
           /\ t.by = "price" /\ t.sold = book[t.order].give
           /\ t.bought = EffectiveBuy(t.order)
<1>1. PICK o \in remaining \cap Matchable : Fillable(o) /\ t = PriceTrade(o)
  BY DEF Execute
<1>2. QED BY <1>1 DEF PriceTrade, TypeOK

\* Both trades of a match are within the limits of their orders.
LEMMA CowLimits ==
    ASSUME TypeOK, NEW s \in Batch, NEW b \in Batch, Overlap(s, b), CowPrice(s, b) # 0,
           NEW t \in CowTrades(s, b)
    PROVE  /\ t.by = "cow"
           /\ \/ /\ t.order = s
                 /\ t.sold <= book[s].give
                 /\ DividedBy(t.sold, AsMidpoint(SellerPrice(s))) <= t.bought
              \/ /\ t.order = b
                 /\ t.bought <= book[b].want
                 /\ AsMidpoint(BuyerPrice(b)) # 0 =>
                       t.sold <= DividedBy(t.bought, AsMidpoint(BuyerPrice(b)))
<1> DEFINE a == MatchedA(s, b)
           c == DividedBy(a, CowPrice(s, b))
<1>1. a \in Nat /\ a <= book[s].give /\ a <= book[b].want
  BY MatchedAType
<1>2. /\ t.by = "cow"
      /\ \/ t.order = s /\ t.sold = a /\ t.bought = c
         \/ t.order = b /\ t.sold = c /\ t.bought = a
  BY DEF CowTrades
<1> HIDE DEF a
<1>3. DividedBy(a, AsMidpoint(SellerPrice(s))) <= c
  BY <1>1, CowPriceBetween, DividedByAntitone
<1>4. AsMidpoint(BuyerPrice(b)) # 0 => c <= DividedBy(a, AsMidpoint(BuyerPrice(b)))
  BY <1>1, CowPriceBetween, DividedByAntitone
<1>5. QED BY <1>1, <1>2, <1>3, <1>4

LEMMA LimitsStep ==
    ASSUME TypeOK, SolverInv, LimitsRespected, [Next]_vars
    PROVE  LimitsRespected'
<1> DEFINE Within(t) ==
      LET o == t.order
      IN  /\ t.by = "price" => t.sold = book[o].give /\ book[o].want <= t.bought
          /\ (t.by = "cow" /\ GivesFirst(o)) =>
                /\ t.sold <= book[o].give
                /\ DividedBy(t.sold, AsMidpoint(SellerPrice(o))) <= t.bought
          /\ (t.by = "cow" /\ ~GivesFirst(o)) =>
                /\ t.bought <= book[o].want
                /\ AsMidpoint(BuyerPrice(o)) # 0 =>
                      t.sold <= DividedBy(t.bought, AsMidpoint(BuyerPrice(o)))
<1>1. UNCHANGED book
  BY BookUnchanged
<1>2. SUFFICES ASSUME NEW t \in trades', t \notin trades
               PROVE  Within(t)
  <2>1. \A t \in trades : Within(t)
    BY DEF LimitsRespected
  <2>2. \A t \in trades' : Within(t)
    BY <1>2, <2>1
  <2>3. QED BY <1>1, <2>2 DEF LimitsRespected, GivesFirst, SellerPrice, BuyerPrice
<1>3. CASE MatchHeads
  <2>1. PICK s, b \in Batch :
           /\ trades' = trades \cup CowTrades(s, b)
           /\ Overlap(s, b) /\ CowPrice(s, b) # 0
           /\ GivesFirst(s) /\ ~GivesFirst(b)
    BY <1>3, MatchedTrades
  <2>2. QED BY <1>2, <2>1, CowLimits
<1>4. CASE Execute
  BY <1>2, <1>4, PricedTrades DEF Fillable
<1>5. QED BY <1>2, <1>3, <1>4, BookUnchanged

\* A surplus of a match means that the exact limit was beaten, if the product it
\* is computed from is exact.
LEMMA CowSurplus ==
    ASSUME TypeOK, NEW s \in Batch, NEW b \in Batch, Overlap(s, b), CowPrice(s, b) # 0,
           NEW t \in CowTrades(s, b), t.surplus > 0
    PROVE  \/ /\ t.order = s
              /\ ExactProduct(t.sold, book[s].want) =>
                    t.sold * book[s].want < t.bought * book[s].give
           \/ /\ t.order = b
              /\ ExactProduct(t.bought, book[b].give) =>
                    t.sold * book[b].want < t.bought * book[b].give
<1> DEFINE a == MatchedA(s, b)
           c == DividedBy(a, CowPrice(s, b))
<1>1. /\ a \in Nat /\ c \in Nat /\ Rounded(c, 1) = c
      /\ book[s].give \in Nat \ {0} /\ book[s].want \in Nat
      /\ book[b].give \in Nat /\ book[b].want \in Nat \ {0}
  <2>1. a \in Nat /\ CowPrice(s, b) \in Nat \ {0}
    BY MatchedAType, CowPriceBetween
  <2> HIDE DEF a
  <2>2. c \in Nat /\ Rounded(c, 1) = c
    BY <2>1, OperationTypes, QuotientFixed
  <2>3. QED BY <2>1, <2>2, BookTypes
<1>2. \/ /\ t.order = s /\ t.sold = a /\ t.bought = c
         /\ t.surplus = BuyingSurplus(s, a, c)
      \/ /\ t.order = b /\ t.sold = c /\ t.bought = a
         /\ t.surplus = SellingSurplus(b, c, a)
  BY DEF CowTrades
<1> HIDE DEF a, c
<1>3. ASSUME BuyingSurplus(s, a, c) > 0, ExactProduct(a, book[s].want)
      PROVE  a * book[s].want < c * book[s].give
  <2> DEFINE x == DividedBy(Times(a, book[s].want), book[s].give)
  <2>1. x \in Nat
    BY <1>1, OperationTypes
  <2>2. x < c
    BY <1>1, <1>3, <2>1, ExcessPositive DEF BuyingSurplus
  <2>3. QED BY <1>1, <1>3, <2>2, ExactProductQuotient DEF ExactProduct
<1>4. ASSUME SellingSurplus(b, c, a) > 0, ExactProduct(a, book[b].give)
      PROVE  c * book[b].want < a * book[b].give
  <2> DEFINE x == DividedBy(Times(a, book[b].give), book[b].want)
  <2>1. x \in Nat
    BY <1>1, OperationTypes
  <2>2. c < x
    BY <1>1, <1>4, <2>1, ExcessPositive DEF SellingSurplus
  <2>3. QED BY <1>1, <1>4, <2>2, ExactProductQuotient DEF ExactProduct
<1>5. QED BY <1>2, <1>3, <1>4

LEMMA SurplusStep ==
    ASSUME TypeOK, SolverInv, SurplusIsReal, [Next]_vars
    PROVE  SurplusIsReal'
<1> DEFINE Real(t) ==
      LET d == book[t.order]
      IN  (/\ t.by = "cow" /\ t.surplus > 0
           /\ IF GivesFirst(t.order) THEN ExactProduct(t.sold, d.want)
                                     ELSE ExactProduct(t.bought, d.give))
          => t.sold * d.want < t.bought * d.give
<1>1. UNCHANGED book
  BY BookUnchanged
<1>2. SUFFICES ASSUME NEW t \in trades', t \notin trades
               PROVE  Real(t)
  <2>1. \A t \in trades : Real(t)
    BY DEF SurplusIsReal
  <2>2. \A t \in trades' : Real(t)
    BY <1>2, <2>1
  <2>3. QED BY <1>1, <2>2 DEF SurplusIsReal, GivesFirst
<1>3. CASE MatchHeads
  <2>1. PICK s, b \in Batch :
           /\ trades' = trades \cup CowTrades(s, b)
           /\ Overlap(s, b) /\ CowPrice(s, b) # 0
           /\ GivesFirst(s) /\ ~GivesFirst(b)
    BY <1>3, MatchedTrades
  <2>2. QED BY <1>2, <2>1, CowSurplus
<1>4. CASE Execute
  BY <1>2, <1>4, PricedTrades
<1>5. QED BY <1>2, <1>3, <1>4, BookUnchanged

\* Two opposite limits that a common rate p : r is within overlap.
LEMMA CommonRate ==
    ASSUME NEW p \in Nat \ {0}, NEW r \in Nat \ {0},
           NEW giveO \in Nat, NEW wantO \in Nat, NEW giveQ \in Nat, NEW wantQ \in Nat,
           wantO * r <= giveO * p,
           wantQ * p <= giveQ * r
    PROVE  wantQ * wantO <= giveO * giveQ
<1>1. (wantO * r) * (wantQ * p) <= (giveO * p) * (giveQ * r)
  <2>1. /\ wantO * r \in Nat /\ wantQ * p \in Nat
        /\ giveO * p \in Nat /\ giveQ * r \in Nat
    BY ProductType
  <2>2. (wantO * r) * (wantQ * p) <= (wantO * r) * (giveQ * r)
    BY <2>1, ProductMonotone
  <2>3. (giveQ * r) * (wantO * r) <= (giveQ * r) * (giveO * p)
    BY <2>1, ProductMonotone
  <2>4. /\ (giveQ * r) * (wantO * r) = (wantO * r) * (giveQ * r)
        /\ (giveQ * r) * (giveO * p) = (giveO * p) * (giveQ * r)
    OBVIOUS
  <2>5. /\ (wantO * r) * (wantQ * p) \in Nat /\ (wantO * r) * (giveQ * r) \in Nat
        /\ (giveO * p) * (giveQ * r) \in Nat
    BY <2>1, ProductType
  <2>6. QED BY <2>2, <2>3, <2>4, <2>5
<1>2. /\ (wantO * r) * (wantQ * p) = (p * r) * (wantQ * wantO)
      /\ (giveO * p) * (giveQ * r) = (p * r) * (giveO * giveQ)
  OBVIOUS
<1>3. p * r \in Nat \ {0} /\ wantQ * wantO \in Nat /\ giveO * giveQ \in Nat
  BY ProductType
<1>4. QED BY <1>1, <1>2, <1>3, ProductCancel

\* Two opposite orders that the prices both fill, without rounding either fill
\* up, would have overlapped.
LEMMA FillableOverlap ==
    ASSUME TypeOK, NEW o \in Batch, NEW q \in Batch, Opposite(o, q),
           Fillable(o), Fillable(q),
           EffectiveBuy(o) * prices[book[o].buy] <= book[o].give * prices[book[o].sell],
           EffectiveBuy(q) * prices[book[q].buy] <= book[q].give * prices[book[q].sell]
    PROVE  Overlap(o, q)
<1> DEFINE p == prices[book[o].sell]
           r == prices[book[o].buy]
<1>1. p \in Nat \ {0} /\ r \in Nat \ {0}
  BY PriceTradeType
<1>2. /\ EffectiveBuy(o) \in Nat /\ EffectiveBuy(q) \in Nat
      /\ book[o].want <= EffectiveBuy(o) /\ book[q].want <= EffectiveBuy(q)
  BY PriceTradeType DEF Fillable
<1>3. /\ book[o].give \in Nat /\ book[o].want \in Nat \ {0}
      /\ book[q].give \in Nat \ {0} /\ book[q].want \in Nat
  BY BookTypes
<1>4. /\ EffectiveBuy(o) * r <= book[o].give * p
      /\ EffectiveBuy(q) * p <= book[q].give * r
  BY DEF Opposite
<1> HIDE DEF p, r
<1>5. book[o].want * r <= book[o].give * p
  <2>1. r * book[o].want <= r * EffectiveBuy(o)
    BY <1>1, <1>2, <1>3, ProductMonotone
  <2>2. QED BY <1>1, <1>2, <1>3, <1>4, <2>1, ProductType
<1>6. book[q].want * p <= book[q].give * r
  <2>1. p * book[q].want <= p * EffectiveBuy(q)
    BY <1>1, <1>2, <1>3, ProductMonotone
  <2>2. QED BY <1>1, <1>2, <1>3, <1>4, <2>1, ProductType
<1>7. book[q].want * book[o].want <= book[o].give * book[q].give
  BY <1>1, <1>3, <1>5, <1>6, CommonRate
<1>8. QED BY <1>3, <1>7, DividedByMonotone DEF Overlap, BuyerPrice, SellerPrice

LEMMA OneSideStep ==
    ASSUME TypeOK, SolverInv, PricesFillOneSide, [Next]_vars
    PROVE  PricesFillOneSide'
<1>1. UNCHANGED book
  BY BookUnchanged
<1>2. CASE at # "execute"
  <2>1. \A t \in trades' : t.by = "price" => t \in trades
    BY <1>2, BookUnchanged, MatchedTrades DEF Execute, CowTrades
  <2>2. trades # {} /\ at # "done" => \A t \in trades : t.by = "cow"
    BY DEF SolverInv
  <2>3. at = "done" => UNCHANGED <<trades, prices>>
    BY DEF Next, Step, vars, cowVars, priceVars, Lapse, Start, Group, VisitPair, MatchHeads,
       LeavePair, PairsVisited, Collect, Regroup, PricePair, PairsPriced, Execute, DivisionByZero, Overflow,
       Returned
  <2>4. CASE at = "done"
    BY <1>1, <2>3, <2>4 DEF PricesFillOneSide, RoundedUp
  <2>5. CASE at # "done"
    BY <1>1, <2>1, <2>2, <2>5 DEF PricesFillOneSide
  <2>6. QED BY <2>4, <2>5
<1>3. CASE at = "execute" /\ ~Execute
  <2>1. \A t \in trades' : t.by = "cow"
    BY <1>3, BookUnchanged DEF MatchHeads, SolverInv
  <2>2. QED BY <2>1 DEF PricesFillOneSide
<1>4. CASE Execute
  <2>1. /\ \A t \in trades : t.by = "cow"
        /\ NoOverlapIn(remaining)
        /\ UNCHANGED prices
    BY <1>4 DEF Execute, SolverInv, priceVars
  <2>2. ASSUME NEW t \in trades', t.by = "price"
        PROVE  /\ t.order \in remaining /\ t.order \in Batch
               /\ Fillable(t.order)
               /\ t.sold = book[t.order].give /\ t.bought = EffectiveBuy(t.order)
    BY <1>4, <2>1, <2>2, PricedTrades
  <2>3. ASSUME NEW t \in trades', NEW u \in trades', t.by = "price", u.by = "price",
               Opposite(t.order, u.order)
        PROVE  RoundedUp(t) \/ RoundedUp(u)
    <3> SUFFICES ASSUME ~RoundedUp(t), ~RoundedUp(u)
                 PROVE  FALSE
      OBVIOUS
    <3>1. /\ t.order \in remaining /\ t.order \in Batch /\ Fillable(t.order)
          /\ u.order \in remaining /\ u.order \in Batch /\ Fillable(u.order)
          /\ Opposite(u.order, t.order)
      BY <2>2, <2>3 DEF Opposite
    <3>2. \A o \in Batch : Fillable(o) =>
             /\ EffectiveBuy(o) * prices[book[o].buy] \in Nat
             /\ book[o].give * prices[book[o].sell] \in Nat
      BY PriceTradeType, BookTypes, ProductType
    <3>3. /\ EffectiveBuy(t.order) * prices[book[t.order].buy]
               <= book[t.order].give * prices[book[t.order].sell]
          /\ EffectiveBuy(u.order) * prices[book[u.order].buy]
               <= book[u.order].give * prices[book[u.order].sell]
      BY <2>2, <2>3, <3>1, <3>2 DEF RoundedUp
    <3>4. Overlap(t.order, u.order) /\ Overlap(u.order, t.order)
      BY <2>3, <3>1, <3>3, FillableOverlap
    <3>5. GivesFirst(t.order) \/ GivesFirst(u.order)
      BY <2>3, <3>1, BookTypes DEF GivesFirst, Opposite
    <3>6. QED BY <2>1, <2>3, <3>1, <3>4, <3>5 DEF NoOverlapIn
  <2>4. QED BY <1>1, <2>1, <2>3 DEF PricesFillOneSide, Opposite, RoundedUp
<1>5. QED BY <1>2, <1>3, <1>4

-----------------------------------------------------------------------------
(* Theorems                                                                *)

\* The inductive invariant: what the pairs visited so far leave behind, that
\* the best orders were matched first, what the remaining orders have in common.
THEOREM SolverInvariant == Spec => [](TypeOK /\ SolverInv)
<1>1. TypeOK /\ SolverInv /\ [Next]_vars => (TypeOK /\ SolverInv)'
  BY SolverTypeStep, SolverStep
<1>2. QED BY <1>1, SolverInit, PTL DEF Spec

\* What the solver keeps has its type: no amount, price or surplus is negative,
\* and none comes from a division by a price that was rounded to 0, before which
\* solve() panics.
THEOREM SolverTypeCorrect == Spec => []TypeOK
  BY SolverInvariant, PTL

\* No order is filled twice, neither by two matches nor by a match and a price.
THEOREM OrdersFilledOnce == Spec => []FilledOnce
<1>1. SolverInv => FilledOnce
  BY DEF SolverInv
<1>2. QED BY <1>1, SolverInvariant, PTL

\* find_cows leaves no coincidence of wants behind, in whatever order it visits
\* the pairs and breaks ties of equal prices, and however prices are rounded.
THEOREM MatchingIsComplete == Spec => []NoCowLeft
<1>1. TypeOK /\ SolverInv => NoCowLeft
  <2> SUFFICES ASSUME TypeOK, SolverInv, at = "collect" PROVE NoCowLeft
    BY DEF NoCowLeft
  <2>1. NoOverlapIn(live \ Traded)
    BY NobodyOverlaps DEF SolverInv, VisitedPairsDone
  <2>2. QED BY <2>1 DEF NoCowLeft, NoOverlapIn, Opposite, GivesFirst
<1>2. QED BY <1>1, SolverInvariant, PTL

\* find_cows matches the best orders of each side of a pair.
THEOREM BestOrdersMatched == Spec => []BestMatchedFirst
<1>1. SolverInv => BestMatchedFirst
  BY DEF SolverInv
<1>2. QED BY <1>1, SolverInvariant, PTL

\* Every fill respects the limit of its order as the code computes it, whichever
\* phase made it and however prices are rounded.
THEOREM LimitsHold == Spec => []LimitsRespected
<1>1. Init => LimitsRespected
  BY DEF Init, LimitsRespected
<1>2. TypeOK /\ SolverInv /\ LimitsRespected /\ [Next]_vars => LimitsRespected'
  BY LimitsStep
<1>3. QED BY <1>1, <1>2, SolverInvariant, PTL DEF Spec

\* A surplus of a match is no artefact of the two quotients it is computed from.
THEOREM SurplusesAreReal == Spec => []SurplusIsReal
<1>1. Init => SurplusIsReal
  BY DEF Init, SurplusIsReal
<1>2. TypeOK /\ SolverInv /\ SurplusIsReal /\ [Next]_vars => SurplusIsReal'
  BY SurplusStep
<1>3. QED BY <1>1, <1>2, SolverInvariant, PTL DEF Spec

\* The clearing prices never fill orders on both sides of a pair, unless a fill
\* was rounded up.
THEOREM PricesAreOneSided == Spec => []PricesFillOneSide
<1>1. Init => PricesFillOneSide
  BY DEF Init, PricesFillOneSide
<1>2. TypeOK /\ SolverInv /\ PricesFillOneSide /\ [Next]_vars => PricesFillOneSide'
  BY OneSideStep
<1>3. QED BY <1>1, <1>2, SolverInvariant, PTL DEF Spec

\* There is neither a solution nor a panic of a batch whose orders all go in one
\* direction.
THEOREM SolutionsAreTwoSided == Spec => []SolutionIsTwoSided
<1>1. SolverInv => SolutionIsTwoSided
  BY DEF SolverInv, SolutionIsTwoSided, Opposite
<1>2. QED BY <1>1, SolverInvariant, PTL

=============================================================================
