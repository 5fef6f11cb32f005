\* Every book of four orders over three tokens, amounts 4 and 90, in a Decimal of
\* two digits of which one may stand behind the point: prices are rounded.
CONSTANTS
    Batch = {1, 2, 3, 4}
    Tokens = {1, 2, 3}
    Amounts = {40, 900}
    MaxLapses = 1
    Unit = 10
    Limit = 100
    Steps = {1, 10, 100}
SPECIFICATION ListedSpec
INVARIANTS
    TypeOK
    LimitsRespected
    FilledOnce
    NoCowLeft
    BestMatchedFirst
    SurplusIsReal
    SolutionIsTwoSided
    PricesFillOneSide
PROPERTIES
    Terminates
