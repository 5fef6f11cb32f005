\* Two matches of one pair.
CONSTANTS
    Batch = {1, 2, 3, 4}
    Tokens = {1, 2}
    Amounts = {100, 200}
    MaxLapses = 0
    Unit = 100
    Limit = 1000
    Steps = {1, 10, 100, 1000}
SPECIFICATION ListedSpec
INVARIANT
    UniformPrice
