\* Two opposite orders whose limits do not meet are enough.
CONSTANTS
    Batch = {1, 2}
    Tokens = {1, 2}
    Amounts = {100, 200}
    MaxLapses = 0
    Unit = 100
    Limit = 1000
    Steps = {1, 10, 100, 1000}
SPECIFICATION ListedSpec
INVARIANT
    NoPhantomFills
