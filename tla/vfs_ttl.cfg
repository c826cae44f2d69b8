SPECIFICATION LSpec
CONSTANTS
    Paths = {a}
    Block = 2
    MaxBytes = 3
    Readahead = 1
    Ttl = 1
    Requests <- AllRequests
    Sizes = {1, 3}
    MaxEvents = 3
    MaxNow = 2
INVARIANTS AnswersAreRecent
PROPERTIES EveryCallReturns
CHECK_DEADLOCK FALSE
