SPECIFICATION BlockSpec
CONSTANTS
    Paths = {a, b}
    Block = 2
    MaxBytes = 3
    Readahead = 1
    Ttl = 1
    Requests <- AllRequests
    Sizes = {1, 4}
    MaxEvents = 4
    MaxNow = 1
SYMMETRY PathSymmetry
INVARIANTS TypeOK ReadsAreFresh ReadsAreExact Accounting
CHECK_DEADLOCK FALSE
