SPECIFICATION FairSpec
CONSTANTS
    Value = {u}
    Absent = Absent
    None = None
    Ops = {"write", "read", "remove"}
    MaxReconnects = 1
    MaxCalls = 2
    MaxKernels = 3
INVARIANTS TypeOK AnswersAreOwn ExecutedInOrder OneKernel
PROPERTIES EveryCallReturns
CHECK_DEADLOCK FALSE
