SPECIFICATION Spec
CONSTANTS
    Conns = {c1, c2}
    Dir = Dir
    File = File
    Other = Other
    NoPath = NoPath
    Sizes = {1, 2}
    BodyVerbs = {"PUT", "LOCK", "PROPPATCH"}
    UnsizedVerbs = {}
    MaxRequests = 2
    MaxBeside = 1
SYMMETRY Symmetry
INVARIANTS TypeOK AnswersAreOwn AnswerWasTrue NobodyWaitsInVain
CHECK_DEADLOCK FALSE
