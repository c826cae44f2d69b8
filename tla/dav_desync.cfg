SPECIFICATION Spec
CONSTANTS
    Conns = {c1}
    Dir = Dir
    File = File
    Other = Other
    NoPath = NoPath
    Sizes = {1, 2}
    BodyVerbs = {"PUT", "LOCK", "PROPPATCH", "PROPFIND"}
    UnsizedVerbs = {"PUT"}
    MaxRequests = 2
    MaxBeside = 1
INVARIANTS AnswersAreOwn
CHECK_DEADLOCK FALSE
