CONSTANTS
    a = a
    b = b
    plain = plain
    dot = dot
    Absent = Absent
    Content <- TwoContents
    Size <- SizeOfTwo
    Files = {plain, dot}
    Hidden = {dot}
    Ignored = {}
    EditsDuringRun = FALSE
    ListingCanFail = FALSE
    MaxMtime = 3
SPECIFICATION Spec
INVARIANTS
    TypeOK
    ValidatorsSound
    ExitOkMeansDone
    TransferredIsSettled
PROPERTIES
    ImplementsSafeSync
