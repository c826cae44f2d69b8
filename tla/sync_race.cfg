CONSTANTS
    a = a
    b = b
    plain = plain
    dot = dot
    Absent = Absent
    Content <- TwoContents
    Size <- SizeOfTwo
    Files = {plain}
    Hidden = {}
    Ignored = {}
    EditsDuringRun = TRUE
    ListingCanFail = TRUE
    MaxMtime = 3
SPECIFICATION HSpec
PROPERTIES
    RecordsWhatBothHeld
    NothingUnasked
    EveryCommandEnds
