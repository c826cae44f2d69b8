CONSTANTS
    a = a
    b = b
    plain = plain
    dot = dot
    Absent = Absent
    Content <- TwoContents
    Size <- SizeOfTwo
    Files = {plain}
    Hidden = {}
    Ignored = {}
    EditsDuringRun = FALSE
    ListingCanFail = FALSE
    MaxMtime = 3
SPECIFICATION Spec
PROPERTIES
    ConflictsAreLeftAlone
