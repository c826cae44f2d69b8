SPECIFICATION Spec
CONSTANTS
    Segments <- SomeSegments
    GivenPrefixes <- SomePrefixes
    MaxSegments = 3
    Shared = {"shared"}
    Reserved = {"con"}
    Drives = {"c:"}
    Links = {"l"}
INVARIANTS AcceptedIffInside SameNameBack
CHECK_DEADLOCK FALSE
