SPECIFICATION Spec
CONSTANTS
    Bytes = {"0", "1", "-", "e", "j", "b", "C", "D", "x", "K"}
    Programs <- SmallPrograms
    Commands = {"run", "terminal"}
    ClearSeq <- ClearLine
    Chunks = {3, 20}
    MaxTries = 2
    MaxWire = 8
INVARIANTS TypeOK ScreenIsOutput AllShownWhenHeld NothingLeft
PROPERTIES RunEnds
CHECK_DEADLOCK FALSE
