SPECIFICATION Spec
CONSTANTS
    Procs = {p1, p2}
    Nobody = Nobody
    Platforms = {"darwin", "linux", "win"}
    Letters = {1, 2}
    Coders = {p1}
    Pointers = {p2}
    MaxEvents = 2
INVARIANTS TypeOK NothingShadowed NothingLeftBehind NoStraySignal
PROPERTY UserDataKept
CHECK_DEADLOCK FALSE
