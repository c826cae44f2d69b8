SPECIFICATION Spec
CONSTANTS
    Names = {1, 2}
    Fold <- CaseAtHome
    Elsewhere = OtherToken
    Tokens = {t1, t2}
    Sites = {s1}
    NoSite = NoSite
    Missing = Missing
    Nobody = Nobody
    UserToken = UserToken
    OtherToken = OtherToken
    Fallbacks = {"legacy"}
    MaxCommands = 3
SYMMETRY Symmetry
INVARIANTS TypeOK OwnTokenOrNone OthersUnharmed MenuShowsRegistry ChoiceIsUsed
CHECK_DEADLOCK FALSE
