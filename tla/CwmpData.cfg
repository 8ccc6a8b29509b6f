SPECIFICATION Spec
CONSTANTS
    en1 = en1
    en2 = en2
    Params <- MCParams
    Names <- MCNames
    Options = {"url", "wl0"}
    SetOpt <- MCOption
    GetOpt <- MCOption
    Values = {"a", "b"}
    ReadOnly = {}
    Invalid <- MCInvalid
    Own = {"url"}
    MaxNames = 2
    MaxEvents = 3
SYMMETRY Symmetry
INVARIANTS
    DataTypeOK
    NoChangeLost
    RefusedNotApplied
    NothingLeftOver
CHECK_DEADLOCK FALSE
