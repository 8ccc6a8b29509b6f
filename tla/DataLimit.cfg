SPECIFICATION Spec
CONSTANTS
    Sims = {sim1, sim2}
    Ifaces = {ppp, wwan}
    Cycle = 1
    StartDay = 0
    Length = 2
    Limits = {1, 2}
    MaxDay = 1
    MaxTraffic = 2
    MaxEvents = 2
SYMMETRY SimSymmetry
INVARIANTS
    LimitTypeOK
    NeverOvercounts
    GivenBack
PROPERTIES
    LimitEnforced
CHECK_DEADLOCK FALSE
