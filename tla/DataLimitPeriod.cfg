SPECIFICATION Spec
CONSTANTS
    Sims = {sim1, sim2}
    Ifaces = {ppp, wwan}
    Cycle = 2
    StartDay = 1
    Length = 4
    Limits = {1, 2}
    MaxDay = 2
    MaxTraffic = 2
    MaxEvents = 2
PROPERTIES
    LimitEnforced
CHECK_DEADLOCK FALSE
