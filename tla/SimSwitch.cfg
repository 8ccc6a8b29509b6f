\* The daemon and one other process.
SPECIFICATION FairSpec
CONSTANTS
    MaxProc = 2
    Default = "sim1"
    Rules <- LoopRules
    On <- LoopOn
    Limit <- LoopLimit
    Forgotten = {"signal"}
    TimeoutOn = {"sim2"}
    Initial = 1
    Subsequent = 1
    SubMax = 2
    Settle = 0
    MaxWait = 1
INVARIANTS
    TypeOK
    ServicesFollow
    
PROPERTIES
    ReturnsToDefault
CHECK_DEADLOCK FALSE
