\* The daemon and one other process.
SPECIFICATION FairSpec
CONSTANTS
    MaxProc = 2
    Default = "sim1"
    Rules <- DataRule
    On <- DataOn
    Limit <- DataLimit
    Forgotten = {}
    TimeoutOn = {"sim2"}
    Initial = 1
    Subsequent = 0
    SubMax = 1
    Settle = 0
    MaxWait = 1
PROPERTIES
    ModemComesBack
CHECK_DEADLOCK FALSE
