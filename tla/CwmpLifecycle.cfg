\* One download, a scheduled inform or reboot, two ACS URLs, one exit.
SPECIFICATION Spec
CONSTANTS
    NoKey = NoKey
    None = None
    Downloads = {d1}
    Keys = {k1}
    Urls = {u1, u2}
    RequestCodes = {"CONNECTION_REQUEST"}
    MAX_DOWNLOAD = 1
    MaxRetry = 1
    MaxExit = 1
SYMMETRY Symmetry
INVARIANTS
    NoStrandedWork
    BackupAgrees
    BootstrapOwed
PROPERTY ForgetOnlyTold
