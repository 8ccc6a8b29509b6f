\* One download and one restart.
SPECIFICATION Spec
CONSTANTS
    NoKey = NoKey
    None = None
    Downloads = {d1}
    Keys = {}
    Urls = {u1}
    RequestCodes = {}
    MAX_DOWNLOAD = 1
    MaxRetry = 1
    MaxExit = 1
INVARIANT InformClears
