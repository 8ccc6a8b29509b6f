\* Two downloads, the daemon restarted between them.
SPECIFICATION Spec
CONSTANTS
    NoKey = NoKey
    None = None
    Downloads = {d1, d2}
    Keys = {}
    Urls = {u1}
    RequestCodes = {}
    MAX_DOWNLOAD = 2
    MaxRetry = 1
    MaxExit = 1
PROPERTY OwnReportRemoves
