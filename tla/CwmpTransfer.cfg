\* Two downloads, one crash, one failed session in a row.
SPECIFICATION Spec
CONSTANTS
    NoKey = NoKey
    None = None
    Downloads = {d1, d2}
    Keys = {}
    Urls = {u1}
    RequestCodes = {"CONNECTION_REQUEST"}
    MAX_DOWNLOAD = 1
    MaxRetry = 1
    MaxExit = 1
SYMMETRY Symmetry
INVARIANTS
    TypeOK
    NoStrandedWork
    BackupAgrees
    DownloadSlots
    TransferAccounted
    ReportTruthful
    CompleteTimeKnown
PROPERTIES
    ForgetOnlyTold
    LedgerKept
