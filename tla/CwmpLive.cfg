\* One download, one crash, one failed session in a row, under fairness.
SPECIFICATION LiveSpec
CONSTANTS
    NoKey = NoKey
    None = None
    Downloads = {d1}
    Keys = {}
    Urls = {u1}
    RequestCodes = {}
    MAX_DOWNLOAD = 1
    MaxRetry = 1
    MaxExit = 1
PROPERTIES
    TransferReported
    GetRpcMethodsDone
