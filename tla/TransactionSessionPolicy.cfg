SPECIFICATION MCSpec
CONSTANTS
    r1 = r1
    a = a
    b = b
    Requests <- MCRequests
    Adapters <- MCAdapters
    Configs <- MCConfigs
    NoTxn = NoTxn
    NoSession = NoSession
    NoCall = NoCall
    NoView = NoView
    MaxCalls = 2
    MaxWrites = 1
PROPERTIES
    PredicateIsOfTheSnapshot
