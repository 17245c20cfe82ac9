\* Supernode layout: does a put inside a transaction begun for its own DB_SELECT find a transaction?
CONSTANTS
    DBs <- MCDBs
    Mode = "SUPER"
    MaxDepth <- MCMaxDepth
    MaxCalls <- MCMaxCalls
    MaxTxn <- MCMaxTxn

SPECIFICATION Spec

INVARIANT NoUncoveredPut
