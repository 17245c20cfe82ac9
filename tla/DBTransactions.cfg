\* Fullnode layout: routing, and eventual commit of every write.
CONSTANTS
    DBs <- MCDBs
    Mode = "FULL"
    MaxDepth <- MCMaxDepth
    MaxCalls <- MCMaxCalls
    MaxTxn <- MCMaxTxn

SPECIFICATION Spec

INVARIANT TypeOK
INVARIANT NoUncoveredPut
PROPERTY WritesEventuallyCommitted
