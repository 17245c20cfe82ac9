\* Lookup by hash over colliding hint buckets.
CONSTANTS
    t1 = t1
    t2 = t2
    t3 = t3
    Txs <- MCTxs
    Prefix <- MCPrefixCollide
    Heights <- MCHeights
    Dups <- MCDups

SPECIFICATION Spec

INVARIANT TypeOK
INVARIANT ByHashFindsTx
