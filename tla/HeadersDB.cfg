\* HEADERS indices and the valid-dupID table under transactions, aborts,
\* crashes, nukeHeadersDB, and restarts configured for another network.
CONSTANTS
    g0 = g0
    a1 = a1
    b1 = b1
    c1 = c1
    t0 = t0
    Main = Main
    Test = Test
    Hashes <- MCHashes
    HeightOf <- MCHeightOf
    DupMod <- MCDupMod
    Nets <- MCNets
    NetOf <- MCNetOf

SPECIFICATION Spec

INVARIANT TypeOK
INVARIANT HeaderIndexesAgree
INVARIANT ValidDupResolves
INVARIANT StoreHoldsOneNetwork
PROPERTY ValidChainSpec
