\* Fullnode block ingest with crashes and a rebuild: linearization, history
\* summaries and completion.
CONSTANTS
    Mode = "FULL"
    A = A
    B = B
    o1 = o1
    o2 = o2
    o3 = o3
    o4 = o4
    MaxHeight <- MCMaxHeight
    MaxCrashes <- MCMaxCrashes
    MaxResets <- MCMaxResets
    Addrs <- MCAddrs
    OwnerOf <- MCOwnerOf
    ValueOf <- MCValueOf
    Creates <- MCCreates
    Spends <- MCSpends

SPECIFICATION Spec

INVARIANT TypeOK
INVARIANT TopLinearizes
INVARIANT HistoryMatchesBlocks
PROPERTY BlocksEventuallyComplete

\* The raw block stream is finite here: once the last block is in, the
\* writer waits for the next one.
CHECK_DEADLOCK FALSE
