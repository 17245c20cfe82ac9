\* Seeks, steps, prefix scans and lazy key reads over every snapshot.
CONSTANTS
    NumPrefixes <- MCNumPrefixes
    NumTails <- MCNumTails

SPECIFICATION Spec

INVARIANT TypeOK
INVARIANT SeekToBeforeFindsFloor
INVARIANT GetKeyIsCurrent
