\* getStoredScriptHistory over every stored set of shards and every range.
CONSTANTS
    Base <- MCBase
    MaxHeight <- MCMaxHeight

SPECIFICATION Spec

INVARIANT TypeOK
INVARIANT SSHRangeExact

\* Each behaviour is one call of getStoredScriptHistory, which returns.
CHECK_DEADLOCK FALSE
