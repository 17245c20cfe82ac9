\* Rendezvous safety and liveness with failures and shutdown enabled.
CONSTANTS
    c1 = c1
    c2 = c2
    Callers <- MCCallers
    MaxNotify <- MCMaxNotify

SPECIFICATION Spec

INVARIANT TypeOK
INVARIANT CoalescedRunServesWaiters
PROPERTY RendezvousSpec
PROPERTY WaitRunReturns
PROPERTY ShutdownAnswerHonoured

\* The worker thread really exits (shutdown or failure), and notify() is bounded.
CHECK_DEADLOCK FALSE
