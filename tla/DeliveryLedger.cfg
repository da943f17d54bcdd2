SPECIFICATION FairSpec

CONSTANTS
    r1 = r1
    r2 = r2
    c1 = c1
    c2 = c2
    p1 = p1
    p2 = p2
    NoPull = NoPull
    Requests <- TwoRequests
    Reconcilers <- TwoReconcilers
    PullRequests <- TwoPulls
    MaxOperations = 3
    Faults = {"crash", "panic", "close"}

INVARIANT PullsSound
INVARIANT PushedIsIntegrated
PROPERTY ImplementsLedger
PROPERTY OperationsResolve
PROPERTY ReconcileFreed
