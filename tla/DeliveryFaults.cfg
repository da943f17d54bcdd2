SPECIFICATION Spec

CONSTANTS
    r1 = r1
    r2 = r2
    c1 = c1
    c2 = c2
    p1 = p1
    p2 = p2
    NoPull = NoPull
    Requests <- TwoRequests
    Reconcilers <- TwoReconcilers
    PullRequests <- TwoPulls
    MaxOperations = 3
    Faults = {"crash", "error", "panic", "late", "close", "drift", "disconnect"}

INVARIANT ClaimsSound
PROPERTY PublishedStays
PROPERTY UnknownNeedsReconcile
