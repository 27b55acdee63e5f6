\* Two handlers racing on p.mu, a backend that may crash, Stop at any time.
CONSTANTS
    Clients = {c1, c2}
    Main = m
    MaxID = 5
    BackendCanCrash = TRUE
    BackendNotifies = FALSE
    MaxNotify = 0
SPECIFICATION Spec
INVARIANT ResponseCorrelation
INVARIANT Lockstep
PROPERTY ImplementsRPC
