CONSTANTS
    NumConns = 2
    NumClients = 2
    Count = 1
    Dyn = {d1}
    MaxSeq = 2
    MaxResize = 1
    LegacyApp = TRUE
    Backpressure = FALSE
    Pacing = FALSE
    Crashes = TRUE
SPECIFICATION Spec
INVARIANTS TypeOK SingleConsumer DirtyNamesKnownSurface CurrentGeneration PendingOwnedByLive ConsumerReadsWhole
PROPERTIES HandshakeRecoversDirect OwnershipContract
CHECK_DEADLOCK FALSE
