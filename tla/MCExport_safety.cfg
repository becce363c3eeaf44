SPECIFICATION FairSpec
CONSTANTS
    NoExport = NoExport  NoService = NoService
    Exports = {x1}
    Workers = {w1, w2}
    Declared = {a, b}
    Listed = {b}
    Registered = {a}
    RegistrySound = TRUE
    PeerPaths = {"key", "empty", "foreign"}
    Deadline = 1
    Ttl = 1
    Cooldown = 1
    MaxRetries = 1
    MaxNow = 2
    Failing = {"enqueue", "provider", "bucket", "assembly", "delete", "crash"}
    MaxFailures = 1
INVARIANTS ExportTypeOK AssembledOnce ServedOnce AvailableUntilExpiry NoSliceLost CompleteArchive ExpiredMeansGone
PROPERTIES DeadlineAssembles ImplementsDelivery
CHECK_DEADLOCK FALSE
