SPECIFICATION Spec
CONSTANTS
    NoExport = NoExport  NoService = NoService
    Exports = {x1}
    Workers = {w1, w2}
    Declared = {a, b}
    Listed = {b}
    Registered = {a}
    RegistrySound = TRUE
    PeerPaths = {"key"}
    Deadline = 1
    Ttl = 1
    Cooldown = 1
    MaxRetries = 1
    MaxNow = 0
    Failing = {"bucket"}
    MaxFailures = 1
INVARIANT NothingMissingUnnamed
CHECK_DEADLOCK FALSE
