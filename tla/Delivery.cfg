SPECIFICATION Spec
CONSTANTS
    Events = {1, 2}
    Relays = {relay1, relay2}
    Replayers = {replay1}
    Readers = {}
    MaxAttempts = 2
    BatchSize = 2
    MaxFaults = 1
INVARIANTS
    OutboxInv
    NothingLost
    HistoryExplainsStatus
    NoConcurrentDelivery
    BackoffDoublesToCap
PROPERTIES
    RelayTakesPendingOnly
    DeliveriesAppendOnly
