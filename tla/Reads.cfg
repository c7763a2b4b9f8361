SPECIFICATION Spec
CONSTANTS
    Requests = {1, 2}
    AccountIds = {1, 2}
    Profile <- MCProfile
    Opened = {1, 2}
    Keys = {k1, k2}
    NoKey = NoKey
    BadKey = BadKey
    Bodies = {"fund"}
    WellFormed = {"fund"}
    Command <- MCCommand
    Hashes = {"fund"}
    Fingerprint <- MCFingerprint
    Currencies = {"USD"}
    Supported = {"USD"}
    Refs = {}
    NoRef = NoRef
    MaxBalance = 9
    MaxConns = 2
    MaxFaults = 1
    NoRow = NoRow
    NoTx = NoTx
    Relays = {relay1}
    Replayers = {replay1}
    Readers = {v}
    MaxAttempts = 1
    BatchSize = 2
    MaxWorkerFaults = 1
INVARIANTS
    EventsRebuildBalances
    PagesComplete
    ViewsComplete
