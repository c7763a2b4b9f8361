SPECIFICATION FairSpec
CONSTANTS
    Requests = {r1, r2, r3}
    AccountIds = {1, 2, 3, 4}
    Profile <- MCProfile
    Opened = {1, 2, 3, 4}
    Keys = {k1, k2}
    NoKey = NoKey
    BadKey = BadKey
    Bodies = {"invoice", "invoice3"}
    WellFormed = {"invoice", "invoice3"}
    Command <- MCCommand
    Hashes = {"invoice", "invoice3"}
    Fingerprint <- MCFingerprint
    Currencies = {"USD"}
    Supported = {"USD"}
    ref1 = ref1
    Refs = {ref1}
    NoRef = NoRef
    MaxBalance = 3
    MaxConns = 2
    MaxFaults = 1
    NoRow = NoRow
    NoTx = NoTx
INVARIANTS
    LedgerInv
    RefUsedOnce
PROPERTIES
    EveryRequestAnswered
