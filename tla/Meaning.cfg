SPECIFICATION Spec
CONSTANTS
    Requests = {r1, r2}
    AccountIds = {1, 2, 4, 5, 6}
    Text <- MCText
    AccountOf <- MCAccountOf
    IntegerOf <- MCIntegerOf
    MaxKeyLength = 3
    Profile <- MCProfile
    Opened = {1, 2}
    Keys <- MCKeys
    NoKey <- MCNoKey
    BadKey <- MCBadKey
    Bodies = {"plain", "null", "uppercase"}
    WellFormed <- MCWellFormed
    Command <- MCCommand
    Hashes = {"plain", "null", "uppercase"}
    Fingerprint <- MCFingerprint
    Currencies = {"", "USD", "EUR", "dollars"}
    Supported = {"USD", "EUR"}
    Refs = {"invoice"}
    NoRef = NoRef
    MaxBalance = 15
    MaxConns = 2
    MaxFaults = 0
    NoRow = NoRow
    NoTx = NoTx
INVARIANTS
    SameMeaningAccepted
