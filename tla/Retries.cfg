SPECIFICATION Spec
CONSTANTS
    Requests = {r1, r2, r3, r4}
    AccountIds = {1, 2, 3}
    Profile <- MCProfile
    Opened = {1, 2, 3}
    Keys = {k1, k2}
    NoKey = NoKey
    BadKey = BadKey
    Bodies = {"fund1", "move13"}
    WellFormed = {"fund1", "move13"}
    Command <- MCCommand
    Hashes = {"fund1", "move13"}
    Fingerprint <- MCFingerprint
    Currencies = {"USD"}
    Supported = {"USD"}
    ref1 = ref1
    Refs = {ref1}
    NoRef = NoRef
    MaxBalance = 3
    MaxConns = 3
    MaxFaults = 2
    NoRow = NoRow
    NoTx = NoTx
SYMMETRY Symmetry
INVARIANTS
    ExactlyOncePerKey
    AllOrNothing
    AnswerHonest
PROPERTIES
    HistoryIsAppendOnly
    ImplementsExactlyOnce
