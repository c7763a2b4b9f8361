SPECIFICATION FairProcessSpec
CONSTANTS
    Events = {1}
    Relays = {relay1}
    Replayers = {replay1}
    Readers = {}
    MaxAttempts = 2
    BatchSize = 1
    MaxFaults = 1
    Api = relay1
    MaxConns = 1
    MaxStops = 2
INVARIANTS
    ProcessInv
PROPERTIES
    ExitsBetweenTransactions
    CleanExitAnswersAll
    StopsInTheEnd
    EventuallyDecided
