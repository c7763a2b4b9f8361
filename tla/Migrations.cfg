SPECIFICATION FairSpec
CONSTANTS
    Procs = {p1, p2}
    Builds = {"old", "new", "edited"}
    Versions = {1, 2, 3}
    Sums = {"a", "b", "c", "x"}
    NoSum = NoSum
    Files <- MCFiles
    Reversible <- MCReversible
    DownSteps = {0, 2}
    MaxFaults = 1
    Nobody = Nobody
INVARIANTS
    RecordsMatchSchema
    MigrateInv
PROPERTIES
    UpBuildsOnItsOwn
    UpLeavesNothingPending
    DownTakesNewestKnown
    EveryRunEnds
