SPECIFICATION SuiteSpec
CONSTANTS
    k1 = k1
    archiveFile = archiveFile  hubFile = hubFile  namesFile = namesFile
    Restored <- Files  Unserved = Unserved
    MaxWrites = 2
    MaxRuns = 3
    MaxSetbacks = 2

    Keys = {k1, k2}
    Machines = {m1, m2}
    Ops = {o1, o2}
    Totals = {1, 2}
    Tags = {}
    Sessions = {s1}
    NoRow = NoRow  NoReceipt = NoReceipt
    MaxCursor = 3
    MaxEpoch = 2
    MaxFaults = 2

    MachineIds = {m1, m2}
    NoMachine = NoMachine
    MaxOps = 2
    MaxFailures = 1
    MaxBoots = 3

    Organizations = {org}
    AccessKeys = {c1, c2}
    NULL = NULL
    MaxReads = 2
    MaxListings = 2
    MaxPosts = 1
    MaxRestarts = 1

SYMMETRY Symmetry
CHECK_DEADLOCK FALSE
INVARIANTS
    HubTypeOK ReplayReachesHead SnapshotIsPinned SeqNamesOneRow ReceiptIsExact
    PurgeHolds RestoreIsWhole PollSetHolds
PROPERTIES OnlyADeletionLoses ServedAfterRecovery
