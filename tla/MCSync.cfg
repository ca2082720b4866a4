SPECIFICATION SuiteSpec
CONSTANTS
    rep = rep  shr = shr  peer = peer  k1 = k1  k2 = k2  s1 = s1
    Machines = {rep, peer}  Clients = {rep}  Replicating = {rep}
    Keys = {k1, k2}  Totals = {1}  Tags = {}  Sessions = {s1}  Ops = {o1}
    Produces <- ProducesNothing
    PullLimit = 1  ChangeLimit = 1  BatchMax = 1  RebuildMayFail = TRUE
    NoRow = NoRow  NoReceipt = NoReceipt  NoConn = NoConn
    NoCopy = NoCopy  NoReply = NoReply
    MaxCursor = 3  MaxEpoch = 1  MaxFaults = 2
    Fleets = {"pull", "feed"}
INVARIANTS ReplicaIsPrefix PartialSeedIsSlice EngineIsReplica CaughtUpIsProven
