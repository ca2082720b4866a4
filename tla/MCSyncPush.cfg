SPECIFICATION SuiteSpec
CONSTANTS
    rep = rep  shr = shr  peer = peer  k1 = k1  k2 = k2  s1 = s1
    Machines = {rep, shr, peer}  Clients = {rep, shr}  Replicating = {rep}
    Keys = {k1}  Totals = {1, 2}  Tags = {}  Sessions = {s1}  Ops = {o1}
    Produces <- ProducesAll
    PullLimit = 1  ChangeLimit = 1  BatchMax = 1  RebuildMayFail = TRUE
    NoRow = NoRow  NoReceipt = NoReceipt  NoConn = NoConn
    NoCopy = NoCopy  NoReply = NoReply
    MaxCursor = 3  MaxEpoch = 2  MaxFaults = 2
    Fleets = {"restored", "push", "both"}
INVARIANTS NothingLeftBehind
PROPERTY ReplicaIsACopy
