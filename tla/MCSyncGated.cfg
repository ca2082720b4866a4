SPECIFICATION FairSpec
CONSTANTS
    rep = rep
    shr = shr
    peer = peer
    k1 = k1
    k2 = k2
    s1 = s1
    Keys = {k1}
    Machines = {rep}
    Clients = {rep}
    Replicating = {rep}
    Ops = {o1}
    Totals = {2}
    Tags = {}
    Sessions = {s1}
    Produces <- ProducesOne
    PullLimit = 1
    ChangeLimit = 1
    BatchMax = 1
    RebuildMayFail = TRUE
    NoRow = NoRow
    NoReceipt = NoReceipt
    NoConn = NoConn
    NoCopy = NoCopy
    NoReply = NoReply
    MaxCursor = 3
    MaxEpoch = 1
    MaxFaults = 2
PROPERTIES
    GateReopens
