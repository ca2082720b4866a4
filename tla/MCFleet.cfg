SPECIFICATION SuiteSpec
CONSTANTS
    k1 = k1  k2 = k2  a1 = a1  x1 = x1  a2 = a2  p1 = p1  p2 = p2
    h1 = h1  h2 = h2  NULL = NULL
    Organizations = {p1, p2}  AccessKeys = {k1, k2}  MaxReads = 3
    Keys = {k1, k2}  Pairs = {p1}  PairOf <- OnePair  NoPair = NULL
    MaxTotal = 1  MaxChain = 2  MaxFaults = 1  MaxHub = 2
    ViewKeys = {k1, k2}  ViewPairs = {p1, p2}  ViewPairOf <- TwoPairs  MaxFullness = 1
    ChangedKeysMax = 1  BatchMax = 1  MaxSwaps = 1  MaxIntents = 2  MaxFences = 1
    MaxLosses = 1
    RowKeys = {a1, x1, a2}  Sessions = {p1, p2}  SessionOf <- ForgetPairOf
    Hubs = {h1, h2}  Absent = Absent  Excluded = {x1}  Backed = {a2}  Archived = {a1, x1}
    Callers <- BothForgets  MaxOps = 8  MaxConnects = 3  MaxRestores = 1  MaxMishaps = 1
    NoFloor = NULL  MaxTime = 3  MaxFailures = 2  MaxConfigures = 2
CHECK_DEADLOCK FALSE
INVARIANTS ForgottenStaysOut ForgetIsExact PushIsComplete SamplesAreOwed PollingHolds
PROPERTY ArchiveIsTrue
