SPECIFICATION SuiteSpec
CONSTANTS
    Keys = {app1, app2}
    app1 = app1  app2 = app2
    home = home  mount = mount  parent = parent  sub = sub  NULL = NULL
    c1 = c1  c2 = c2  p1 = p1
    Unruled = Unruled  NoStore = NoStore  NoHome = NoHome  NoMarker = NoMarker
    Classes = {c1, c2}  MaxSettings = 2  MaxToggles = 2  MaxMismatches = 1  MaxThrows = 1
    Roots <- RootSets  RecoveryLimit = 2  MaxWatchers = 5  MaxEdits = 2  MaxFaults = 2
    MaxQuiets = 1  MaxLates = 1
    DedupKeys = {app1, app2}  None = None
    Rows <- AllRows  BucketOf <- Buckets  Axes <- Filters  AdmittedBy <- Admitted
    MaxEntries = 1  MaxAsks = 2  MaxFeeds = 2  MaxRebinds = 1  MaxRejections = 1
    MaxWalks = 4
    MaxGestures = 3
    MaxChanges = 1
    MaxSwaps = 1
    NoPath = NoPath  MaxHalves = 4  MaxGens = 2  MaxFileOps = 4  MaxIoErrors = 1
CHECK_DEADLOCK FALSE
INVARIANT MismatchIsDegraded
