SPECIFICATION SuiteSpec
CONSTANTS
    Stores = {hub, engine, archive}
    Totals = {1, 2}
    Tags = {1, 2}
    Sessions = {s1}
    NoCopy = NoCopy
    Keys = {k}
    Pairs = {s1, s2}
    Foreign = {2}
    Dormant = {s2}
    Times = {1, 2}
    Self = Self  Other = Other
    None = None
    MaxSteps = 4

SYMMETRY Symmetry
CHECK_DEADLOCK FALSE
INVARIANTS HeldIsFullest StoresAgree CountsTheFullest
PROPERTY EvictedIsOwed
