SPECIFICATION SuiteFairSpec
CONSTANTS
    k1 = k1  k2 = k2  a1 = a1  x1 = x1  a2 = a2  p1 = p1  p2 = p2  h1 = h1
    NULL = NULL
CHECK_DEADLOCK FALSE
PROPERTIES ArchiveSettles HubSettles
