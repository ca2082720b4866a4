SPECIFICATION SuiteFairSpec
CONSTANTS
    app1 = app1  home = home  mount = mount  parent = parent  sub = sub  c1 = c1  p1 = p1
    NULL = NULL  Unruled = Unruled  NoStore = NoStore  NoHome = NoHome  NoMarker = NoMarker
CHECK_DEADLOCK FALSE
PROPERTIES CorpusIsRead EditsTakeEffect
