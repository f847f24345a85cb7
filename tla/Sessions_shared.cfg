\* Two listeners, a stream and a BanUser share three connections.
CONSTANTS
  Listener = {l1, l2}
  Stream = {s1}
  Web = {}
  Banning = {b1}
  Other = {}
  MaxConnections = 3
SPECIFICATION FairSpec
INVARIANTS
  TypeOK
  Accounted
PROPERTIES
  ListenersKeepAll
  NoneWaits
CHECK_DEADLOCK FALSE
