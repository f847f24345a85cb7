\* Two BanUser calls by anyone for anyone and a call of another RPC, from one
\* peer.  A user is named "", so that the interceptor finds bans.  The spans
\* of 1, 10 and 16 days fit, are refused, and wrap into the past.
CONSTANTS
  Banning = {b1, b2}
  Serving = {s1}
  User = {root, empty}
  Admin = {root}
  Name = {root, empty, other}
  EmptyName = empty
  NoName = NoName
  Peer = {p1}
  NoPeer = NoPeer
  Days = {1, 10, 16}
  SecondsPerDay = 1
  MsPerSecond = 1
  Half = 16
  Start = 6
  MaxClock = 8
SPECIFICATION Spec
SYMMETRY Symmetry
INVARIANTS
  TypeOK
  BansByAdmins
  LatestBanHolds
  CancelNeedsBan
CHECK_DEADLOCK FALSE
