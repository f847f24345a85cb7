\* A user is banned, then calls.
CONSTANTS
  Banning = {b1}
  Serving = {s1}
  User = {root, ann}
  Admin = {root}
  Name = {root, ann, empty}
  EmptyName = empty
  NoName = NoName
  Peer = {p1}
  NoPeer = NoPeer
  Days = {1}
  SecondsPerDay = 1
  MsPerSecond = 4
  Half = 16
  Start = 6
  MaxClock = 6
SPECIFICATION Spec
SYMMETRY Symmetry
INVARIANTS
  BannedRefused
CHECK_DEADLOCK FALSE
