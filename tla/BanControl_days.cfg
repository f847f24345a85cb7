\* A user is banned for a day.
CONSTANTS
  Banning = {b1}
  Serving = {}
  User = {root, ann}
  Admin = {root}
  Name = {root, ann, empty}
  EmptyName = empty
  NoName = NoName
  Peer = {p1}
  NoPeer = NoPeer
  Days = {1}
  SecondsPerDay = 1
  MsPerSecond = 4
  Half = 16
  Start = 6
  MaxClock = 6
SPECIFICATION Spec
SYMMETRY Symmetry
INVARIANTS
  BanLastsDays
CHECK_DEADLOCK FALSE
