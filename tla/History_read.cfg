\* A stream of up to two messages, a one-message call and two readers; two
\* channels, a user with and one without a row, one crash, one reading at a
\* time.  Each call runs once, so a behaviour may end.
CONSTANTS
  Stream = {s1}
  Web = {w1}
  Reader = {r1, r2}
  Channel = {c1, c2}
  User = {u1, u2}
  KnownUser = {u1}
  MaxPerCall = 2
  MaxCrashes = 1
SPECIFICATION Spec
INVARIANTS
  TypeOK
  RealTimeOrder
  HistoryHasAcked
  RepeatableOrder
PROPERTY
  ArchiveSpec
CONSTRAINT OneReading
SYMMETRY Symmetry
CHECK_DEADLOCK FALSE
