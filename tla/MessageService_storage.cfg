\* A stream of up to two messages and a one-message call, one channel, one
\* known and one unknown user, one crash.  Each call runs once, so a
\* behaviour may end.
CONSTANTS
  Stream = {s1}
  Web = {w1}
  Listener = {}
  Channel = {c1}
  User = {u1, u2}
  KnownUser = {u1}
  NoUser = NoUser
  MaxPerCall = 2
  MaxCrashes = 1
SPECIFICATION Spec
INVARIANTS
  TypeOK
  AckedStored
  StreamPrefix
  PhantomBounded
  StoredWasBroadcast
  KnownChannelAccepted
PROPERTY
  LedgerSpec
CHECK_DEADLOCK FALSE
