\* A stream of up to two messages and a listener on two channels, one crash:
\* who uses which object, what a listener is shown, and that nobody hangs.
CONSTANTS
  Stream = {s1}
  Web = {}
  Listener = {l1}
  Channel = {c1, c2}
  User = {u1}
  KnownUser = {u1}
  NoUser = NoUser
  MaxPerCall = 2
  MaxCrashes = 1
SPECIFICATION FairSpec
INVARIANTS
  OneObject
  NoCrossTalk
PROPERTY
  RequestSettled
CHECK_DEADLOCK FALSE
