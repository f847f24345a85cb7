\* Two handlers send and two listen, three messages; one listener may wake
\* unnotified, so the listeners can always move.
CONSTANTS
  Appender = {a1, a2}
  Listener = {l1, l2}
  Message = {m1, m2}
  EmptyMessage = EmptyMessage
  NoThread = NoThread
  Jittery = {l2}
  MaxMessages = 3
SPECIFICATION FairSpec
INVARIANTS
  TypeOK
  LastIsNewest
  NotifyOwed
  NoEmptyDelivery
PROPERTIES
  BroadcastSpec
  WaiterServed
