------------------------ MODULE SynchronizedChannel ------------------------
(***************************************************************************)
(* One SynchronizedChannel object (SynchronizedChannel.h and .cpp) and the *)
(* threads that use it: handlers of the two send RPCs call appendMessage,  *)
(* handlers of ListenWrongthinkMessages call waitMessage in an endless     *)
(* loop and write what it returns to their client.                         *)
(*                                                                         *)
(* channelMutex_ is `mutex`; the wait set of channelCondition_ is the set  *)
(* of listeners whose control state is "blocked".  waitMessage waits with  *)
(* no predicate, so a wake-up the notifier did not ask for is visible to   *)
(* the caller: Jittery are the listeners to which the platform does that   *)
(* (the C++ standard allows it).                                           *)
(***************************************************************************)
EXTENDS Naturals, Sequences

CONSTANTS
  Appender,         \* threads that call appendMessage
  Listener,         \* threads that loop over waitMessage
  Message,          \* what can be sent
  EmptyMessage,     \* lastMessage_ as the constructor leaves it
  NoThread,         \* channelMutex_ is free
  Jittery,          \* listeners whose wait may also return unnotified
  MaxMessages       \* bound: messages appended in one behaviour

ASSUME ChannelAssumption ==
  /\ Appender \cap Listener = {}
  /\ NoThread \notin Appender \cup Listener
  /\ Jittery \subseteq Listener
  /\ MaxMessages \in Nat

VARIABLES
  mutex,        \* channelMutex_: its owner, or NoThread
  msgVector,    \* msgVector_
  lastMessage,  \* lastMessage_
  apc,          \* where each appender is in appendMessage
  arg,          \* per appender: the msg parameter
  lpc,          \* where each listener is in waitMessage and its caller's loop
  copy,         \* per listener: the value waitMessage returned last
  stream,       \* per listener: the message written to its client last
  cursor,       \* history: position in msgVector_ when `copy` was read
  blockedAt     \* history: length of msgVector_ when the listener blocked

appendVars == <<msgVector, lastMessage, apc, arg>>
listenVars == <<lpc, copy, stream, cursor, blockedAt>>
vars == <<mutex, msgVector, lastMessage, apc, arg,
          lpc, copy, stream, cursor, blockedAt>>

At(p) == IF p = 0 THEN EmptyMessage ELSE msgVector[p]
Newest == Len(msgVector)

Init ==
  /\ mutex = NoThread
  /\ msgVector = <<>>
  /\ lastMessage = EmptyMessage
  /\ apc = [a \in Appender |-> "idle"]
  /\ arg = [a \in Appender |-> EmptyMessage]
  /\ lpc = [l \in Listener |-> "idle"]
  /\ copy = [l \in Listener |-> EmptyMessage]
  /\ stream = [l \in Listener |-> EmptyMessage]
  /\ cursor = [l \in Listener |-> 0]
  /\ blockedAt = [l \in Listener |-> 0]

-----------------------------------------------------------------------------
(* appendMessage(msg) *)

\* std::lock_guard lock(channelMutex_)
AppendLock(a, m) ==
  /\ apc[a] = "idle"
  /\ mutex = NoThread
  /\ Len(msgVector) < MaxMessages
  /\ mutex' = a
  /\ arg' = [arg EXCEPT ![a] = m]
  /\ apc' = [apc EXCEPT ![a] = "locked"]
  /\ UNCHANGED <<msgVector, lastMessage, listenVars>>

\* Slip: the message is stored twice.
PushTwice(a) ==
  /\ apc[a] = "locked"
  /\ msgVector' = msgVector \o <<arg[a], arg[a]>>
  /\ apc' = [apc EXCEPT ![a] = "pushed"]
  /\ UNCHANGED <<mutex, lastMessage, arg, listenVars>>

PushBack(a) ==
  /\ apc[a] = "locked"
  /\ msgVector' = Append(msgVector, arg[a])
  /\ apc' = [apc EXCEPT ![a] = "pushed"]
  /\ UNCHANGED <<mutex, lastMessage, arg, listenVars>>

\* Slip: lastMessage_ is not assigned.
StoreNothing(a) ==
  /\ apc[a] = "pushed"
  /\ mutex' = NoThread
  /\ apc' = [apc EXCEPT ![a] = "unlocked"]
  /\ UNCHANGED <<msgVector, lastMessage, arg, listenVars>>

\* Slip: appendMessage returns without notifying.
StoreUnnotified(a) ==
  /\ apc[a] = "pushed"
  /\ lastMessage' = arg[a]
  /\ mutex' = NoThread
  /\ apc' = [apc EXCEPT ![a] = "idle"]
  /\ UNCHANGED <<msgVector, arg, listenVars>>

\* lastMessage_ = msg, and the end of the scope releases the lock.
StoreLast(a) ==
  /\ apc[a] = "pushed"
  /\ lastMessage' = arg[a]
  /\ mutex' = NoThread
  /\ apc' = [apc EXCEPT ![a] = "unlocked"]
  /\ UNCHANGED <<msgVector, arg, listenVars>>

\* Slip: notify_one.
NotifyOne(a) ==
  /\ apc[a] = "unlocked"
  /\ apc' = [apc EXCEPT ![a] = "idle"]
  /\ LET blocked == {l \in Listener : lpc[l] = "blocked"} IN
       IF blocked = {} THEN UNCHANGED lpc
       ELSE \E l \in blocked : lpc' = [lpc EXCEPT ![l] = "woken"]
  /\ UNCHANGED <<mutex, msgVector, lastMessage, arg,
                 copy, stream, cursor, blockedAt>>

\* channelCondition_.notify_all(), called without the lock.
NotifyAll(a) ==
  /\ apc[a] = "unlocked"
  /\ apc' = [apc EXCEPT ![a] = "idle"]
  /\ lpc' = [l \in Listener |-> IF lpc[l] = "blocked" THEN "woken" ELSE lpc[l]]
  /\ UNCHANGED <<mutex, msgVector, lastMessage, arg,
                 copy, stream, cursor, blockedAt>>

-----------------------------------------------------------------------------
(* while (true) writer->Write(channel.waitMessage()) *)

\* std::unique_lock lock(channelMutex_)
WaitLock(l) ==
  /\ lpc[l] = "idle"
  /\ mutex = NoThread
  /\ mutex' = l
  /\ lpc' = [lpc EXCEPT ![l] = "armed"]
  /\ UNCHANGED <<appendVars, copy, stream, cursor, blockedAt>>

\* Slip: waitMessage does not wait for a channel without messages.
WaitNot(l) ==
  /\ lpc[l] = "armed"
  /\ mutex' = NoThread
  /\ lpc' = [lpc EXCEPT ![l] = IF Newest = 0 THEN "woken" ELSE "blocked"]
  /\ blockedAt' = [blockedAt EXCEPT ![l] = Newest]
  /\ UNCHANGED <<appendVars, copy, stream, cursor>>

\* wait(lock) releases the mutex and joins the wait set in one step.
WaitBlock(l) ==
  /\ lpc[l] = "armed"
  /\ mutex' = NoThread
  /\ lpc' = [lpc EXCEPT ![l] = "blocked"]
  /\ blockedAt' = [blockedAt EXCEPT ![l] = Newest]
  /\ UNCHANGED <<appendVars, copy, stream, cursor>>

SpuriousWake(l) ==
  /\ l \in Jittery
  /\ lpc[l] = "blocked"
  /\ lpc' = [lpc EXCEPT ![l] = "woken"]
  /\ UNCHANGED <<mutex, appendVars, copy, stream, cursor, blockedAt>>

\* Slip: lastMessage_ is read without the lock.
RelockNot(l) ==
  /\ lpc[l] = "woken"
  /\ lpc' = [lpc EXCEPT ![l] = "holding"]
  /\ UNCHANGED <<mutex, appendVars, copy, stream, cursor, blockedAt>>

\* wait(lock) takes the mutex again before it returns.
Relock(l) ==
  /\ lpc[l] = "woken"
  /\ mutex = NoThread
  /\ mutex' = l
  /\ lpc' = [lpc EXCEPT ![l] = "holding"]
  /\ UNCHANGED <<appendVars, copy, stream, cursor, blockedAt>>

\* return lastMessage_: the copy is made before the lock is released.
ReadLast(l) ==
  /\ lpc[l] = "holding"
  /\ copy' = [copy EXCEPT ![l] = lastMessage]
  /\ cursor' = [cursor EXCEPT ![l] = Newest]
  /\ mutex' = NoThread
  /\ lpc' = [lpc EXCEPT ![l] = "copied"]
  /\ UNCHANGED <<appendVars, stream, blockedAt>>

\* writer->Write(...), with no lock held; its result is ignored.
Write(l) ==
  /\ lpc[l] = "copied"
  /\ stream' = [stream EXCEPT ![l] = copy[l]]
  /\ lpc' = [lpc EXCEPT ![l] = "idle"]
  /\ UNCHANGED <<mutex, appendVars, copy, cursor, blockedAt>>

-----------------------------------------------------------------------------
AppendStep(a) ==
  \/ \E m \in Message : AppendLock(a, m)
  \/ PushBack(a)
  \/ StoreLast(a)
  \/ NotifyAll(a)

ListenStep(l) ==
  \/ WaitLock(l)
  \/ WaitBlock(l)
  \/ SpuriousWake(l)
  \/ Relock(l)
  \/ ReadLast(l)
  \/ Write(l)

Next ==
  \/ \E a \in Appender : AppendStep(a)
  \/ \E l \in Listener : ListenStep(l)

Spec == Init /\ [][Next]_vars

\* The scheduler runs every thread that can go on.  Nothing obliges a client
\* to send (AppendLock) or the platform to wake a thread unasked, and it does
\* so finitely often: or else one listener could keep the mutex busy for ever.
Fairness ==
  /\ <>[][\A l \in Listener : ~SpuriousWake(l)]_vars
  /\ \A a \in Appender : WF_vars(PushBack(a) \/ StoreLast(a) \/ NotifyAll(a))
  /\ \A l \in Listener : WF_vars(WaitLock(l) \/ WaitBlock(l) \/ Relock(l)
                                   \/ ReadLast(l) \/ Write(l))

FairSpec == Spec /\ Fairness

-----------------------------------------------------------------------------
(* Properties *)

AppendLabel == {"idle", "locked", "pushed", "unlocked"}
ListenLabel == {"idle", "armed", "blocked", "woken", "holding", "copied"}

\* Every variable of the channel and its threads stays in its set, and the
\* history never exceeds its bound (SynchronizedChannel.h:43-47).
TypeOK ==
  /\ mutex \in Appender \cup Listener \cup {NoThread}
  /\ msgVector \in Seq(Message)
  /\ Len(msgVector) <= MaxMessages
  /\ lastMessage \in Message \cup {EmptyMessage}
  /\ apc \in [Appender -> AppendLabel]
  /\ arg \in [Appender -> Message \cup {EmptyMessage}]
  /\ lpc \in [Listener -> ListenLabel]
  /\ copy \in [Listener -> Message \cup {EmptyMessage}]
  /\ stream \in [Listener -> Message \cup {EmptyMessage}]
  /\ cursor \in [Listener -> 0..MaxMessages]
  /\ blockedAt \in [Listener -> 0..MaxMessages]

\* The two copies of the newest message agree whenever another thread could
\* look: outside the window between push_back and the assignment
\* (SynchronizedChannel.cpp:41-42), lastMessage_ is the end of msgVector_.
LastIsNewest ==
  (\A a \in Appender : apc[a] # "pushed") => lastMessage = At(Newest)

\* No lost wake-up for a blocked listener: while a message newer than its
\* wait exists, some appender still owes a notify_all.  It holds although
\* notify_all is called after the unlock (SynchronizedChannel.cpp:40-44).
NotifyOwed ==
  \A l \in Listener :
    lpc[l] = "blocked" /\ blockedAt[l] < Newest =>
      \E a \in Appender : apc[a] \in {"pushed", "unlocked"}

\* A listener that never wakes unnotified is not handed the default-constructed
\* message of an empty channel, although waitMessage checks no predicate and
\* others may wake (SynchronizedChannel.cpp:57-61).
NoEmptyDelivery ==
  \A l \in Listener \ Jittery : lpc[l] = "copied" => cursor[l] # 0

\* The monitor implements ChannelBroadcast: a message is published by
\* push_back and taken by the copy in waitMessage.
Broadcast == INSTANCE ChannelBroadcast WITH
  log <- msgVector,
  holding <- {l \in Listener : lpc[l] = "copied"},
  taken <- cursor,
  shown <- stream

BroadcastSpec == Broadcast!Spec

\* A message appended while a listener is blocked reaches that listener, or
\* a newer one does: it is notified, gets the lock and writes
\* (SynchronizedChannel.cpp:44 and 57-61, WrongthinkServiceImpl.cpp:288-290).
WaiterServed ==
  \A l \in Listener : \A n \in 1..MaxMessages :
    (lpc[l] = "blocked" /\ blockedAt[l] < n /\ n <= Newest)
      ~> (lpc[l] = "idle" /\ cursor[l] >= n)

=============================================================================
