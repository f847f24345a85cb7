--------------------- MODULE SynchronizedChannelProofs ---------------------
(***************************************************************************)
(* Proofs about SynchronizedChannel for any number of threads, any message *)
(* set and any bound on the number of messages.                            *)
(***************************************************************************)
EXTENDS SynchronizedChannel, TLAPS

\* The owner of channelMutex_ is the one thread inside a critical section.
LockInv ==
  /\ \A a \in Appender : apc[a] \in {"locked", "pushed"} <=> mutex = a
  /\ \A l \in Listener : lpc[l] \in {"armed", "holding"} <=> mutex = l

\* The argument of a running appendMessage is a message of its caller.
ArgInv ==
  \A a \in Appender :
    /\ apc[a] # "idle" => arg[a] \in Message
    /\ apc[a] = "locked" => Len(msgVector) < MaxMessages
    /\ apc[a] = "pushed" => Newest > 0 /\ arg[a] = msgVector[Newest]

\* What a listener is about to write is what the history says it read.
CopyInv ==
  \A l \in Listener :
    /\ cursor[l] <= Newest
    /\ blockedAt[l] <= Newest
    /\ lpc[l] = "copied" => copy[l] = At(cursor[l])

\* A notification follows a message, so does every wake-up it causes.
WakeInv ==
  /\ \A a \in Appender : apc[a] = "unlocked" => Newest > 0
  /\ \A l \in Listener \ Jittery :
       /\ lpc[l] \in {"woken", "holding"} => Newest > 0
       /\ lpc[l] = "copied" => cursor[l] # 0

\* The inductive invariant.
IInv ==
  /\ TypeOK
  /\ LockInv
  /\ ArgInv
  /\ CopyInv
  /\ WakeInv
  /\ LastIsNewest
  /\ NotifyOwed

-----------------------------------------------------------------------------
(* Appending one element to a bounded sequence. *)
LEMMA AppendFacts ==
  ASSUME NEW S, NEW s \in Seq(S), NEW e \in S
  PROVE  /\ Append(s, e) \in Seq(S)
         /\ Len(s) \in Nat
         /\ Len(Append(s, e)) = Len(s) + 1
         /\ Append(s, e)[Len(s) + 1] = e
         /\ \A i \in 1..Len(s) : Append(s, e)[i] = s[i]
         /\ \A i \in 1..Len(s) : s[i] \in S
  OBVIOUS

\* The constructor and the freshly started threads satisfy the invariant.
LEMMA InitIInv == Init => IInv
  <1> SUFFICES ASSUME Init PROVE IInv
    OBVIOUS
  <1> USE DEF Init
  <1>1. TypeOK
    BY ChannelAssumption DEF TypeOK, AppendLabel, ListenLabel
  <1>2. LockInv
    BY ChannelAssumption DEF LockInv
  <1>3. ArgInv /\ CopyInv /\ WakeInv /\ LastIsNewest /\ NotifyOwed
    BY DEF ArgInv, CopyInv, WakeInv, LastIsNewest, NotifyOwed, Newest, At
  <1>4. QED
    BY <1>1, <1>2, <1>3 DEF IInv

-----------------------------------------------------------------------------
\* Every step keeps the variables in their sets.
LEMMA StepTypeOK == IInv /\ [Next]_vars => TypeOK'
  <1> SUFFICES ASSUME IInv, [Next]_vars PROVE TypeOK'
    OBVIOUS
  <1> USE ChannelAssumption DEF IInv, TypeOK, AppendLabel, ListenLabel
  <1>0. /\ Newest \in Nat
        /\ Newest <= MaxMessages
    BY DEF Newest
  <1>1. ASSUME NEW a \in Appender, NEW m \in Message, AppendLock(a, m)
        PROVE TypeOK'
    BY <1>1 DEF AppendLock, listenVars
  <1>2. ASSUME NEW a \in Appender, PushBack(a) PROVE TypeOK'
    <2>1. arg[a] \in Message /\ Len(msgVector) < MaxMessages
      BY <1>2 DEF ArgInv, PushBack
    <2>2. /\ msgVector' \in Seq(Message)
          /\ Len(msgVector') <= MaxMessages
      BY <1>2, <2>1, AppendFacts DEF PushBack
    <2>3. QED
      BY <1>2, <2>2 DEF PushBack, listenVars
  <1>3. ASSUME NEW a \in Appender, StoreLast(a) PROVE TypeOK'
    BY <1>3 DEF StoreLast, listenVars
  <1>4. ASSUME NEW a \in Appender, NotifyAll(a) PROVE TypeOK'
    BY <1>4 DEF NotifyAll
  <1>5. ASSUME NEW l \in Listener, WaitLock(l) PROVE TypeOK'
    BY <1>5 DEF WaitLock, appendVars
  <1>6. ASSUME NEW l \in Listener, WaitBlock(l) PROVE TypeOK'
    BY <1>0, <1>6 DEF WaitBlock, appendVars
  <1>7. ASSUME NEW l \in Listener, SpuriousWake(l) PROVE TypeOK'
    BY <1>7 DEF SpuriousWake, appendVars
  <1>8. ASSUME NEW l \in Listener, Relock(l) PROVE TypeOK'
    BY <1>8 DEF Relock, appendVars
  <1>9. ASSUME NEW l \in Listener, ReadLast(l) PROVE TypeOK'
    BY <1>0, <1>9 DEF ReadLast, appendVars
  <1>10. ASSUME NEW l \in Listener, Write(l) PROVE TypeOK'
    BY <1>10 DEF Write, appendVars
  <1>11. CASE UNCHANGED vars
    BY <1>11 DEF vars
  <1>12. QED
    BY <1>1, <1>2, <1>3, <1>4, <1>5, <1>6, <1>7, <1>8, <1>9, <1>10, <1>11
    DEF Next, AppendStep, ListenStep

\* The mutex keeps at most one thread in the critical sections.
LEMMA StepLockInv == IInv /\ [Next]_vars => LockInv'
  <1> SUFFICES ASSUME IInv, [Next]_vars PROVE LockInv'
    OBVIOUS
  <1> USE ChannelAssumption DEF IInv, LockInv, TypeOK, AppendLabel, ListenLabel
  <1>1. ASSUME NEW a \in Appender, NEW m \in Message, AppendLock(a, m)
        PROVE LockInv'
    BY <1>1 DEF AppendLock, listenVars
  <1>2. ASSUME NEW a \in Appender, PushBack(a) PROVE LockInv'
    BY <1>2 DEF PushBack, listenVars
  <1>3. ASSUME NEW a \in Appender, StoreLast(a) PROVE LockInv'
    BY <1>3 DEF StoreLast, listenVars
  <1>4. ASSUME NEW a \in Appender, NotifyAll(a) PROVE LockInv'
    BY <1>4 DEF NotifyAll
  <1>5. ASSUME NEW l \in Listener, WaitLock(l) PROVE LockInv'
    BY <1>5 DEF WaitLock, appendVars
  <1>6. ASSUME NEW l \in Listener, WaitBlock(l) PROVE LockInv'
    BY <1>6 DEF WaitBlock, appendVars
  <1>7. ASSUME NEW l \in Listener, SpuriousWake(l) PROVE LockInv'
    BY <1>7 DEF SpuriousWake, appendVars
  <1>8. ASSUME NEW l \in Listener, Relock(l) PROVE LockInv'
    BY <1>8 DEF Relock, appendVars
  <1>9. ASSUME NEW l \in Listener, ReadLast(l) PROVE LockInv'
    BY <1>9 DEF ReadLast, appendVars
  <1>10. ASSUME NEW l \in Listener, Write(l) PROVE LockInv'
    BY <1>10 DEF Write, appendVars
  <1>11. CASE UNCHANGED vars
    BY <1>11 DEF vars
  <1>12. QED
    BY <1>1, <1>2, <1>3, <1>4, <1>5, <1>6, <1>7, <1>8, <1>9, <1>10, <1>11
    DEF Next, AppendStep, ListenStep

\* The msg parameter survives until it is stored.
LEMMA StepArgInv == IInv /\ [Next]_vars => ArgInv'
  <1> SUFFICES ASSUME IInv, [Next]_vars PROVE ArgInv'
    OBVIOUS
  <1> USE ChannelAssumption DEF IInv, TypeOK, AppendLabel, ListenLabel, ArgInv
  <1>0. Newest \in Nat
    BY DEF Newest
  <1>1. ASSUME NEW a \in Appender, NEW m \in Message, AppendLock(a, m)
        PROVE ArgInv'
    BY <1>0, <1>1 DEF AppendLock, LockInv, Newest
  <1>2. ASSUME NEW a \in Appender, PushBack(a) PROVE ArgInv'
    <2>1. arg[a] \in Message
      BY <1>2 DEF ArgInv, PushBack
    <2>2. /\ Newest' = Newest + 1
          /\ msgVector'[Newest'] = arg[a]
          /\ \A i \in 1..Newest : msgVector'[i] = msgVector[i]
      BY <1>2, <2>1, AppendFacts DEF PushBack, Newest
    <2>3. QED
      BY <1>0, <1>2, <2>1, <2>2 DEF PushBack, LockInv
  <1>3. ASSUME NEW a \in Appender, StoreLast(a) PROVE ArgInv'
    BY <1>0, <1>3 DEF StoreLast, Newest
  <1>4. ASSUME NEW a \in Appender, NotifyAll(a) PROVE ArgInv'
    BY <1>0, <1>4 DEF NotifyAll, Newest
  <1>5. ASSUME NEW l \in Listener, WaitLock(l) PROVE ArgInv'
    BY <1>0, <1>5 DEF WaitLock, appendVars, Newest
  <1>6. ASSUME NEW l \in Listener, WaitBlock(l) PROVE ArgInv'
    BY <1>0, <1>6 DEF WaitBlock, appendVars, Newest
  <1>7. ASSUME NEW l \in Listener, SpuriousWake(l) PROVE ArgInv'
    BY <1>0, <1>7 DEF SpuriousWake, appendVars, Newest
  <1>8. ASSUME NEW l \in Listener, Relock(l) PROVE ArgInv'
    BY <1>0, <1>8 DEF Relock, appendVars, Newest
  <1>9. ASSUME NEW l \in Listener, ReadLast(l) PROVE ArgInv'
    BY <1>0, <1>9 DEF ReadLast, appendVars, Newest
  <1>10. ASSUME NEW l \in Listener, Write(l) PROVE ArgInv'
    BY <1>0, <1>10 DEF Write, appendVars, Newest
  <1>11. CASE UNCHANGED vars
    BY <1>0, <1>11 DEF vars, Newest
  <1>12. QED
    BY <1>1, <1>2, <1>3, <1>4, <1>5, <1>6, <1>7, <1>8, <1>9, <1>10, <1>11
    DEF Next, AppendStep, ListenStep

\* A listener keeps the message it copied, and the log only grows.
LEMMA StepCopyInv == IInv /\ [Next]_vars => CopyInv'
  <1> SUFFICES ASSUME IInv, [Next]_vars PROVE CopyInv'
    OBVIOUS
  <1> USE ChannelAssumption DEF IInv, TypeOK, AppendLabel, ListenLabel, CopyInv
  <1>0. Newest \in Nat
    BY DEF Newest
  <1>1. ASSUME NEW a \in Appender, NEW m \in Message, AppendLock(a, m)
        PROVE CopyInv'
    BY <1>0, <1>1 DEF AppendLock, listenVars, Newest, At
  <1>2. ASSUME NEW a \in Appender, PushBack(a) PROVE CopyInv'
    <2>1. arg[a] \in Message
      BY <1>2 DEF ArgInv, PushBack
    <2>2. /\ Newest' = Newest + 1
          /\ msgVector'[Newest'] = arg[a]
          /\ \A i \in 1..Newest : msgVector'[i] = msgVector[i]
      BY <1>2, <2>1, AppendFacts DEF PushBack, Newest
    <2>3. ASSUME NEW l \in Listener
          PROVE  /\ cursor'[l] <= Newest'
                 /\ blockedAt'[l] <= Newest'
                 /\ lpc'[l] = "copied" => copy'[l] = At(cursor[l])'
      <3>1. /\ cursor[l] \in Nat
            /\ cursor[l] <= Newest
            /\ blockedAt[l] \in Nat
            /\ blockedAt[l] <= Newest
            /\ lpc[l] = "copied" => copy[l] = At(cursor[l])
        OBVIOUS
      <3>2. /\ cursor' = cursor /\ blockedAt' = blockedAt
            /\ lpc' = lpc /\ copy' = copy
        BY <1>2 DEF PushBack, listenVars
      <3>3. At(cursor[l])' = At(cursor[l])
        BY <1>0, <2>2, <3>1, <3>2 DEF At
      <3>4. QED
        BY <1>0, <2>2, <3>1, <3>2, <3>3
    <2>4. QED
      BY <2>3
  <1>3. ASSUME NEW a \in Appender, StoreLast(a) PROVE CopyInv'
    BY <1>0, <1>3 DEF StoreLast, listenVars, Newest, At
  <1>4. ASSUME NEW a \in Appender, NotifyAll(a) PROVE CopyInv'
    BY <1>0, <1>4 DEF NotifyAll, Newest, At
  <1>5. ASSUME NEW l \in Listener, WaitLock(l) PROVE CopyInv'
    BY <1>0, <1>5 DEF WaitLock, appendVars, Newest, At
  <1>6. ASSUME NEW l \in Listener, WaitBlock(l) PROVE CopyInv'
    BY <1>0, <1>6 DEF WaitBlock, appendVars, Newest, At
  <1>7. ASSUME NEW l \in Listener, SpuriousWake(l) PROVE CopyInv'
    BY <1>0, <1>7 DEF SpuriousWake, appendVars, Newest, At
  <1>8. ASSUME NEW l \in Listener, Relock(l) PROVE CopyInv'
    BY <1>0, <1>8 DEF Relock, appendVars, Newest, At
  <1>9. ASSUME NEW l \in Listener, ReadLast(l) PROVE CopyInv'
    <2>1. lastMessage = At(Newest)
      BY <1>9 DEF ReadLast, LastIsNewest, LockInv
    <2>2. QED
      BY <1>0, <1>9, <2>1 DEF ReadLast, appendVars, Newest, At
  <1>10. ASSUME NEW l \in Listener, Write(l) PROVE CopyInv'
    BY <1>0, <1>10 DEF Write, appendVars, Newest, At
  <1>11. CASE UNCHANGED vars
    BY <1>0, <1>11 DEF vars, Newest, At
  <1>12. QED
    BY <1>1, <1>2, <1>3, <1>4, <1>5, <1>6, <1>7, <1>8, <1>9, <1>10, <1>11
    DEF Next, AppendStep, ListenStep

\* Only a message makes a listener wake up.
LEMMA StepWakeInv == IInv /\ [Next]_vars => WakeInv'
  <1> SUFFICES ASSUME IInv, [Next]_vars PROVE WakeInv'
    OBVIOUS
  <1> USE ChannelAssumption DEF IInv, TypeOK, AppendLabel, ListenLabel, WakeInv
  <1>0. Newest \in Nat
    BY DEF Newest
  <1>1. ASSUME NEW a \in Appender, NEW m \in Message, AppendLock(a, m)
        PROVE WakeInv'
    BY <1>0, <1>1 DEF AppendLock, listenVars, Newest
  <1>2. ASSUME NEW a \in Appender, PushBack(a) PROVE WakeInv'
    <2>1. arg[a] \in Message
      BY <1>2 DEF ArgInv, PushBack
    <2>2. /\ Newest' = Newest + 1
          /\ msgVector'[Newest'] = arg[a]
          /\ \A i \in 1..Newest : msgVector'[i] = msgVector[i]
      BY <1>2, <2>1, AppendFacts DEF PushBack, Newest
    <2>3. QED
      BY <1>0, <1>2, <2>2 DEF PushBack, listenVars
  <1>3. ASSUME NEW a \in Appender, StoreLast(a) PROVE WakeInv'
    BY <1>0, <1>3 DEF StoreLast, listenVars, ArgInv, Newest
  <1>4. ASSUME NEW a \in Appender, NotifyAll(a) PROVE WakeInv'
    BY <1>0, <1>4 DEF NotifyAll, Newest
  <1>5. ASSUME NEW l \in Listener, WaitLock(l) PROVE WakeInv'
    BY <1>0, <1>5 DEF WaitLock, appendVars, Newest
  <1>6. ASSUME NEW l \in Listener, WaitBlock(l) PROVE WakeInv'
    BY <1>0, <1>6 DEF WaitBlock, appendVars, Newest
  <1>7. ASSUME NEW l \in Listener, SpuriousWake(l) PROVE WakeInv'
    BY <1>0, <1>7 DEF SpuriousWake, appendVars, Newest
  <1>8. ASSUME NEW l \in Listener, Relock(l) PROVE WakeInv'
    BY <1>0, <1>8 DEF Relock, appendVars, Newest
  <1>9. ASSUME NEW l \in Listener, ReadLast(l) PROVE WakeInv'
    BY <1>0, <1>9 DEF ReadLast, appendVars, Newest
  <1>10. ASSUME NEW l \in Listener, Write(l) PROVE WakeInv'
    BY <1>0, <1>10 DEF Write, appendVars, Newest
  <1>11. CASE UNCHANGED vars
    BY <1>0, <1>11 DEF vars, Newest
  <1>12. QED
    BY <1>1, <1>2, <1>3, <1>4, <1>5, <1>6, <1>7, <1>8, <1>9, <1>10, <1>11
    DEF Next, AppendStep, ListenStep

\* lastMessage_ catches up with msgVector_ before the lock is released.
LEMMA StepLastIsNewest == IInv /\ [Next]_vars => LastIsNewest'
  <1> SUFFICES ASSUME IInv, [Next]_vars PROVE LastIsNewest'
    OBVIOUS
  <1> USE ChannelAssumption DEF IInv, TypeOK, AppendLabel, ListenLabel,
        LastIsNewest
  <1>0. Newest \in Nat
    BY DEF Newest
  <1>1. ASSUME NEW a \in Appender, NEW m \in Message, AppendLock(a, m)
        PROVE LastIsNewest'
    BY <1>1 DEF AppendLock, LockInv, Newest, At
  <1>2. ASSUME NEW a \in Appender, PushBack(a) PROVE LastIsNewest'
    <2>1. arg[a] \in Message
      BY <1>2 DEF ArgInv, PushBack
    <2>2. /\ Newest' = Newest + 1
          /\ msgVector'[Newest'] = arg[a]
          /\ \A i \in 1..Newest : msgVector'[i] = msgVector[i]
      BY <1>2, <2>1, AppendFacts DEF PushBack, Newest
    <2>3. QED
      BY <1>2 DEF PushBack
  <1>3. ASSUME NEW a \in Appender, StoreLast(a) PROVE LastIsNewest'
    BY <1>0, <1>3 DEF StoreLast, ArgInv, Newest, At
  <1>4. ASSUME NEW a \in Appender, NotifyAll(a) PROVE LastIsNewest'
    BY <1>4 DEF NotifyAll, Newest, At
  <1>5. ASSUME NEW l \in Listener, WaitLock(l) PROVE LastIsNewest'
    BY <1>5 DEF WaitLock, appendVars, Newest, At
  <1>6. ASSUME NEW l \in Listener, WaitBlock(l) PROVE LastIsNewest'
    BY <1>6 DEF WaitBlock, appendVars, Newest, At
  <1>7. ASSUME NEW l \in Listener, SpuriousWake(l) PROVE LastIsNewest'
    BY <1>7 DEF SpuriousWake, appendVars, Newest, At
  <1>8. ASSUME NEW l \in Listener, Relock(l) PROVE LastIsNewest'
    BY <1>8 DEF Relock, appendVars, Newest, At
  <1>9. ASSUME NEW l \in Listener, ReadLast(l) PROVE LastIsNewest'
    BY <1>9 DEF ReadLast, appendVars, Newest, At
  <1>10. ASSUME NEW l \in Listener, Write(l) PROVE LastIsNewest'
    BY <1>10 DEF Write, appendVars, Newest, At
  <1>11. CASE UNCHANGED vars
    BY <1>11 DEF vars, Newest, At
  <1>12. QED
    BY <1>1, <1>2, <1>3, <1>4, <1>5, <1>6, <1>7, <1>8, <1>9, <1>10, <1>11
    DEF Next, AppendStep, ListenStep

\* Whoever published while a listener was blocked still has to notify.
LEMMA StepNotifyOwed == IInv /\ [Next]_vars => NotifyOwed'
  <1> SUFFICES ASSUME IInv, [Next]_vars PROVE NotifyOwed'
    OBVIOUS
  <1> USE ChannelAssumption DEF IInv, TypeOK, AppendLabel, ListenLabel,
        NotifyOwed
  <1>0. Newest \in Nat
    BY DEF Newest
  <1>1. ASSUME NEW a \in Appender, NEW m \in Message, AppendLock(a, m)
        PROVE NotifyOwed'
    BY <1>0, <1>1 DEF AppendLock, listenVars, Newest
  <1>2. ASSUME NEW a \in Appender, PushBack(a) PROVE NotifyOwed'
    <2>1. arg[a] \in Message
      BY <1>2 DEF ArgInv, PushBack
    <2>2. /\ Newest' = Newest + 1
          /\ msgVector'[Newest'] = arg[a]
          /\ \A i \in 1..Newest : msgVector'[i] = msgVector[i]
      BY <1>2, <2>1, AppendFacts DEF PushBack, Newest
    <2>3. QED
      BY <1>2 DEF PushBack, listenVars
  <1>3. ASSUME NEW a \in Appender, StoreLast(a) PROVE NotifyOwed'
    BY <1>0, <1>3 DEF StoreLast, listenVars, Newest
  <1>4. ASSUME NEW a \in Appender, NotifyAll(a) PROVE NotifyOwed'
    BY <1>0, <1>4 DEF NotifyAll, Newest
  <1>5. ASSUME NEW l \in Listener, WaitLock(l) PROVE NotifyOwed'
    BY <1>0, <1>5 DEF WaitLock, appendVars, Newest
  <1>6. ASSUME NEW l \in Listener, WaitBlock(l) PROVE NotifyOwed'
    BY <1>0, <1>6 DEF WaitBlock, appendVars, Newest
  <1>7. ASSUME NEW l \in Listener, SpuriousWake(l) PROVE NotifyOwed'
    BY <1>0, <1>7 DEF SpuriousWake, appendVars, Newest
  <1>8. ASSUME NEW l \in Listener, Relock(l) PROVE NotifyOwed'
    BY <1>0, <1>8 DEF Relock, appendVars, Newest
  <1>9. ASSUME NEW l \in Listener, ReadLast(l) PROVE NotifyOwed'
    BY <1>0, <1>9 DEF ReadLast, appendVars, Newest
  <1>10. ASSUME NEW l \in Listener, Write(l) PROVE NotifyOwed'
    BY <1>0, <1>10 DEF Write, appendVars, Newest
  <1>11. CASE UNCHANGED vars
    BY <1>0, <1>11 DEF vars, Newest
  <1>12. QED
    BY <1>1, <1>2, <1>3, <1>4, <1>5, <1>6, <1>7, <1>8, <1>9, <1>10, <1>11
    DEF Next, AppendStep, ListenStep

\* The invariant holds in every reachable state.
LEMMA Invariance == Spec => []IInv
  <1>1. IInv /\ [Next]_vars => IInv'
    BY StepTypeOK, StepLockInv, StepArgInv, StepCopyInv, StepWakeInv,
       StepLastIsNewest, StepNotifyOwed DEF IInv
  <1>2. QED
    BY InitIInv, <1>1, PTL DEF Spec

-----------------------------------------------------------------------------
\* SynchronizedChannel.h:43-47: every variable stays in its set.
THEOREM TypeCorrect == Spec => []TypeOK
  <1>1. IInv => TypeOK
    BY DEF IInv
  <1>2. QED
    BY Invariance, <1>1, PTL

\* SynchronizedChannel.cpp:41-42: outside the two assignments of
\* appendMessage, lastMessage_ is the newest element of msgVector_.
THEOREM NewestCached == Spec => []LastIsNewest
  <1>1. IInv => LastIsNewest
    BY DEF IInv
  <1>2. QED
    BY Invariance, <1>1, PTL

\* SynchronizedChannel.cpp:44: notifying after the unlock loses no wake-up,
\* whatever the number of senders and listeners.
THEOREM NoLostWakeup == Spec => []NotifyOwed
  <1>1. IInv => NotifyOwed
    BY DEF IInv
  <1>2. QED
    BY Invariance, <1>1, PTL

\* SynchronizedChannel.cpp:59: to a listener without spurious wake-ups the wait
\* without a predicate never returns before the first message.
THEOREM NeverEmpty == Spec => []NoEmptyDelivery
  <1>1. IInv => NoEmptyDelivery
    BY DEF IInv, WakeInv, NoEmptyDelivery
  <1>2. QED
    BY Invariance, <1>1, PTL

-----------------------------------------------------------------------------
(* The refinement: push_back publishes, the copy takes, Write shows. *)

\* A fresh channel is a fresh broadcast.
LEMMA InitBroadcast == Init => Broadcast!Init
  BY DEF Init, Broadcast!Init

\* Each step of the monitor is a step of the broadcast or leaves it alone.
LEMMA StepBroadcast ==
  IInv /\ [Next]_vars => [Broadcast!Next]_(Broadcast!vars)
  <1> SUFFICES ASSUME IInv, [Next]_vars
               PROVE  Broadcast!Next \/ UNCHANGED Broadcast!vars
    OBVIOUS
  <1> USE ChannelAssumption DEF IInv, TypeOK, AppendLabel, ListenLabel,
        Broadcast!vars
  <1> DEFINE Holding == {l \in Listener : lpc[l] = "copied"}
  <1>1. ASSUME NEW a \in Appender, NEW m \in Message, AppendLock(a, m)
        PROVE UNCHANGED Broadcast!vars
    BY <1>1 DEF AppendLock, listenVars
  <1>2. ASSUME NEW a \in Appender, PushBack(a) PROVE Broadcast!Next
    <2>1. arg[a] \in Message
      BY <1>2 DEF ArgInv, PushBack
    <2>2. Broadcast!Publish(arg[a])
      BY <1>2 DEF PushBack, listenVars, Broadcast!Publish
    <2>3. QED
      BY <2>1, <2>2 DEF Broadcast!Next
  <1>3. ASSUME NEW a \in Appender, StoreLast(a) PROVE UNCHANGED Broadcast!vars
    BY <1>3 DEF StoreLast, listenVars
  <1>4. ASSUME NEW a \in Appender, NotifyAll(a) PROVE UNCHANGED Broadcast!vars
    <2>1. Holding' = Holding
      BY <1>4 DEF NotifyAll
    <2>2. QED
      BY <1>4, <2>1 DEF NotifyAll
  <1>5. ASSUME NEW l \in Listener, WaitLock(l) PROVE UNCHANGED Broadcast!vars
    <2>1. Holding' = Holding
      BY <1>5 DEF WaitLock
    <2>2. QED
      BY <1>5, <2>1 DEF WaitLock, appendVars
  <1>6. ASSUME NEW l \in Listener, WaitBlock(l) PROVE UNCHANGED Broadcast!vars
    <2>1. Holding' = Holding
      BY <1>6 DEF WaitBlock
    <2>2. QED
      BY <1>6, <2>1 DEF WaitBlock, appendVars
  <1>7. ASSUME NEW l \in Listener, SpuriousWake(l)
        PROVE UNCHANGED Broadcast!vars
    <2>1. Holding' = Holding
      BY <1>7 DEF SpuriousWake
    <2>2. QED
      BY <1>7, <2>1 DEF SpuriousWake, appendVars
  <1>8. ASSUME NEW l \in Listener, Relock(l) PROVE UNCHANGED Broadcast!vars
    <2>1. Holding' = Holding
      BY <1>8 DEF Relock
    <2>2. QED
      BY <1>8, <2>1 DEF Relock, appendVars
  <1>9. ASSUME NEW l \in Listener, ReadLast(l) PROVE Broadcast!Next
    <2>1. /\ l \notin Holding
          /\ Holding' = Holding \cup {l}
      BY <1>9 DEF ReadLast
    <2>2. Broadcast!Take(l)
      BY <1>9, <2>1 DEF ReadLast, appendVars, Newest, Broadcast!Take
    <2>3. QED
      BY <2>2 DEF Broadcast!Next
  <1>10. ASSUME NEW l \in Listener, Write(l) PROVE Broadcast!Next
    <2>1. /\ l \in Holding
          /\ Holding' = Holding \ {l}
      BY <1>10 DEF Write
    <2>2. copy[l] = Broadcast!At(cursor[l])
      BY <1>10 DEF Write, CopyInv, At, Broadcast!At
    <2>3. Broadcast!Show(l)
      BY <1>10, <2>1, <2>2 DEF Write, appendVars, Broadcast!Show
    <2>4. QED
      BY <2>3 DEF Broadcast!Next
  <1>11. CASE UNCHANGED vars
    BY <1>11 DEF vars
  <1>12. QED
    BY <1>1, <1>2, <1>3, <1>4, <1>5, <1>6, <1>7, <1>8, <1>9, <1>10, <1>11
    DEF Next, AppendStep, ListenStep

\* SynchronizedChannel.cpp:38-61 implements ChannelBroadcast: a listener
\* writes exactly the messages it took, each the newest one when taken.
THEOREM ImplementsBroadcast == Spec => BroadcastSpec
  BY InitBroadcast, StepBroadcast, Invariance, PTL
  DEF Spec, BroadcastSpec, Broadcast!Spec

=============================================================================
