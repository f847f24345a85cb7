------------------------ MODULE MessageServiceProofs ------------------------
(***************************************************************************)
(* Proofs about MessageService for any number of calls, channels, users,   *)
(* messages per stream and crashes, whatever the database library answers  *)
(* about a missing row, and with races in channelMap.                      *)
(***************************************************************************)
EXTENDS MessageService, TLAPS

\* Where the message in hand is not in the history yet.
Unsettled == {"counting", "querying", "emplacing", "linking", "lookup",
              "growing", "bound", "inserting"}

\* What the place of a call says about its data.
CallOK(c) ==
  /\ pc[c] \in Unsettled \cup {"inserted", "orphan"} => received[c] # <<>>
  /\ pc[c] \in {"reading", "inserting", "inserted", "orphan"} => c \in Sender
  /\ pc[c] = "idle" => received[c] = <<>>
  /\ pc[c] = "bound" => object[c] # 0
  /\ status[c] = "none" <=> pc[c] \notin {"done", "orphan"}
  /\ pc[c] = "orphan" => status[c] # "OK"
  /\ \A n \in DOMAIN received[c] :
       received[c][n].call = c /\ received[c][n].n = n

CallInv == \A c \in Call : CallOK(c)

\* A row is what its sender sent at the row's place in the call.
RowInv ==
  \A i \in DOMAIN rows :
    /\ rows[i].call \in Sender
    /\ rows[i].n \in DOMAIN received[rows[i].call]
    /\ rows[i] = received[rows[i].call][rows[i].n]

\* All that s read is in the history; the message in hand is not.
Settled(s) == pc[s] \in {"reading", "inserted"} \/ status[s] = "OK"
Open(s) == pc[s] \in Unsettled \cup {"orphan"}

\* Every message of a call but the last is in the history; whether the last
\* one is depends on where the call is.
StoreOK(s) ==
  \A n \in DOMAIN received[s] :
    /\ n < Len(received[s]) => InHistory(received[s][n])
    /\ Settled(s) => InHistory(received[s][n])
    /\ n = Len(received[s]) /\ Open(s) => ~InHistory(received[s][n])

StoreInv == \A s \in Sender : StoreOK(s)

\* The inductive invariant.
IInv ==
  /\ TypeOK
  /\ CallInv
  /\ RowInv
  /\ StoreInv
  /\ StreamPrefix

-----------------------------------------------------------------------------
(* Sequences *)
LEMMA AppendFacts ==
  ASSUME NEW S, NEW q \in Seq(S), NEW e \in S
  PROVE  /\ Append(q, e) \in Seq(S)
         /\ Len(q) \in Nat
         /\ Len(Append(q, e)) = Len(q) + 1
         /\ DOMAIN q = 1..Len(q)
         /\ DOMAIN Append(q, e) = 1..(Len(q) + 1)
         /\ Append(q, e)[Len(q) + 1] = e
         /\ \A i \in 1..Len(q) : Append(q, e)[i] = q[i]
         /\ \A i \in 1..Len(q) : q[i] \in S
  OBVIOUS

LEMMA EmptyFacts ==
  ASSUME NEW S
  PROVE  <<>> \in Seq(S) /\ Len(<<>>) = 0 /\ DOMAIN <<>> = {}
  OBVIOUS

\* Replacing one element of a sequence.
LEMMA UpdateFacts ==
  ASSUME NEW S, NEW q \in Seq(S), NEW i \in 1..Len(q), NEW e \in S
  PROVE  /\ [q EXCEPT ![i] = e] \in Seq(S)
         /\ Len([q EXCEPT ![i] = e]) = Len(q)
  OBVIOUS

\* The request in hand is the last one read.
LEMMA CurrentFacts ==
  ASSUME TypeOK, NEW c \in Call, received[c] # <<>>
  PROVE  /\ Len(received[c]) \in 1..MaxPerCall
         /\ DOMAIN received[c] = 1..Len(received[c])
         /\ Current(c) = received[c][Len(received[c])]
         /\ Current(c) \in Request
         /\ Target(c) \in Channel
  <1>1. /\ received[c] \in Seq(Request)
        /\ Len(received[c]) \in Nat
        /\ Len(received[c]) # 0
        /\ Len(received[c]) <= MaxPerCall
    BY DEF TypeOK
  <1>2. Len(received[c]) \in 1..MaxPerCall
    BY <1>1, ServiceAssumption
  <1>3. Current(c) \in Request
    BY <1>1, <1>2 DEF Current
  <1>4. QED
    BY <1>1, <1>2, <1>3 DEF Target, Request, Current

\* Reading one request more than before.
LEMMA AcceptFacts ==
  ASSUME TypeOK, NEW c \in Call, NEW ch \in Channel,
         NEW u \in User \cup {NoUser}, Len(received[c]) < MaxPerCall,
         Accept(c, ch, u)
  PROVE  /\ received' \in [Call -> Seq(Request)]
         /\ Len(received'[c]) = Len(received[c]) + 1
         /\ \A d \in Call : Len(received'[d]) <= MaxPerCall
         /\ DOMAIN received[c] = 1..Len(received[c])
         /\ DOMAIN received'[c] = 1..(Len(received[c]) + 1)
         /\ received'[c][Len(received[c]) + 1].call = c
         /\ received'[c][Len(received[c]) + 1].n = Len(received[c]) + 1
         /\ \A n \in 1..Len(received[c]) : received'[c][n] = received[c][n]
         /\ \A d \in Call \ {c} : received'[d] = received[d]
         /\ pc' = [pc EXCEPT ![c] = "counting"]
         /\ known' = [known EXCEPT ![c] = channels]
  <1> DEFINE q == received[c]
             e == [call |-> c, n |-> Len(q) + 1, channel |-> ch, user |-> u]
  <1>1. /\ q \in Seq(Request)
        /\ Len(q) \in Nat
        /\ Len(q) + 1 \in 1..MaxPerCall
    BY ServiceAssumption DEF TypeOK
  <1>2. e \in Request
    BY <1>1 DEF Request
  <1>3. /\ received' = [received EXCEPT ![c] = Append(q, e)]
        /\ pc' = [pc EXCEPT ![c] = "counting"]
        /\ known' = [known EXCEPT ![c] = channels]
    BY DEF Accept, Goto
  <1>4. received'[c] = Append(q, e)
    BY <1>3 DEF TypeOK
  <1>5. /\ Append(q, e) \in Seq(Request)
        /\ Len(Append(q, e)) = Len(q) + 1
        /\ DOMAIN q = 1..Len(q)
        /\ DOMAIN Append(q, e) = 1..(Len(q) + 1)
        /\ Append(q, e)[Len(q) + 1] = e
        /\ \A i \in 1..Len(q) : Append(q, e)[i] = q[i]
    BY <1>1, <1>2, AppendFacts
  <1>6. /\ received' \in [Call -> Seq(Request)]
        /\ \A d \in Call \ {c} : received'[d] = received[d]
    BY <1>3, <1>5 DEF TypeOK
  <1>7. \A d \in Call : Len(received'[d]) <= MaxPerCall
    <2>1. Len(received'[c]) <= MaxPerCall
      BY <1>1, <1>4, <1>5
    <2>2. QED
      BY <1>6, <2>1 DEF TypeOK
  <1>8. QED
    BY <1>1, <1>3, <1>4, <1>5, <1>6, <1>7

\* A fresh server and fresh calls satisfy the invariant.
LEMMA InitIInv == Init => IInv
  <1> SUFFICES ASSUME Init PROVE IInv
    OBVIOUS
  <1> USE DEF Init
  <1>1. TypeOK
    <2>1. /\ DOMAIN channelMap = {}
          /\ channelMap \in [DOMAIN channelMap -> 1..Len(objects)]
      OBVIOUS
    <2>2. rows \in Seq(Request) /\ objects \in Seq(Seq(Request))
      BY EmptyFacts
    <2>3. /\ received \in [Call -> Seq(Request)]
          /\ \A c \in Call : Len(received[c]) <= MaxPerCall
          /\ object \in [Call -> 0..Len(objects)]
      BY ServiceAssumption, EmptyFacts
    <2>4. /\ pc \in [Call -> Label]
          /\ status \in [Call -> StatusCode]
          /\ known \in [Call -> SUBSET Channel]
          /\ cursor \in [Listener -> Nat]
          /\ crashes \in 0..MaxCrashes
      BY ServiceAssumption DEF Label, StatusCode
    <2>5. QED
      BY <2>1, <2>2, <2>3, <2>4 DEF TypeOK
  <1>2. CallInv
    BY DEF CallInv, CallOK, Unsettled
  <1>3. RowInv /\ StreamPrefix
    BY DEF RowInv, StreamPrefix
  <1>4. StoreInv
    <2>1. \A s \in Sender : DOMAIN received[s] = {}
      BY EmptyFacts DEF Call
    <2>2. QED
      BY <2>1 DEF StoreInv, StoreOK
  <1>5. QED
    BY <1>1, <1>2, <1>3, <1>4 DEF IInv

-----------------------------------------------------------------------------
\* Every step keeps the variables in their sets.
LEMMA StepTypeOK == IInv /\ [Next]_vars => TypeOK'
  <1> SUFFICES ASSUME IInv, [Next]_vars PROVE TypeOK'
    OBVIOUS
  <1> USE ServiceAssumption DEF IInv, TypeOK, Label, StatusCode
  <1>1. ASSUME NEW c \in Call, SessionFails(c) PROVE TypeOK'
    BY <1>1 DEF SessionFails, Return, Goto, dbVars, processVars, Failure
  <1>2. ASSUME NEW c \in Call, Count(c) PROVE TypeOK'
    BY <1>2 DEF Count, SearchStep, Search, Goto, dbVars
  <1>3. ASSUME NEW c \in Call, Query(c) PROVE TypeOK'
    BY <1>3 DEF Query, Return, Goto, dbVars, processVars
  <1>4. ASSUME NEW c \in Call, Emplace(c) PROVE TypeOK'
    BY <1>4 DEF Emplace, SearchStep, Search, Goto, dbVars
  <1>5. ASSUME NEW c \in Call, Lookup(c) PROVE TypeOK'
    BY <1>5 DEF Lookup, Search, Goto, dbVars
  <1>6. ASSUME NEW c \in Call, Link(c) PROVE TypeOK'
    <2> DEFINE new == Len(objects) + 1
    <2>1. Target(c) \in Channel
      BY <1>6, CurrentFacts DEF Link, Writing, CallInv, CallOK, Unsettled
    <2>2. /\ objects' = Append(objects, <<>>)
          /\ objects' \in Seq(Seq(Request))
          /\ Len(objects) \in Nat
          /\ Len(objects') = new
      BY <1>6, AppendFacts, EmptyFacts DEF Link
    <2>3. /\ DOMAIN channelMap' \subseteq Channel
          /\ channelMap' \in [DOMAIN channelMap' -> 1..new]
      <3>1. CASE channelMap' = channelMap
        BY <2>2, <3>1
      <3>2. CASE channelMap' = [ch \in DOMAIN channelMap \cup {Target(c)} |->
                                 IF ch = Target(c) THEN new ELSE channelMap[ch]]
        BY <2>1, <2>2, <3>2
      <3>3. QED
        BY <1>6, <3>1, <3>2 DEF Link
    <2>4. object' \in [Call -> 0..new]
      <3>1. 0..Len(objects) \subseteq 0..new /\ new \in 0..new
        BY <2>2
      <3>2. object \in [Call -> 0..new]
        BY <3>1
      <3>3. QED
        BY <1>6, <3>1, <3>2 DEF Link
    <2>5. pc' \in [Call -> Label]
      BY <1>6 DEF Link, Goto
    <2>6. QED
      BY <1>6, <2>2, <2>3, <2>4, <2>5 DEF Link, dbVars
  <1>7. ASSUME NEW s \in Call, StartStream(s) PROVE TypeOK'
    BY <1>7 DEF StartStream, Goto, dbVars, processVars
  <1>8. ASSUME NEW s \in Call, NEW ch \in Channel, NEW u \in User,
               ReadMessage(s, ch, u) PROVE TypeOK'
    <2>1. /\ Len(received[s]) < MaxPerCall
          /\ Accept(s, ch, u)
      BY <1>8, EmptyFacts DEF ReadMessage, CallInv, CallOK
    <2>2. /\ received' \in [Call -> Seq(Request)]
          /\ \A d \in Call : Len(received'[d]) <= MaxPerCall
          /\ pc' = [pc EXCEPT ![s] = "counting"]
          /\ known' = [known EXCEPT ![s] = channels]
      BY <2>1, AcceptFacts
    <2>3. pc' \in [Call -> Label] /\ known' \in [Call -> SUBSET Channel]
      <3>1. pc \in [Call -> Label] /\ "counting" \in Label
        BY DEF Label
      <3>2. known \in [Call -> SUBSET Channel] /\ channels \in SUBSET Channel
        OBVIOUS
      <3>3. QED
        BY <2>2, <3>1, <3>2
    <2>4. UNCHANGED <<channels, rows, up, crashes, channelMap, raced, objects,
                      status, object, cursor>>
      BY <1>8 DEF ReadMessage, dbVars, processVars
    <2>5. QED
      BY <2>2, <2>3, <2>4
  <1>9. ASSUME NEW s \in Call, EndOfStream(s) PROVE TypeOK'
    BY <1>9 DEF EndOfStream, Return, Goto, dbVars, processVars
  <1>9a. ASSUME NEW s \in Call, ReadFails(s) PROVE TypeOK'
    BY <1>9a DEF ReadFails, Return, Goto, dbVars, processVars
  <1>10. ASSUME NEW s \in Call, NEW ch \in Channel, NEW u \in User,
                StartWeb(s, ch, u) PROVE TypeOK'
    <2>1. /\ Len(received[s]) < MaxPerCall
          /\ Accept(s, ch, u)
      BY <1>10, EmptyFacts DEF StartWeb, CallInv, CallOK
    <2>2. /\ received' \in [Call -> Seq(Request)]
          /\ \A d \in Call : Len(received'[d]) <= MaxPerCall
          /\ pc' = [pc EXCEPT ![s] = "counting"]
          /\ known' = [known EXCEPT ![s] = channels]
      BY <2>1, AcceptFacts
    <2>3. pc' \in [Call -> Label] /\ known' \in [Call -> SUBSET Channel]
      <3>1. pc \in [Call -> Label] /\ "counting" \in Label
        BY DEF Label
      <3>2. known \in [Call -> SUBSET Channel] /\ channels \in SUBSET Channel
        OBVIOUS
      <3>3. QED
        BY <2>2, <3>1, <3>2
    <2>4. UNCHANGED <<channels, rows, up, crashes, channelMap, raced, objects,
                      status, object, cursor>>
      BY <1>10 DEF StartWeb, dbVars, processVars
    <2>5. QED
      BY <2>2, <2>3, <2>4
  <1>11. ASSUME NEW s \in Sender, Publish(s) PROVE TypeOK'
    <2> DEFINE o == object[s]
    <2>1. /\ Current(s) \in Request
          /\ o \in 1..Len(objects)
      <3>1. s \in Call /\ pc[s] = "bound"
        BY <1>11 DEF Publish, Call
      <3>2. received[s] # <<>> /\ o # 0
        BY <3>1 DEF CallInv, CallOK, Unsettled
      <3>3. o \in 0..Len(objects) /\ Len(objects) \in Nat
        BY <3>1
      <3>4. o \in 1..Len(objects)
        BY <3>2, <3>3
      <3>5. QED
        BY <3>1, <3>2, <3>4, CurrentFacts
    <2>2. Append(objects[o], Current(s)) \in Seq(Request)
      <3>1. objects[o] \in Seq(Request)
        BY <2>1
      <3>2. QED
        BY <2>1, <3>1, AppendFacts
    <2>3. /\ objects' = [objects EXCEPT ![o] = Append(objects[o], Current(s))]
          /\ objects' \in Seq(Seq(Request))
          /\ Len(objects') = Len(objects)
      BY <1>11, <2>1, <2>2, UpdateFacts DEF Publish
    <2>4. QED
      BY <1>11, <2>3 DEF Publish, Goto, dbVars
  <1>12. ASSUME NEW s \in Sender, StoreRow(s) PROVE TypeOK'
    <2>1. Current(s) \in Request
      BY <1>12, CurrentFacts DEF StoreRow, CallInv, CallOK, Unsettled, Call
    <2>2. rows' \in Seq(Request)
      BY <1>12, <2>1, AppendFacts DEF StoreRow
    <2>3. QED
      BY <1>12, <2>2 DEF StoreRow, Goto, processVars, Call
  <1>13. ASSUME NEW s \in Sender, RejectRow(s) PROVE TypeOK'
    BY <1>13 DEF RejectRow, Return, Goto, dbVars, processVars
  <1>14. ASSUME NEW s \in Sender, Answered(s) PROVE TypeOK'
    BY <1>14 DEF Answered, Return, Goto, dbVars, processVars
  <1>15. ASSUME NEW l \in Call, NEW ch \in Channel, StartListen(l, ch)
        PROVE TypeOK'
    <2>1. /\ Len(received[l]) < MaxPerCall
          /\ Accept(l, ch, NoUser)
      BY <1>15, EmptyFacts DEF StartListen, CallInv, CallOK
    <2>2. /\ received' \in [Call -> Seq(Request)]
          /\ \A d \in Call : Len(received'[d]) <= MaxPerCall
          /\ pc' = [pc EXCEPT ![l] = "counting"]
          /\ known' = [known EXCEPT ![l] = channels]
      BY <2>1, AcceptFacts
    <2>3. pc' \in [Call -> Label] /\ known' \in [Call -> SUBSET Channel]
      <3>1. pc \in [Call -> Label] /\ "counting" \in Label
        BY DEF Label
      <3>2. known \in [Call -> SUBSET Channel] /\ channels \in SUBSET Channel
        OBVIOUS
      <3>3. QED
        BY <2>2, <3>1, <3>2
    <2>4. UNCHANGED <<channels, rows, up, crashes, channelMap, raced, objects,
                      status, object, cursor>>
      BY <1>15 DEF StartListen, dbVars, processVars
    <2>5. QED
      BY <2>2, <2>3, <2>4
  <1>16. ASSUME NEW l \in Listener, Deliver(l) PROVE TypeOK'
    <2>1. cursor' = [cursor EXCEPT ![l] = Len(objects[object[l]])]
      BY <1>16 DEF Deliver
    <2>2. Len(objects[object[l]]) \in Nat
      <3>1. object[l] \in 1..Len(objects)
        BY <1>16 DEF Deliver, CallInv, CallOK, Call
      <3>2. objects[object[l]] \in Seq(Request)
        BY <3>1
      <3>3. QED
        BY <3>2
    <2>3. UNCHANGED <<channels, rows, up, crashes, channelMap, raced, objects,
                      pc, status, received, object, known>>
      BY <1>16 DEF Deliver, dbVars, processVars
    <2>4. QED
      BY <2>1, <2>2, <2>3
  <1>17. ASSUME NEW ch \in Channel, CreateChannel(ch) PROVE TypeOK'
    BY <1>17 DEF CreateChannel, processVars, callVars
  <1>18. ASSUME NEW c \in Call, LoseConnection(c) PROVE TypeOK'
    BY <1>18 DEF LoseConnection, Goto, Failure, dbVars, processVars
  <1>19. ASSUME NEW s \in Call, OrphanCommit(s) PROVE TypeOK'
    <2>1. Current(s) \in Request
      BY <1>19, CurrentFacts DEF OrphanCommit, CallInv, CallOK, Unsettled, Call
    <2>2. rows' \in Seq(Request)
      BY <1>19, <2>1, AppendFacts DEF OrphanCommit
    <2>3. QED
      BY <1>19, <2>2 DEF OrphanCommit, Goto, processVars, Call
  <1>20. ASSUME Crash PROVE TypeOK'
    <2>1. /\ DOMAIN channelMap' = {}
          /\ channelMap' \in [DOMAIN channelMap' -> 1..Len(objects)]
      BY <1>20 DEF Crash
    <2>2. /\ pc' \in [Call -> Label]
          /\ status' \in [Call -> StatusCode]
          /\ crashes' \in 0..MaxCrashes
      BY <1>20 DEF Crash
    <2>3. QED
      BY <1>20, <2>1, <2>2 DEF Crash, dbVars
  <1>21. ASSUME Restart PROVE TypeOK'
    BY <1>21 DEF Restart, dbVars, callVars
  <1>22. CASE UNCHANGED vars
    BY <1>22 DEF vars
  <1>23. QED
    BY <1>1, <1>2, <1>3, <1>4, <1>5, <1>6, <1>7, <1>8, <1>9, <1>9a, <1>10,
       <1>11, <1>12, <1>13, <1>14, <1>15, <1>16, <1>17, <1>18, <1>19, <1>20,
       <1>21, <1>22
    DEF Next, ClientStep, CheckStep, FaultStep, SendStep

-----------------------------------------------------------------------------
\* A step keeps the control state and the data of each call in agreement.
LEMMA StepCallInv == IInv /\ [Next]_vars => CallInv'
  <1> SUFFICES ASSUME IInv, [Next]_vars PROVE CallInv'
    OBVIOUS
  <1> USE ServiceAssumption DEF IInv, TypeOK, Label, StatusCode, CallInv,
        CallOK, Unsettled
  <1>1. ASSUME NEW c \in Call, SessionFails(c) PROVE CallInv'
    BY <1>1 DEF SessionFails, Return, Goto, dbVars, processVars, Failure
  <1>2. ASSUME NEW c \in Call, Count(c) PROVE CallInv'
    BY <1>2 DEF Count, SearchStep, Search, Goto, dbVars
  <1>3. ASSUME NEW c \in Call, Query(c) PROVE CallInv'
    BY <1>3 DEF Query, Return, Goto, dbVars, processVars
  <1>4. ASSUME NEW c \in Call, Emplace(c) PROVE CallInv'
    BY <1>4 DEF Emplace, SearchStep, Search, Goto, dbVars
  <1>5. ASSUME NEW c \in Call, Lookup(c) PROVE CallInv'
    <2>1. \/ object' = object
          \/ object' = [object EXCEPT ![c] = channelMap[Target(c)]]
      BY <1>5 DEF Lookup
    <2>2. pc'[c] = "bound" => object'[c] \in 1..Len(objects)
      <3>1. PICK found \in Search(c, Target(c)) :
              IF found
                THEN object' = [object EXCEPT ![c] = channelMap[Target(c)]]
                ELSE pc' = [pc EXCEPT ![c] = "growing"]
        BY <1>5 DEF Lookup, Goto
      <3>2. CASE found
        <4>1. Target(c) \in DOMAIN channelMap
          BY <3>1, <3>2 DEF Search
        <4>2. channelMap[Target(c)] \in 1..Len(objects)
          BY <4>1
        <4>3. QED
          BY <3>1, <3>2, <4>2
      <3>3. CASE ~found
        <4>1. pc'[c] # "bound"
          BY <3>1, <3>3
        <4>2. QED
          BY <4>1
      <3>4. QED
        BY <3>1, <3>2, <3>3 DEF Search
    <2>3. QED
      BY <1>5, <2>1, <2>2 DEF Lookup, Goto, dbVars
  <1>6. ASSUME NEW c \in Call, Link(c) PROVE CallInv'
    <2>1. Len(objects) + 1 # 0
      OBVIOUS
    <2>2. CallOK(c)'
      BY <1>6, <2>1 DEF Link, Writing, Goto, dbVars
    <2>3. ASSUME NEW d \in Call \ {c} PROVE CallOK(d)'
      BY <1>6 DEF Link, Goto, dbVars
    <2>4. QED
      BY <2>2, <2>3
  <1>7. ASSUME NEW s \in Call, StartStream(s) PROVE CallInv'
    BY <1>7 DEF StartStream, Goto, dbVars, processVars, Sender
  <1>8. ASSUME NEW s \in Call, NEW ch \in Channel, NEW u \in User,
               ReadMessage(s, ch, u) PROVE CallInv'
    <2>1. /\ Len(received[s]) < MaxPerCall
          /\ Accept(s, ch, u)
      BY <1>8, EmptyFacts DEF ReadMessage
    <2> DEFINE len == Len(received[s])
    <2>2. /\ len \in Nat
          /\ Len(received'[s]) = len + 1
          /\ DOMAIN received[s] = 1..len
          /\ DOMAIN received'[s] = 1..(len + 1)
          /\ received'[s][len + 1].call = s
          /\ received'[s][len + 1].n = len + 1
          /\ \A n \in 1..len : received'[s][n] = received[s][n]
          /\ \A d \in Call \ {s} : received'[d] = received[d]
          /\ pc' = [pc EXCEPT ![s] = "counting"]
      BY <2>1, AcceptFacts
    <2>3. received'[s] # <<>>
      BY <2>2, EmptyFacts
    <2>4. /\ object' = object
          /\ status' = status
          /\ status[s] = "none"
      BY <1>8 DEF ReadMessage
    <2>5. ASSUME NEW n \in 1..(len + 1)
          PROVE  received'[s][n].call = s /\ received'[s][n].n = n
      <3>1. CASE n = len + 1
        BY <2>2, <3>1
      <3>2. CASE n \in 1..len
        BY <2>2, <3>2
      <3>3. QED
        BY <2>2, <3>1, <3>2
    <2>6. pc'[s] = "counting" /\ status'[s] = "none"
      BY <2>2, <2>4
    <2>7. CallOK(s)'
      BY ONLY <2>2, <2>3, <2>5, <2>6 DEF CallOK, Unsettled
    <2>8. ASSUME NEW d \in Call \ {s} PROVE CallOK(d)'
      <3>1. /\ pc'[d] = pc[d] /\ status'[d] = status[d]
            /\ object'[d] = object[d] /\ received'[d] = received[d]
        BY <2>2, <2>4
      <3>2. CallOK(d)
        OBVIOUS
      <3>3. QED
        BY ONLY <3>1, <3>2 DEF CallOK, Unsettled
    <2>9. QED
      BY <2>7, <2>8
  <1>9. ASSUME NEW s \in Call, EndOfStream(s) PROVE CallInv'
    BY <1>9 DEF EndOfStream, Return, Goto, dbVars, processVars
  <1>9a. ASSUME NEW s \in Call, ReadFails(s) PROVE CallInv'
    BY <1>9a DEF ReadFails, Return, Goto, dbVars, processVars
  <1>10. ASSUME NEW s \in Call, NEW ch \in Channel, NEW u \in User,
                StartWeb(s, ch, u) PROVE CallInv'
    <2>1. /\ Len(received[s]) < MaxPerCall
          /\ Accept(s, ch, u)
      BY <1>10, EmptyFacts DEF StartWeb
    <2> DEFINE len == Len(received[s])
    <2>2. /\ len \in Nat
          /\ Len(received'[s]) = len + 1
          /\ DOMAIN received[s] = 1..len
          /\ DOMAIN received'[s] = 1..(len + 1)
          /\ received'[s][len + 1].call = s
          /\ received'[s][len + 1].n = len + 1
          /\ \A n \in 1..len : received'[s][n] = received[s][n]
          /\ \A d \in Call \ {s} : received'[d] = received[d]
          /\ pc' = [pc EXCEPT ![s] = "counting"]
      BY <2>1, AcceptFacts
    <2>3. received'[s] # <<>>
      BY <2>2, EmptyFacts
    <2>4. /\ object' = object
          /\ status' = status
          /\ status[s] = "none"
      BY <1>10 DEF StartWeb
    <2>5. ASSUME NEW n \in 1..(len + 1)
          PROVE  received'[s][n].call = s /\ received'[s][n].n = n
      <3>1. CASE n = len + 1
        BY <2>2, <3>1
      <3>2. CASE n \in 1..len
        BY <2>2, <3>2
      <3>3. QED
        BY <2>2, <3>1, <3>2
    <2>6. pc'[s] = "counting" /\ status'[s] = "none"
      BY <2>2, <2>4
    <2>7. CallOK(s)'
      BY ONLY <2>2, <2>3, <2>5, <2>6 DEF CallOK, Unsettled
    <2>8. ASSUME NEW d \in Call \ {s} PROVE CallOK(d)'
      <3>1. /\ pc'[d] = pc[d] /\ status'[d] = status[d]
            /\ object'[d] = object[d] /\ received'[d] = received[d]
        BY <2>2, <2>4
      <3>2. CallOK(d)
        OBVIOUS
      <3>3. QED
        BY ONLY <3>1, <3>2 DEF CallOK, Unsettled
    <2>9. QED
      BY <2>7, <2>8
  <1>11. ASSUME NEW s \in Sender, Publish(s) PROVE CallInv'
    BY <1>11 DEF Publish, Goto, dbVars
  <1>12. ASSUME NEW s \in Sender, StoreRow(s) PROVE CallInv'
    BY <1>12 DEF StoreRow, Goto, processVars
  <1>13. ASSUME NEW s \in Sender, RejectRow(s) PROVE CallInv'
    BY <1>13 DEF RejectRow, Return, Goto, dbVars, processVars
  <1>14. ASSUME NEW s \in Sender, Answered(s) PROVE CallInv'
    BY <1>14 DEF Answered, Return, Goto, dbVars, processVars
  <1>15. ASSUME NEW l \in Call, NEW ch \in Channel, StartListen(l, ch)
        PROVE CallInv'
    <2>1. /\ Len(received[l]) < MaxPerCall
          /\ Accept(l, ch, NoUser)
      BY <1>15, EmptyFacts DEF StartListen
    <2> DEFINE len == Len(received[l])
    <2>2. /\ len \in Nat
          /\ Len(received'[l]) = len + 1
          /\ DOMAIN received[l] = 1..len
          /\ DOMAIN received'[l] = 1..(len + 1)
          /\ received'[l][len + 1].call = l
          /\ received'[l][len + 1].n = len + 1
          /\ \A n \in 1..len : received'[l][n] = received[l][n]
          /\ \A d \in Call \ {l} : received'[d] = received[d]
          /\ pc' = [pc EXCEPT ![l] = "counting"]
      BY <2>1, AcceptFacts
    <2>3. received'[l] # <<>>
      BY <2>2, EmptyFacts
    <2>4. /\ object' = object
          /\ status' = status
          /\ status[l] = "none"
      BY <1>15 DEF StartListen
    <2>5. ASSUME NEW n \in 1..(len + 1)
          PROVE  received'[l][n].call = l /\ received'[l][n].n = n
      <3>1. CASE n = len + 1
        BY <2>2, <3>1
      <3>2. CASE n \in 1..len
        BY <2>2, <3>2
      <3>3. QED
        BY <2>2, <3>1, <3>2
    <2>6. pc'[l] = "counting" /\ status'[l] = "none"
      BY <2>2, <2>4
    <2>7. CallOK(l)'
      BY ONLY <2>2, <2>3, <2>5, <2>6 DEF CallOK, Unsettled
    <2>8. ASSUME NEW d \in Call \ {l} PROVE CallOK(d)'
      <3>1. /\ pc'[d] = pc[d] /\ status'[d] = status[d]
            /\ object'[d] = object[d] /\ received'[d] = received[d]
        BY <2>2, <2>4
      <3>2. CallOK(d)
        OBVIOUS
      <3>3. QED
        BY ONLY <3>1, <3>2 DEF CallOK, Unsettled
    <2>9. QED
      BY <2>7, <2>8
  <1>16. ASSUME NEW l \in Listener, Deliver(l) PROVE CallInv'
    BY <1>16 DEF Deliver, dbVars, processVars
  <1>17. ASSUME NEW ch \in Channel, CreateChannel(ch) PROVE CallInv'
    BY <1>17 DEF CreateChannel, processVars, callVars
  <1>18. ASSUME NEW c \in Call, LoseConnection(c) PROVE CallInv'
    BY <1>18 DEF LoseConnection, Goto, Failure, dbVars, processVars
  <1>19. ASSUME NEW s \in Call, OrphanCommit(s) PROVE CallInv'
    BY <1>19 DEF OrphanCommit, Goto, processVars
  <1>20. ASSUME Crash PROVE CallInv'
    BY <1>20 DEF Crash, Running, dbVars
  <1>21. ASSUME Restart PROVE CallInv'
    BY <1>21 DEF Restart, dbVars, callVars
  <1>22. CASE UNCHANGED vars
    BY <1>22 DEF vars
  <1>23. QED
    BY <1>1, <1>2, <1>3, <1>4, <1>5, <1>6, <1>7, <1>8, <1>9, <1>9a, <1>10,
       <1>11, <1>12, <1>13, <1>14, <1>15, <1>16, <1>17, <1>18, <1>19, <1>20,
       <1>21, <1>22
    DEF Next, ClientStep, CheckStep, FaultStep, SendStep

-----------------------------------------------------------------------------
(* The database and the calls *)

\* The positions of the history.
LEMMA RowFacts ==
  ASSUME TypeOK
  PROVE  Len(rows) \in Nat /\ DOMAIN rows = 1..Len(rows)
  BY DEF TypeOK

\* What the log gains when a row is inserted.
LEMMA InsertFacts ==
  ASSUME TypeOK, NEW m \in Request, rows' = Append(rows, m)
  PROVE  /\ Len(rows) \in Nat
         /\ DOMAIN rows = 1..Len(rows)
         /\ DOMAIN rows' = 1..(Len(rows) + 1)
         /\ rows'[Len(rows) + 1] = m
         /\ \A i \in 1..Len(rows) : rows'[i] = rows[i]
  BY AppendFacts DEF TypeOK

\* The message in hand is its call's message of its number.
LEMMA InHandFacts ==
  ASSUME TypeOK, CallInv, NEW s \in Call, received[s] # <<>>
  PROVE  /\ Current(s).call = s
         /\ Current(s).n = Len(received[s])
         /\ Current(s).n \in DOMAIN received[s]
         /\ Current(s) = received[s][Len(received[s])]
  BY CurrentFacts DEF CallInv, CallOK

\* A row stays the message its call read, however many more it reads.
LEMMA StepRowInv == IInv /\ [Next]_vars => RowInv'
  <1> SUFFICES ASSUME IInv, [Next]_vars PROVE RowInv'
    OBVIOUS
  <1> USE ServiceAssumption DEF IInv
  <1>1. ASSUME NEW c \in Call, SessionFails(c) PROVE RowInv'
    BY <1>1 DEF SessionFails, Return, Goto, dbVars, processVars, Failure, RowInv
  <1>2. ASSUME NEW c \in Call, Count(c) PROVE RowInv'
    BY <1>2 DEF Count, SearchStep, Search, Goto, dbVars, RowInv
  <1>3. ASSUME NEW c \in Call, Query(c) PROVE RowInv'
    BY <1>3 DEF Query, Return, Goto, dbVars, processVars, RowInv
  <1>4. ASSUME NEW c \in Call, Emplace(c) PROVE RowInv'
    BY <1>4 DEF Emplace, SearchStep, Search, Goto, dbVars, RowInv
  <1>5. ASSUME NEW c \in Call, Lookup(c) PROVE RowInv'
    BY <1>5 DEF Lookup, Search, Goto, dbVars, RowInv
  <1>6. ASSUME NEW c \in Call, Link(c) PROVE RowInv'
    BY <1>6 DEF Link, Writing, Goto, dbVars, RowInv
  <1>7. ASSUME NEW s \in Call, StartStream(s) PROVE RowInv'
    BY <1>7 DEF StartStream, Goto, dbVars, processVars, RowInv
  <1>8. ASSUME NEW s \in Call, NEW ch \in Channel, NEW u \in User,
               ReadMessage(s, ch, u) PROVE RowInv'
    <2>1. /\ Len(received[s]) < MaxPerCall
          /\ Accept(s, ch, u)
      BY <1>8, EmptyFacts DEF ReadMessage, CallInv, CallOK
    <2> DEFINE len == Len(received[s])
    <2>2. /\ len \in Nat
          /\ Len(received'[s]) = len + 1
          /\ DOMAIN received[s] = 1..len
          /\ DOMAIN received'[s] = 1..(len + 1)
          /\ received'[s][len + 1].call = s
          /\ received'[s][len + 1].n = len + 1
          /\ \A n \in 1..len : received'[s][n] = received[s][n]
          /\ \A d \in Call \ {s} : received'[d] = received[d]
          /\ pc' = [pc EXCEPT ![s] = "counting"]
      BY <2>1, AcceptFacts
    <2>3. rows' = rows /\ status' = status
      BY <1>8 DEF ReadMessage, dbVars
    <2>4. QED
      BY <2>2, <2>3 DEF RowInv, Call
  <1>9. ASSUME NEW s \in Call, EndOfStream(s) PROVE RowInv'
    BY <1>9 DEF EndOfStream, Return, Goto, dbVars, processVars, RowInv
  <1>9a. ASSUME NEW s \in Call, ReadFails(s) PROVE RowInv'
    BY <1>9a DEF ReadFails, Return, Goto, dbVars, processVars, RowInv
  <1>10. ASSUME NEW s \in Call, NEW ch \in Channel, NEW u \in User,
                StartWeb(s, ch, u) PROVE RowInv'
    <2>1. /\ Len(received[s]) < MaxPerCall
          /\ Accept(s, ch, u)
      BY <1>10, EmptyFacts DEF StartWeb, CallInv, CallOK
    <2> DEFINE len == Len(received[s])
    <2>2. /\ len \in Nat
          /\ Len(received'[s]) = len + 1
          /\ DOMAIN received[s] = 1..len
          /\ DOMAIN received'[s] = 1..(len + 1)
          /\ received'[s][len + 1].call = s
          /\ received'[s][len + 1].n = len + 1
          /\ \A n \in 1..len : received'[s][n] = received[s][n]
          /\ \A d \in Call \ {s} : received'[d] = received[d]
          /\ pc' = [pc EXCEPT ![s] = "counting"]
      BY <2>1, AcceptFacts
    <2>3. rows' = rows /\ status' = status
      BY <1>10 DEF StartWeb, dbVars
    <2>4. QED
      BY <2>2, <2>3 DEF RowInv, Call
  <1>11. ASSUME NEW s \in Sender, Publish(s) PROVE RowInv'
    BY <1>11 DEF Publish, Goto, dbVars, RowInv
  <1>12. ASSUME NEW s \in Sender, StoreRow(s) PROVE RowInv'
    <2>1. received[s] # <<>>
      BY <1>12 DEF StoreRow, CallInv, CallOK, Unsettled, Call
    <2> DEFINE m == Current(s)
               len == Len(rows)
    <2>2. /\ m \in Request
          /\ m.call = s
          /\ m.n = Len(received[s])
          /\ m.n \in DOMAIN received[s]
          /\ m = received[s][m.n]
          /\ Len(received[s]) \in Nat
          /\ DOMAIN received[s] = 1..Len(received[s])
      BY <2>1, CurrentFacts, InHandFacts DEF Call
    <2>3. /\ rows' = Append(rows, m)
          /\ received' = received
      BY <1>12 DEF StoreRow
    <2>4. /\ len \in Nat
          /\ DOMAIN rows = 1..len
          /\ DOMAIN rows' = 1..(len + 1)
          /\ rows'[len + 1] = m
          /\ \A i \in 1..len : rows'[i] = rows[i]
      BY <2>2, <2>3, InsertFacts
    <2>5. s \in Sender
      BY <1>12 DEF StoreRow, CallInv, CallOK
    <2>6. ASSUME NEW i \in 1..(len + 1)
          PROVE  /\ rows'[i].call \in Sender
                 /\ rows'[i].n \in DOMAIN received[rows'[i].call]
                 /\ rows'[i] = received[rows'[i].call][rows'[i].n]
      <3>1. CASE i = len + 1
        BY <2>2, <2>4, <2>5, <3>1
      <3>2. CASE i \in 1..len
        BY <2>4, <3>2 DEF RowInv
      <3>3. QED
        BY <2>4, <3>1, <3>2
    <2>7. QED
      BY <2>3, <2>4, <2>6 DEF RowInv
  <1>13. ASSUME NEW s \in Sender, RejectRow(s) PROVE RowInv'
    BY <1>13 DEF RejectRow, Return, Goto, dbVars, processVars, RowInv
  <1>14. ASSUME NEW s \in Sender, Answered(s) PROVE RowInv'
    BY <1>14 DEF Answered, Return, Goto, dbVars, processVars, RowInv
  <1>15. ASSUME NEW l \in Call, NEW ch \in Channel, StartListen(l, ch)
        PROVE RowInv'
    <2>1. /\ Len(received[l]) < MaxPerCall
          /\ Accept(l, ch, NoUser)
      BY <1>15, EmptyFacts DEF StartListen, CallInv, CallOK
    <2> DEFINE len == Len(received[l])
    <2>2. /\ len \in Nat
          /\ Len(received'[l]) = len + 1
          /\ DOMAIN received[l] = 1..len
          /\ DOMAIN received'[l] = 1..(len + 1)
          /\ received'[l][len + 1].call = l
          /\ received'[l][len + 1].n = len + 1
          /\ \A n \in 1..len : received'[l][n] = received[l][n]
          /\ \A d \in Call \ {l} : received'[d] = received[d]
          /\ pc' = [pc EXCEPT ![l] = "counting"]
      BY <2>1, AcceptFacts
    <2>3. rows' = rows /\ status' = status
      BY <1>15 DEF StartListen, dbVars
    <2>4. QED
      BY <2>2, <2>3 DEF RowInv, Call
  <1>16. ASSUME NEW l \in Listener, Deliver(l) PROVE RowInv'
    BY <1>16 DEF Deliver, dbVars, processVars, RowInv
  <1>17. ASSUME NEW ch \in Channel, CreateChannel(ch) PROVE RowInv'
    BY <1>17 DEF CreateChannel, processVars, callVars, RowInv
  <1>18. ASSUME NEW c \in Call, LoseConnection(c) PROVE RowInv'
    BY <1>18 DEF LoseConnection, Goto, Failure, dbVars, processVars, RowInv
  <1>19. ASSUME NEW s \in Call, OrphanCommit(s) PROVE RowInv'
    <2>1. received[s] # <<>>
      BY <1>19 DEF OrphanCommit, CallInv, CallOK, Unsettled, Call
    <2> DEFINE m == Current(s)
               len == Len(rows)
    <2>2. /\ m \in Request
          /\ m.call = s
          /\ m.n = Len(received[s])
          /\ m.n \in DOMAIN received[s]
          /\ m = received[s][m.n]
          /\ Len(received[s]) \in Nat
          /\ DOMAIN received[s] = 1..Len(received[s])
      BY <2>1, CurrentFacts, InHandFacts DEF Call
    <2>3. /\ rows' = Append(rows, m)
          /\ received' = received
      BY <1>19 DEF OrphanCommit
    <2>4. /\ len \in Nat
          /\ DOMAIN rows = 1..len
          /\ DOMAIN rows' = 1..(len + 1)
          /\ rows'[len + 1] = m
          /\ \A i \in 1..len : rows'[i] = rows[i]
      BY <2>2, <2>3, InsertFacts
    <2>5. s \in Sender
      BY <1>19 DEF OrphanCommit, CallInv, CallOK
    <2>6. ASSUME NEW i \in 1..(len + 1)
          PROVE  /\ rows'[i].call \in Sender
                 /\ rows'[i].n \in DOMAIN received[rows'[i].call]
                 /\ rows'[i] = received[rows'[i].call][rows'[i].n]
      <3>1. CASE i = len + 1
        BY <2>2, <2>4, <2>5, <3>1
      <3>2. CASE i \in 1..len
        BY <2>4, <3>2 DEF RowInv
      <3>3. QED
        BY <2>4, <3>1, <3>2
    <2>7. QED
      BY <2>3, <2>4, <2>6 DEF RowInv
  <1>20. ASSUME Crash PROVE RowInv'
    BY <1>20 DEF Crash, Running, dbVars, RowInv
  <1>21. ASSUME Restart PROVE RowInv'
    BY <1>21 DEF Restart, dbVars, callVars, RowInv
  <1>22. CASE UNCHANGED vars
    BY <1>22 DEF vars, RowInv
  <1>23. QED
    BY <1>1, <1>2, <1>3, <1>4, <1>5, <1>6, <1>7, <1>8, <1>9, <1>9a, <1>10,
       <1>11, <1>12, <1>13, <1>14, <1>15, <1>16, <1>17, <1>18, <1>19, <1>20,
       <1>21, <1>22
    DEF Next, ClientStep, CheckStep, FaultStep, SendStep

\* The rows of a call stay a prefix of what it read.
LEMMA StepStreamPrefix == IInv /\ [Next]_vars => StreamPrefix'
  <1> SUFFICES ASSUME IInv, [Next]_vars PROVE StreamPrefix'
    OBVIOUS
  <1> USE ServiceAssumption DEF IInv
  <1>1. ASSUME NEW c \in Call, SessionFails(c) PROVE StreamPrefix'
    BY <1>1
    DEF SessionFails, Return, Goto, dbVars, processVars, Failure, StreamPrefix
  <1>2. ASSUME NEW c \in Call, Count(c) PROVE StreamPrefix'
    BY <1>2 DEF Count, SearchStep, Search, Goto, dbVars, StreamPrefix
  <1>3. ASSUME NEW c \in Call, Query(c) PROVE StreamPrefix'
    BY <1>3 DEF Query, Return, Goto, dbVars, processVars, StreamPrefix
  <1>4. ASSUME NEW c \in Call, Emplace(c) PROVE StreamPrefix'
    BY <1>4 DEF Emplace, SearchStep, Search, Goto, dbVars, StreamPrefix
  <1>5. ASSUME NEW c \in Call, Lookup(c) PROVE StreamPrefix'
    BY <1>5 DEF Lookup, Search, Goto, dbVars, StreamPrefix
  <1>6. ASSUME NEW c \in Call, Link(c) PROVE StreamPrefix'
    BY <1>6 DEF Link, Writing, Goto, dbVars, StreamPrefix
  <1>7. ASSUME NEW s \in Call, StartStream(s) PROVE StreamPrefix'
    BY <1>7 DEF StartStream, Goto, dbVars, processVars, StreamPrefix
  <1>8. ASSUME NEW s \in Call, NEW ch \in Channel, NEW u \in User,
               ReadMessage(s, ch, u) PROVE StreamPrefix'
    <2>1. /\ Len(received[s]) < MaxPerCall
          /\ Accept(s, ch, u)
      BY <1>8, EmptyFacts DEF ReadMessage, CallInv, CallOK
    <2> DEFINE len == Len(received[s])
    <2>2. /\ len \in Nat
          /\ Len(received'[s]) = len + 1
          /\ DOMAIN received[s] = 1..len
          /\ DOMAIN received'[s] = 1..(len + 1)
          /\ received'[s][len + 1].call = s
          /\ received'[s][len + 1].n = len + 1
          /\ \A n \in 1..len : received'[s][n] = received[s][n]
          /\ \A d \in Call \ {s} : received'[d] = received[d]
          /\ pc' = [pc EXCEPT ![s] = "counting"]
      BY <2>1, AcceptFacts
    <2>3. rows' = rows /\ status' = status
      BY <1>8 DEF ReadMessage, dbVars
    <2>4. \A i \in DOMAIN rows : \A n \in 1..rows[i].n :
            received'[rows[i].call][n] = received[rows[i].call][n]
      BY <2>2 DEF RowInv, Call
    <2>5. QED
      BY <2>3, <2>4 DEF StreamPrefix
  <1>9. ASSUME NEW s \in Call, EndOfStream(s) PROVE StreamPrefix'
    BY <1>9 DEF EndOfStream, Return, Goto, dbVars, processVars, StreamPrefix
  <1>9a. ASSUME NEW s \in Call, ReadFails(s) PROVE StreamPrefix'
    BY <1>9a DEF ReadFails, Return, Goto, dbVars, processVars, StreamPrefix
  <1>10. ASSUME NEW s \in Call, NEW ch \in Channel, NEW u \in User,
                StartWeb(s, ch, u) PROVE StreamPrefix'
    <2>1. /\ Len(received[s]) < MaxPerCall
          /\ Accept(s, ch, u)
      BY <1>10, EmptyFacts DEF StartWeb, CallInv, CallOK
    <2> DEFINE len == Len(received[s])
    <2>2. /\ len \in Nat
          /\ Len(received'[s]) = len + 1
          /\ DOMAIN received[s] = 1..len
          /\ DOMAIN received'[s] = 1..(len + 1)
          /\ received'[s][len + 1].call = s
          /\ received'[s][len + 1].n = len + 1
          /\ \A n \in 1..len : received'[s][n] = received[s][n]
          /\ \A d \in Call \ {s} : received'[d] = received[d]
          /\ pc' = [pc EXCEPT ![s] = "counting"]
      BY <2>1, AcceptFacts
    <2>3. rows' = rows /\ status' = status
      BY <1>10 DEF StartWeb, dbVars
    <2>4. \A i \in DOMAIN rows : \A n \in 1..rows[i].n :
            received'[rows[i].call][n] = received[rows[i].call][n]
      BY <2>2 DEF RowInv, Call
    <2>5. QED
      BY <2>3, <2>4 DEF StreamPrefix
  <1>11. ASSUME NEW s \in Sender, Publish(s) PROVE StreamPrefix'
    BY <1>11 DEF Publish, Goto, dbVars, StreamPrefix
  <1>12. ASSUME NEW s \in Sender, StoreRow(s) PROVE StreamPrefix'
    <2>1. received[s] # <<>>
      BY <1>12 DEF StoreRow, CallInv, CallOK, Unsettled, Call
    <2> DEFINE m == Current(s)
               len == Len(rows)
    <2>2. /\ m \in Request
          /\ m.call = s
          /\ m.n = Len(received[s])
          /\ m.n \in DOMAIN received[s]
          /\ m = received[s][m.n]
          /\ Len(received[s]) \in Nat
          /\ DOMAIN received[s] = 1..Len(received[s])
      BY <2>1, CurrentFacts, InHandFacts DEF Call
    <2>3. /\ rows' = Append(rows, m)
          /\ received' = received
      BY <1>12 DEF StoreRow
    <2>4. /\ len \in Nat
          /\ DOMAIN rows = 1..len
          /\ DOMAIN rows' = 1..(len + 1)
          /\ rows'[len + 1] = m
          /\ \A i \in 1..len : rows'[i] = rows[i]
      BY <2>2, <2>3, InsertFacts
    <2>5. s \in Sender
      BY <1>12 DEF StoreRow, CallInv, CallOK
    <2>6. /\ \A i \in 1..len : rows[i] # m
          /\ \A n \in 1..(m.n - 1) : \E j \in 1..len : rows[j] = received[s][n]
      <3>1. ~InHistory(m)
        <4>1. pc[s] \in Unsettled \cup {"orphan"}
          BY <1>12 DEF StoreRow, Unsettled
        <4>2. QED
          BY <2>2, <2>5, <4>1 DEF StoreInv, StoreOK, Open
      <3>2. \A n \in 1..(m.n - 1) : InHistory(received[s][n])
        BY <2>2, <2>5 DEF StoreInv, StoreOK
      <3>3. QED
        BY <2>4, <3>1, <3>2 DEF InHistory
    <2>7. \A j \in 1..len : rows[j].call = s => rows[j].n < m.n
      <3> TAKE j \in 1..len
      <3> HAVE rows[j].call = s
      <3>1. rows[j].n \in 1..m.n /\ rows[j] = received[s][rows[j].n]
        BY <2>2, <2>4 DEF RowInv
      <3>2. rows[j].n # m.n
        BY <2>2, <2>6, <3>1
      <3>3. QED
        BY <2>2, <3>1, <3>2
    <2>8. \A n \in 1..m.n : \E j \in 1..(len + 1) : rows'[j] = received[s][n]
      <3> TAKE n \in 1..m.n
      <3>1. CASE n = m.n
        BY <2>2, <2>4, <3>1
      <3>2. CASE n \in 1..(m.n - 1)
        <4>1. PICK j \in 1..len : rows[j] = received[s][n]
          BY <2>6, <3>2
        <4>2. j \in 1..(len + 1) /\ rows'[j] = received[s][n]
          BY <2>4, <4>1
        <4>3. QED
          BY <4>2
      <3>3. QED
        BY <2>2, <3>1, <3>2
    <2>9. ASSUME NEW i \in 1..(len + 1)
          PROVE  /\ \A j \in 1..(i - 1) :
                      rows'[j].call = rows'[i].call => rows'[j].n < rows'[i].n
                 /\ \A n \in 1..rows'[i].n : \E j \in 1..i :
                      rows'[j] = received[rows'[i].call][n]
      <3>1. CASE i = len + 1
        <4>1. rows'[i] = m /\ i - 1 = len
          BY <2>4, <3>1
        <4>2. \A j \in 1..len : rows'[j] = rows[j]
          BY <2>4
        <4>3. \A j \in 1..(i - 1) : rows'[j].call = s => rows'[j].n < m.n
          BY <2>7, <4>1, <4>2
        <4>4. \A n \in 1..m.n : \E j \in 1..i : rows'[j] = received[s][n]
          BY <2>8, <3>1
        <4>5. QED
          BY <2>2, <4>1, <4>3, <4>4
      <3>2. CASE i \in 1..len
        <4>1. /\ \A j \in 1..(i - 1) :
                   rows[j].call = rows[i].call => rows[j].n < rows[i].n
              /\ \A n \in 1..rows[i].n : \E j \in 1..i :
                   rows[j] = received[rows[i].call][n]
          BY <2>4, <3>2 DEF StreamPrefix
        <4>2. \A j \in 1..i : rows'[j] = rows[j]
          BY <2>4, <3>2
        <4>3. (i - 1) \in Nat /\ \A j \in 1..(i - 1) : j \in 1..i
          BY <3>2
        <4>4. i \in 1..i
          BY <3>2
        <4>5. QED
          BY <4>1, <4>2, <4>3, <4>4
      <3>3. QED
        BY <2>4, <3>1, <3>2
    <2>10. QED
      BY <2>3, <2>4, <2>9 DEF StreamPrefix
  <1>13. ASSUME NEW s \in Sender, RejectRow(s) PROVE StreamPrefix'
    BY <1>13 DEF RejectRow, Return, Goto, dbVars, processVars, StreamPrefix
  <1>14. ASSUME NEW s \in Sender, Answered(s) PROVE StreamPrefix'
    BY <1>14 DEF Answered, Return, Goto, dbVars, processVars, StreamPrefix
  <1>15. ASSUME NEW l \in Call, NEW ch \in Channel, StartListen(l, ch)
        PROVE StreamPrefix'
    <2>1. /\ Len(received[l]) < MaxPerCall
          /\ Accept(l, ch, NoUser)
      BY <1>15, EmptyFacts DEF StartListen, CallInv, CallOK
    <2> DEFINE len == Len(received[l])
    <2>2. /\ len \in Nat
          /\ Len(received'[l]) = len + 1
          /\ DOMAIN received[l] = 1..len
          /\ DOMAIN received'[l] = 1..(len + 1)
          /\ received'[l][len + 1].call = l
          /\ received'[l][len + 1].n = len + 1
          /\ \A n \in 1..len : received'[l][n] = received[l][n]
          /\ \A d \in Call \ {l} : received'[d] = received[d]
          /\ pc' = [pc EXCEPT ![l] = "counting"]
      BY <2>1, AcceptFacts
    <2>3. rows' = rows /\ status' = status
      BY <1>15 DEF StartListen, dbVars
    <2>4. \A i \in DOMAIN rows : \A n \in 1..rows[i].n :
            received'[rows[i].call][n] = received[rows[i].call][n]
      BY <2>2 DEF RowInv, Call
    <2>5. QED
      BY <2>3, <2>4 DEF StreamPrefix
  <1>16. ASSUME NEW l \in Listener, Deliver(l) PROVE StreamPrefix'
    BY <1>16 DEF Deliver, dbVars, processVars, StreamPrefix
  <1>17. ASSUME NEW ch \in Channel, CreateChannel(ch) PROVE StreamPrefix'
    BY <1>17 DEF CreateChannel, processVars, callVars, StreamPrefix
  <1>18. ASSUME NEW c \in Call, LoseConnection(c) PROVE StreamPrefix'
    BY <1>18
    DEF LoseConnection, Goto, Failure, dbVars, processVars, StreamPrefix
  <1>19. ASSUME NEW s \in Call, OrphanCommit(s) PROVE StreamPrefix'
    <2>1. received[s] # <<>>
      BY <1>19 DEF OrphanCommit, CallInv, CallOK, Unsettled, Call
    <2> DEFINE m == Current(s)
               len == Len(rows)
    <2>2. /\ m \in Request
          /\ m.call = s
          /\ m.n = Len(received[s])
          /\ m.n \in DOMAIN received[s]
          /\ m = received[s][m.n]
          /\ Len(received[s]) \in Nat
          /\ DOMAIN received[s] = 1..Len(received[s])
      BY <2>1, CurrentFacts, InHandFacts DEF Call
    <2>3. /\ rows' = Append(rows, m)
          /\ received' = received
      BY <1>19 DEF OrphanCommit
    <2>4. /\ len \in Nat
          /\ DOMAIN rows = 1..len
          /\ DOMAIN rows' = 1..(len + 1)
          /\ rows'[len + 1] = m
          /\ \A i \in 1..len : rows'[i] = rows[i]
      BY <2>2, <2>3, InsertFacts
    <2>5. s \in Sender
      BY <1>19 DEF OrphanCommit, CallInv, CallOK
    <2>6. /\ \A i \in 1..len : rows[i] # m
          /\ \A n \in 1..(m.n - 1) : \E j \in 1..len : rows[j] = received[s][n]
      <3>1. ~InHistory(m)
        <4>1. pc[s] \in Unsettled \cup {"orphan"}
          BY <1>19 DEF OrphanCommit, Unsettled
        <4>2. QED
          BY <2>2, <2>5, <4>1 DEF StoreInv, StoreOK, Open
      <3>2. \A n \in 1..(m.n - 1) : InHistory(received[s][n])
        BY <2>2, <2>5 DEF StoreInv, StoreOK
      <3>3. QED
        BY <2>4, <3>1, <3>2 DEF InHistory
    <2>7. \A j \in 1..len : rows[j].call = s => rows[j].n < m.n
      <3> TAKE j \in 1..len
      <3> HAVE rows[j].call = s
      <3>1. rows[j].n \in 1..m.n /\ rows[j] = received[s][rows[j].n]
        BY <2>2, <2>4 DEF RowInv
      <3>2. rows[j].n # m.n
        BY <2>2, <2>6, <3>1
      <3>3. QED
        BY <2>2, <3>1, <3>2
    <2>8. \A n \in 1..m.n : \E j \in 1..(len + 1) : rows'[j] = received[s][n]
      <3> TAKE n \in 1..m.n
      <3>1. CASE n = m.n
        BY <2>2, <2>4, <3>1
      <3>2. CASE n \in 1..(m.n - 1)
        <4>1. PICK j \in 1..len : rows[j] = received[s][n]
          BY <2>6, <3>2
        <4>2. j \in 1..(len + 1) /\ rows'[j] = received[s][n]
          BY <2>4, <4>1
        <4>3. QED
          BY <4>2
      <3>3. QED
        BY <2>2, <3>1, <3>2
    <2>9. ASSUME NEW i \in 1..(len + 1)
          PROVE  /\ \A j \in 1..(i - 1) :
                      rows'[j].call = rows'[i].call => rows'[j].n < rows'[i].n
                 /\ \A n \in 1..rows'[i].n : \E j \in 1..i :
                      rows'[j] = received[rows'[i].call][n]
      <3>1. CASE i = len + 1
        <4>1. rows'[i] = m /\ i - 1 = len
          BY <2>4, <3>1
        <4>2. \A j \in 1..len : rows'[j] = rows[j]
          BY <2>4
        <4>3. \A j \in 1..(i - 1) : rows'[j].call = s => rows'[j].n < m.n
          BY <2>7, <4>1, <4>2
        <4>4. \A n \in 1..m.n : \E j \in 1..i : rows'[j] = received[s][n]
          BY <2>8, <3>1
        <4>5. QED
          BY <2>2, <4>1, <4>3, <4>4
      <3>2. CASE i \in 1..len
        <4>1. /\ \A j \in 1..(i - 1) :
                   rows[j].call = rows[i].call => rows[j].n < rows[i].n
              /\ \A n \in 1..rows[i].n : \E j \in 1..i :
                   rows[j] = received[rows[i].call][n]
          BY <2>4, <3>2 DEF StreamPrefix
        <4>2. \A j \in 1..i : rows'[j] = rows[j]
          BY <2>4, <3>2
        <4>3. (i - 1) \in Nat /\ \A j \in 1..(i - 1) : j \in 1..i
          BY <3>2
        <4>4. i \in 1..i
          BY <3>2
        <4>5. QED
          BY <4>1, <4>2, <4>3, <4>4
      <3>3. QED
        BY <2>4, <3>1, <3>2
    <2>10. QED
      BY <2>3, <2>4, <2>9 DEF StreamPrefix
  <1>20. ASSUME Crash PROVE StreamPrefix'
    BY <1>20 DEF Crash, Running, dbVars, StreamPrefix
  <1>21. ASSUME Restart PROVE StreamPrefix'
    BY <1>21 DEF Restart, dbVars, callVars, StreamPrefix
  <1>22. CASE UNCHANGED vars
    BY <1>22 DEF vars, StreamPrefix
  <1>23. QED
    BY <1>1, <1>2, <1>3, <1>4, <1>5, <1>6, <1>7, <1>8, <1>9, <1>9a, <1>10,
       <1>11, <1>12, <1>13, <1>14, <1>15, <1>16, <1>17, <1>18, <1>19, <1>20,
       <1>21, <1>22
    DEF Next, ClientStep, CheckStep, FaultStep, SendStep

\* A step that neither inserts a row nor reads for s.
LEMMA KeepStore ==
  ASSUME NEW s \in Sender, StoreOK(s), rows' = rows,
         received'[s] = received[s],
         Settled(s)' => Settled(s),
         Open(s)' => Open(s)
  PROVE  StoreOK(s)'
  BY DEF StoreOK, InHistory

\* What is stored of a call follows from where the call is.
LEMMA StepStoreInv == IInv /\ [Next]_vars => StoreInv'
  <1> SUFFICES ASSUME IInv, [Next]_vars PROVE StoreInv'
    OBVIOUS
  <1> USE ServiceAssumption DEF IInv
  <1>1. ASSUME NEW c \in Call, SessionFails(c) PROVE StoreInv'
    <2>1. rows' = rows /\ received' = received
      BY <1>1 DEF SessionFails, Return, Goto, dbVars, processVars, Failure
    <2>2. ASSUME NEW d \in Sender
          PROVE  (Settled(d)' => Settled(d)) /\ (Open(d)' => Open(d))
      BY <1>1
      DEF SessionFails, Return, Goto, dbVars, processVars, Failure,
          TypeOK, CallInv, CallOK, Settled, Open, Unsettled, Call
    <2>3. QED
      BY <2>1, <2>2, KeepStore DEF StoreInv
  <1>2. ASSUME NEW c \in Call, Count(c) PROVE StoreInv'
    <2>1. rows' = rows /\ received' = received
      BY <1>2 DEF Count, SearchStep, Search, Goto, dbVars
    <2>2. ASSUME NEW d \in Sender
          PROVE  (Settled(d)' => Settled(d)) /\ (Open(d)' => Open(d))
      BY <1>2
      DEF Count, SearchStep, Search, Goto, dbVars,
          TypeOK, CallInv, CallOK, Settled, Open, Unsettled, Call
    <2>3. QED
      BY <2>1, <2>2, KeepStore DEF StoreInv
  <1>3. ASSUME NEW c \in Call, Query(c) PROVE StoreInv'
    <2>1. rows' = rows /\ received' = received
      BY <1>3 DEF Query, Return, Goto, dbVars, processVars
    <2>2. ASSUME NEW d \in Sender
          PROVE  (Settled(d)' => Settled(d)) /\ (Open(d)' => Open(d))
      BY <1>3
      DEF Query, Return, Goto, dbVars, processVars,
          TypeOK, CallInv, CallOK, Settled, Open, Unsettled, Call
    <2>3. QED
      BY <2>1, <2>2, KeepStore DEF StoreInv
  <1>4. ASSUME NEW c \in Call, Emplace(c) PROVE StoreInv'
    <2>1. rows' = rows /\ received' = received
      BY <1>4 DEF Emplace, SearchStep, Search, Goto, dbVars
    <2>2. ASSUME NEW d \in Sender
          PROVE  (Settled(d)' => Settled(d)) /\ (Open(d)' => Open(d))
      BY <1>4
      DEF Emplace, SearchStep, Search, Goto, dbVars,
          TypeOK, CallInv, CallOK, Settled, Open, Unsettled, Call
    <2>3. QED
      BY <2>1, <2>2, KeepStore DEF StoreInv
  <1>5. ASSUME NEW c \in Call, Lookup(c) PROVE StoreInv'
    <2>1. rows' = rows /\ received' = received
      BY <1>5 DEF Lookup, Search, Goto, dbVars
    <2>2. ASSUME NEW d \in Sender
          PROVE  (Settled(d)' => Settled(d)) /\ (Open(d)' => Open(d))
      BY <1>5
      DEF Lookup, Search, Goto, dbVars,
          TypeOK, CallInv, CallOK, Settled, Open, Unsettled, Call
    <2>3. QED
      BY <2>1, <2>2, KeepStore DEF StoreInv
  <1>6. ASSUME NEW c \in Call, Link(c) PROVE StoreInv'
    <2>1. rows' = rows /\ received' = received
      BY <1>6 DEF Link, Writing, Goto, dbVars
    <2>2. ASSUME NEW d \in Sender
          PROVE  (Settled(d)' => Settled(d)) /\ (Open(d)' => Open(d))
      BY <1>6
      DEF Link, Writing, Goto, dbVars,
          TypeOK, CallInv, CallOK, Settled, Open, Unsettled, Call
    <2>3. QED
      BY <2>1, <2>2, KeepStore DEF StoreInv
  <1>7. ASSUME NEW s \in Call, StartStream(s) PROVE StoreInv'
    <2>1. /\ rows' = rows
          /\ received' = received
          /\ DOMAIN received[s] = {}
      BY <1>7, EmptyFacts DEF StartStream, CallInv, CallOK, dbVars
    <2>2. StoreOK(s)'
      BY <2>1 DEF StoreOK
    <2>3. ASSUME NEW d \in Sender, d # s
          PROVE  (Settled(d)' => Settled(d)) /\ (Open(d)' => Open(d))
      BY <1>7, <2>3 DEF StartStream, Goto, TypeOK, Settled, Open, Call
    <2>4. QED
      BY <2>1, <2>2, <2>3, KeepStore DEF StoreInv
  <1>8. ASSUME NEW s \in Call, NEW ch \in Channel, NEW u \in User,
               ReadMessage(s, ch, u) PROVE StoreInv'
    <2>1. /\ Len(received[s]) < MaxPerCall
          /\ Accept(s, ch, u)
      BY <1>8, EmptyFacts DEF ReadMessage, CallInv, CallOK
    <2> DEFINE len == Len(received[s])
    <2>2. /\ len \in Nat
          /\ Len(received'[s]) = len + 1
          /\ DOMAIN received[s] = 1..len
          /\ DOMAIN received'[s] = 1..(len + 1)
          /\ received'[s][len + 1].call = s
          /\ received'[s][len + 1].n = len + 1
          /\ \A n \in 1..len : received'[s][n] = received[s][n]
          /\ \A d \in Call \ {s} : received'[d] = received[d]
          /\ pc' = [pc EXCEPT ![s] = "counting"]
      BY <2>1, AcceptFacts
    <2>3. rows' = rows /\ status' = status
      BY <1>8 DEF ReadMessage, dbVars
    <2>4. \A n \in 1..len : s \in Sender => InHistory(received[s][n])
      <3>1. len = 0 \/ pc[s] = "reading"
        BY <1>8, EmptyFacts DEF ReadMessage, CallInv, CallOK
      <3>2. QED
        BY <2>2, <3>1 DEF StoreInv, StoreOK, Settled
    <2>5. \A i \in DOMAIN rows : rows[i] # received'[s][len + 1]
      BY <2>2 DEF RowInv
    <2>6. ASSUME s \in Sender, NEW n \in 1..(len + 1)
          PROVE  /\ n <= len => InHistory(received[s][n])'
                 /\ n = len + 1 => ~InHistory(received[s][n])'
      <3>1. CASE n <= len
        <4>1. n \in 1..len /\ n # len + 1
          BY <2>2, <3>1
        <4>2. received'[s][n] = received[s][n] /\ InHistory(received[s][n])
          BY <2>2, <2>4, <2>6, <4>1
        <4>3. QED
          BY <2>3, <4>1, <4>2 DEF InHistory
      <3>2. CASE n = len + 1
        <4>1. ~(n <= len)
          BY <2>2, <3>2
        <4>2. QED
          BY <2>3, <2>5, <3>2, <4>1 DEF InHistory
      <3>3. QED
        BY <2>2, <3>1, <3>2
    <2>7. pc'[s] = "counting" /\ status'[s] # "OK"
      BY <1>8, <2>2, <2>3 DEF ReadMessage, CallInv, CallOK, TypeOK
    <2>8. s \in Sender => StoreOK(s)'
      BY <2>2, <2>6, <2>7 DEF StoreOK, Settled
    <2>9. ASSUME NEW d \in Sender, d # s PROVE StoreOK(d)'
      BY <2>2, <2>3, <2>9, KeepStore DEF StoreInv, Settled, Open, Call, TypeOK
    <2>10. QED
      BY <2>8, <2>9 DEF StoreInv
  <1>9. ASSUME NEW s \in Call, EndOfStream(s) PROVE StoreInv'
    <2>1. rows' = rows /\ received' = received
      BY <1>9 DEF EndOfStream, Return, Goto, dbVars, processVars
    <2>2. ASSUME NEW d \in Sender
          PROVE  (Settled(d)' => Settled(d)) /\ (Open(d)' => Open(d))
      BY <1>9
      DEF EndOfStream, Return, Goto, dbVars, processVars,
          TypeOK, CallInv, CallOK, Settled, Open, Unsettled, Call
    <2>3. QED
      BY <2>1, <2>2, KeepStore DEF StoreInv
  <1>9a. ASSUME NEW s \in Call, ReadFails(s) PROVE StoreInv'
    <2>1. rows' = rows /\ received' = received
      BY <1>9a DEF ReadFails, Return, Goto, dbVars, processVars
    <2>2. ASSUME NEW d \in Sender
          PROVE  (Settled(d)' => Settled(d)) /\ (Open(d)' => Open(d))
      BY <1>9a
      DEF ReadFails, Return, Goto, dbVars, processVars,
          TypeOK, CallInv, CallOK, Settled, Open, Unsettled, Call
    <2>3. QED
      BY <2>1, <2>2, KeepStore DEF StoreInv
  <1>10. ASSUME NEW s \in Call, NEW ch \in Channel, NEW u \in User,
                StartWeb(s, ch, u) PROVE StoreInv'
    <2>1. /\ Len(received[s]) < MaxPerCall
          /\ Accept(s, ch, u)
      BY <1>10, EmptyFacts DEF StartWeb, CallInv, CallOK
    <2> DEFINE len == Len(received[s])
    <2>2. /\ len \in Nat
          /\ Len(received'[s]) = len + 1
          /\ DOMAIN received[s] = 1..len
          /\ DOMAIN received'[s] = 1..(len + 1)
          /\ received'[s][len + 1].call = s
          /\ received'[s][len + 1].n = len + 1
          /\ \A n \in 1..len : received'[s][n] = received[s][n]
          /\ \A d \in Call \ {s} : received'[d] = received[d]
          /\ pc' = [pc EXCEPT ![s] = "counting"]
      BY <2>1, AcceptFacts
    <2>3. rows' = rows /\ status' = status
      BY <1>10 DEF StartWeb, dbVars
    <2>4. \A n \in 1..len : s \in Sender => InHistory(received[s][n])
      <3>1. len = 0 \/ pc[s] = "reading"
        BY <1>10, EmptyFacts DEF StartWeb, CallInv, CallOK
      <3>2. QED
        BY <2>2, <3>1 DEF StoreInv, StoreOK, Settled
    <2>5. \A i \in DOMAIN rows : rows[i] # received'[s][len + 1]
      BY <2>2 DEF RowInv
    <2>6. ASSUME s \in Sender, NEW n \in 1..(len + 1)
          PROVE  /\ n <= len => InHistory(received[s][n])'
                 /\ n = len + 1 => ~InHistory(received[s][n])'
      <3>1. CASE n <= len
        <4>1. n \in 1..len /\ n # len + 1
          BY <2>2, <3>1
        <4>2. received'[s][n] = received[s][n] /\ InHistory(received[s][n])
          BY <2>2, <2>4, <2>6, <4>1
        <4>3. QED
          BY <2>3, <4>1, <4>2 DEF InHistory
      <3>2. CASE n = len + 1
        <4>1. ~(n <= len)
          BY <2>2, <3>2
        <4>2. QED
          BY <2>3, <2>5, <3>2, <4>1 DEF InHistory
      <3>3. QED
        BY <2>2, <3>1, <3>2
    <2>7. pc'[s] = "counting" /\ status'[s] # "OK"
      BY <1>10, <2>2, <2>3 DEF StartWeb, CallInv, CallOK, TypeOK
    <2>8. s \in Sender => StoreOK(s)'
      BY <2>2, <2>6, <2>7 DEF StoreOK, Settled
    <2>9. ASSUME NEW d \in Sender, d # s PROVE StoreOK(d)'
      BY <2>2, <2>3, <2>9, KeepStore DEF StoreInv, Settled, Open, Call, TypeOK
    <2>10. QED
      BY <2>8, <2>9 DEF StoreInv
  <1>11. ASSUME NEW s \in Sender, Publish(s) PROVE StoreInv'
    <2>1. rows' = rows /\ received' = received
      BY <1>11 DEF Publish, Goto, dbVars
    <2>2. ASSUME NEW d \in Sender
          PROVE  (Settled(d)' => Settled(d)) /\ (Open(d)' => Open(d))
      BY <1>11
      DEF Publish, Goto, dbVars,
          TypeOK, CallInv, CallOK, Settled, Open, Unsettled, Call
    <2>3. QED
      BY <2>1, <2>2, KeepStore DEF StoreInv
  <1>12. ASSUME NEW s \in Sender, StoreRow(s) PROVE StoreInv'
    <2>1. received[s] # <<>>
      BY <1>12 DEF StoreRow, CallInv, CallOK, Unsettled, Call
    <2> DEFINE m == Current(s)
               len == Len(rows)
    <2>2. /\ m \in Request
          /\ m.call = s
          /\ m.n = Len(received[s])
          /\ m.n \in DOMAIN received[s]
          /\ m = received[s][m.n]
          /\ Len(received[s]) \in Nat
          /\ DOMAIN received[s] = 1..Len(received[s])
      BY <2>1, CurrentFacts, InHandFacts DEF Call
    <2>3. /\ rows' = Append(rows, m)
          /\ received' = received
      BY <1>12 DEF StoreRow
    <2>4. /\ len \in Nat
          /\ DOMAIN rows = 1..len
          /\ DOMAIN rows' = 1..(len + 1)
          /\ rows'[len + 1] = m
          /\ \A i \in 1..len : rows'[i] = rows[i]
      BY <2>2, <2>3, InsertFacts
    <2>5. s \in Sender
      BY <1>12 DEF StoreRow, CallInv, CallOK
    <2>6. \A d \in Sender : \A n \in DOMAIN received[d] :
            d # s => received[d][n] # m
      BY <2>2 DEF CallInv, CallOK, Call
    <2>7. \A x : InHistory(x)' <=> InHistory(x) \/ x = m
      BY <2>4 DEF InHistory
    <2>8. pc'[s] = "inserted" /\ status'[s] = status[s]
      BY <1>12 DEF StoreRow, Goto, TypeOK, Call
    <2>9. status[s] # "OK"
      BY <1>12 DEF StoreRow, CallInv, CallOK, Call
    <2>10. StoreOK(s)'
      <3>1. StoreOK(s)
        BY <2>5 DEF StoreInv
      <3>2. ~Open(s)'
        BY <2>8 DEF Open, Unsettled
      <3>3. \A n \in DOMAIN received[s] :
              n # Len(received[s]) => n < Len(received[s])
        BY <2>2
      <3>4. QED
        BY <2>2, <2>3, <2>7, <2>8, <2>9, <3>1, <3>2, <3>3
        DEF StoreOK, Settled
    <2>11. ASSUME NEW d \in Sender, d # s PROVE StoreOK(d)'
      <3>1. pc'[d] = pc[d] /\ status'[d] = status[d]
        BY <1>12, <2>11 DEF StoreRow, Goto, TypeOK, Call
      <3>2. StoreOK(d)
        BY DEF StoreInv
      <3>3. QED
        BY <2>3, <2>6, <2>7, <2>11, <3>1, <3>2
        DEF StoreOK, Settled, Open
    <2>12. QED
      BY <2>10, <2>11 DEF StoreInv
  <1>13. ASSUME NEW s \in Sender, RejectRow(s) PROVE StoreInv'
    <2>1. rows' = rows /\ received' = received
      BY <1>13 DEF RejectRow, Return, Goto, dbVars, processVars
    <2>2. ASSUME NEW d \in Sender
          PROVE  (Settled(d)' => Settled(d)) /\ (Open(d)' => Open(d))
      BY <1>13
      DEF RejectRow, Return, Goto, dbVars, processVars,
          TypeOK, CallInv, CallOK, Settled, Open, Unsettled, Call
    <2>3. QED
      BY <2>1, <2>2, KeepStore DEF StoreInv
  <1>14. ASSUME NEW s \in Sender, Answered(s) PROVE StoreInv'
    <2>1. rows' = rows /\ received' = received
      BY <1>14 DEF Answered, Return, Goto, dbVars, processVars
    <2>2. ASSUME NEW d \in Sender
          PROVE  (Settled(d)' => Settled(d)) /\ (Open(d)' => Open(d))
      BY <1>14
      DEF Answered, Return, Goto, dbVars, processVars,
          TypeOK, CallInv, CallOK, Settled, Open, Unsettled, Call
    <2>3. QED
      BY <2>1, <2>2, KeepStore DEF StoreInv
  <1>15. ASSUME NEW l \in Call, NEW ch \in Channel, StartListen(l, ch)
        PROVE StoreInv'
    <2>1. /\ Len(received[l]) < MaxPerCall
          /\ Accept(l, ch, NoUser)
      BY <1>15, EmptyFacts DEF StartListen, CallInv, CallOK
    <2> DEFINE len == Len(received[l])
    <2>2. /\ len \in Nat
          /\ Len(received'[l]) = len + 1
          /\ DOMAIN received[l] = 1..len
          /\ DOMAIN received'[l] = 1..(len + 1)
          /\ received'[l][len + 1].call = l
          /\ received'[l][len + 1].n = len + 1
          /\ \A n \in 1..len : received'[l][n] = received[l][n]
          /\ \A d \in Call \ {l} : received'[d] = received[d]
          /\ pc' = [pc EXCEPT ![l] = "counting"]
      BY <2>1, AcceptFacts
    <2>3. rows' = rows /\ status' = status
      BY <1>15 DEF StartListen, dbVars
    <2>4. \A n \in 1..len : l \in Sender => InHistory(received[l][n])
      <3>1. len = 0 \/ pc[l] = "reading"
        BY <1>15, EmptyFacts DEF StartListen, CallInv, CallOK
      <3>2. QED
        BY <2>2, <3>1 DEF StoreInv, StoreOK, Settled
    <2>5. \A i \in DOMAIN rows : rows[i] # received'[l][len + 1]
      BY <2>2 DEF RowInv
    <2>6. ASSUME l \in Sender, NEW n \in 1..(len + 1)
          PROVE  /\ n <= len => InHistory(received[l][n])'
                 /\ n = len + 1 => ~InHistory(received[l][n])'
      <3>1. CASE n <= len
        <4>1. n \in 1..len /\ n # len + 1
          BY <2>2, <3>1
        <4>2. received'[l][n] = received[l][n] /\ InHistory(received[l][n])
          BY <2>2, <2>4, <2>6, <4>1
        <4>3. QED
          BY <2>3, <4>1, <4>2 DEF InHistory
      <3>2. CASE n = len + 1
        <4>1. ~(n <= len)
          BY <2>2, <3>2
        <4>2. QED
          BY <2>3, <2>5, <3>2, <4>1 DEF InHistory
      <3>3. QED
        BY <2>2, <3>1, <3>2
    <2>7. pc'[l] = "counting" /\ status'[l] # "OK"
      BY <1>15, <2>2, <2>3 DEF StartListen, CallInv, CallOK, TypeOK
    <2>8. l \in Sender => StoreOK(l)'
      BY <2>2, <2>6, <2>7 DEF StoreOK, Settled
    <2>9. ASSUME NEW d \in Sender, d # l PROVE StoreOK(d)'
      BY <2>2, <2>3, <2>9, KeepStore DEF StoreInv, Settled, Open, Call, TypeOK
    <2>10. QED
      BY <2>8, <2>9 DEF StoreInv
  <1>16. ASSUME NEW l \in Listener, Deliver(l) PROVE StoreInv'
    <2>1. rows' = rows /\ received' = received
      BY <1>16 DEF Deliver, dbVars, processVars
    <2>2. ASSUME NEW d \in Sender
          PROVE  (Settled(d)' => Settled(d)) /\ (Open(d)' => Open(d))
      BY <1>16
      DEF Deliver, dbVars, processVars,
          TypeOK, CallInv, CallOK, Settled, Open, Unsettled, Call
    <2>3. QED
      BY <2>1, <2>2, KeepStore DEF StoreInv
  <1>17. ASSUME NEW ch \in Channel, CreateChannel(ch) PROVE StoreInv'
    <2>1. rows' = rows /\ received' = received
      BY <1>17 DEF CreateChannel, processVars, callVars
    <2>2. ASSUME NEW d \in Sender
          PROVE  (Settled(d)' => Settled(d)) /\ (Open(d)' => Open(d))
      BY <1>17
      DEF CreateChannel, processVars, callVars,
          TypeOK, CallInv, CallOK, Settled, Open, Unsettled, Call
    <2>3. QED
      BY <2>1, <2>2, KeepStore DEF StoreInv
  <1>18. ASSUME NEW c \in Call, LoseConnection(c) PROVE StoreInv'
    <2>1. rows' = rows /\ received' = received
      BY <1>18 DEF LoseConnection, Goto, Failure, dbVars, processVars
    <2>2. ASSUME NEW d \in Sender
          PROVE  (Settled(d)' => Settled(d)) /\ (Open(d)' => Open(d))
      BY <1>18
      DEF LoseConnection, Goto, Failure, dbVars, processVars,
          TypeOK, CallInv, CallOK, Settled, Open, Unsettled, Call
    <2>3. QED
      BY <2>1, <2>2, KeepStore DEF StoreInv
  <1>19. ASSUME NEW s \in Call, OrphanCommit(s) PROVE StoreInv'
    <2>1. received[s] # <<>>
      BY <1>19 DEF OrphanCommit, CallInv, CallOK, Unsettled, Call
    <2> DEFINE m == Current(s)
               len == Len(rows)
    <2>2. /\ m \in Request
          /\ m.call = s
          /\ m.n = Len(received[s])
          /\ m.n \in DOMAIN received[s]
          /\ m = received[s][m.n]
          /\ Len(received[s]) \in Nat
          /\ DOMAIN received[s] = 1..Len(received[s])
      BY <2>1, CurrentFacts, InHandFacts DEF Call
    <2>3. /\ rows' = Append(rows, m)
          /\ received' = received
      BY <1>19 DEF OrphanCommit
    <2>4. /\ len \in Nat
          /\ DOMAIN rows = 1..len
          /\ DOMAIN rows' = 1..(len + 1)
          /\ rows'[len + 1] = m
          /\ \A i \in 1..len : rows'[i] = rows[i]
      BY <2>2, <2>3, InsertFacts
    <2>5. s \in Sender
      BY <1>19 DEF OrphanCommit, CallInv, CallOK
    <2>6. \A d \in Sender : \A n \in DOMAIN received[d] :
            d # s => received[d][n] # m
      BY <2>2 DEF CallInv, CallOK, Call
    <2>7. \A x : InHistory(x)' <=> InHistory(x) \/ x = m
      BY <2>4 DEF InHistory
    <2>8. pc'[s] = "done" /\ status'[s] = status[s]
      BY <1>19 DEF OrphanCommit, Goto, TypeOK, Call
    <2>9. status[s] # "OK"
      BY <1>19 DEF OrphanCommit, CallInv, CallOK, Call
    <2>10. StoreOK(s)'
      <3>1. StoreOK(s)
        BY <2>5 DEF StoreInv
      <3>2. ~Open(s)'
        BY <2>8 DEF Open, Unsettled
      <3>3. \A n \in DOMAIN received[s] :
              n # Len(received[s]) => n < Len(received[s])
        BY <2>2
      <3>4. QED
        BY <2>2, <2>3, <2>7, <2>8, <2>9, <3>1, <3>2, <3>3
        DEF StoreOK, Settled
    <2>11. ASSUME NEW d \in Sender, d # s PROVE StoreOK(d)'
      <3>1. pc'[d] = pc[d] /\ status'[d] = status[d]
        BY <1>19, <2>11 DEF OrphanCommit, Goto, TypeOK, Call
      <3>2. StoreOK(d)
        BY DEF StoreInv
      <3>3. QED
        BY <2>3, <2>6, <2>7, <2>11, <3>1, <3>2
        DEF StoreOK, Settled, Open
    <2>12. QED
      BY <2>10, <2>11 DEF StoreInv
  <1>20. ASSUME Crash PROVE StoreInv'
    <2>1. rows' = rows /\ received' = received
      BY <1>20 DEF Crash, Running, dbVars
    <2>2. ASSUME NEW d \in Sender
          PROVE  (Settled(d)' => Settled(d)) /\ (Open(d)' => Open(d))
      BY <1>20
      DEF Crash, Running, dbVars,
          TypeOK, CallInv, CallOK, Settled, Open, Unsettled, Call
    <2>3. QED
      BY <2>1, <2>2, KeepStore DEF StoreInv
  <1>21. ASSUME Restart PROVE StoreInv'
    <2>1. rows' = rows /\ received' = received
      BY <1>21 DEF Restart, dbVars, callVars
    <2>2. ASSUME NEW d \in Sender
          PROVE  (Settled(d)' => Settled(d)) /\ (Open(d)' => Open(d))
      BY <1>21
      DEF Restart, dbVars, callVars,
          TypeOK, CallInv, CallOK, Settled, Open, Unsettled, Call
    <2>3. QED
      BY <2>1, <2>2, KeepStore DEF StoreInv
  <1>22. CASE UNCHANGED vars
    BY <1>22 DEF vars, StoreInv, StoreOK, Settled, Open, InHistory
  <1>23. QED
    BY <1>1, <1>2, <1>3, <1>4, <1>5, <1>6, <1>7, <1>8, <1>9, <1>9a, <1>10,
       <1>11, <1>12, <1>13, <1>14, <1>15, <1>16, <1>17, <1>18, <1>19, <1>20,
       <1>21, <1>22
    DEF Next, ClientStep, CheckStep, FaultStep, SendStep

-----------------------------------------------------------------------------
\* The invariant holds in every reachable state.
LEMMA Invariance == Spec => []IInv
  <1>1. IInv /\ [Next]_vars => IInv'
    BY StepTypeOK, StepCallInv, StepRowInv, StepStoreInv, StepStreamPrefix
    DEF IInv
  <1>2. QED
    BY InitIInv, <1>1, PTL DEF Spec

\* WrongthinkServiceImpl.h:163-165 and the handlers' locals: every variable
\* stays in its set, and an entry of channelMap names an object that exists.
THEOREM TypeCorrect == Spec => []TypeOK
  <1>1. IInv => TypeOK
    BY DEF IInv
  <1>2. QED
    BY Invariance, <1>1, PTL

\* WrongthinkServiceImpl.cpp:205-269: a call that ended with OK has all its
\* messages in the database, through failures, races and crashes.
THEOREM AckImpliesStored == Spec => []AckedStored
  <1>1. IInv => AckedStored
    BY DEF IInv, StoreInv, StoreOK, Settled, AckedStored
  <1>2. QED
    BY Invariance, <1>1, PTL

\* WrongthinkServiceImpl.cpp:252-262: what is stored of a call is a prefix
\* of what it sent, in order and without duplicates.
THEOREM StoredIsPrefix == Spec => []StreamPrefix
  <1>1. IInv => StreamPrefix
    BY DEF IInv
  <1>2. QED
    BY Invariance, <1>1, PTL

-----------------------------------------------------------------------------
(* The set of broadcast messages *)

\* It changes with the logs of the objects only.
LEMMA PublishedKept == ASSUME UNCHANGED objects PROVE Published' = Published
  BY DEF Published

\* A new object has no messages.
LEMMA PublishedLinked ==
  ASSUME objects \in Seq(Seq(Request)), objects' = Append(objects, <<>>)
  PROVE  Published' = Published
  <1>1. /\ DOMAIN objects = 1..Len(objects)
        /\ DOMAIN objects' = 1..(Len(objects) + 1)
        /\ objects'[Len(objects) + 1] = <<>>
        /\ \A i \in 1..Len(objects) : objects'[i] = objects[i]
        /\ Len(objects) \in Nat
    BY AppendFacts, EmptyFacts
  <1>2. Range(<<>>) = {}
    BY EmptyFacts DEF Range
  <1>3. ASSUME NEW m \in Published PROVE m \in Published'
    <2>1. PICK o \in DOMAIN objects : m \in Range(objects[o])
      BY <1>3 DEF Published
    <2>2. o \in DOMAIN objects' /\ objects'[o] = objects[o]
      BY <1>1, <2>1
    <2>3. QED
      BY <2>1, <2>2 DEF Published
  <1>4. ASSUME NEW m \in Published' PROVE m \in Published
    <2>1. PICK o \in DOMAIN objects' : m \in Range(objects'[o])
      BY <1>4 DEF Published
    <2>2. o # Len(objects) + 1
      BY <1>1, <1>2, <2>1
    <2>3. o \in DOMAIN objects /\ objects'[o] = objects[o]
      BY <1>1, <2>1, <2>2
    <2>4. QED
      BY <2>1, <2>3 DEF Published
  <1>5. QED
    BY <1>3, <1>4

\* appendMessage adds its message.
LEMMA PublishedAppended ==
  ASSUME objects \in Seq(Seq(Request)), NEW o \in 1..Len(objects),
         NEW e \in Request,
         objects' = [objects EXCEPT ![o] = Append(objects[o], e)]
  PROVE  Published' = Published \cup {e}
  <1>1. /\ DOMAIN objects = 1..Len(objects)
        /\ DOMAIN objects' = DOMAIN objects
        /\ objects'[o] = Append(objects[o], e)
        /\ \A p \in DOMAIN objects \ {o} : objects'[p] = objects[p]
        /\ objects[o] \in Seq(Request)
    OBVIOUS
  <1>2. Range(objects'[o]) = Range(objects[o]) \cup {e}
    <2>1. /\ DOMAIN objects[o] = 1..Len(objects[o])
          /\ DOMAIN objects'[o] = 1..(Len(objects[o]) + 1)
          /\ objects'[o][Len(objects[o]) + 1] = e
          /\ \A i \in 1..Len(objects[o]) : objects'[o][i] = objects[o][i]
          /\ Len(objects[o]) \in Nat
      BY <1>1, AppendFacts
    <2>2. QED
      BY <2>1 DEF Range
  <1>3. ASSUME NEW m
        PROVE m \in Published' <=> m \in Published \/ m = e
    <2>1. m \in Published' <=> \E p \in DOMAIN objects : m \in Range(objects'[p])
      BY <1>1 DEF Published
    <2>2. m \in Published <=> \E p \in DOMAIN objects : m \in Range(objects[p])
      BY DEF Published
    <2>3. QED
      BY <1>1, <1>2, <2>1, <2>2
  <1>4. QED
    BY <1>3

-----------------------------------------------------------------------------
(* The map of channels and the objects in it *)

\* Where a handler is past the question to the database.
Vetted == {"emplacing", "linking", "lookup", "growing", "bound"}

KnownInv == \A c \in Call : known[c] \subseteq channels

\* Without a race, an insertion is under way in one thread at most, and for a
\* channel the map does not have.
WriterInv ==
  ~raced =>
    \A c \in Call : Writing(c) =>
      /\ Target(c) \notin DOMAIN channelMap
      /\ \A d \in Call \ {c} : ~Writing(d)

\* Object o has been used for channel ch only.
Serves(o, ch) ==
  /\ \A x \in DOMAIN channelMap : channelMap[x] = o => x = ch
  /\ \A c \in Call : pc[c] = "bound" /\ object[c] = o => Target(c) = ch
  /\ \A i \in DOMAIN objects[o] : objects[o][i].channel = ch

ServeInv == \A o \in DOMAIN objects : \E ch \in Channel : Serves(o, ch)

\* What a listener wrote is in the object it has.
CursorInv ==
  \A l \in Listener : cursor[l] # 0 =>
    /\ pc[l] \in {"bound", "done"}
    /\ object[l] \in DOMAIN objects
    /\ cursor[l] \in DOMAIN objects[object[l]]

MapInv ==
  /\ KnownInv
  /\ KnownChannelAccepted
  /\ WriterInv
  /\ OneObject
  /\ ServeInv
  /\ CursorInv
  /\ NoCrossTalk

-----------------------------------------------------------------------------
(* Steps seen from the map of channels *)

\* Nothing about the map, what is in it and what was asked of it changes,
\* handlers may leave it, and a channel may be created.
Aside ==
  /\ channels \subseteq channels'
  /\ UNCHANGED <<channelMap, raced, objects, received, object, cursor, known>>
  /\ \A c \in Call :
       /\ pc'[c] = pc[c] \/ pc'[c] \in {"reading", "inserted", "orphan", "done"}
       /\ pc[c] = "bound" => pc'[c] = "bound"
       /\ pc[c] = "done" => pc'[c] = "done"
       /\ status'[c] = "INVALID_ARGUMENT" => status[c] = "INVALID_ARGUMENT"

\* A handler receives a request.
Receives(c) ==
  /\ pc[c] \in {"idle", "reading"}
  /\ pc' = [pc EXCEPT ![c] = "counting"]
  /\ known' = [known EXCEPT ![c] = channels]
  /\ \A d \in Call \ {c} : received'[d] = received[d]
  /\ UNCHANGED <<channels, channelMap, raced, objects, status, object, cursor>>

MapSteps ==
  \/ Aside
  \/ \E c \in Call : \/ Receives(c) \/ Count(c) \/ Query(c) \/ Emplace(c)
                     \/ Lookup(c) \/ Link(c)
  \/ \E s \in Sender : Publish(s)
  \/ \E l \in Listener : Deliver(l)
  \/ Crash

\* Every step is one of these as far as the map and the objects can tell.
LEMMA StepMapSteps == IInv /\ [Next]_vars => MapSteps
  <1> SUFFICES ASSUME IInv, [Next]_vars PROVE MapSteps
    OBVIOUS
  <1>0. /\ pc \in [Call -> Label]
        /\ status \in [Call -> StatusCode]
        /\ \A s \in Sender : s \in Call
    BY DEF IInv, TypeOK, Call
  <1>1. ASSUME NEW c \in Call, SessionFails(c) PROVE Aside
    BY <1>0, <1>1
    DEF SessionFails, Return, Goto, dbVars, processVars, Failure, Aside
  <1>2. ASSUME NEW s \in Call, StartStream(s) PROVE Aside
    BY <1>0, <1>2 DEF StartStream, Goto, dbVars, processVars, Aside
  <1>3. ASSUME NEW s \in Call, EndOfStream(s) PROVE Aside
    BY <1>0, <1>3 DEF EndOfStream, Return, Goto, dbVars, processVars, Aside
  <1>3a. ASSUME NEW s \in Call, ReadFails(s) PROVE Aside
    BY <1>0, <1>3a DEF ReadFails, Return, Goto, dbVars, processVars, Aside
  <1>4. ASSUME NEW s \in Call, NEW ch \in Channel, NEW u \in User,
               ReadMessage(s, ch, u) PROVE Receives(s)
    <2>1. Len(received[s]) < MaxPerCall /\ Accept(s, ch, u)
      BY <1>4 DEF ReadMessage
    <2>2. QED
      BY <1>4, <2>1, AcceptFacts
      DEF ReadMessage, Receives, IInv, dbVars, processVars
  <1>5. ASSUME NEW c \in Call, pc[c] = "idle"
        PROVE  Len(received[c]) < MaxPerCall
    BY <1>5, EmptyFacts, ServiceAssumption DEF IInv, CallInv, CallOK
  <1>6. ASSUME NEW s \in Call, NEW ch \in Channel, NEW u \in User,
               StartWeb(s, ch, u) PROVE Receives(s)
    <2>1. Len(received[s]) < MaxPerCall /\ Accept(s, ch, u)
      BY <1>5, <1>6 DEF StartWeb
    <2>2. QED
      BY <1>6, <2>1, AcceptFacts
      DEF StartWeb, Receives, IInv, dbVars, processVars
  <1>7. ASSUME NEW l \in Call, NEW ch \in Channel, StartListen(l, ch)
        PROVE  Receives(l)
    <2>1. Len(received[l]) < MaxPerCall /\ Accept(l, ch, NoUser)
      BY <1>5, <1>7 DEF StartListen
    <2>2. QED
      BY <1>7, <2>1, AcceptFacts
      DEF StartListen, Receives, IInv, dbVars, processVars
  <1>8. ASSUME NEW s \in Sender, StoreRow(s) PROVE Aside
    BY <1>0, <1>8 DEF StoreRow, Goto, processVars, Aside
  <1>9. ASSUME NEW s \in Sender, RejectRow(s) PROVE Aside
    BY <1>0, <1>9 DEF RejectRow, Return, Goto, dbVars, processVars, Aside
  <1>10. ASSUME NEW s \in Sender, Answered(s) PROVE Aside
    BY <1>0, <1>10 DEF Answered, Return, Goto, dbVars, processVars, Aside
  <1>11. ASSUME NEW ch \in Channel, CreateChannel(ch) PROVE Aside
    BY <1>11 DEF CreateChannel, processVars, callVars, Aside
  <1>12. ASSUME NEW c \in Call, LoseConnection(c) PROVE Aside
    BY <1>0, <1>12 DEF LoseConnection, Goto, Failure, dbVars, processVars, Aside
  <1>13. ASSUME NEW s \in Call, OrphanCommit(s) PROVE Aside
    BY <1>0, <1>13 DEF OrphanCommit, Goto, processVars, Aside
  <1>14. ASSUME Restart PROVE Aside
    BY <1>14 DEF Restart, dbVars, callVars, Aside
  <1>15. ASSUME UNCHANGED vars PROVE Aside
    BY <1>15 DEF vars, Aside
  <1>16. QED
    BY <1>1, <1>2, <1>3, <1>3a, <1>4, <1>6, <1>7, <1>8, <1>9, <1>10, <1>11,
       <1>12, <1>13, <1>14, <1>15
    DEF Next, ClientStep, CheckStep, FaultStep, SendStep, MapSteps

\* The request in hand is the same while nothing is received.
LEMMA TargetKept ==
  /\ UNCHANGED received => \A c \in Call : Target(c)' = Target(c)
  /\ \A c \in Call : received'[c] = received[c] => Target(c)' = Target(c)
  BY DEF Target, Current

\* What a handler in the map has in hand.
LEMMA TargetFacts ==
  ASSUME IInv, NEW c \in Call, pc[c] \in Vetted \cup {"counting", "querying"}
  PROVE  Target(c) \in Channel /\ received[c] # <<>> /\ status[c] = "none"
  <1>1. received[c] # <<>> /\ status[c] = "none"
    BY DEF IInv, CallInv, CallOK, Unsettled, Vetted
  <1>2. QED
    BY <1>1, CurrentFacts DEF IInv

\* At first the map is empty and no call runs.
LEMMA InitMapInv == Init => MapInv
  <1> SUFFICES ASSUME Init PROVE MapInv
    OBVIOUS
  <1>1. DOMAIN channelMap = {} /\ DOMAIN objects = {} /\ Published = {}
    BY EmptyFacts DEF Init, Published
  <1>2. QED
    BY <1>1
    DEF Init, MapInv, KnownInv, KnownChannelAccepted, WriterInv, Writing,
        OneObject, ServeInv, CursorInv, NoCrossTalk, Call

\* Channels are not deleted, and a refusal follows a look at the database.
LEMMA StepKnown ==
  IInv /\ MapInv /\ MapSteps => KnownInv' /\ KnownChannelAccepted'
  <1> SUFFICES ASSUME IInv, MapInv, MapSteps
               PROVE  KnownInv' /\ KnownChannelAccepted'
    OBVIOUS
  <1> USE DEF MapInv, KnownInv, KnownChannelAccepted
  <1>0. /\ pc \in [Call -> Label]
        /\ status \in [Call -> StatusCode]
        /\ known \in [Call -> SUBSET Channel]
        /\ \A s \in Sender : s \in Call
    BY DEF IInv, TypeOK, Call
  <1>1. CASE Aside
    BY <1>1, TargetKept DEF Aside
  <1>2. ASSUME NEW c \in Call, Receives(c)
        PROVE  KnownInv' /\ KnownChannelAccepted'
    <2>1. status[c] = "none"
      BY <1>2 DEF Receives, IInv, CallInv, CallOK
    <2>2. QED
      BY <1>0, <1>2, <2>1, TargetKept DEF Receives
  <1>3. ASSUME NEW c \in Call, Count(c)
        PROVE  KnownInv' /\ KnownChannelAccepted'
    BY <1>3, TargetKept DEF Count, dbVars
  <1>4. ASSUME NEW c \in Call, Query(c)
        PROVE  KnownInv' /\ KnownChannelAccepted'
    <2>1. /\ UNCHANGED <<channels, received, known>>
          /\ \A d \in Call \ {c} : status'[d] = status[d]
          /\ status'[c] = "INVALID_ARGUMENT" =>
               Target(c) \notin channels \/ status[c] = "INVALID_ARGUMENT"
      BY <1>0, <1>4 DEF Query, Return, dbVars
    <2>2. QED
      BY <2>1, TargetKept
  <1>5. ASSUME NEW c \in Call, Emplace(c) \/ Lookup(c) \/ Link(c)
        PROVE  KnownInv' /\ KnownChannelAccepted'
    BY <1>5, TargetKept DEF Emplace, Lookup, Link, dbVars
  <1>6. ASSUME NEW s \in Sender, Publish(s)
        PROVE  KnownInv' /\ KnownChannelAccepted'
    BY <1>6, TargetKept DEF Publish, dbVars
  <1>7. ASSUME NEW l \in Listener, Deliver(l)
        PROVE  KnownInv' /\ KnownChannelAccepted'
    BY <1>7, TargetKept DEF Deliver, dbVars
  <1>8. CASE Crash
    BY <1>8, TargetKept DEF Crash, dbVars
  <1>9. QED
    BY <1>1, <1>2, <1>3, <1>4, <1>5, <1>6, <1>7, <1>8 DEF MapSteps

\* What each kind of step does to the map, the objects and who uses them.
LEMMA LookupFacts ==
  ASSUME IInv, NEW c \in Call, Lookup(c)
  PROVE  /\ pc[c] = "lookup"
         /\ UNCHANGED <<channels, channelMap, objects, received, cursor>>
         /\ raced' = (raced \/ Overlap(c))
         /\ \A d \in Call \ {c} : pc'[d] = pc[d] /\ object'[d] = object[d]
         /\ \/ /\ pc'[c] = "bound"
               /\ Target(c) \in DOMAIN channelMap
               /\ object'[c] = channelMap[Target(c)]
            \/ /\ pc'[c] = "growing"
               /\ raced' \/ Target(c) \notin DOMAIN channelMap
  <1>1. pc \in [Call -> Label] /\ object \in [Call -> 0..Len(objects)]
    BY DEF IInv, TypeOK
  <1>2. PICK found \in Search(c, Target(c)) :
          IF found
            THEN /\ object' = [object EXCEPT ![c] = channelMap[Target(c)]]
                 /\ Goto(c, "bound")
            ELSE Goto(c, "growing") /\ UNCHANGED object
    BY DEF Lookup
  <1>3. CASE found
    <2>1. Target(c) \in DOMAIN channelMap
      BY <1>2, <1>3 DEF Search
    <2>2. QED
      BY <1>1, <1>2, <1>3, <2>1 DEF Lookup, Goto, dbVars
  <1>4. CASE ~found
    <2>1. raced \/ Overlap(c) \/ Target(c) \notin DOMAIN channelMap
      BY <1>2, <1>4 DEF Search
    <2>2. QED
      BY <1>1, <1>2, <1>4, <2>1 DEF Lookup, Goto, dbVars
  <1>5. QED
    BY <1>2, <1>3, <1>4 DEF Search

\* An entry that is linked, with a race or without one.
LEMMA LinkFacts ==
  ASSUME IInv, NEW c \in Call, Link(c)
  PROVE  /\ DOMAIN objects' = DOMAIN objects \cup {Len(objects) + 1}
         /\ Len(objects) + 1 \notin DOMAIN objects
         /\ DOMAIN objects'[Len(objects) + 1] = {}
         /\ \A o \in DOMAIN objects : objects'[o] = objects[o]
         /\ Target(c) \in Channel
         /\ \/ /\ DOMAIN channelMap' = DOMAIN channelMap \cup {Target(c)}
               /\ channelMap'[Target(c)] = Len(objects) + 1
               /\ \A x \in DOMAIN channelMap \ {Target(c)} :
                    channelMap'[x] = channelMap[x]
            \/ raced /\ channelMap' = channelMap
         /\ \A x \in DOMAIN channelMap' : x # Target(c) =>
              x \in DOMAIN channelMap /\ channelMap'[x] = channelMap[x]
         /\ \A x \in DOMAIN channelMap : channelMap[x] # Len(objects) + 1
         /\ Writing(c)
         /\ \A d \in Call \ {c} : pc'[d] = pc[d] /\ object'[d] = object[d]
         /\ \/ pc'[c] = "lookup"
            \/ pc'[c] = "bound" /\ object'[c] = Len(objects) + 1
         /\ \A d \in Call : object[d] # Len(objects) + 1
         /\ UNCHANGED <<channels, raced, received, cursor>>
         /\ objects' = Append(objects, <<>>)
  <1>1. /\ pc \in [Call -> Label]
        /\ object \in [Call -> 0..Len(objects)]
        /\ objects \in Seq(Seq(Request))
        /\ channelMap \in [DOMAIN channelMap -> 1..Len(objects)]
    BY DEF IInv, TypeOK
  <1>2. objects' = Append(objects, <<>>) /\ <<>> \in Seq(Request)
    BY EmptyFacts DEF Link
  <1>3. /\ Len(objects) \in Nat
        /\ DOMAIN objects = 1..Len(objects)
        /\ DOMAIN objects' = 1..(Len(objects) + 1)
        /\ objects'[Len(objects) + 1] = <<>>
        /\ \A i \in 1..Len(objects) : objects'[i] = objects[i]
    BY <1>1, <1>2, AppendFacts
  <1>4. Target(c) \in Channel
    BY TargetFacts DEF Link, Writing, Vetted
  <1>5. /\ \A d \in Call \ {c} : pc'[d] = pc[d] /\ object'[d] = object[d]
        /\ \/ pc'[c] = "lookup"
           \/ pc'[c] = "bound" /\ object'[c] = Len(objects) + 1
    BY <1>1 DEF Link, Goto
  <1>6. \/ /\ DOMAIN channelMap' = DOMAIN channelMap \cup {Target(c)}
           /\ channelMap'[Target(c)] = Len(objects) + 1
           /\ \A x \in DOMAIN channelMap \ {Target(c)} :
                channelMap'[x] = channelMap[x]
        \/ raced /\ channelMap' = channelMap
    BY DEF Link
  <1>7. Writing(c) /\ UNCHANGED <<channels, raced, received, cursor>>
    BY DEF Link, dbVars
  <1>8. /\ DOMAIN objects' = DOMAIN objects \cup {Len(objects) + 1}
        /\ Len(objects) + 1 \notin DOMAIN objects
        /\ DOMAIN objects'[Len(objects) + 1] = {}
        /\ \A o \in DOMAIN objects : objects'[o] = objects[o]
    BY <1>3, EmptyFacts
  <1>9. /\ \A x \in DOMAIN channelMap : channelMap[x] # Len(objects) + 1
        /\ \A d \in Call : object[d] # Len(objects) + 1
    BY <1>1, <1>3
  <1>10. \A x \in DOMAIN channelMap' : x # Target(c) =>
           x \in DOMAIN channelMap /\ channelMap'[x] = channelMap[x]
    BY DEF Link
  <1>11. QED
    BY <1>2, <1>4, <1>5, <1>6, <1>7, <1>8, <1>9, <1>10

\* A message goes to the object in its sender's hand and to no other.
LEMMA PublishFacts ==
  ASSUME IInv, NEW s \in Sender, Publish(s)
  PROVE  /\ s \in Call /\ pc[s] = "bound"
         /\ Current(s) \in Request
         /\ object[s] \in 1..Len(objects)
         /\ DOMAIN objects = 1..Len(objects)
         /\ DOMAIN objects' = DOMAIN objects
         /\ objects' = [objects EXCEPT ![object[s]] =
                          Append(objects[object[s]], Current(s))]
         /\ \A o \in DOMAIN objects \ {object[s]} : objects'[o] = objects[o]
         /\ DOMAIN objects[object[s]] \subseteq DOMAIN objects'[object[s]]
         /\ \A i \in DOMAIN objects[object[s]] :
              objects'[object[s]][i] = objects[object[s]][i]
         /\ \A i \in DOMAIN objects'[object[s]] \ DOMAIN objects[object[s]] :
              objects'[object[s]][i] = Current(s)
         /\ pc'[s] = "inserting"
         /\ \A d \in Call \ {s} : pc'[d] = pc[d]
         /\ UNCHANGED <<channels, channelMap, raced, received, object, cursor>>
  <1> DEFINE o == object[s]
  <1>1. /\ s \in Call
        /\ pc \in [Call -> Label]
        /\ object \in [Call -> 0..Len(objects)]
        /\ objects \in Seq(Seq(Request))
        /\ pc[s] = "bound"
        /\ objects' = [objects EXCEPT ![o] = Append(objects[o], Current(s))]
    BY DEF Publish, Call, IInv, TypeOK
  <1>2. received[s] # <<>> /\ o # 0
    BY <1>1 DEF IInv, CallInv, CallOK, Unsettled
  <1>3. Current(s) \in Request
    BY <1>1, <1>2, CurrentFacts DEF IInv
  <1>4. o \in 1..Len(objects) /\ DOMAIN objects = 1..Len(objects)
    BY <1>1, <1>2
  <1>5. objects[o] \in Seq(Request)
    BY <1>1, <1>4
  <1>6. /\ Len(objects[o]) \in Nat
        /\ DOMAIN objects[o] = 1..Len(objects[o])
        /\ objects'[o] = Append(objects[o], Current(s))
        /\ DOMAIN objects'[o] = 1..(Len(objects[o]) + 1)
        /\ objects'[o][Len(objects[o]) + 1] = Current(s)
        /\ \A i \in 1..Len(objects[o]) : objects'[o][i] = objects[o][i]
    BY <1>1, <1>3, <1>4, <1>5, AppendFacts
  <1>7. /\ DOMAIN objects[o] \subseteq DOMAIN objects'[o]
        /\ \A i \in DOMAIN objects'[o] \ DOMAIN objects[o] :
             i = Len(objects[o]) + 1
    BY <1>6
  <1>8. /\ pc'[s] = "inserting"
        /\ \A d \in Call \ {s} : pc'[d] = pc[d]
        /\ UNCHANGED <<channels, channelMap, raced, received, object, cursor>>
    BY <1>1 DEF Publish, Goto, dbVars
  <1>9. QED
    BY <1>1, <1>3, <1>4, <1>6, <1>7, <1>8

\* A handler that means to insert links a new entry only if it found none,
\* or the map has been raced.
LEMMA EmplaceFacts ==
  ASSUME IInv, NEW c \in Call, Emplace(c)
  PROVE  /\ pc[c] = "emplacing"
         /\ UNCHANGED <<channels, channelMap, objects, received, object, cursor>>
         /\ raced' = (raced \/ Overlap(c))
         /\ \A d \in Call \ {c} : pc'[d] = pc[d]
         /\ \/ pc'[c] = "lookup"
            \/ /\ pc'[c] = "linking"
               /\ raced' \/ Target(c) \notin DOMAIN channelMap
  <1>1. pc \in [Call -> Label]
    BY DEF IInv, TypeOK
  <1>2. QED
    BY <1>1 DEF Emplace, SearchStep, Search, Goto, dbVars

\* Count and Query: a handler that is not at the map yet.
LEMMA EarlyFacts ==
  ASSUME IInv, NEW c \in Call, Count(c) \/ Query(c)
  PROVE  /\ pc[c] \in {"counting", "querying"}
         /\ pc'[c] \in {"lookup", "querying", "emplacing", "done"}
         /\ raced => raced'
         /\ \A d \in Call \ {c} : pc'[d] = pc[d]
         /\ UNCHANGED <<channels, channelMap, objects, received, object, cursor>>
  <1>1. pc \in [Call -> Label]
    BY DEF IInv, TypeOK
  <1>2. CASE Count(c)
    <2>1. raced' = (raced \/ Overlap(c))
      BY <1>2 DEF Count, SearchStep
    <2>2. QED
      BY <1>1, <1>2, <2>1 DEF Count, SearchStep, Goto, dbVars
  <1>3. CASE Query(c)
    BY <1>1, <1>3 DEF Query, Return, Goto, dbVars, processVars
  <1>4. QED
    BY <1>2, <1>3

\* Who begins an insertion while another is under way makes a race.
LEMMA StepWriter == IInv /\ MapInv /\ MapSteps => WriterInv'
  <1> SUFFICES ASSUME IInv, MapInv, MapSteps, ~raced'
               PROVE  \A c \in Call : Writing(c)' =>
                        /\ Target(c)' \notin DOMAIN channelMap'
                        /\ \A d \in Call \ {c} : ~Writing(d)'
    BY DEF WriterInv
  <1> DEFINE Goal == \A c \in Call : Writing(c)' =>
                       /\ Target(c)' \notin DOMAIN channelMap'
                       /\ \A d \in Call \ {c} : ~Writing(d)'
  <1>0. ~raced => \A c \in Call : Writing(c) =>
                    /\ Target(c) \notin DOMAIN channelMap
                    /\ \A d \in Call \ {c} : ~Writing(d)
    BY DEF MapInv, WriterInv
  <1>00. pc \in [Call -> Label]
    BY DEF IInv, TypeOK
  <1>1. CASE Aside
    BY <1>0, <1>1, TargetKept DEF Aside, Writing
  <1>2. ASSUME NEW c \in Call, Receives(c) PROVE Goal
    BY <1>0, <1>00, <1>2, TargetKept DEF Receives, Writing
  <1>3. ASSUME NEW c \in Call, Count(c) \/ Query(c) PROVE Goal
    BY <1>0, <1>3, EarlyFacts, TargetKept DEF Writing
  <1>4. ASSUME NEW c \in Call, Emplace(c) PROVE Goal
    <2>1. ~raced /\ \A d \in Call \ {c} : ~Writing(d)
      BY <1>4, EmplaceFacts DEF Overlap
    <2>2. QED
      BY <1>0, <1>4, <2>1, EmplaceFacts, TargetKept DEF Writing
  <1>5. ASSUME NEW c \in Call, Lookup(c) PROVE Goal
    <2>1. ~raced /\ \A d \in Call \ {c} : ~Writing(d)
      BY <1>5, LookupFacts DEF Overlap
    <2>2. QED
      BY <1>0, <1>5, <2>1, LookupFacts, TargetKept DEF Writing
  <1>6. ASSUME NEW c \in Call, Link(c) PROVE Goal
    <2>1. ~raced /\ \A d \in Call \ {c} : ~Writing(d)
      BY <1>0, <1>6, LinkFacts
    <2>2. QED
      BY <1>6, <2>1, LinkFacts DEF Writing
  <1>7. ASSUME NEW s \in Sender, Publish(s) PROVE Goal
    BY <1>0, <1>7, PublishFacts, TargetKept DEF Writing
  <1>8. ASSUME NEW l \in Listener, Deliver(l) PROVE Goal
    BY <1>0, <1>8, TargetKept DEF Deliver, processVars, Writing
  <1>9. CASE Crash
    BY <1>00, <1>9 DEF Crash, Running, Writing
  <1>10. QED
    BY <1>1, <1>2, <1>3, <1>4, <1>5, <1>6, <1>7, <1>8, <1>9 DEF MapSteps

\* An entry of the map is replaced in a race only.
LEMMA StepOneObject == IInv /\ MapInv /\ MapSteps => OneObject'
  <1> SUFFICES ASSUME IInv, MapInv, MapSteps, ~raced'
               PROVE  \A c \in Call : pc'[c] = "bound" =>
                        /\ Target(c)' \in DOMAIN channelMap'
                        /\ object'[c] = channelMap'[Target(c)']
    BY DEF OneObject
  <1> DEFINE Goal == \A c \in Call : pc'[c] = "bound" =>
                       /\ Target(c)' \in DOMAIN channelMap'
                       /\ object'[c] = channelMap'[Target(c)']
  <1>0. ~raced => \A c \in Call : pc[c] = "bound" =>
                    /\ Target(c) \in DOMAIN channelMap
                    /\ object[c] = channelMap[Target(c)]
    BY DEF MapInv, OneObject
  <1>00. pc \in [Call -> Label]
    BY DEF IInv, TypeOK
  <1>1. CASE Aside
    BY <1>0, <1>1, TargetKept DEF Aside
  <1>2. ASSUME NEW c \in Call, Receives(c) PROVE Goal
    BY <1>0, <1>00, <1>2, TargetKept DEF Receives
  <1>3. ASSUME NEW c \in Call, Count(c) \/ Query(c) PROVE Goal
    BY <1>0, <1>3, EarlyFacts, TargetKept
  <1>4. ASSUME NEW c \in Call, Emplace(c) PROVE Goal
    BY <1>0, <1>4, EmplaceFacts, TargetKept
  <1>5. ASSUME NEW c \in Call, Lookup(c) PROVE Goal
    BY <1>0, <1>5, LookupFacts, TargetKept
  <1>6. ASSUME NEW c \in Call, Link(c) PROVE Goal
    <2>1. ~raced /\ Target(c) \notin DOMAIN channelMap
      BY <1>6, LinkFacts DEF MapInv, WriterInv
    <2>2. \A d \in Call : Target(d)' = Target(d)
      BY <1>6, LinkFacts, TargetKept
    <2>3. /\ DOMAIN channelMap' = DOMAIN channelMap \cup {Target(c)}
          /\ channelMap'[Target(c)] = Len(objects) + 1
          /\ \A x \in DOMAIN channelMap \ {Target(c)} :
               channelMap'[x] = channelMap[x]
      BY <1>6, <2>1, LinkFacts
    <2>4. /\ pc'[c] = "bound" => object'[c] = Len(objects) + 1
          /\ \A d \in Call \ {c} : pc'[d] = pc[d] /\ object'[d] = object[d]
      BY <1>6, LinkFacts
    <2>5. ASSUME NEW d \in Call \ {c}, pc'[d] = "bound"
          PROVE  /\ Target(d) \in DOMAIN channelMap'
                 /\ object'[d] = channelMap'[Target(d)]
      <3>1. /\ Target(d) \in DOMAIN channelMap
            /\ object[d] = channelMap[Target(d)]
        BY <1>0, <2>1, <2>4, <2>5
      <3>2. QED
        BY <2>1, <2>3, <2>4, <3>1
    <2>6. QED
      BY <2>2, <2>3, <2>4, <2>5
  <1>7. ASSUME NEW s \in Sender, Publish(s) PROVE Goal
    BY <1>0, <1>7, PublishFacts, TargetKept
  <1>8. ASSUME NEW l \in Listener, Deliver(l) PROVE Goal
    BY <1>0, <1>8, TargetKept DEF Deliver, processVars
  <1>9. CASE Crash
    BY <1>00, <1>9 DEF Crash, Running
  <1>10. QED
    BY <1>1, <1>2, <1>3, <1>4, <1>5, <1>6, <1>7, <1>8, <1>9 DEF MapSteps

\* An object that no step gives to another handler or another channel, and
\* that gets no message, serves the channel it served.
LEMMA ServesKept ==
  ASSUME NEW o, NEW ch, Serves(o, ch),
         \A x \in DOMAIN channelMap' : channelMap'[x] = o =>
           \/ x = ch
           \/ x \in DOMAIN channelMap /\ channelMap[x] = o,
         \A c \in Call : pc'[c] = "bound" /\ object'[c] = o =>
           \/ Target(c)' = ch
           \/ pc[c] = "bound" /\ object[c] = o /\ Target(c)' = Target(c),
         objects'[o] = objects[o]
  PROVE  Serves(o, ch)'
  BY DEF Serves

\* An object serves one channel in its life, also after a race: it is built
\* for one, found under it only, and used by handlers that want it.
LEMMA StepServe == IInv /\ MapInv /\ MapSteps => ServeInv'
  <1> SUFFICES ASSUME IInv, MapInv, MapSteps, NEW o \in DOMAIN objects'
               PROVE  \E ch \in Channel : Serves(o, ch)'
    BY DEF ServeInv
  <1>0. pc \in [Call -> Label]
    BY DEF IInv, TypeOK
  <1> DEFINE Goal == \E ch \in Channel : Serves(o, ch)'
  <1>1. ASSUME NEW ch \in Channel, Serves(o, ch),
               UNCHANGED <<channelMap, objects>>,
               \A c \in Call : pc'[c] = "bound" =>
                 /\ pc[c] = "bound"
                 /\ object'[c] = object[c]
                 /\ Target(c)' = Target(c)
        PROVE  Goal
    BY <1>1, ServesKept
  <1>2. ASSUME o \in DOMAIN objects
        PROVE  \E ch \in Channel : Serves(o, ch)
    BY <1>2 DEF MapInv, ServeInv
  <1>3. CASE Aside
    BY <1>1, <1>2, <1>3, TargetKept DEF Aside
  <1>4. ASSUME NEW c \in Call, Receives(c) PROVE Goal
    BY <1>0, <1>1, <1>2, <1>4, TargetKept DEF Receives
  <1>5. ASSUME NEW c \in Call, Count(c) \/ Query(c) PROVE Goal
    BY <1>1, <1>2, <1>5, EarlyFacts, TargetKept
  <1>6. ASSUME NEW c \in Call, Emplace(c) PROVE Goal
    BY <1>1, <1>2, <1>6, EmplaceFacts, TargetKept
  <1>7. ASSUME NEW c \in Call, Lookup(c) PROVE Goal
    <2>1. PICK ch \in Channel : Serves(o, ch)
      BY <1>2, <1>7, LookupFacts
    <2>2. /\ \A d \in Call : Target(d)' = Target(d)
          /\ UNCHANGED <<channelMap, objects>>
          /\ \A d \in Call \ {c} : pc'[d] = pc[d] /\ object'[d] = object[d]
          /\ pc'[c] = "bound" =>
               /\ Target(c) \in DOMAIN channelMap
               /\ object'[c] = channelMap[Target(c)]
      BY <1>7, LookupFacts, TargetKept
    <2>3. pc'[c] = "bound" /\ object'[c] = o => Target(c) = ch
      BY <2>1, <2>2 DEF Serves
    <2>4. QED
      BY <2>1, <2>2, <2>3, ServesKept
  <1>8. ASSUME NEW c \in Call, Link(c) PROVE Goal
    <2>1. \A d \in Call : Target(d)' = Target(d)
      BY <1>8, LinkFacts, TargetKept
    <2>2. CASE o \in DOMAIN objects
      <3>1. PICK ch \in Channel : Serves(o, ch)
        BY <1>2, <2>2
      <3>2. o # Len(objects) + 1 /\ objects'[o] = objects[o]
        BY <1>8, <2>2, LinkFacts
      <3>3. \A x \in DOMAIN channelMap' : channelMap'[x] = o =>
              x \in DOMAIN channelMap /\ channelMap[x] = o
        BY <1>8, <3>2, LinkFacts
      <3>4. \A d \in Call : pc'[d] = "bound" /\ object'[d] = o =>
              pc[d] = "bound" /\ object[d] = o
        BY <1>8, <3>2, LinkFacts
      <3>5. QED
        BY <2>1, <3>1, <3>2, <3>3, <3>4, ServesKept
    <2>3. CASE o \notin DOMAIN objects
      <3>a. /\ DOMAIN objects' = DOMAIN objects \cup {Len(objects) + 1}
            /\ DOMAIN objects'[Len(objects) + 1] = {}
            /\ Target(c) \in Channel
        BY <1>8, LinkFacts
      <3>b. o = Len(objects) + 1
        <4>1. o \in DOMAIN objects \cup {Len(objects) + 1}
          BY <3>a
        <4>2. QED
          BY <2>3, <4>1
      <3>1. /\ o = Len(objects) + 1
            /\ Target(c) \in Channel
            /\ DOMAIN objects'[o] = {}
        BY <3>a, <3>b
      <3>2. ASSUME NEW x \in DOMAIN channelMap', x # Target(c)
            PROVE  channelMap'[x] # o
        <4>1. x \in DOMAIN channelMap /\ channelMap'[x] = channelMap[x]
          BY <1>8, <3>2, LinkFacts
        <4>2. channelMap[x] # Len(objects) + 1
          BY <1>8, <4>1, LinkFacts
        <4>3. QED
          BY <3>1, <4>1, <4>2
      <3>3. ASSUME NEW d \in Call, d # c PROVE object'[d] # o
        <4>1. object'[d] = object[d] /\ object[d] # Len(objects) + 1
          BY <1>8, <3>3, LinkFacts
        <4>2. QED
          BY <3>1, <4>1
      <3>4. Serves(o, Target(c))'
        BY <2>1, <3>1, <3>2, <3>3 DEF Serves
      <3>5. QED
        BY <2>1, <3>1, <3>4
    <2>4. QED
      BY <2>2, <2>3
  <1>9. ASSUME NEW s \in Sender, Publish(s) PROVE Goal
    <2>1. PICK ch \in Channel : Serves(o, ch)
      BY <1>2, <1>9, PublishFacts
    <2>2. /\ \A d \in Call : Target(d)' = Target(d)
          /\ UNCHANGED <<channelMap, object>>
          /\ \A d \in Call : pc'[d] = "bound" => pc[d] = "bound"
      BY <1>9, PublishFacts, TargetKept
    <2>3. \A i \in DOMAIN objects'[o] : objects'[o][i].channel = ch
      <3>1. CASE object[s] = o
        <4>1. Current(s).channel = ch
          BY <1>9, <2>1, <3>1, PublishFacts DEF Serves, Target
        <4>2. QED
          BY <1>9, <2>1, <3>1, <4>1, PublishFacts DEF Serves
      <3>2. CASE object[s] # o
        BY <1>9, <2>1, <3>2, PublishFacts DEF Serves
      <3>3. QED
        BY <3>1, <3>2
    <2>4. QED
      BY <2>1, <2>2, <2>3 DEF Serves
  <1>10. ASSUME NEW l \in Listener, Deliver(l) PROVE Goal
    BY <1>1, <1>2, <1>10, TargetKept DEF Deliver, processVars
  <1>11. CASE Crash
    <2>1. PICK ch \in Channel : Serves(o, ch)
      BY <1>2, <1>11 DEF Crash
    <2>2. /\ DOMAIN channelMap' = {}
          /\ \A c \in Call : pc'[c] # "bound"
          /\ objects' = objects
      BY <1>0, <1>11 DEF Crash, Running
    <2>3. QED
      BY <2>1, <2>2 DEF Serves
  <1>12. QED
    BY <1>3, <1>4, <1>5, <1>6, <1>7, <1>8, <1>9, <1>10, <1>11 DEF MapSteps

\* What an object holds it keeps.
LEMMA LogsKept ==
  ASSUME IInv, MapSteps, NEW o \in DOMAIN objects, NEW i \in DOMAIN objects[o]
  PROVE  /\ o \in DOMAIN objects'
         /\ i \in DOMAIN objects'[o]
         /\ objects'[o][i] = objects[o][i]
  <1>1. ASSUME NEW c \in Call, Link(c)
        PROVE  o \in DOMAIN objects' /\ objects'[o] = objects[o]
    BY <1>1, LinkFacts
  <1>2. ASSUME NEW s \in Sender, Publish(s)
        PROVE  /\ o \in DOMAIN objects'
               /\ i \in DOMAIN objects'[o]
               /\ objects'[o][i] = objects[o][i]
    BY <1>2, PublishFacts
  <1>3. CASE UNCHANGED objects
    BY <1>3
  <1>4. ASSUME NEW c \in Call, Count(c) \/ Query(c) PROVE UNCHANGED objects
    BY <1>4, EarlyFacts
  <1>5. ASSUME NEW c \in Call, Emplace(c) \/ Lookup(c)
        PROVE  UNCHANGED objects
    BY <1>5, EmplaceFacts, LookupFacts
  <1>6. QED
    BY <1>1, <1>2, <1>3, <1>4, <1>5
    DEF MapSteps, Aside, Receives, Deliver, processVars, Crash

\* A listener that was shown a message keeps its object and its request.
LEMMA ListenerKept ==
  ASSUME IInv, MapInv, MapSteps, NEW l \in Listener, cursor[l] # 0
  PROVE  /\ pc'[l] \in {"bound", "done"}
         /\ object'[l] = object[l]
         /\ Target(l)' = Target(l)
  <1>0. /\ pc[l] \in {"bound", "done"}
        /\ l \in Call
        /\ \A s \in Sender : s # l /\ s \in Call
        /\ pc \in [Call -> Label]
    BY ServiceAssumption DEF MapInv, CursorInv, Call, IInv, TypeOK
  <1>1. CASE Aside
    BY <1>0, <1>1, TargetKept DEF Aside
  <1>2. ASSUME NEW c \in Call, Receives(c)
        PROVE  /\ pc'[l] = pc[l]
               /\ object'[l] = object[l]
               /\ Target(l)' = Target(l)
    BY <1>0, <1>2, TargetKept DEF Receives
  <1>3. ASSUME NEW c \in Call,
               \/ Count(c) \/ Query(c) \/ Emplace(c) \/ Lookup(c) \/ Link(c)
        PROVE  /\ pc'[l] = pc[l]
               /\ object'[l] = object[l]
               /\ Target(l)' = Target(l)
    <2>1. /\ c # l
          /\ pc'[l] = pc[l]
          /\ object'[l] = object[l]
          /\ received' = received
      BY <1>0, <1>3, EarlyFacts, EmplaceFacts, LookupFacts, LinkFacts
      DEF Writing
    <2>2. QED
      BY <1>0, <2>1, TargetKept
  <1>4. ASSUME NEW s \in Sender, Publish(s)
        PROVE  /\ pc'[l] = pc[l]
               /\ object'[l] = object[l]
               /\ Target(l)' = Target(l)
    BY <1>0, <1>4, PublishFacts, TargetKept
  <1>5. ASSUME NEW k \in Listener, Deliver(k)
        PROVE  /\ pc'[l] = pc[l]
               /\ object'[l] = object[l]
               /\ Target(l)' = Target(l)
    BY <1>0, <1>5, TargetKept DEF Deliver
  <1>6. CASE Crash
    BY <1>0, <1>6, TargetKept DEF Crash, Running
  <1>7. QED
    BY <1>0, <1>1, <1>2, <1>3, <1>4, <1>5, <1>6 DEF MapSteps

\* waitMessage gave a listener a message of the channel its object serves.
LEMMA StepListener ==
  IInv /\ MapInv /\ MapSteps => CursorInv' /\ NoCrossTalk'
  <1> SUFFICES ASSUME IInv, MapInv, MapSteps,
                      NEW l \in Listener, cursor'[l] # 0
               PROVE  /\ pc'[l] \in {"bound", "done"}
                      /\ object'[l] \in DOMAIN objects'
                      /\ cursor'[l] \in DOMAIN objects'[object'[l]]
                      /\ objects'[object'[l]][cursor'[l]].channel = Target(l)'
    BY DEF CursorInv, NoCrossTalk
  <1>1. CASE cursor'[l] = cursor[l]
    <2> DEFINE o == object[l]
               i == cursor[l]
    <2>1. /\ o \in DOMAIN objects
          /\ i \in DOMAIN objects[o]
          /\ objects[o][i].channel = Target(l)
      BY <1>1 DEF MapInv, CursorInv, NoCrossTalk
    <2>2. /\ o \in DOMAIN objects'
          /\ i \in DOMAIN objects'[o]
          /\ objects'[o][i] = objects[o][i]
      BY <2>1, LogsKept
    <2>3. /\ pc'[l] \in {"bound", "done"}
          /\ object'[l] = object[l]
          /\ Target(l)' = Target(l)
      BY <1>1, ListenerKept
    <2>4. QED
      BY <1>1, <2>1, <2>2, <2>3
  <1>2. CASE cursor'[l] # cursor[l]
    <2>1. \A c \in Call : Count(c) \/ Query(c) \/ Emplace(c) \/ Lookup(c)
            \/ Link(c) => cursor' = cursor
      BY EarlyFacts, EmplaceFacts, LookupFacts, LinkFacts
    <2>2. \A s \in Sender : Publish(s) => cursor' = cursor
      BY PublishFacts
    <2>3. PICK k \in Listener : Deliver(k)
      BY <1>2, <2>1, <2>2 DEF MapSteps, Aside, Receives, Crash
    <2>4. /\ Deliver(l)
          /\ cursor'[l] = Len(objects[object[l]])
      BY <1>2, <2>3 DEF Deliver, IInv, TypeOK
    <2>5. /\ object[l] \in DOMAIN objects
          /\ objects[object[l]] # <<>>
          /\ objects[object[l]] \in Seq(Request)
      BY <2>4 DEF Deliver, IInv, TypeOK, CallInv, CallOK, Call
    <2>6. Len(objects[object[l]]) \in DOMAIN objects[object[l]]
      BY <2>5
    <2>7. PICK ch \in Channel : Serves(object[l], ch)
      BY <2>5 DEF MapInv, ServeInv
    <2>8. objects[object[l]][Len(objects[object[l]])].channel = Target(l)
      BY <2>4, <2>6, <2>7 DEF Serves, Deliver, Call
    <2>9. QED
      BY <2>4, <2>5, <2>6, <2>8, TargetKept DEF Deliver, processVars, Call
  <1>3. QED
    BY <1>1, <1>2

\* Both invariants hold in every reachable state.
LEMMA MapInvariance == Spec => [](IInv /\ MapInv)
  <1>1. IInv /\ MapInv /\ [Next]_vars => MapInv'
    BY StepMapSteps, StepKnown, StepWriter, StepOneObject, StepServe,
       StepListener
    DEF MapInv
  <1>2. QED
    BY <1>1, InitMapInv, Invariance, PTL DEF Spec

\* WrongthinkServiceImpl.cpp:358-371: a channel that existed when the request
\* arrived is not refused, whatever became of the map.
THEOREM KnownIsAccepted == Spec => []KnownChannelAccepted
  <1>1. MapInv => KnownChannelAccepted
    BY DEF MapInv
  <1>2. QED
    BY MapInvariance, <1>1, PTL

\* WrongthinkServiceImpl.cpp:359-367: without a race in the map all handlers
\* use the same object of a channel.
THEOREM ObjectsAreShared == Spec => []OneObject
  <1>1. MapInv => OneObject
    BY DEF MapInv
  <1>2. QED
    BY MapInvariance, <1>1, PTL

\* WrongthinkServiceImpl.cpp:216, 260, 287: with races or without, a listener
\* is shown messages of its channel only.
THEOREM ChannelsKeptApart == Spec => []NoCrossTalk
  <1>1. MapInv => NoCrossTalk
    BY DEF MapInv
  <1>2. QED
    BY MapInvariance, <1>1, PTL

=============================================================================
