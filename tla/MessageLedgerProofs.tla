------------------------ MODULE MessageLedgerProofs ------------------------
(***************************************************************************)
(* MessageService implements MessageLedger.  Every step of the RPCs is     *)
(* first put into one of five kinds, by what it changes of a sender; each  *)
(* kind then keeps the invariant and is a step of the ledger.              *)
(***************************************************************************)
EXTENDS MessageServiceProofs

\* Where the message in hand has not been broadcast.
Unshown == {"counting", "querying", "emplacing", "linking", "lookup",
            "growing", "bound"}

\* What the place and the status of a sender say about the broadcast.
ShowOK(s) ==
  /\ pc[s] \in Unshown => Current(s) \notin Published
  /\ pc[s] \in {"inserting", "orphan"} => Current(s) \in Published
  /\ status[s] = "INVALID_ARGUMENT" =>
       received[s] # <<>> /\ Current(s) \notin Published
  /\ status[s] # "UNKNOWN"

\* What was broadcast is what a sender read, under its number.
SourceInv ==
  \A m \in Published :
    /\ m.call \in Sender
    /\ m.n \in DOMAIN received[m.call]
    /\ m = received[m.call][m.n]

ShowInv ==
  /\ \A s \in Sender : ShowOK(s)
  /\ SourceInv
  /\ StoredWasBroadcast

-----------------------------------------------------------------------------
(* Kinds of steps *)

Same(s) ==
  pc'[s] = pc[s] /\ received'[s] = received[s] /\ status'[s] = status[s]

Others(s) == \A q \in Sender \ {s} : Same(q)

\* Senders move between places that say the same about their messages.
Quiet ==
  /\ Published' = Published
  /\ rows' = rows
  /\ \A s \in Sender :
       /\ received'[s] = received[s]
       /\ status'[s] = status[s]
       /\ \/ pc'[s] = pc[s]
          \/ pc[s] \in Unshown /\ pc'[s] \in Unshown
          \/ pc'[s] = "reading"

Reads(s, m) ==
  /\ pc[s] \in {"idle", "reading"}
  /\ pc'[s] = "counting"
  /\ m.call = s
  /\ m.n = Len(received[s]) + 1
  /\ received'[s] = Append(received[s], m)
  /\ status'[s] = status[s]
  /\ Others(s)
  /\ Published' = Published
  /\ rows' = rows

Shows(s) ==
  /\ pc[s] = "bound"
  /\ pc'[s] = "inserting"
  /\ received'[s] = received[s]
  /\ status'[s] = status[s]
  /\ Others(s)
  /\ Published' = Published \cup {Current(s)}
  /\ rows' = rows

Stores(s) ==
  /\ \/ pc[s] = "inserting" /\ pc'[s] = "inserted"
     \/ pc[s] = "orphan" /\ pc'[s] = "done"
  /\ received'[s] = received[s]
  /\ status'[s] = status[s]
  /\ Others(s)
  /\ Published' = Published
  /\ rows' = Append(rows, Current(s))

\* Senders end with status o.
Ends(ending, o) ==
  /\ ending \subseteq Sender
  /\ \A s \in ending :
       /\ status[s] = "none"
       /\ status'[s] = o
       /\ received'[s] = received[s]
       /\ \/ pc'[s] = "done"
          \/ pc'[s] = "orphan" /\ pc[s] = "inserting" /\ o # "OK"
       /\ \/ o = "OK" /\ pc[s] \in {"reading", "inserted"}
          \/ o = "INVALID_ARGUMENT" /\ pc[s] = "querying"
          \/ o \in {"INTERNAL", "UNAVAILABLE"}
  /\ \A s \in Sender \ ending : Same(s)
  /\ Published' = Published
  /\ rows' = rows

Kinds ==
  \/ Quiet
  \/ \E s \in Sender, m \in Request : Reads(s, m)
  \/ \E s \in Sender : Shows(s) \/ Stores(s)
  \/ \E ending \in SUBSET Sender, o \in StatusCode : Ends(ending, o)

-----------------------------------------------------------------------------
(* Every step is of one of the kinds *)

\* A request that a sender's handler reads.
LEMMA AcceptReads ==
  ASSUME IInv, NEW s \in Sender, NEW ch \in Channel, NEW u \in User,
         Len(received[s]) < MaxPerCall, Accept(s, ch, u),
         pc[s] \in {"idle", "reading"}, UNCHANGED <<rows, objects, status>>
  PROVE  \E m \in Request : Reads(s, m)
  <1> DEFINE m == [call |-> s, n |-> Len(received[s]) + 1,
                   channel |-> ch, user |-> u]
  <1>1. s \in Call /\ received[s] \in Seq(Request) /\ Len(received[s]) \in Nat
    BY DEF IInv, TypeOK, Call
  <1>2. m \in Request
    BY <1>1, ServiceAssumption DEF Request
  <1>3. /\ received'[s] = Append(received[s], m)
        /\ pc'[s] = "counting"
        /\ \A q \in Sender \ {s} : pc'[q] = pc[q] /\ received'[q] = received[q]
    BY <1>1 DEF Accept, Goto, IInv, TypeOK, Call
  <1>4. Published' = Published
    BY PublishedKept
  <1>5. Reads(s, m)
    BY <1>3, <1>4 DEF Reads, Others, Same
  <1>6. QED
    BY <1>2, <1>5

\* A handler that returns o, or leaves its insert behind.
LEMMA ReturnEnds ==
  ASSUME IInv, NEW c \in Call, NEW o \in StatusCode, NEW label,
         pc' = [pc EXCEPT ![c] = label],
         status' = [status EXCEPT ![c] = o],
         UNCHANGED <<rows, objects, received>>,
         status[c] = "none",
         \/ label = "done"
         \/ label = "orphan" /\ pc[c] = "inserting" /\ o # "OK",
         c \in Sender =>
           \/ o = "OK" /\ pc[c] \in {"reading", "inserted"}
           \/ o = "INVALID_ARGUMENT" /\ pc[c] = "querying"
           \/ o \in {"INTERNAL", "UNAVAILABLE"}
  PROVE  Kinds
  <1> DEFINE ending == {c} \cap Sender
  <1>1. Published' = Published
    BY PublishedKept
  <1>2. \A s \in Sender \ {c} : Same(s)
    BY DEF Same, IInv, TypeOK, Call
  <1>3. /\ pc'[c] = label
        /\ status'[c] = o
        /\ received'[c] = received[c]
    BY DEF IInv, TypeOK
  <1>4. Ends(ending, o)
    BY <1>1, <1>2, <1>3 DEF Ends
  <1>5. ending \in SUBSET Sender
    OBVIOUS
  <1>6. QED
    BY <1>4, <1>5 DEF Kinds

\* A step that shows nothing, stores nothing and ends nothing.
LEMMA MoveQuiet ==
  ASSUME IInv, NEW c \in Call, NEW label,
         pc' = [pc EXCEPT ![c] = label],
         UNCHANGED <<rows, received, status>>,
         Published' = Published,
         c \in Sender =>
           \/ pc[c] \in Unshown /\ label \in Unshown
           \/ label = "reading"
  PROVE  Kinds
  <1>1. \A s \in Sender : s # c => pc'[s] = pc[s]
    BY DEF IInv, TypeOK, Call
  <1>2. pc'[c] = label
    BY DEF IInv, TypeOK
  <1>3. Quiet
    BY <1>1, <1>2 DEF Quiet
  <1>4. QED
    BY <1>3 DEF Kinds

\* A step that leaves the senders alone.
LEMMA OtherQuiet ==
  ASSUME UNCHANGED <<rows, objects, pc, received, status>>
  PROVE  Kinds
  BY PublishedKept DEF Kinds, Quiet

LEMMA StepKinds == IInv /\ [Next]_vars => Kinds
  <1> SUFFICES ASSUME IInv, [Next]_vars PROVE Kinds
    OBVIOUS
  <1> USE DEF Goto, Return
  <1>1. \A c \in Call : status[c] = "none" <=> pc[c] \notin {"done", "orphan"}
    BY DEF IInv, CallInv, CallOK
  <1>2. \A c \in Call : pc[c] \in {"reading", "inserting", "inserted", "orphan"}
                          => c \in Sender
    BY DEF IInv, CallInv, CallOK
  <1>3. \A c \in Call : c \in Sender => Failure(c) = "INTERNAL"
    BY ServiceAssumption DEF Failure
  <1>4. \A c \in Call : Failure(c) \in StatusCode
    BY DEF Failure, StatusCode
  <1>5. ASSUME NEW c \in Call, SessionFails(c) PROVE Kinds
    <2>1. /\ pc' = [pc EXCEPT ![c] = "done"]
          /\ status' = [status EXCEPT ![c] = Failure(c)]
          /\ pc[c] = "idle"
          /\ UNCHANGED <<rows, objects, received>>
      BY <1>5 DEF SessionFails, dbVars, processVars
    <2>2. QED
      BY <1>1, <1>3, <1>4, <2>1, ReturnEnds
  <1>6. ASSUME NEW c \in Call, Count(c) PROVE Kinds
    <2>1. PICK label \in {"lookup", "querying"} : pc' = [pc EXCEPT ![c] = label]
      BY <1>6 DEF Count, SearchStep
    <2>2. /\ pc[c] = "counting"
          /\ UNCHANGED <<rows, objects, received, status>>
      BY <1>6 DEF Count, dbVars
    <2>3. QED
      BY <2>1, <2>2, PublishedKept, MoveQuiet DEF Unshown
  <1>7. ASSUME NEW c \in Call, Query(c) PROVE Kinds
    <2>1. pc[c] = "querying" /\ UNCHANGED <<rows, objects, received>>
      BY <1>7 DEF Query, dbVars, processVars
    <2>2. CASE pc' = [pc EXCEPT ![c] = "emplacing"] /\ UNCHANGED status
      BY <2>1, <2>2, PublishedKept, MoveQuiet DEF Unshown
    <2>3. CASE /\ pc' = [pc EXCEPT ![c] = "done"]
               /\ status' = [status EXCEPT ![c] = "INVALID_ARGUMENT"]
      BY <1>1, <2>1, <2>3, ReturnEnds DEF StatusCode
    <2>4. QED
      BY <1>7, <2>2, <2>3 DEF Query
  <1>8. ASSUME NEW c \in Call, Emplace(c) PROVE Kinds
    <2>1. PICK label \in {"lookup", "linking"} : pc' = [pc EXCEPT ![c] = label]
      BY <1>8 DEF Emplace, SearchStep
    <2>2. /\ pc[c] = "emplacing"
          /\ UNCHANGED <<rows, objects, received, status>>
      BY <1>8 DEF Emplace, dbVars
    <2>3. QED
      BY <2>1, <2>2, PublishedKept, MoveQuiet DEF Unshown
  <1>9. ASSUME NEW c \in Call, Lookup(c) PROVE Kinds
    <2>1. PICK label \in {"bound", "growing"} : pc' = [pc EXCEPT ![c] = label]
      BY <1>9 DEF Lookup
    <2>2. pc[c] = "lookup" /\ UNCHANGED <<rows, objects, received, status>>
      BY <1>9 DEF Lookup, dbVars
    <2>3. QED
      BY <2>1, <2>2, PublishedKept, MoveQuiet DEF Unshown
  <1>10. ASSUME NEW c \in Call, Link(c) PROVE Kinds
    <2>1. PICK label \in {"lookup", "bound"} : pc' = [pc EXCEPT ![c] = label]
      BY <1>10 DEF Link
    <2>2. /\ pc[c] \in {"linking", "growing"}
          /\ objects' = Append(objects, <<>>)
          /\ UNCHANGED <<rows, received, status>>
      BY <1>10 DEF Link, Writing, dbVars
    <2>3. Published' = Published
      BY <2>2, PublishedLinked DEF IInv, TypeOK
    <2>4. QED
      BY <2>1, <2>2, <2>3, MoveQuiet DEF Unshown
  <1>11. ASSUME NEW s \in Call, StartStream(s) PROVE Kinds
    <2>1. /\ pc' = [pc EXCEPT ![s] = "reading"]
          /\ UNCHANGED <<rows, objects, received, status>>
      BY <1>11 DEF StartStream, dbVars, processVars
    <2>2. QED
      BY <2>1, PublishedKept, MoveQuiet
  <1>12. ASSUME NEW s \in Call, NEW ch \in Channel, NEW u \in User,
                ReadMessage(s, ch, u) PROVE Kinds
    <2>1. /\ pc[s] = "reading"
          /\ Len(received[s]) < MaxPerCall
          /\ Accept(s, ch, u)
          /\ UNCHANGED <<rows, objects, status>>
      BY <1>12 DEF ReadMessage, dbVars, processVars
    <2>2. QED
      BY <1>2, <2>1, AcceptReads DEF Kinds
  <1>13. ASSUME NEW s \in Call, NEW ch \in Channel, NEW u \in User,
                StartWeb(s, ch, u) PROVE Kinds
    <2>1. /\ pc[s] = "idle"
          /\ s \in Sender
          /\ Accept(s, ch, u)
          /\ UNCHANGED <<rows, objects, status>>
      BY <1>13 DEF StartWeb, dbVars, processVars, Sender
    <2>2. Len(received[s]) < MaxPerCall
      BY <2>1, EmptyFacts, ServiceAssumption DEF IInv, CallInv, CallOK
    <2>3. QED
      BY <2>1, <2>2, AcceptReads DEF Kinds
  <1>14. ASSUME NEW s \in Call, EndOfStream(s) PROVE Kinds
    <2>1. /\ pc[s] = "reading"
          /\ pc' = [pc EXCEPT ![s] = "done"]
          /\ status' = [status EXCEPT ![s] = "OK"]
          /\ UNCHANGED <<rows, objects, received>>
      BY <1>14 DEF EndOfStream, dbVars, processVars
    <2>2. QED
      BY <1>1, <2>1, ReturnEnds DEF StatusCode
  <1>14a. ASSUME NEW s \in Call, ReadFails(s) PROVE Kinds
    <2>1. /\ pc[s] = "reading"
          /\ pc' = [pc EXCEPT ![s] = "done"]
          /\ status' = [status EXCEPT ![s] = "INTERNAL"]
          /\ UNCHANGED <<rows, objects, received>>
      BY <1>14a DEF ReadFails, dbVars, processVars
    <2>2. QED
      BY <1>1, <2>1, ReturnEnds DEF StatusCode
  <1>15. ASSUME NEW s \in Sender, Publish(s) PROVE Kinds
    <2>1. /\ pc[s] = "bound"
          /\ objects' = [objects EXCEPT ![object[s]] =
                           Append(objects[object[s]], Current(s))]
          /\ pc' = [pc EXCEPT ![s] = "inserting"]
          /\ UNCHANGED <<rows, received, status>>
      BY <1>15 DEF Publish, dbVars
    <2>2. /\ object[s] \in 1..Len(objects)
          /\ Current(s) \in Request
      BY <2>1, CurrentFacts DEF IInv, TypeOK, CallInv, CallOK, Unsettled, Call
    <2>3. Published' = Published \cup {Current(s)}
      BY <2>1, <2>2, PublishedAppended DEF IInv, TypeOK
    <2>4. pc'[s] = "inserting" /\ Others(s)
      BY <2>1 DEF Others, Same, IInv, TypeOK, Call
    <2>5. Shows(s)
      BY <2>1, <2>3, <2>4 DEF Shows
    <2>6. QED
      BY <2>5 DEF Kinds
  <1>16. ASSUME NEW s \in Sender, StoreRow(s) PROVE Kinds
    <2>1. /\ pc[s] = "inserting"
          /\ pc' = [pc EXCEPT ![s] = "inserted"]
          /\ rows' = Append(rows, Current(s))
          /\ UNCHANGED <<objects, received, status>>
      BY <1>16 DEF StoreRow, processVars
    <2>2. pc'[s] = "inserted" /\ Others(s)
      BY <2>1 DEF Others, Same, IInv, TypeOK, Call
    <2>3. Stores(s)
      BY <2>1, <2>2, PublishedKept DEF Stores
    <2>4. QED
      BY <2>3 DEF Kinds
  <1>17. ASSUME NEW s \in Sender, RejectRow(s) PROVE Kinds
    <2>1. /\ pc[s] = "inserting"
          /\ pc' = [pc EXCEPT ![s] = "done"]
          /\ status' = [status EXCEPT ![s] = "INTERNAL"]
          /\ UNCHANGED <<rows, objects, received>>
      BY <1>17 DEF RejectRow, dbVars, processVars
    <2>2. QED
      BY <1>1, <2>1, ReturnEnds DEF StatusCode, Call
  <1>18. ASSUME NEW s \in Sender, Answered(s) PROVE Kinds
    <2>1. pc[s] = "inserted" /\ UNCHANGED <<rows, objects, received>>
      BY <1>18 DEF Answered, dbVars, processVars
    <2>2. CASE pc' = [pc EXCEPT ![s] = "reading"] /\ UNCHANGED status
      BY <2>1, <2>2, PublishedKept, MoveQuiet DEF Call
    <2>3. CASE /\ pc' = [pc EXCEPT ![s] = "done"]
               /\ status' = [status EXCEPT ![s] = "OK"]
      BY <1>1, <2>1, <2>3, ReturnEnds DEF StatusCode, Call
    <2>4. QED
      BY <1>18, <2>2, <2>3 DEF Answered
  <1>19. ASSUME NEW l \in Call, NEW ch \in Channel, StartListen(l, ch)
         PROVE Kinds
    <2>1. /\ l \notin Sender
          /\ pc' = [pc EXCEPT ![l] = "counting"]
          /\ \A s \in Sender : received'[s] = received[s]
          /\ UNCHANGED <<rows, objects, status>>
      BY <1>19, ServiceAssumption
      DEF StartListen, Accept, dbVars, processVars, IInv, TypeOK, Call
    <2>2. \A s \in Sender : pc'[s] = pc[s]
      BY <2>1 DEF IInv, TypeOK, Call
    <2>3. QED
      BY <2>1, <2>2, PublishedKept DEF Kinds, Quiet
  <1>20. ASSUME NEW l \in Listener, Deliver(l) PROVE Kinds
    BY <1>20, OtherQuiet DEF Deliver, dbVars, processVars
  <1>21. ASSUME NEW ch \in Channel, CreateChannel(ch) PROVE Kinds
    BY <1>21, OtherQuiet DEF CreateChannel, processVars, callVars
  <1>22. ASSUME NEW c \in Call, LoseConnection(c) PROVE Kinds
    <2>1. PICK label \in {"done", "orphan"} :
            /\ pc' = [pc EXCEPT ![c] = label]
            /\ label = "orphan" => pc[c] = "inserting"
      BY <1>22 DEF LoseConnection
    <2>2. /\ pc[c] \in {"querying", "inserting", "inserted"}
          /\ status' = [status EXCEPT ![c] = Failure(c)]
          /\ UNCHANGED <<rows, objects, received>>
      BY <1>22 DEF LoseConnection, dbVars, processVars
    <2>3. Failure(c) # "OK"
      BY DEF Failure
    <2>4. QED
      BY <1>1, <1>3, <1>4, <2>1, <2>2, <2>3, ReturnEnds
  <1>23. ASSUME NEW s \in Call, OrphanCommit(s) PROVE Kinds
    <2>1. /\ pc[s] = "orphan"
          /\ pc' = [pc EXCEPT ![s] = "done"]
          /\ rows' = Append(rows, Current(s))
          /\ UNCHANGED <<objects, received, status>>
      BY <1>23 DEF OrphanCommit, processVars
    <2>2. pc'[s] = "done" /\ Others(s)
      BY <2>1 DEF Others, Same, IInv, TypeOK, Call
    <2>3. Stores(s)
      BY <2>1, <2>2, PublishedKept DEF Stores
    <2>4. QED
      BY <1>2, <2>1, <2>3 DEF Kinds
  <1>24. ASSUME Crash PROVE Kinds
    <2> DEFINE ending == {s \in Sender : Running(s)}
    <2>1. UNCHANGED <<rows, objects, received>>
      BY <1>24 DEF Crash, dbVars
    <2>2. \A s \in Sender \ ending : Same(s)
      BY <1>24, <2>1 DEF Crash, Running, Same, Call
    <2>3. \A s \in ending :
            /\ status[s] = "none"
            /\ status'[s] = "UNAVAILABLE"
            /\ \/ pc'[s] = "done"
               \/ pc'[s] = "orphan" /\ pc[s] = "inserting"
      BY <1>1, <1>24 DEF Crash, Running, Call
    <2>4. Ends(ending, "UNAVAILABLE")
      BY <2>1, <2>2, <2>3, PublishedKept DEF Ends
    <2>5. ending \in SUBSET Sender /\ "UNAVAILABLE" \in StatusCode
      BY DEF StatusCode
    <2>6. QED
      BY <2>4, <2>5 DEF Kinds
  <1>25. ASSUME Restart PROVE Kinds
    BY <1>25, OtherQuiet DEF Restart, dbVars, callVars
  <1>26. CASE UNCHANGED vars
    BY <1>26, OtherQuiet DEF vars
  <1>27. QED
    BY <1>5, <1>6, <1>7, <1>8, <1>9, <1>10, <1>11, <1>12, <1>13, <1>14,
       <1>14a, <1>15, <1>16, <1>17, <1>18, <1>19, <1>20, <1>21, <1>22, <1>23, <1>24,
       <1>25, <1>26
    DEF Next, ClientStep, CheckStep, FaultStep, SendStep

-----------------------------------------------------------------------------
(* Senders, their last message and the history *)

\* A message is in the history if it is one of the rows.
LEMMA InHistoryRange == \A m : InHistory(m) <=> m \in Range(rows)
  BY DEF InHistory, Range

\* What a sender has read and what of it is stored.
LEMMA SenderFacts ==
  ASSUME IInv, NEW s \in Sender
  PROVE  /\ received[s] \in Seq(Request)
         /\ Len(received[s]) \in Nat
         /\ DOMAIN received[s] = 1..Len(received[s])
         /\ \A n \in DOMAIN received[s] :
              received[s][n].call = s /\ received[s][n].n = n
         /\ \A n \in DOMAIN received[s] :
              n < Len(received[s]) => received[s][n] \in Range(rows)
         /\ Settled(s) => \A n \in DOMAIN received[s] :
              received[s][n] \in Range(rows)
  BY InHistoryRange
  DEF IInv, TypeOK, CallInv, CallOK, StoreInv, StoreOK, Call

\* The message in hand of a sender that has one.
LEMMA HandFacts ==
  ASSUME IInv, NEW s \in Sender, received[s] # <<>>
  PROVE  /\ Len(received[s]) \in DOMAIN received[s]
         /\ Current(s) = received[s][Len(received[s])]
         /\ Current(s).call = s
         /\ Current(s).n = Len(received[s])
         /\ Current(s) \in Request
         /\ Open(s) => Current(s) \notin Range(rows)
  BY CurrentFacts, InHandFacts, InHistoryRange
  DEF IInv, StoreInv, StoreOK, Call

\* Rows that an insert adds.
LEMMA RangeAppend ==
  ASSUME IInv, NEW m \in Request, rows' = Append(rows, m)
  PROVE  Range(rows') = Range(rows) \cup {m}
  BY InsertFacts DEF Range, IInv

-----------------------------------------------------------------------------
(* The invariant *)

LEMMA InitShowInv == Init => ShowInv
  <1> SUFFICES ASSUME Init PROVE ShowInv
    OBVIOUS
  <1>1. Published = {}
    BY EmptyFacts DEF Init, Published
  <1>2. Range(rows) = {}
    BY EmptyFacts DEF Init, Range
  <1>3. QED
    BY <1>1, <1>2 DEF Init, ShowInv, ShowOK, SourceInv, StoredWasBroadcast,
       Unshown, Call

LEMMA StepShowInv == IInv /\ ShowInv /\ Kinds => ShowInv'
  <1> SUFFICES ASSUME IInv, ShowInv, Kinds PROVE ShowInv'
    OBVIOUS
  <1> USE DEF ShowInv
  <1>1. CASE Quiet
    <2>1. \A s \in Sender : ShowOK(s)'
      BY <1>1 DEF Quiet, ShowOK, Unshown, Current
    <2>2. SourceInv'
      BY <1>1 DEF Quiet, SourceInv
    <2>3. StoredWasBroadcast'
      BY <1>1 DEF Quiet, StoredWasBroadcast
    <2>4. QED
      BY <2>1, <2>2, <2>3
  <1>2. ASSUME NEW s \in Sender, NEW m \in Request, Reads(s, m) PROVE ShowInv'
    <2>1. /\ received[s] \in Seq(Request)
          /\ Len(received[s]) \in Nat
          /\ DOMAIN received[s] = 1..Len(received[s])
      BY SenderFacts
    <2>2. /\ Len(received'[s]) = Len(received[s]) + 1
          /\ DOMAIN received'[s] = 1..(Len(received[s]) + 1)
          /\ received'[s][Len(received[s]) + 1] = m
          /\ \A n \in DOMAIN received[s] : received'[s][n] = received[s][n]
      BY <1>2, <2>1, AppendFacts DEF Reads
    <2>3. m \notin Published
      BY <1>2, <2>1 DEF Reads, SourceInv
    <2>4. ShowOK(s)'
      <3>1. Current(s)' = m
        BY <2>2 DEF Current
      <3>2. status[s] = "none"
        BY <1>2 DEF Reads, IInv, CallInv, CallOK, Call
      <3>3. QED
        BY <1>2, <2>3, <3>1, <3>2 DEF Reads, ShowOK
    <2>5. \A q \in Sender \ {s} : ShowOK(q)'
      BY <1>2 DEF Reads, Others, Same, ShowOK, Current
    <2>6. SourceInv'
      <3>1. \A q \in Sender : \A n \in DOMAIN received[q] :
              n \in DOMAIN received'[q] /\ received'[q][n] = received[q][n]
        BY <1>2, <2>1, <2>2 DEF Reads, Others, Same
      <3>2. QED
        BY <1>2, <3>1 DEF Reads, SourceInv
    <2>7. StoredWasBroadcast'
      BY <1>2 DEF Reads, StoredWasBroadcast
    <2>8. QED
      BY <2>4, <2>5, <2>6, <2>7
  <1>3. ASSUME NEW s \in Sender, Shows(s) PROVE ShowInv'
    <2>1. received[s] # <<>> /\ status[s] = "none"
      BY <1>3 DEF Shows, IInv, CallInv, CallOK, Unsettled, Call
    <2>2. /\ Current(s).call = s
          /\ Current(s).n \in DOMAIN received[s]
          /\ Current(s) = received[s][Current(s).n]
      BY <2>1, HandFacts
    <2>3. \A q \in Sender : Current(q)' = Current(q)
      BY <1>3 DEF Shows, Others, Same, Current
    <2>4. ShowOK(s)'
      BY <1>3, <2>1, <2>3 DEF Shows, ShowOK, Unshown
    <2>5. ASSUME NEW q \in Sender \ {s} PROVE ShowOK(q)'
      <3>1. received[q] # <<>> => Current(q) # Current(s)
        BY <2>2, HandFacts
      <3>2. pc[q] \in Unshown => received[q] # <<>>
        BY DEF IInv, CallInv, CallOK, Unsettled, Unshown, Call
      <3>3. QED
        BY <1>3, <2>3, <3>1, <3>2 DEF Shows, Others, Same, ShowOK
    <2>6. SourceInv'
      <3>1. \A q \in Sender : received'[q] = received[q]
        BY <1>3 DEF Shows, Others, Same
      <3>2. QED
        BY <1>3, <2>2, <3>1 DEF Shows, SourceInv
    <2>7. StoredWasBroadcast'
      BY <1>3 DEF Shows, StoredWasBroadcast
    <2>8. QED
      BY <2>4, <2>5, <2>6, <2>7
  <1>4. ASSUME NEW s \in Sender, Stores(s) PROVE ShowInv'
    <2>1. \A q \in Sender :
            received'[q] = received[q] /\ Current(q)' = Current(q)
      BY <1>4 DEF Stores, Others, Same, Current
    <2>2. \A q \in Sender : ShowOK(q)'
      BY <1>4, <2>1 DEF Stores, Others, Same, ShowOK, Unshown
    <2>3. SourceInv'
      BY <1>4, <2>1 DEF Stores, SourceInv
    <2>4. StoredWasBroadcast'
      <3>1. received[s] # <<>>
        BY <1>4 DEF Stores, IInv, CallInv, CallOK, Unsettled, Call
      <3>2. Range(rows') = Range(rows) \cup {Current(s)}
        BY <1>4, <3>1, HandFacts, RangeAppend DEF Stores
      <3>3. Current(s) \in Published
        BY <1>4 DEF Stores, ShowOK
      <3>4. QED
        BY <1>4, <3>2, <3>3 DEF Stores, StoredWasBroadcast
    <2>5. QED
      BY <2>2, <2>3, <2>4
  <1>5. ASSUME NEW ending \in SUBSET Sender, NEW o \in StatusCode,
               Ends(ending, o) PROVE ShowInv'
    <2>1. \A q \in Sender :
            received'[q] = received[q] /\ Current(q)' = Current(q)
      BY <1>5 DEF Ends, Same, Current
    <2>2. ASSUME NEW q \in ending PROVE ShowOK(q)'
      <3>1. pc[q] = "querying" => received[q] # <<>>
        BY DEF IInv, CallInv, CallOK, Unsettled, Call
      <3>2. QED
        BY <1>5, <2>1, <3>1 DEF Ends, ShowOK, Unshown
    <2>3. ASSUME NEW q \in Sender \ ending PROVE ShowOK(q)'
      BY <1>5, <2>1 DEF Ends, Same, ShowOK
    <2>4. SourceInv'
      BY <1>5, <2>1 DEF Ends, SourceInv
    <2>5. StoredWasBroadcast'
      BY <1>5 DEF Ends, StoredWasBroadcast
    <2>6. QED
      BY <2>2, <2>3, <2>4, <2>5
  <1>6. QED
    BY <1>1, <1>2, <1>3, <1>4, <1>5 DEF Kinds

LEMMA ShowInvariance == Spec => [](IInv /\ ShowInv)
  <1>1. Init => ShowInv
    BY InitShowInv
  <1>2. IInv /\ ShowInv /\ [Next]_vars => ShowInv'
    BY StepKinds, StepShowInv
  <1>3. QED
    BY <1>1, <1>2, Invariance, PTL DEF Spec

-----------------------------------------------------------------------------
(* Theorems *)

\* What is in the history was broadcast, across failures, races and restarts
\* (WrongthinkServiceImpl.cpp:216-217, 260-261).
THEOREM StoredWasShown == Spec => []StoredWasBroadcast
  <1>1. ShowInv => StoredWasBroadcast
    BY DEF ShowInv
  <1>2. QED
    BY <1>1, ShowInvariance, PTL

\* A message that was broadcast but not stored is the last one of its call,
\* whose insert is under way or whose client knows that it failed
\* (WrongthinkServiceImpl.cpp:216-217, 260-261).
THEOREM PhantomsAreBounded == Spec => []PhantomBounded
  <1>1. ASSUME IInv, ShowInv PROVE PhantomBounded
    <2> SUFFICES ASSUME NEW s \in Sender, NEW m \in Phantom(s)
                 PROVE  /\ m = Current(s)
                        /\ \/ pc[s] = "inserting"
                           \/ status[s] \in {"INTERNAL", "UNAVAILABLE"}
      BY DEF PhantomBounded
    <2>1. m \in Published /\ m.call = s /\ m \notin Range(rows)
      BY DEF Phantom
    <2>2. m.n \in DOMAIN received[s] /\ m = received[s][m.n]
      BY <1>1, <2>1 DEF ShowInv, SourceInv
    <2>3. m = Current(s) /\ ~Settled(s) /\ received[s] # <<>>
      <3>1. m.n = Len(received[s]) /\ ~Settled(s)
        BY <1>1, <2>1, <2>2, SenderFacts
      <3>2. received[s] # <<>>
        BY <2>2, EmptyFacts
      <3>3. QED
        BY <2>2, <3>1, <3>2 DEF Current
    <2>4. pc[s] \notin Unshown /\ status[s] # "INVALID_ARGUMENT"
      BY <1>1, <2>1, <2>3 DEF ShowInv, ShowOK
    <2>5. pc[s] # "idle"
      BY <1>1, <2>3 DEF IInv, CallInv, CallOK, Call
    <2>6. CASE pc[s] \in {"done", "orphan"}
      <3>1. status[s] \notin {"none", "OK", "UNKNOWN"}
        BY <1>1, <2>3, <2>6
        DEF Settled, IInv, CallInv, CallOK, ShowInv, ShowOK, Call
      <3>2. status[s] \in StatusCode
        BY <1>1 DEF IInv, TypeOK, Call
      <3>3. QED
        BY <2>3, <2>4, <3>1, <3>2 DEF StatusCode
    <2>7. CASE pc[s] \notin {"done", "orphan"}
      <3>1. pc[s] \in Label
        BY <1>1 DEF IInv, TypeOK, Call
      <3>2. QED
        BY <2>3, <2>4, <2>5, <2>7, <3>1 DEF Settled, Unshown, Label
    <2>8. QED
      BY <2>6, <2>7
  <1>2. QED
    BY <1>1, ShowInvariance, PTL

-----------------------------------------------------------------------------
(* Refinement *)

LEMMA InitLedger == Init => Ledger!Init
  <1> SUFFICES ASSUME Init PROVE Ledger!Init
    OBVIOUS
  <1>1. Published = {}
    BY EmptyFacts DEF Init, Published
  <1>2. \A s \in Sender : received[s] = <<>> /\ status[s] = "none"
    BY DEF Init, Call
  <1>3. QED
    BY <1>1, <1>2 DEF Init, Ledger!Init

\* The ledger's words for a sender's last message.
LEMMA PendingFacts ==
  ASSUME IInv, NEW s \in Sender
  PROVE  /\ Ledger!Newest(s) = Current(s)
         /\ Ledger!Pending(s) <=>
              received[s] # <<>> /\ Current(s) \notin Range(rows)
         /\ Open(s) /\ received[s] # <<>> => Ledger!Pending(s)
         /\ Settled(s) => ~Ledger!Pending(s)
  <1>1. Ledger!Newest(s) = Current(s)
    BY DEF Ledger!Newest, Current
  <1>2. Ledger!Pending(s) <=>
          received[s] # <<>> /\ Current(s) \notin Range(rows)
    BY <1>1 DEF Ledger!Pending, Ledger!Range, Range
  <1>3. QED
    BY <1>1, <1>2, HandFacts, SenderFacts

\* Each kind of step is a step of the ledger or leaves it alone.
LEMMA StepLedger ==
  ASSUME IInv, ShowInv, Kinds
  PROVE  Ledger!Next \/ UNCHANGED Ledger!vars
  <1> DEFINE sent == [s \in Sender |-> received[s]]
             outcome == [s \in Sender |-> status[s]]
  <1>1. CASE Quiet
    <2>1. sent' = sent /\ outcome' = outcome
      BY <1>1 DEF Quiet
    <2>2. QED
      BY <1>1, <2>1 DEF Quiet, Ledger!vars
  <1>2. ASSUME NEW s \in Sender, NEW m \in Request, Reads(s, m)
        PROVE  Ledger!Next
    <2>1. status[s] = "none"
      BY <1>2 DEF Reads, IInv, CallInv, CallOK, Call
    <2>2. ~Ledger!Pending(s)
      <3>1. CASE pc[s] = "idle"
        BY <3>1, PendingFacts DEF IInv, CallInv, CallOK, Call
      <3>2. CASE pc[s] = "reading"
        BY <3>2, PendingFacts DEF Settled
      <3>3. QED
        BY <1>2, <3>1, <3>2 DEF Reads
    <2>3. m \notin Range(received[s])
      BY <1>2, SenderFacts DEF Reads, Range
    <2>4. /\ sent' = [sent EXCEPT ![s] = Append(sent[s], m)]
          /\ outcome' = outcome
      BY <1>2 DEF Reads, Others, Same
    <2>5. Ledger!Submit(s, m)
      BY <1>2, <2>1, <2>2, <2>3, <2>4 
      DEF Reads, Ledger!Submit, Ledger!Range, Range
    <2>6. QED
      BY <2>5 DEF Ledger!Next
  <1>3. ASSUME NEW s \in Sender, Shows(s) PROVE Ledger!Next
    <2>1. status[s] = "none" /\ received[s] # <<>>
      BY <1>3 DEF Shows, IInv, CallInv, CallOK, Unsettled, Call
    <2>2. Ledger!Pending(s) /\ Ledger!Newest(s) = Current(s)
      BY <1>3, <2>1, PendingFacts DEF Shows, Open, Unsettled
    <2>3. Current(s) \notin Published
      BY <1>3 DEF Shows, ShowInv, ShowOK, Unshown
    <2>4. sent' = sent /\ outcome' = outcome
      BY <1>3 DEF Shows, Others, Same
    <2>5. Ledger!Show(s)
      BY <1>3, <2>1, <2>2, <2>3, <2>4 DEF Shows, Ledger!Show
    <2>6. QED
      BY <2>5 DEF Ledger!Next
  <1>4. ASSUME NEW s \in Sender, Stores(s) PROVE Ledger!Next
    <2>1. received[s] # <<>>
      BY <1>4 DEF Stores, IInv, CallInv, CallOK, Unsettled, Call
    <2>2. Ledger!Pending(s) /\ Ledger!Newest(s) = Current(s)
      BY <1>4, <2>1, PendingFacts DEF Stores, Open, Unsettled
    <2>3. Current(s) \in Published
      BY <1>4 DEF Stores, ShowInv, ShowOK
    <2>4. sent' = sent /\ outcome' = outcome
      BY <1>4 DEF Stores, Others, Same
    <2>5. Ledger!Store(s)
      BY <1>4, <2>2, <2>3, <2>4 DEF Stores, Ledger!Store
    <2>6. QED
      BY <2>5 DEF Ledger!Next
  <1>5. ASSUME NEW ending \in SUBSET Sender, NEW o \in StatusCode,
               Ends(ending, o)
        PROVE  Ledger!Next \/ UNCHANGED Ledger!vars
    <2>1. ending \in SUBSET {s \in Sender : outcome[s] = "none"}
      BY <1>5 DEF Ends
    <2>2. ASSUME NEW s \in ending PROVE Ledger!MayEnd(s, o)
      <3>1. CASE o = "OK"
        <4>1. Settled(s)
          BY <1>5, <3>1 DEF Ends, Settled
        <4>2. QED
          BY <3>1, <4>1, PendingFacts DEF Ledger!MayEnd
      <3>2. CASE o = "INVALID_ARGUMENT"
        <4>1. pc[s] = "querying"
          BY <1>5, <3>2 DEF Ends
        <4>2. received[s] # <<>> /\ Current(s) \notin Published
          BY <4>1 DEF IInv, CallInv, CallOK, Unsettled, ShowInv, ShowOK,
             Unshown, Call
        <4>3. Ledger!Pending(s) /\ Ledger!Newest(s) = Current(s)
          BY <4>1, <4>2, PendingFacts DEF Open, Unsettled
        <4>4. QED
          BY <3>2, <4>2, <4>3 DEF Ledger!MayEnd
      <3>3. CASE o \in {"INTERNAL", "UNAVAILABLE"}
        BY <3>3 DEF Ledger!MayEnd
      <3>4. QED
        BY <1>5, <3>1, <3>2, <3>3 DEF Ends
    <2>3. /\ sent' = sent
          /\ outcome' = [s \in Sender |-> IF s \in ending THEN o ELSE outcome[s]]
      BY <1>5 DEF Ends, Same
    <2>4. CASE ending = {}
      <3>1. outcome' = outcome
        BY <2>3, <2>4
      <3>2. QED
        BY <1>5, <2>3, <3>1 DEF Ends, Ledger!vars
    <2>5. CASE ending # {}
      <3>1. o \in {"OK", "INVALID_ARGUMENT", "INTERNAL", "UNAVAILABLE"}
        BY <1>5, <2>5 DEF Ends
      <3>2. Ledger!End
        BY <1>5, <2>1, <2>2, <2>3, <3>1 DEF Ends, Ledger!End
      <3>3. QED
        BY <3>2 DEF Ledger!Next
    <2>6. QED
      BY <2>4, <2>5
  <1>6. QED
    BY <1>1, <1>2, <1>3, <1>4, <1>5 DEF Kinds

\* The message RPCs implement the ledger, for any number of calls, with races
\* in the map of channels, lost connections and restarts
\* (WrongthinkServiceImpl.cpp:205-268).
THEOREM ImplementsLedger == Spec => LedgerSpec
  <1>1. IInv /\ ShowInv /\ [Next]_vars => [Ledger!Next]_(Ledger!vars)
    BY StepKinds, StepLedger
  <1>2. QED
    BY <1>1, InitLedger, ShowInvariance, PTL DEF Spec, LedgerSpec, Ledger!Spec

=============================================================================
