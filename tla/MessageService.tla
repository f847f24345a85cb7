--------------------------- MODULE MessageService ---------------------------
(***************************************************************************)
(* The message RPCs of WrongthinkServiceImpl as threads of one server      *)
(* process: SendWrongthinkMessage (a client stream), its one-message       *)
(* variant SendWrongthinkMessageWeb, and ListenWrongthinkMessages, over    *)
(* checkForChannel, channelMap and the database.                           *)
(*                                                                         *)
(* A call is a handler activation: it runs once.  A SynchronizedChannel is *)
(* used through what ChannelBroadcast promises of it: `objects` holds the  *)
(* log of every one ever built, those of a dead process included, and      *)
(* channelMap names the ones a lookup can find.                            *)
(*                                                                         *)
(* channelMap is a std::map that the handlers use without channelMapMutex. *)
(* The insertion of a node is a window ("linking", "growing"); an access   *)
(* of another thread inside it is a data race.  From then on `raced` is    *)
(* TRUE, a lookup may miss what is there and an insertion may hide an      *)
(* older entry or be lost, until the process ends.                         *)
(***************************************************************************)
EXTENDS Naturals, Sequences, Functions

CONSTANTS
  Stream,       \* calls of SendWrongthinkMessage
  Web,          \* calls of SendWrongthinkMessageWeb
  Listener,     \* calls of ListenWrongthinkMessages
  Channel,      \* channel ids a client may name
  User,         \* user ids a client may name
  KnownUser,    \* those with a row in users
  NoUser,       \* the user field of a listen request
  MaxPerCall,   \* bound: messages read in one stream
  MaxCrashes    \* bound: times the server process dies

Sender == Stream \cup Web
Call == Sender \cup Listener

ASSUME ServiceAssumption ==
  /\ Stream \cap Web = {}
  /\ Sender \cap Listener = {}
  /\ KnownUser \subseteq User
  /\ NoUser \notin User
  /\ MaxPerCall \in Nat \ {0}
  /\ MaxCrashes \in Nat

VARIABLES
  channels,    \* database: the ids in table channels
  rows,        \* database: table message, in the order of insertion
  up,          \* is a server process running?
  crashes,     \* how often it died
  channelMap,  \* process: channel id -> position in `objects`
  raced,       \* process: two threads were in channelMap at once
  objects,     \* the log of each SynchronizedChannel, in construction order
  pc,          \* per call: where its handler is
  status,      \* per call: the status it ended with, or "none"
  received,    \* per call: what it read from its client, oldest first
  object,      \* per call: the object channelMap[...] gave it, 0 if none
  cursor,      \* per listener: position of the message it wrote last
  known        \* history, per call: `channels` when it read its request

dbVars == <<channels, rows>>
processVars == <<up, crashes, channelMap, raced, objects>>
callVars == <<pc, status, received, object, cursor, known>>
vars == <<channels, rows, up, crashes, channelMap, raced, objects,
          pc, status, received, object, cursor, known>>

\* What the handler of c works on: a message, or the listen request.
Current(c) == received[c][Len(received[c])]
Target(c) == Current(c).channel

Init ==
  /\ channels = {}
  /\ rows = <<>>
  /\ up = TRUE
  /\ crashes = 0
  /\ channelMap = [ch \in {} |-> 0]
  /\ raced = FALSE
  /\ objects = <<>>
  /\ pc = [c \in Call |-> "idle"]
  /\ status = [c \in Call |-> "none"]
  /\ received = [c \in Call |-> <<>>]
  /\ object = [c \in Call |-> 0]
  /\ cursor = [l \in Listener |-> 0]
  /\ known = [c \in Call |-> {}]

-----------------------------------------------------------------------------
(* Steps shared by the handlers *)

Goto(c, label) == pc' = [pc EXCEPT ![c] = label]

\* The handler returns st to its client.
Return(c, st) ==
  /\ Goto(c, "done")
  /\ status' = [status EXCEPT ![c] = st]

\* A request naming channel ch and user u is in the handler's hands.
Accept(c, ch, u) ==
  /\ received' = [received EXCEPT ![c] =
       Append(@, [call |-> c, n |-> Len(@) + 1, channel |-> ch, user |-> u])]
  /\ known' = [known EXCEPT ![c] = channels]
  /\ Goto(c, "counting")

\* An exception: the send handlers catch it, ListenWrongthinkMessagesImpl
\* does not and leaves it to gRPC.
Failure(c) == IF c \in Listener THEN "UNKNOWN" ELSE "INTERNAL"

\* The soci::session every handler opens first cannot be had.
SessionFails(c) ==
  /\ up
  /\ pc[c] = "idle"
  /\ Return(c, Failure(c))
  /\ UNCHANGED <<dbVars, processVars, received, object, cursor, known>>

-----------------------------------------------------------------------------
(* channelMap *)

Writing(c) == pc[c] \in {"linking", "growing"}

\* Another thread is inside an insertion while c uses the map.
Overlap(c) == \E d \in Call \ {c} : Writing(d)

\* What a search for ch by c may answer.
Search(c, ch) ==
  {ch \in DOMAIN channelMap} \cup
    (IF raced \/ Overlap(c) THEN {FALSE} ELSE {})

\* c searches the map for its channel and goes on by the answer.
SearchStep(c, hit, miss) ==
  /\ raced' = (raced \/ Overlap(c))
  /\ \E found \in Search(c, Target(c)) : Goto(c, IF found THEN hit ELSE miss)

\* Slip: a channel the map lacks is refused without asking the database.
CountMapOnly(c) ==
  /\ pc[c] = "counting"
  /\ raced' = (raced \/ Overlap(c))
  /\ IF Target(c) \in DOMAIN channelMap
       THEN Goto(c, "lookup") /\ UNCHANGED status
       ELSE Return(c, "INVALID_ARGUMENT")
  /\ UNCHANGED <<dbVars, up, crashes, channelMap, objects,
                 received, object, cursor, known>>

\* checkForChannel: channelMap.count(channelid) != 1
Count(c) ==
  /\ pc[c] = "counting"
  /\ SearchStep(c, "lookup", "querying")
  /\ UNCHANGED <<dbVars, up, crashes, channelMap, objects,
                 status, received, object, cursor, known>>

\* Slip: a missing channel is looked up again instead of refused.
QueryRetry(c) ==
  /\ pc[c] = "querying"
  /\ Goto(c, IF Target(c) \in channels THEN "emplacing" ELSE "counting")
  /\ UNCHANGED <<dbVars, processVars, status, received, object, cursor, known>>

\* checkForChannel: getChannelRow, and the test of its indicator.  If there is
\* no row, nothing says what the indicator is, and the channel may pass.
Query(c) ==
  /\ pc[c] = "querying"
  /\ \/ Goto(c, "emplacing") /\ UNCHANGED status
     \/ Target(c) \notin channels /\ Return(c, "INVALID_ARGUMENT")
  /\ UNCHANGED <<dbVars, processVars, received, object, cursor, known>>

\* Slip: the entry is assigned, not emplaced, and replaces an older object.
EmplaceAssign(c) ==
  /\ pc[c] = "emplacing"
  /\ Goto(c, "linking")
  /\ UNCHANGED <<dbVars, processVars, status, received, object, cursor, known>>

\* checkForChannel: channelMap.emplace looks for the key first.
Emplace(c) ==
  /\ pc[c] = "emplacing"
  /\ SearchStep(c, "lookup", "linking")
  /\ UNCHANGED <<dbVars, up, crashes, channelMap, objects,
                 status, received, object, cursor, known>>

\* Slip: a stream keeps the object of its first message.
LookupOnce(c) ==
  /\ pc[c] = "lookup"
  /\ Target(c) \in DOMAIN channelMap
  /\ object' = [object EXCEPT ![c] = IF @ = 0 THEN channelMap[Target(c)] ELSE @]
  /\ Goto(c, "bound")
  /\ UNCHANGED <<dbVars, processVars, status, received, cursor, known>>

\* The handlers' own channelMap[channelid], which inserts on a miss.
Lookup(c) ==
  /\ pc[c] = "lookup"
  /\ raced' = (raced \/ Overlap(c))
  /\ \E found \in Search(c, Target(c)) :
       IF found
         THEN /\ object' = [object EXCEPT ![c] = channelMap[Target(c)]]
              /\ Goto(c, "bound")
         ELSE /\ Goto(c, "growing")
              /\ UNCHANGED object
  /\ UNCHANGED <<dbVars, up, crashes, channelMap, objects,
                 status, received, cursor, known>>

\* Slip: the entry is visible before its object exists.
LinkEmpty(c) ==
  /\ Writing(c)
  /\ channelMap' = [ch \in DOMAIN channelMap \cup {Target(c)} |->
                      Len(objects) + 1]
  /\ Goto(c, IF pc[c] = "linking" THEN "lookup" ELSE "bound")
  /\ UNCHANGED <<dbVars, up, crashes, raced, objects,
                 status, received, object, cursor, known>>

\* The new node, with a new SynchronizedChannel in it, is linked into the
\* tree.  emplace drops the reference, operator[] returns it.
Link(c) ==
  LET new == Len(objects) + 1 IN
  /\ Writing(c)
  /\ objects' = Append(objects, <<>>)
  /\ \/ channelMap' = [ch \in DOMAIN channelMap \cup {Target(c)} |->
                         IF ch = Target(c) THEN new ELSE channelMap[ch]]
     \/ raced /\ UNCHANGED channelMap
  /\ IF pc[c] = "linking"
       THEN Goto(c, "lookup") /\ UNCHANGED object
       ELSE Goto(c, "bound") /\ object' = [object EXCEPT ![c] = new]
  /\ UNCHANGED <<dbVars, up, crashes, raced, status, received, cursor, known>>

-----------------------------------------------------------------------------
(* SendWrongthinkMessageImpl and SendWrongthinkMessageWeb *)

\* Session open, insert statement prepared.
StartStream(s) ==
  /\ up
  /\ s \in Stream
  /\ pc[s] = "idle"
  /\ Goto(s, "reading")
  /\ UNCHANGED <<dbVars, processVars, status, received, object, cursor, known>>

\* reader->Read(&msg) returned TRUE.
ReadMessage(s, ch, u) ==
  /\ pc[s] = "reading"
  /\ Len(received[s]) < MaxPerCall
  /\ Accept(s, ch, u)
  /\ UNCHANGED <<dbVars, processVars, status, object, cursor>>

\* reader->Read(&msg) runs the interceptor, whose question to the database
\* throws into the handler.
ReadFails(s) ==
  /\ s \in Stream
  /\ pc[s] = "reading"
  /\ Return(s, "INTERNAL")
  /\ UNCHANGED <<dbVars, processVars, received, object, cursor, known>>

\* reader->Read(&msg) returned FALSE: the client is done, or gone.
EndOfStream(s) ==
  /\ pc[s] = "reading"
  /\ Return(s, "OK")
  /\ UNCHANGED <<dbVars, processVars, received, object, cursor, known>>

StartWeb(s, ch, u) ==
  /\ up
  /\ s \in Web
  /\ pc[s] = "idle"
  /\ Accept(s, ch, u)
  /\ UNCHANGED <<dbVars, processVars, status, object, cursor>>

\* Slip: a message is not appended to an object nobody has used before.
PublishSkips(s) ==
  /\ s \in Sender
  /\ pc[s] = "bound"
  /\ objects' = [objects EXCEPT ![object[s]] =
                   IF @ = <<>> THEN @ ELSE Append(@, Current(s))]
  /\ Goto(s, "inserting")
  /\ UNCHANGED <<dbVars, up, crashes, channelMap, raced,
                 status, received, object, cursor, known>>

\* appendMessage: the message is broadcast before it is stored.
Publish(s) ==
  /\ s \in Sender
  /\ pc[s] = "bound"
  /\ objects' = [objects EXCEPT ![object[s]] = Append(@, Current(s))]
  /\ Goto(s, "inserting")
  /\ UNCHANGED <<dbVars, up, crashes, channelMap, raced,
                 status, received, object, cursor, known>>

\* The foreign keys of table message.
Storable(m) == m.user \in KnownUser /\ m.channel \in channels

\* insert into message: the database commits the row.
StoreRow(s) ==
  /\ pc[s] = "inserting"
  /\ Storable(Current(s))
  /\ rows' = Append(rows, Current(s))
  /\ Goto(s, "inserted")
  /\ UNCHANGED <<channels, processVars, status, received, object, cursor, known>>

\* Slip: the error is logged and the stream goes on.
RejectIgnored(s) ==
  /\ pc[s] = "inserting"
  /\ ~Storable(Current(s))
  /\ Goto(s, "reading")
  /\ UNCHANGED <<dbVars, processVars, status, received, object, cursor, known>>

\* insert into message: a foreign key is violated.
RejectRow(s) ==
  /\ pc[s] = "inserting"
  /\ ~Storable(Current(s))
  /\ Return(s, "INTERNAL")
  /\ UNCHANGED <<dbVars, processVars, received, object, cursor, known>>

\* The database has answered: the one-message call is over, the stream
\* reads its next message.
Answered(s) ==
  /\ pc[s] = "inserted"
  /\ IF s \in Web
       THEN Return(s, "OK")
       ELSE Goto(s, "reading") /\ UNCHANGED status
  /\ UNCHANGED <<dbVars, processVars, received, object, cursor, known>>

-----------------------------------------------------------------------------
(* ListenWrongthinkMessagesImpl *)

StartListen(l, ch) ==
  /\ up
  /\ l \in Listener
  /\ pc[l] = "idle"
  /\ Accept(l, ch, NoUser)
  /\ UNCHANGED <<dbVars, processVars, status, object, cursor>>

\* waitMessage returns the newest message, which goes to the client; the
\* loop never ends.
Deliver(l) ==
  /\ l \in Listener
  /\ pc[l] = "bound"
  /\ objects[object[l]] # <<>>
  /\ cursor' = [cursor EXCEPT ![l] = Len(objects[object[l]])]
  /\ UNCHANGED <<dbVars, processVars, pc, status, received, object, known>>

-----------------------------------------------------------------------------
(* The rest of the world *)

\* CreateWrongthinkChannel, seen from here: a row in table channels.
CreateChannel(ch) ==
  /\ up
  /\ ch \notin channels
  /\ channels' = channels \cup {ch}
  /\ UNCHANGED <<rows, processVars, callVars>>

\* Slip: the exception is swallowed and OK returned.
LoseSilently(c) ==
  /\ pc[c] \in {"querying", "inserting", "inserted"}
  /\ Goto(c, IF pc[c] = "inserting" THEN "orphan" ELSE "done")
  /\ status' = [status EXCEPT ![c] = "OK"]
  /\ UNCHANGED <<dbVars, processVars, received, object, cursor, known>>

\* Slip: a stream whose insert failed reads on.
LoseAndReadOn(c) ==
  /\ pc[c] \in {"inserting", "inserted"}
  /\ Goto(c, "reading")
  /\ UNCHANGED <<dbVars, processVars, status, received, object, cursor, known>>

\* The connection to the database breaks under a statement.  Whether an
\* insert under way takes effect is then up to the database.
LoseConnection(c) ==
  /\ pc[c] \in {"querying", "inserting", "inserted"}
  /\ Goto(c, IF pc[c] = "inserting" THEN "orphan" ELSE "done")
  /\ status' = [status EXCEPT ![c] = Failure(c)]
  /\ UNCHANGED <<dbVars, processVars, received, object, cursor, known>>

\* An insert whose handler is gone commits after all.
OrphanCommit(s) ==
  /\ pc[s] = "orphan"
  /\ Storable(Current(s))
  /\ rows' = Append(rows, Current(s))
  /\ Goto(s, "done")
  /\ UNCHANGED <<channels, processVars, status, received, object, cursor, known>>

Running(c) == pc[c] \notin {"idle", "done", "orphan"}

\* The process dies (SIGINT, a fault): its memory is gone and every client
\* with a call under way sees the connection break.
Crash ==
  /\ up
  /\ crashes < MaxCrashes
  /\ up' = FALSE
  /\ crashes' = crashes + 1
  /\ channelMap' = [ch \in {} |-> 0]
  /\ raced' = FALSE
  /\ status' = [c \in Call |-> IF Running(c) THEN "UNAVAILABLE" ELSE status[c]]
  /\ pc' = [c \in Call |-> IF pc[c] = "inserting" THEN "orphan"
                           ELSE IF Running(c) THEN "done" ELSE pc[c]]
  /\ UNCHANGED <<dbVars, objects, received, object, cursor, known>>

\* Slip: the messages are dropped whatever the argument is.
RestartCleared ==
  /\ ~up
  /\ up' = TRUE
  /\ rows' = <<>>
  /\ UNCHANGED <<channels, crashes, channelMap, raced, objects, callVars>>

\* main without "clear": validate() creates no table that is there.
Restart ==
  /\ ~up
  /\ up' = TRUE
  /\ UNCHANGED <<dbVars, crashes, channelMap, raced, objects, callVars>>

-----------------------------------------------------------------------------
CheckStep(c) == Count(c) \/ Query(c) \/ Emplace(c) \/ Link(c) \/ Lookup(c)

SendStep(s) == Publish(s) \/ StoreRow(s) \/ RejectRow(s) \/ Answered(s)

ClientStep(c) ==
  \/ StartStream(c)
  \/ \E ch \in Channel, u \in User : ReadMessage(c, ch, u) \/ StartWeb(c, ch, u)
  \/ EndOfStream(c)
  \/ \E ch \in Channel : StartListen(c, ch)

FaultStep(c) ==
  SessionFails(c) \/ ReadFails(c) \/ LoseConnection(c) \/ OrphanCommit(c)

Next ==
  \/ \E c \in Call : ClientStep(c) \/ CheckStep(c) \/ FaultStep(c)
  \/ \E s \in Sender : SendStep(s)
  \/ \E l \in Listener : Deliver(l)
  \/ \E ch \in Channel : CreateChannel(ch)
  \/ Crash
  \/ Restart

Spec == Init /\ [][Next]_vars

\* Threads are scheduled, a search of the map comes to an end, and the database
\* answers or its connection breaks.
\* Nothing obliges a client to call, to send or to end its stream, nothing
\* creates a channel, and a dead server need not come back.
Fairness ==
  \A c \in Call : WF_vars(CheckStep(c) \/ SendStep(c) \/ LoseConnection(c))

FairSpec == Spec /\ Fairness

-----------------------------------------------------------------------------
(* Properties *)

Label == {"idle", "reading", "counting", "querying", "emplacing", "linking",
          "lookup", "growing", "bound", "inserting", "inserted", "done",
          "orphan"}

StatusCode ==
  {"none", "OK", "INVALID_ARGUMENT", "INTERNAL", "UNKNOWN", "UNAVAILABLE"}

Request ==
  [call : Call, n : 1..MaxPerCall, channel : Channel, user : User \cup {NoUser}]

\* Every variable stays in its set; no call reads more than its bound
\* (WrongthinkServiceImpl.h:163-165, WrongthinkServiceImpl.cpp:205-292).
TypeOK ==
  /\ channels \subseteq Channel
  /\ rows \in Seq(Request)
  /\ up \in BOOLEAN
  /\ crashes \in 0..MaxCrashes
  /\ DOMAIN channelMap \subseteq Channel
  /\ channelMap \in [DOMAIN channelMap -> 1..Len(objects)]
  /\ raced \in BOOLEAN
  /\ objects \in Seq(Seq(Request))
  /\ pc \in [Call -> Label]
  /\ status \in [Call -> StatusCode]
  /\ received \in [Call -> Seq(Request)]
  /\ \A c \in Call : Len(received[c]) <= MaxPerCall
  /\ object \in [Call -> 0..Len(objects)]
  /\ cursor \in [Listener -> Nat]
  /\ known \in [Call -> SUBSET Channel]

InHistory(m) == \E i \in DOMAIN rows : rows[i] = m

\* A client that received OK has every message it sent in the database, and
\* neither a failing neighbour nor a crash takes one back
\* (WrongthinkServiceImpl.cpp:216-226 and 252-268).
AckedStored ==
  \A s \in Sender : status[s] = "OK" =>
    \A n \in DOMAIN received[s] : InHistory(received[s][n])

\* However a stream ends, what is stored of it is a prefix of what was sent,
\* in the order sent and each message once (WrongthinkServiceImpl.cpp:252-262).
StreamPrefix ==
  \A i \in DOMAIN rows :
    /\ \A j \in 1..(i - 1) :
         rows[j].call = rows[i].call => rows[j].n < rows[i].n
    /\ \A n \in 1..rows[i].n : \E j \in 1..i :
         rows[j] = received[rows[i].call][n]

Published == UNION {Range(objects[o]) : o \in DOMAIN objects}

\* Messages of s that listeners could see and the database does not have.
Phantom(s) == {m \in Published : m.call = s /\ m \notin Range(rows)}

\* Broadcasting before storing leaves at most the last message of a call
\* broadcast but not stored, and then the insert is under way or the client
\* knows that its call failed (WrongthinkServiceImpl.cpp:216-217, 260-261).
PhantomBounded ==
  \A s \in Sender :
    /\ \A m \in Phantom(s) : m = Current(s)
    /\ Phantom(s) # {} =>
         pc[s] = "inserting" \/ status[s] \in {"INTERNAL", "UNAVAILABLE"}

\* What is in the history was broadcast (same lines).
StoredWasBroadcast == Range(rows) \subseteq Published

\* Unless two threads were in the map at once, every handler that uses a
\* channel uses the object of that channel, also when several of them found
\* it missing and built one (WrongthinkServiceImpl.cpp:359-367).
OneObject ==
  ~raced =>
    \A c \in Call : pc[c] = "bound" =>
      /\ Target(c) \in DOMAIN channelMap
      /\ object[c] = channelMap[Target(c)]

\* A listener is shown messages of the channel it asked for only, even after
\* a race in the map (WrongthinkServiceImpl.cpp:216, 260, 287).
NoCrossTalk ==
  \A l \in Listener : cursor[l] # 0 =>
    objects[object[l]][cursor[l]].channel = Target(l)

\* A channel that existed when the request arrived is never refused, also
\* by a process that restarted and lost its map (WrongthinkServiceImpl.cpp:358-371).
KnownChannelAccepted ==
  \A c \in Call :
    status[c] = "INVALID_ARGUMENT" => Target(c) \notin known[c]

\* Where a handler waits neither for its client nor for another one's message.
Busy(c) ==
  \/ pc[c] \in {"counting", "querying", "emplacing", "linking", "lookup",
                "growing", "inserting", "inserted"}
  \/ c \in Sender /\ pc[c] = "bound"

\* A request that was read is settled, whichever step fails: a sender has
\* broadcast and stored it and waits for its client, a listener is in its
\* loop, or the call has ended.  Taken for granted is that a search of the map
\* comes to an end, also after a race (WrongthinkServiceImpl.cpp:205-292).
RequestSettled == \A c \in Call : Busy(c) ~> ~Busy(c)

-----------------------------------------------------------------------------
(* Refinement *)

Ledger == INSTANCE MessageLedger WITH
  Message <- Request,
  sent <- [s \in Sender |-> received[s]],
  shown <- Published,
  stored <- rows,
  outcome <- [s \in Sender |-> status[s]]

\* The message RPCs implement the ledger: what listeners could see, what is
\* stored and what clients are told agree at every step, in this order, and
\* across races, failures and restarts (WrongthinkServiceImpl.cpp:205-268).
LedgerSpec == Ledger!Spec

=============================================================================
