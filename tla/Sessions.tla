------------------------------ MODULE Sessions ------------------------------
(***************************************************************************)
(* The database connections of the server.  A soci::session is a           *)
(* connection of its own from its construction to the end of its scope;    *)
(* the database grants MaxConnections at a time and refuses the next at    *)
(* once.  What a call does is reduced to the order in which it opens, uses *)
(* and closes sessions, and to the places where it ends before that:       *)
(*   "check"   the interceptor opens one, before the handler runs          *)
(*   "vet"     the interceptor's statements in the session opened last     *)
(*   "open"    the handler opens one, or the interceptor does while the    *)
(*             handler reads from its client                               *)
(*   "query"   the statements of these in the session opened last          *)
(*   "channel" checkForChannel, with the handler's session                 *)
(*   "close"   the session opened last goes out of scope                   *)
(*   "read"    a stream waits for its client                               *)
(*   "listen"  a listener waits for messages, whether its client is still  *)
(*             there or not                                                *)
(***************************************************************************)
EXTENDS Naturals, Sequences, FiniteSets

CONSTANTS
  Listener,       \* calls of ListenWrongthinkMessages
  Stream,         \* calls of SendWrongthinkMessage
  Web,            \* calls of SendWrongthinkMessageWeb
  Banning,        \* calls of BanUser
  Other,          \* calls of the RPCs whose handlers open one session
  MaxConnections  \* what the database grants (max_connections)

Call == Listener \cup Stream \cup Web \cup Banning \cup Other

ASSUME SessionsAssumption ==
  /\ IsFiniteSet(Call)
  /\ Listener \cap (Stream \cup Web \cup Banning \cup Other) = {}
  /\ Stream \cap (Web \cup Banning \cup Other) = {}
  /\ Web \cap (Banning \cup Other) = {}
  /\ Banning \cap Other = {}
  /\ MaxConnections \in Nat \ {0}

VARIABLES
  up,           \* is a server process running?
  connections,  \* database: the connections that are open
  lingering,    \* database: those of them whose process is gone
  plan,         \* per call: what it has still to do
  held,         \* per call: how many sessions it has
  status        \* per call: the status it ended with, or "none"

vars == <<up, connections, lingering, plan, held, status>>

Init ==
  /\ up = TRUE
  /\ connections = 0
  /\ lingering = 0
  /\ plan = [c \in Call |-> <<>>]
  /\ held = [c \in Call |-> 0]
  /\ status = [c \in Call |-> "none"]

-----------------------------------------------------------------------------
(* What calls do *)

\* isUserBanned: not asked, as the request has no field uname; no ban is
\* found; one is found and isIPBanned runs inside, before an insert.
UserCheck(open, query) ==
  {<<>>,
   <<open, query, "close">>,
   <<open, query, open, query, "close", query, "close">>}

Session == <<"open", "query", "close">>

\* Slip: the listener's session is closed when the channel was checked.
HandlingBriefly(c) ==
  CASE c \in Listener -> <<"open", "channel", "close", "listen">>
    [] c \in Stream -> <<"open", "query", "read", "close">>
    [] c \in Web -> <<"open", "channel", "query", "close">>
    [] c \in Banning -> Session \o Session \o Session
    [] c \in Other -> Session

\* The sessions of a handler that gets to its end.
Handling(c) ==
  CASE c \in Listener -> <<"open", "channel", "listen">>
    [] c \in Stream -> <<"open", "query", "read", "close">>
    [] c \in Web -> <<"open", "channel", "query", "close">>
    [] c \in Banning -> Session \o Session \o Session
    [] c \in Other -> Session

\* isIPBanned, then the message is there, if the client sends just one.
Plans(c) ==
  {<<"check", "vet", "close">> \o check \o Handling(c) :
     check \in IF c \in Stream THEN {<<>>} ELSE UserCheck("check", "vet")}

Running(c) == plan[c] # <<>>
At(c, ops) == Running(c) /\ Head(plan[c]) \in ops

Advance(c) ==
  /\ plan' = [plan EXCEPT ![c] = Tail(@)]
  /\ status' = [status EXCEPT ![c] = IF Len(plan[c]) = 1 THEN "OK" ELSE @]

Arrive(c) ==
  /\ up
  /\ ~Running(c)
  /\ status[c] = "none"
  /\ \E p \in Plans(c) : plan' = [plan EXCEPT ![c] = p]
  /\ UNCHANGED <<up, connections, lingering, held, status>>

\* getSociSession
Open(c) ==
  /\ At(c, {"check", "open"})
  /\ connections < MaxConnections
  /\ connections' = connections + 1
  /\ held' = [held EXCEPT ![c] = @ + 1]
  /\ Advance(c)
  /\ UNCHANGED <<up, lingering>>

\* ~session
Close(c) ==
  /\ At(c, {"close"})
  /\ connections' = connections - 1
  /\ held' = [held EXCEPT ![c] = @ - 1]
  /\ Advance(c)
  /\ UNCHANGED <<up, lingering>>

\* Slip: sessions come from a pool that makes the next one wait.
OpenWaits(c) ==
  /\ At(c, {"open"})
  /\ connections = MaxConnections
  /\ UNCHANGED vars

\* The statements of a session's scope get to their end.
Query(c) ==
  /\ At(c, {"vet", "query", "channel"})
  /\ Advance(c)
  /\ UNCHANGED <<up, connections, lingering, held>>

\* Slip: sessions are closed at the end of the handler, which is not reached.
LeaveOpen(c, st) ==
  /\ held' = [held EXCEPT ![c] = 0]
  /\ plan' = [plan EXCEPT ![c] = <<>>]
  /\ status' = [status EXCEPT ![c] = st]
  /\ UNCHANGED <<up, connections, lingering>>

\* The handler returns or throws before its end: the scopes it is in are
\* left, and their sessions destroyed.
Leave(c, st) ==
  /\ connections' = connections - held[c]
  /\ held' = [held EXCEPT ![c] = 0]
  /\ plan' = [plan EXCEPT ![c] = <<>>]
  /\ status' = [status EXCEPT ![c] = st]
  /\ UNCHANGED <<up, lingering>>

\* An exception.  Nothing in ListenWrongthinkMessagesImpl catches it, so that
\* gRPC does.
Failure(c) == IF c \in Listener THEN "UNKNOWN" ELSE "INTERNAL"

\* The constructor of a session throws.
OpenFails(c) ==
  /\ At(c, {"open"})
  /\ connections = MaxConnections
  /\ Leave(c, Failure(c))

\* A statement throws: the database refuses it or the connection is lost.
QueryFails(c) ==
  /\ At(c, {"query", "channel"})
  /\ Leave(c, Failure(c))

\* The handler returns early: there is no such channel; BanUser was called
\* without credentials, with wrong ones, or not by an administrator, which is
\* known before its first, its second and its third session.
TurnAway(c) ==
  \/ At(c, {"channel"}) /\ Leave(c, "INVALID_ARGUMENT")
  \/ c \in Banning /\ At(c, {"open"}) /\ Leave(c, "UNAUTHENTICATED")

\* The sessions of all calls, each known by its call and its depth.
OpenSessions(f) == UNION {{c} \X (1..f[c]) : c \in DOMAIN f}

Total(f) == Cardinality(OpenSessions(f))

\* The process ends; the database does not notice at once.
Die ==
  /\ up' = FALSE
  /\ lingering' = lingering + Total(held)
  /\ held' = [c \in Call |-> 0]
  /\ plan' = [c \in Call |-> <<>>]
  /\ status' = [c \in Call |-> IF Running(c) THEN "UNAVAILABLE" ELSE status[c]]
  /\ UNCHANGED connections

\* A constructor or a statement throws in the interceptor before the handler
\* runs, where nothing catches.
CheckFails(c) ==
  /\ \/ At(c, {"check"}) /\ connections = MaxConnections
     \/ At(c, {"vet"})
  /\ Die

\* Slip: the session is closed by hand at the end, and by its destructor.
EndOfStreamCloses(c) ==
  /\ At(c, {"read"})
  /\ plan' = [plan EXCEPT ![c] = <<"close">> \o Tail(@)]
  /\ UNCHANGED <<up, connections, lingering, held, status>>

\* reader->Read(&msg) returned FALSE.
EndOfStream(c) ==
  /\ At(c, {"read"})
  /\ Advance(c)
  /\ UNCHANGED <<up, connections, lingering, held>>

\* reader->Read(&msg) returned TRUE: a message has a field uname, so that the
\* interceptor asks for a ban.  The handler checks the channel, stores the
\* message and reads on.
NextMessage(c) ==
  /\ At(c, {"read"})
  /\ \E check \in UserCheck("open", "query") \ {<<>>} :
       plan' = [plan EXCEPT ![c] = check \o <<"channel", "query">> \o @]
  /\ UNCHANGED <<up, connections, lingering, held, status>>

-----------------------------------------------------------------------------
(* The process and the database *)

\* SIGINT, or a fault.
Stop == up /\ Die

\* The database notices that a process is gone.
Reap ==
  /\ lingering > 0
  /\ lingering' = lingering - 1
  /\ connections' = connections - 1
  /\ UNCHANGED <<up, plan, held, status>>

\* main: validate opens a session and closes it, or main returns at once.
Restart ==
  /\ ~up
  /\ connections < MaxConnections
  /\ up' = TRUE
  /\ UNCHANGED <<connections, lingering, plan, held, status>>

-----------------------------------------------------------------------------
CallStep(c) ==
  \/ Open(c) \/ Query(c) \/ Close(c)
  \/ OpenFails(c) \/ QueryFails(c) \/ CheckFails(c)
  \/ TurnAway(c)

ClientStep(c) == Arrive(c) \/ NextMessage(c) \/ EndOfStream(c)

Next ==
  \/ \E c \in Call : CallStep(c) \/ ClientStep(c)
  \/ Stop
  \/ Reap
  \/ Restart

Spec == Init /\ [][Next]_vars

\* Threads are scheduled and the database answers.  No client has to call,
\* to send or to stop, and nobody has to start the server again.
FairSpec == Spec /\ \A c \in Call : WF_vars(CallStep(c))

-----------------------------------------------------------------------------
(* Properties *)

Operation ==
  {"check", "vet", "open", "query", "channel", "close", "read", "listen"}

StatusCode == {"none", "OK", "INVALID_ARGUMENT", "UNAUTHENTICATED", "INTERNAL",
               "UNKNOWN", "UNAVAILABLE"}

\* Every variable stays in its set; no call has more than three sessions, and
\* only a stream has three: its own and two of the interceptor
\* (DBPostgres.cpp:119-150, WrongthinkServiceImpl.cpp:241, 252).
TypeOK ==
  /\ up \in BOOLEAN
  /\ connections \in 0..MaxConnections
  /\ lingering \in 0..connections
  /\ plan \in [Call -> Seq(Operation)]
  /\ held \in [Call -> 0..3]
  /\ \A c \in Call \ Stream : held[c] <= 2
  /\ status \in [Call -> StatusCode]

\* No connection is lost, wherever a handler returns early or throws with
\* sessions open: the connections that are open belong to calls in progress,
\* or to a process that is gone (DBInterface.cpp:25-27,
\* WrongthinkServiceImpl.cpp:47-57, 213-225, 241-267, 282-286).
Accounted ==
  /\ connections = lingering + Total(held)
  /\ \A c \in Call : ~Running(c) => held[c] = 0

Listening == {l \in Listener : At(l, {"listen"})}

\* A listener keeps its connection until the process ends, whatever becomes
\* of its client; while listeners and connections of dead processes are all
\* there are, no call ends well (WrongthinkServiceImpl.cpp:282-291).
ListenersKeepAll ==
  [][up' =>
       /\ Listening \subseteq Listening'
       /\ Cardinality(Listening) + lingering = MaxConnections =>
            \A c \in Call : status'[c] = "OK" => status[c] = "OK"]_vars

\* No call waits for a connection, though the interceptor and the streams
\* want a second and a third while they hold one: a call that can go on
\* without its client ends, or comes to where it waits for it
\* (DBPostgres.cpp:119-135, WrongthinkServiceImpl.cpp:241-261).
NoneWaits ==
  \A c \in Call : At(c, Operation \ {"read", "listen"}) ~>
                  ~At(c, Operation \ {"read", "listen"})

=============================================================================
