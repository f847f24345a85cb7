------------------------------ MODULE Startup ------------------------------
(***************************************************************************)
(* The life of server processes: main opens the database, drops every      *)
(* table if it was started with "clear", creates the tables that are       *)
(* missing, and serves.  Each statement is a transaction of its own, so a  *)
(* process that ends in between leaves some tables; a statement that had   *)
(* reached the database may take effect after its process has ended, while *)
(* the next process is at work.  Nothing keeps two processes apart.        *)
(***************************************************************************)
EXTENDS Naturals, Sequences

CONSTANT Process  \* starts of the server program

VARIABLES
  tables,    \* database: the tables that exist
  pc,        \* per process: what it is doing
  todo,      \* per process: the statements it has left, the first under way
  old,       \* history: tables a clearing process met and nobody dropped since
  disturbed  \* history: what others did to tables since a process started

vars == <<tables, pc, todo, old, disturbed>>

Table == {"users", "banned_users", "banned_ips", "communities", "channels",
          "message", "control_message"}

\* Foreign keys.
References(t) ==
  CASE t \in {"banned_users", "communities"} -> {"users"}
    [] t = "channels" -> {"communities", "users"}
    [] t \in {"message", "control_message"} -> {"users", "channels"}
    [] OTHER -> {}

Statements(verb, order) ==
  [i \in DOMAIN order |-> [verb |-> verb, table |-> order[i]]]

\* Slip: users is dropped before the tables that refer to it.
ClearUsersFirst == Statements("drop",
  <<"message", "control_message", "channels", "users",
    "communities", "banned_users", "banned_ips">>)

\* Slip: a table is forgotten.
ClearMost == Statements("drop",
  <<"message", "control_message", "channels", "communities",
    "banned_users", "users">>)

\* clear(): drop table if exists
Clear == Statements("drop",
  <<"message", "control_message", "channels", "communities",
    "banned_users", "banned_ips", "users">>)

\* validate(): create table if not exists
Validate == Statements("create",
  <<"users", "banned_users", "banned_ips", "communities", "channels",
    "message", "control_message">>)

\* The database is new, or a process has validated it.
Init ==
  /\ tables \in {{}, Table}
  /\ pc = [p \in Process |-> "idle"]
  /\ todo = [p \in Process |-> <<>>]
  /\ old = [p \in Process |-> {}]
  /\ disturbed = [p \in Process |-> {}]

-----------------------------------------------------------------------------
Goto(p, label) == pc' = [pc EXCEPT ![p] = label]

\* main looks at its argument; "sqlite" ends it.
Start(p, argument) ==
  /\ pc[p] = "idle"
  /\ Goto(p, IF argument = "sqlite" THEN "ended" ELSE "running")
  /\ todo' = [todo EXCEPT ![p] =
       CASE argument = "clear" -> Clear \o Validate
         [] argument = "none" -> Validate
         [] OTHER -> <<>>]
  /\ old' = [old EXCEPT ![p] = IF argument = "clear" THEN tables ELSE {}]
  /\ UNCHANGED <<tables, disturbed>>

Statement(p) == Head(todo[p])

\* The database refuses to drop a table another refers to, and to create one
\* that refers to a table it does not have.
Accepted(s) ==
  IF s.verb = "drop"
    THEN \A t \in tables : s.table \notin References(t)
    ELSE s.table \in tables \/ References(s.table) \subseteq tables

\* The statement of p takes effect, also in the eyes of the others.
TakeEffect(p) ==
  LET s == Statement(p) IN
  /\ tables' = IF s.verb = "drop" THEN tables \ {s.table}
                                  ELSE tables \cup {s.table}
  /\ old' = [q \in Process |-> old[q] \cap tables']
  /\ disturbed' = [q \in Process |->
       IF q # p /\ pc[q] \in {"running", "serving"} /\ tables' # tables
         THEN disturbed[q] \cup {s.verb} ELSE disturbed[q]]

Execute(p) ==
  /\ pc[p] = "running"
  /\ todo[p] # <<>>
  /\ Accepted(Statement(p))
  /\ TakeEffect(p)
  /\ todo' = [todo EXCEPT ![p] = Tail(@)]
  /\ UNCHANGED pc

\* The exception ends main.
Refuse(p) ==
  /\ pc[p] = "running"
  /\ todo[p] # <<>>
  /\ ~Accepted(Statement(p))
  /\ Goto(p, "refused")
  /\ UNCHANGED <<tables, todo, old, disturbed>>

\* Slip: the server is started on a thread of its own, before validate.
ServeAtOnce(p) ==
  /\ pc[p] = "running"
  /\ \E label \in {"serving", "ended"} : Goto(p, label)
  /\ UNCHANGED <<tables, todo, old, disturbed>>

\* RunServer: BuildAndStart gives a server, or none if the port cannot be
\* had, and then Wait is called through a null pointer.
RunServer(p) ==
  /\ pc[p] = "running"
  /\ todo[p] = <<>>
  /\ \E label \in {"serving", "ended"} : Goto(p, label)
  /\ UNCHANGED <<tables, todo, old, disturbed>>

\* Slip: the exception is printed and the server runs anyway.
BreakOffAndServe(p) ==
  /\ pc[p] = "running"
  /\ Goto(p, "serving")
  /\ todo' = [todo EXCEPT ![p] = <<>>]
  /\ UNCHANGED <<tables, old, disturbed>>

\* The connection fails or breaks and main catches it, or SIGINT or a fault
\* ends the process.  A statement under way may still take effect.
BreakOff(p) ==
  /\ pc[p] \in {"running", "serving"}
  /\ \/ Goto(p, "ended") /\ todo' = [todo EXCEPT ![p] = <<>>]
     \/ todo[p] # <<>> /\ Goto(p, "orphan") /\ UNCHANGED todo
  /\ UNCHANGED <<tables, old, disturbed>>

\* What was left of a process that ended reaches the tables.
OrphanTakesEffect(p) ==
  /\ pc[p] = "orphan"
  /\ Accepted(Statement(p))
  /\ TakeEffect(p)
  /\ Goto(p, "ended")
  /\ todo' = [todo EXCEPT ![p] = <<>>]

-----------------------------------------------------------------------------
Argument == {"none", "clear", "sqlite"}

Next ==
  \E p \in Process :
    \/ \E argument \in Argument : Start(p, argument)
    \/ Execute(p) \/ Refuse(p) \/ RunServer(p)
    \/ BreakOff(p) \/ OrphanTakesEffect(p)

Spec == Init /\ [][Next]_vars

-----------------------------------------------------------------------------
(* Properties *)

Script == Clear \o Validate

\* Every variable stays in its set, what a process has left to do is the end
\* of clear and validate, and it serves with nothing left (wrongthink.cpp:106-138).
TypeOK ==
  /\ tables \subseteq Table
  /\ pc \in [Process -> {"idle", "running", "serving", "refused", "ended", "orphan"}]
  /\ \A p \in Process : \E done \in 0..Len(Script) :
       todo[p] = SubSeq(Script, done + 1, Len(Script))
  /\ \A p \in Process : pc[p] = "serving" => todo[p] = <<>>
  /\ old \in [Process -> SUBSET tables]
  /\ disturbed \in [Process -> SUBSET {"drop", "create"}]

\* Whatever an earlier process left behind, a process that serves has all the
\* tables, unless someone else dropped one since it started
\* (DBPostgres.cpp:33-98, wrongthink.cpp:125-135).
SchemaComplete ==
  \A p \in Process : pc[p] = "serving" /\ "drop" \notin disturbed[p] =>
    tables = Table

\* The orders of clear and validate agree with the references: from any
\* tables a broken start left, no statement is refused but for what another
\* process did meanwhile (DBPostgres.cpp:35-41 against 49-98).
RefusedByOthers ==
  \A p \in Process : pc[p] = "refused" =>
    (IF Statement(p).verb = "drop" THEN "create" ELSE "drop") \in disturbed[p]

\* A server that was started with "clear" has no table that is older than
\* its start, though others may drop and create tables at the same time
\* (DBPostgres.cpp:33-42 against 49-98).
ClearForgets == \A p \in Process : pc[p] = "serving" => old[p] = {}

=============================================================================
