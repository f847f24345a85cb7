-------------------------- MODULE DirectoryService --------------------------
(***************************************************************************)
(* The RPCs that create users, communities and channels, and the two that  *)
(* list communities and channels, statement by statement.  PostgreSQL runs *)
(* each statement in a transaction of its own.                             *)
(*                                                                         *)
(* A call runs once.  A row is the id the table's serial gave it and the   *)
(* call that inserted it; what it holds is that call's request and, for a  *)
(* user, the `admin` the handler decided on.  Rows are never deleted: only *)
(* main with "clear" does that, before it serves.                          *)
(***************************************************************************)
EXTENDS Naturals, Sequences, Functions

CONSTANTS
  UserCall,       \* calls of CreateUser
  GuestCall,      \* calls of GenerateUser
  CommunityCall,  \* calls of CreateWrongthinkCommunity
  ChannelCall,    \* calls of CreateWrongthinkChannel
  CommunityList,  \* calls of GetWrongthinkCommunities
  ChannelList,    \* calls of GetWrongthinkChannels
  Name,           \* names of users, communities and channels
  NoName,
  Flag,           \* bound: the flags clients send (admin, public, anonymous)
  MaxId,          \* bound: the ids clients name
  MaxCrashes      \* bound: times the server process dies

Account == UserCall \cup GuestCall
Maker == Account \cup CommunityCall \cup ChannelCall
Lister == CommunityList \cup ChannelList
Call == Maker \cup Lister

ASSUME DirectoryAssumption ==
  /\ UserCall \cap GuestCall = {}
  /\ Account \cap (CommunityCall \cup ChannelCall) = {}
  /\ CommunityCall \cap ChannelCall = {}
  /\ CommunityList \cap ChannelList = {}
  /\ Maker \cap Lister = {}
  /\ NoName \notin Name
  /\ Flag \subseteq BOOLEAN
  /\ MaxId \in Nat
  /\ MaxCrashes \in Nat

VARIABLES
  rows,     \* database: per table, its rows
  serial,   \* database: per table, the id drawn last
  up,       \* is a server process running?
  crashes,  \* how often it died
  pc,       \* per call: where its handler is
  status,   \* per call: the status it ended with, or "none"
  req,      \* per call: its request
  admin,    \* per user call: the int& admin of createUser
  drawn,    \* per call: the id its insert drew
  answer,   \* per call: the id in its response, 0 if none
  pending,  \* per lister: rows of its result not written yet
  sent,     \* per lister: what it wrote to its client
  acked     \* history, per lister: rows answered with OK when it started

dbVars == <<rows, serial>>
processVars == <<up, crashes>>
makerVars == <<admin, drawn, answer>>
listVars == <<pending, sent, acked>>
vars == <<rows, serial, up, crashes, pc, status, req,
          admin, drawn, answer, pending, sent, acked>>

Table == {"users", "communities", "channels"}

TableOf(c) == IF c \in Account THEN "users"
              ELSE IF c \in CommunityCall \cup CommunityList THEN "communities"
              ELSE "channels"

Ask(n, uid, cid, f) == [name |-> n, admin |-> uid, community |-> cid, flag |-> f]

Init ==
  /\ rows = [t \in Table |-> {}]
  /\ serial = [t \in Table |-> 0]
  /\ up = TRUE
  /\ crashes = 0
  /\ pc = [c \in Call |-> "idle"]
  /\ status = [c \in Call |-> "none"]
  /\ req = [c \in Call |-> Ask(NoName, 0, 0, FALSE)]
  /\ admin = [c \in Call |-> FALSE]
  /\ drawn = [c \in Call |-> 0]
  /\ answer = [c \in Call |-> 0]
  /\ pending = [c \in Call |-> {}]
  /\ sent = [c \in Call |-> <<>>]
  /\ acked = [c \in Call |-> {}]

-----------------------------------------------------------------------------
(* Requests *)

Goto(c, label) == pc' = [pc EXCEPT ![c] = label]

\* The handler returns st to its client.
Return(c, st) ==
  /\ Goto(c, "done")
  /\ status' = [status EXCEPT ![c] = st]

Begin(c, request, label) ==
  /\ up
  /\ pc[c] = "idle"
  /\ req' = [req EXCEPT ![c] = request]
  /\ Goto(c, label)

\* The client chooses the name, and whether it wants to be an admin.
StartCreateUser(c, n, wanted) ==
  /\ c \in UserCall
  /\ Begin(c, Ask(n, 0, 0, wanted), "counting")
  /\ admin' = [admin EXCEPT ![c] = wanted]
  /\ UNCHANGED <<dbVars, processVars, status, drawn, answer, listVars>>

\* A random name: nobody has used it.
StartGenerateUser(c, n) ==
  /\ c \in GuestCall
  /\ \A d \in Call : req[d].name # n
  /\ Begin(c, Ask(n, 0, 0, FALSE), "counting")
  /\ UNCHANGED <<dbVars, processVars, status, makerVars, listVars>>

StartCreateCommunity(c, n, uid, public) ==
  /\ c \in CommunityCall
  /\ Begin(c, Ask(n, uid, 0, public), "inserting")
  /\ UNCHANGED <<dbVars, processVars, status, makerVars, listVars>>

StartCreateChannel(c, n, cid, uid, anonymous) ==
  /\ c \in ChannelCall
  /\ Begin(c, Ask(n, uid, cid, anonymous), "inserting")
  /\ UNCHANGED <<dbVars, processVars, status, makerVars, listVars>>

\* Rows of t whose creator knows of them.
Acknowledged(t) == {r \in rows[t] : status[r.call] = "OK"}

\* Communities are listed all, channels of one community.
InScope(c, r) == c \in ChannelList => req[r.call].community = req[c].community

StartList(c, cid) ==
  /\ c \in Lister
  /\ Begin(c, Ask(NoName, 0, cid, FALSE), "querying")
  /\ acked' = [acked EXCEPT ![c] = Acknowledged(TableOf(c))]
  /\ UNCHANGED <<dbVars, processVars, status, makerVars, pending, sent>>

-----------------------------------------------------------------------------
(* createUser, createCommunity, createChannel *)

\* Slip: only GenerateUser looks whether an admin is needed.
CountForGuests(c) ==
  /\ pc[c] = "counting"
  /\ admin' = [admin EXCEPT ![c] =
                 @ \/ (c \in GuestCall /\ ~\E r \in rows["users"] : admin[r.call])]
  /\ Goto(c, "inserting")
  /\ UNCHANGED <<dbVars, processVars, status, req, drawn, answer, listVars>>

\* select count(*) from users where admin = true
CountAdmins(c) ==
  /\ pc[c] = "counting"
  /\ admin' = [admin EXCEPT ![c] =
                 @ \/ ~\E r \in rows["users"] : admin[r.call]]
  /\ Goto(c, "inserting")
  /\ UNCHANGED <<dbVars, processVars, status, req, drawn, answer, listVars>>

\* Slip: the row gets the id before the serial is advanced.
DrawLate(c) ==
  LET t == TableOf(c) IN
  /\ pc[c] = "inserting"
  /\ serial' = [serial EXCEPT ![t] = @ + 1]
  /\ drawn' = [drawn EXCEPT ![c] = serial[t]]
  /\ Goto(c, "committing")
  /\ UNCHANGED <<rows, processVars, status, req, admin, answer, listVars>>

\* insert: the serial is advanced first, whatever becomes of the insert.
DrawId(c) ==
  LET t == TableOf(c) IN
  /\ pc[c] = "inserting"
  /\ serial' = [serial EXCEPT ![t] = @ + 1]
  /\ drawn' = [drawn EXCEPT ![c] = serial[t] + 1]
  /\ Goto(c, "committing")
  /\ UNCHANGED <<rows, processVars, status, req, admin, answer, listVars>>

Ids(t) == {r.id : r \in rows[t]}

\* Slip: the tables are created without the references to other tables.
UnreferencedInsert(c) ==
  \A r \in rows[TableOf(c)] : req[r.call].name # req[c].name

\* unique (name), and the references to users and communities.
MayInsert(c) ==
  /\ \A r \in rows[TableOf(c)] : req[r.call].name # req[c].name
  /\ c \notin Account => req[c].admin \in Ids("users")
  /\ c \in ChannelCall => req[c].community \in Ids("communities")

Insert(c) ==
  rows' = [rows EXCEPT ![TableOf(c)] = @ \cup {[id |-> drawn[c], call |-> c]}]

CommitRow(c) ==
  /\ pc[c] = "committing"
  /\ MayInsert(c)
  /\ Insert(c)
  /\ Goto(c, "selecting")
  /\ UNCHANGED <<serial, processVars, status, req, makerVars, listVars>>

\* Slip: a conflicting insert is ignored instead of raised.
RejectQuietly(c) ==
  /\ pc[c] = "committing"
  /\ ~MayInsert(c)
  /\ Goto(c, "selecting")
  /\ UNCHANGED <<dbVars, processVars, status, req, makerVars, listVars>>

\* A constraint is violated: soci throws, the handler catches.
RejectRow(c) ==
  /\ pc[c] = "committing"
  /\ ~MayInsert(c)
  /\ Return(c, "INTERNAL")
  /\ UNCHANGED <<dbVars, processVars, req, makerVars, listVars>>

\* select ... where name = :name, and the response.
SelectId(c) ==
  /\ pc[c] = "selecting"
  /\ \E r \in rows[TableOf(c)] :
       /\ req[r.call].name = req[c].name
       /\ answer' = [answer EXCEPT ![c] = r.id]
  /\ Return(c, "OK")
  /\ UNCHANGED <<dbVars, processVars, req, admin, drawn, listVars>>

-----------------------------------------------------------------------------
(* GetWrongthinkCommunities, GetWrongthinkChannels *)

\* The join with users, executed when the rowset is built.
QueryRows(c) ==
  /\ pc[c] = "querying"
  /\ pending' = [pending EXCEPT ![c] =
       {r \in rows[TableOf(c)] :
          InScope(c, r) /\ req[r.call].admin \in Ids("users")}]
  /\ Goto(c, "writing")
  /\ UNCHANGED <<dbVars, processVars, status, req, makerVars, sent, acked>>

\* Channels come by id, communities in any order.
MayComeNext(c, r) ==
  c \in ChannelList => \A other \in pending[c] : r.id <= other.id

\* A channel's third column, which is read as `anonymous`, is `community`.
Entry(c, r) ==
  [row |-> r, anonymous |-> c \in ChannelList /\ req[r.call].community # 0]

WriteEntry(c) ==
  /\ pc[c] = "writing"
  /\ \E r \in pending[c] :
       /\ MayComeNext(c, r)
       /\ pending' = [pending EXCEPT ![c] = @ \ {r}]
       /\ sent' = [sent EXCEPT ![c] = Append(@, Entry(c, r))]
  /\ UNCHANGED <<dbVars, processVars, pc, status, req, makerVars, acked>>

EndList(c) ==
  /\ pc[c] = "writing"
  /\ pending[c] = {}
  /\ Return(c, "OK")
  /\ UNCHANGED <<dbVars, processVars, req, makerVars, listVars>>

-----------------------------------------------------------------------------
(* Faults *)

\* The session cannot be opened, or the connection breaks under a statement.
\* Whether an insert that reached the database commits is then up to it.
LoseConnection(c) ==
  /\ pc[c] \in {"counting", "inserting", "committing", "selecting", "querying"}
  /\ Goto(c, IF pc[c] = "committing" THEN "orphan" ELSE "done")
  /\ status' = [status EXCEPT ![c] = "INTERNAL"]
  /\ UNCHANGED <<dbVars, processVars, req, makerVars, listVars>>

\* An insert whose handler is gone commits after all.
OrphanCommit(c) ==
  /\ pc[c] = "orphan"
  /\ MayInsert(c)
  /\ Insert(c)
  /\ Goto(c, "done")
  /\ UNCHANGED <<serial, processVars, status, req, makerVars, listVars>>

Running(c) == pc[c] \notin {"idle", "done", "orphan"}

\* The process dies; every client with a call under way sees it.
Crash ==
  /\ up
  /\ crashes < MaxCrashes
  /\ up' = FALSE
  /\ crashes' = crashes + 1
  /\ status' = [c \in Call |-> IF Running(c) THEN "UNAVAILABLE" ELSE status[c]]
  /\ pc' = [c \in Call |-> IF pc[c] = "committing" THEN "orphan"
                           ELSE IF Running(c) THEN "done" ELSE pc[c]]
  /\ UNCHANGED <<dbVars, req, makerVars, listVars>>

\* main without "clear".
Restart ==
  /\ ~up
  /\ up' = TRUE
  /\ UNCHANGED <<dbVars, crashes, pc, status, req, makerVars, listVars>>

-----------------------------------------------------------------------------
ClientStep(c) ==
  \/ \E n \in Name, b \in Flag, uid \in 0..MaxId :
       \/ StartCreateUser(c, n, b)
       \/ StartGenerateUser(c, n)
       \/ StartCreateCommunity(c, n, uid, b)
       \/ \E cid \in 0..MaxId : StartCreateChannel(c, n, cid, uid, b)
  \/ \E cid \in 0..MaxId : StartList(c, cid)

MakeStep(c) ==
  CountAdmins(c) \/ DrawId(c) \/ CommitRow(c) \/ RejectRow(c) \/ SelectId(c)

ListStep(c) == QueryRows(c) \/ WriteEntry(c) \/ EndList(c)

Next ==
  \/ \E c \in Call : \/ ClientStep(c) \/ MakeStep(c) \/ ListStep(c)
                     \/ LoseConnection(c) \/ OrphanCommit(c)
  \/ Crash
  \/ Restart

Spec == Init /\ [][Next]_vars

-----------------------------------------------------------------------------
(* Properties *)

Label == {"idle", "counting", "inserting", "committing", "selecting",
          "querying", "writing", "done", "orphan"}

StatusCode == {"none", "OK", "INTERNAL", "UNAVAILABLE"}

Request == [name : Name \cup {NoName}, admin : 0..MaxId, community : 0..MaxId,
            flag : BOOLEAN]

Row == [id : Nat \ {0}, call : Maker]

\* Every variable stays in its set, and a table holds rows of its own calls
\* with ids its serial has reached (DBPostgres.cpp:49-78, 171-208).
TypeOK ==
  /\ rows \in [Table -> SUBSET Row]
  /\ \A t \in Table : \A r \in rows[t] : TableOf(r.call) = t /\ r.id <= serial[t]
  /\ serial \in [Table -> Nat]
  /\ up \in BOOLEAN
  /\ crashes \in 0..MaxCrashes
  /\ pc \in [Call -> Label]
  /\ status \in [Call -> StatusCode]
  /\ req \in [Call -> Request]
  /\ admin \in [Call -> BOOLEAN]
  /\ drawn \in [Call -> Nat]
  /\ answer \in [Call -> Nat]
  /\ pending \in [Call -> SUBSET Row]
  /\ sent \in [Call -> Seq([row : Row, anonymous : BOOLEAN])]
  /\ acked \in [Call -> SUBSET Row]

\* The first user is always an admin: whoever is not one came, by id, after
\* someone who is, whatever fails between the count and the insert
\* (WrongthinkServiceImpl.cpp:80-82, DBPostgres.cpp:174-177).
FirstUserIsAdmin ==
  \A r \in rows["users"] : ~admin[r.call] =>
    \E a \in rows["users"] : admin[a.call] /\ a.id < r.id

\* A creation answered with OK is answered with the id of the row it
\* inserted itself, though it looks the row up again by name
\* (DBPostgres.cpp:176-178, 188-193, 202-205).
AnsweredOwnRow ==
  \A c \in Maker : status[c] = "OK" =>
    [id |-> answer[c], call |-> c] \in rows[TableOf(c)]

\* A listing that ended with OK has every row that was acknowledged before
\* it was asked for and belongs in it, each once: the join with users loses
\* none (DBPostgres.cpp:210-226, WrongthinkServiceImpl.cpp:103-113, 144-156).
ListsAcknowledged ==
  \A c \in Lister : status[c] = "OK" =>
    /\ \A r \in acked[c] :
         InScope(c, r) => \E i \in DOMAIN sent[c] : sent[c][i].row = r
    /\ \A i, j \in DOMAIN sent[c] : sent[c][i].row = sent[c][j].row => i = j

\* A channel is listed with the `anonymous` it was created with
\* (WrongthinkServiceImpl.cpp:152 against 171 and DBPostgres.cpp:188-191).
AnonymousListed ==
  \A c \in ChannelList : \A i \in DOMAIN sent[c] :
    sent[c][i].anonymous = req[sent[c][i].row.call].flag

=============================================================================
