----------------------------- MODULE BanControl -----------------------------
(***************************************************************************)
(* Bans: the RPC BanUser, the two checks of LoggingInterceptor on the way  *)
(* in of every call, and the tables banned_users and banned_ips.           *)
(*                                                                         *)
(* A call runs once: first the interceptor's checks, then its handler.     *)
(* Serving is a call of another RPC, one whose client sends one message    *)
(* with a field `uname`.                                                   *)
(* Every database statement is a step of its own.  Nothing catches what    *)
(* the interceptor throws, so the process ends (Abort) and is started      *)
(* again; BanUser catches what it throws.  A statement that was sent may   *)
(* still commit when its call has ended.                                   *)
(***************************************************************************)
EXTENDS Integers

CONSTANTS
  Banning,        \* calls of BanUser
  Serving,        \* calls of other RPCs
  User,           \* names in table users
  Admin,          \* those with admin = true
  Name,           \* names a request may hold
  EmptyName,      \* the name "", the default value of a string field
  NoName,         \* in place of a caller: no credentials
  Peer,           \* addresses of clients
  NoPeer,
  Days,           \* bound: the values of BanUserRequest.days
  SecondsPerDay,  \* 24 * 60 * 60
  MsPerSecond,    \* 1000
  Half,           \* an int holds -Half..(Half - 1)
  Start,          \* the time of the first call, in seconds
  MaxClock        \* bound: the time

Call == Banning \cup Serving

ASSUME BanAssumption ==
  /\ Banning \cap Serving = {}
  /\ Admin \subseteq User
  /\ User \subseteq Name
  /\ EmptyName \in Name
  /\ NoName \notin Name
  /\ Days \subseteq Int
  /\ SecondsPerDay \in Nat
  /\ MsPerSecond \in Nat
  /\ Half \in Nat \ {0}
  /\ Start \in Nat
  /\ MaxClock \in Nat
  /\ Start <= MaxClock

VARIABLES
  bans,       \* database: banned_users; `by` and `at` are history
  banned_ips, \* database: banned_ips
  clock,      \* the time in seconds
  pc,         \* per call: where it is
  req,        \* per call: its request, credentials and peer
  date,       \* per call: the expiry isUserBanned read
  cancelled,  \* per call: TryCancel was called
  status,     \* per call: the status its handler returned, "UNAVAILABLE"
              \* if the process ended, "none" until then
  before      \* history, per call: the bans in the database on its arrival

tables == <<bans, banned_ips>>
vars == <<bans, banned_ips, clock, pc, req, date, cancelled, status, before>>

\* `genuine`: the token in the metadata is the caller's.
Ask(uname, days, caller, genuine, peer) ==
  [uname |-> uname, days |-> days, caller |-> caller, genuine |-> genuine,
   peer |-> peer]

Init ==
  /\ bans = {}
  /\ banned_ips = {}
  /\ clock = Start
  /\ pc = [c \in Call |-> "idle"]
  /\ req = [c \in Call |-> Ask(NoName, 0, NoName, FALSE, NoPeer)]
  /\ date = [c \in Call |-> 0]
  /\ cancelled = [c \in Call |-> FALSE]
  /\ status = [c \in Call |-> "none"]
  /\ before = [c \in Call |-> {}]

-----------------------------------------------------------------------------
(* Steps of a call *)

\* Has the call's client not been told how it ended?
Alive(c) == status[c] = "none"

Goto(c, label) ==
  pc' = [pc EXCEPT ![c] = IF Alive(c) THEN label ELSE "done"]

Return(c, st) ==
  /\ Goto(c, "done")
  /\ status' = [status EXCEPT ![c] = IF Alive(c) THEN st ELSE @]

\* The call moves on and changes nothing else.
GoOn(c, label) ==
  /\ Goto(c, label)
  /\ UNCHANGED <<tables, clock, req, date, cancelled, status, before>>

CancelAnd(c, label) ==
  /\ cancelled' = [cancelled EXCEPT ![c] = TRUE]
  /\ Goto(c, label)
  /\ UNCHANGED <<tables, clock, req, date, status, before>>

Refuse(c, st) ==
  /\ Return(c, st)
  /\ UNCHANGED <<tables, clock, req, date, cancelled, before>>

\* Labels at which a call has sent a statement that changes a table.
Writing == {"freeingPeer", "freeingPeerAgain", "barringPeer",
            "extending", "adding"}

Halted(label) == IF label \in Writing THEN label ELSE "done"

Running(c) == Alive(c) /\ pc[c] # "idle"

\* An exception leaves the interceptor: the process ends with all its calls.
Abort ==
  /\ pc' = [c \in Call |-> IF Running(c) THEN Halted(pc[c]) ELSE pc[c]]
  /\ status' = [c \in Call |-> IF Running(c) THEN "UNAVAILABLE" ELSE status[c]]
  /\ UNCHANGED <<tables, clock, req, date, cancelled, before>>

\* A client calls.
Arrive(c, r) ==
  /\ pc[c] = "idle"
  /\ req' = [req EXCEPT ![c] = r]
  /\ before' = [before EXCEPT ![c] = bans]
  /\ Goto(c, "checkingPeer")
  /\ UNCHANGED <<tables, clock, date, cancelled, status>>

-----------------------------------------------------------------------------
(* LoggingInterceptor::Intercept, isIPBanned, isUserBanned *)

\* The checks compare seconds.
Holds(expire) == clock <= expire

RowsOfPeer(c) == {b \in banned_ips : b.peer = req[c].peer}

\* Slip: without a row, the comparison is made with whatever `date` holds.
VerdictsUnread(c) ==
  IF RowsOfPeer(c) = {} THEN {"free", "banned"}
  ELSE {IF Holds(b.expire) THEN "banned" ELSE "expired" : b \in RowsOfPeer(c)}

\* What isIPBanned finds before it deletes anything.
Verdicts(c) ==
  IF RowsOfPeer(c) = {} THEN {"free"}
  ELSE {IF Holds(b.expire) THEN "banned" ELSE "expired" : b \in RowsOfPeer(c)}

\* POST_RECV_INITIAL_METADATA; a cancelled call proceeds all the same.
CheckPeer(c) ==
  /\ pc[c] = "checkingPeer"
  /\ \E v \in Verdicts(c) :
       \/ v = "banned" /\ CancelAnd(c, "checkingUser")
       \/ v = "free" /\ GoOn(c, "checkingUser")
       \/ v = "expired" /\ GoOn(c, "freeingPeer")

\* isIPBanned: delete from banned_ips where ip = :ip
FreePeer(c) ==
  /\ pc[c] \in {"freeingPeer", "freeingPeerAgain"}
  /\ banned_ips' = banned_ips \ RowsOfPeer(c)
  /\ Goto(c, IF pc[c] = "freeingPeer" THEN "checkingUser" ELSE "barringPeer")
  /\ UNCHANGED <<bans, clock, req, date, cancelled, status, before>>

\* The rows isUserBanned joins: its `uname` is not the request's but the
\* default value of the field, "".
RowsOfUser == {b \in bans : b.user = EmptyName}

Handler(c) == IF c \in Banning THEN "authenticating" ELSE "serving"

\* POST_RECV_MESSAGE: isUserBanned.  Its delete statement names a column
\* that banned_users does not have, so an expired ban throws.
CheckUser(c) ==
  /\ pc[c] = "checkingUser"
  /\ \/ RowsOfUser = {} /\ GoOn(c, Handler(c))
     \/ \E b \in RowsOfUser :
          /\ Holds(b.expire)
          /\ date' = [date EXCEPT ![c] = b.expire]
          /\ Goto(c, "checkingPeerAgain")
          /\ UNCHANGED <<tables, clock, req, cancelled, status, before>>
     \/ \E b \in RowsOfUser : ~Holds(b.expire) /\ Abort

CheckPeerAgain(c) ==
  /\ pc[c] = "checkingPeerAgain"
  /\ \E v \in Verdicts(c) :
       \/ v = "banned" /\ CancelAnd(c, Handler(c))
       \/ v = "free" /\ GoOn(c, "barringPeer")
       \/ v = "expired" /\ GoOn(c, "freeingPeerAgain")

\* insert into banned_ips
BarPeer(c) ==
  /\ pc[c] = "barringPeer"
  /\ RowsOfPeer(c) = {}
  /\ banned_ips' = banned_ips \cup {[peer |-> req[c].peer, expire |-> date[c]]}
  /\ cancelled' = [cancelled EXCEPT ![c] = @ \/ Alive(c)]
  /\ Goto(c, Handler(c))
  /\ UNCHANGED <<bans, clock, req, date, status, before>>

\* Column ip is unique: a second insert throws.
BarPeerTwice(c) ==
  /\ pc[c] = "barringPeer"
  /\ Alive(c)
  /\ RowsOfPeer(c) # {}
  /\ Abort

-----------------------------------------------------------------------------
(* BanUser *)

Known(c) == req[c].caller \in User /\ req[c].genuine

\* Slip: any user that is who it says may ban.
AuthenticateOnly(c) ==
  /\ pc[c] = "authenticating"
  /\ \/ Known(c) /\ GoOn(c, "finding")
     \/ ~Known(c) /\ Refuse(c, "UNAUTHENTICATED")

\* hasCredentials, getCredentials, isUserValid
Authenticate(c) ==
  /\ pc[c] = "authenticating"
  /\ \/ Known(c) /\ GoOn(c, "authorizing")
     \/ ~Known(c) /\ Refuse(c, "UNAUTHENTICATED")

\* isUserAdmin
Authorize(c) ==
  /\ pc[c] = "authorizing"
  /\ \/ req[c].caller \in Admin /\ GoOn(c, "finding")
     \/ req[c].caller \notin Admin /\ Refuse(c, "UNAUTHENTICATED")

\* Slip: the result of select user_id is not tested.
FindAnyone(c) ==
  /\ pc[c] = "finding"
  /\ GoOn(c, "looking")

\* banUser: select user_id; "user not found" is thrown and caught.
FindUser(c) ==
  /\ pc[c] = "finding"
  /\ \/ req[c].uname \in User /\ GoOn(c, "looking")
     \/ req[c].uname \notin User /\ Refuse(c, "INTERNAL")

\* Slip: a ban is always added.
LookForNone(c) ==
  /\ pc[c] = "looking"
  /\ GoOn(c, "adding")

\* banUser: select * from banned_users
LookForBan(c) ==
  /\ pc[c] = "looking"
  /\ GoOn(c, IF \E b \in bans : b.user = req[c].uname
               THEN "extending" ELSE "adding")

\* What the build computes when a signed product overflows.
Wrap(x) == ((x + Half) % (2 * Half)) - Half

\* days * 24 * 60 * 60 * 1000
Span(days) == Wrap(days * SecondsPerDay * MsPerSecond)

Expiry(c) == clock + Span(req[c].days)

\* PostgreSQL adds two ints and refuses a sum that is none.
Fits(x) == -Half <= x /\ x < Half

NewBan(c) ==
  [user |-> req[c].uname, expire |-> Expiry(c), by |-> c, at |-> clock]

\* update banned_users: every row of the user.
ExtendBan(c) ==
  /\ pc[c] = "extending"
  /\ Fits(Expiry(c))
  /\ bans' = {b \in bans : b.user # req[c].uname} \cup {NewBan(c)}
  /\ Return(c, "OK")
  /\ UNCHANGED <<banned_ips, clock, req, date, cancelled, before>>

\* insert into banned_users: column user_id is not unique.
AddBan(c) ==
  /\ pc[c] = "adding"
  /\ Fits(Expiry(c))
  /\ bans' = bans \cup {NewBan(c)}
  /\ Return(c, "OK")
  /\ UNCHANGED <<banned_ips, clock, req, date, cancelled, before>>

BanFails(c) ==
  /\ pc[c] \in {"extending", "adding"}
  /\ ~Fits(Expiry(c))
  /\ Refuse(c, "INTERNAL")

\* Another RPC's handler does its work, cancelled or not.
Serve(c) ==
  /\ pc[c] = "serving"
  /\ Refuse(c, "OK")

-----------------------------------------------------------------------------
(* Faults and time *)

InInterceptor(c) ==
  pc[c] \in {"checkingPeer", "freeingPeer", "checkingUser",
             "checkingPeerAgain", "freeingPeerAgain", "barringPeer"}

InBanUser(c) ==
  pc[c] \in {"authenticating", "authorizing", "finding", "looking",
             "extending", "adding"}

\* The session cannot be opened, the connection breaks under a statement, or
\* an int column cannot be moved to or from a std::tm.
LoseConnection(c) ==
  /\ Alive(c)
  /\ \/ InInterceptor(c) /\ Abort
     \/ /\ InBanUser(c)
        /\ pc[c] = "authenticating" => req[c].caller # NoName
        /\ pc' = [pc EXCEPT ![c] = Halted(@)]
        /\ status' = [status EXCEPT ![c] = "INTERNAL"]
        /\ UNCHANGED <<tables, clock, req, date, cancelled, before>>

\* Time passes.
Tick ==
  /\ clock < MaxClock
  /\ clock' = clock + 1
  /\ UNCHANGED <<tables, pc, req, date, cancelled, status, before>>

-----------------------------------------------------------------------------
Intercept(c) ==
  \/ CheckPeer(c) \/ FreePeer(c) \/ CheckUser(c)
  \/ CheckPeerAgain(c) \/ BarPeer(c) \/ BarPeerTwice(c)

BanUser(c) ==
  \/ Authenticate(c) \/ Authorize(c) \/ FindUser(c) \/ LookForBan(c)
  \/ ExtendBan(c) \/ AddBan(c) \/ BanFails(c)

\* The requests a client may send: a token belongs to a user.
BanRequests ==
  {r \in [uname : Name, days : Days, caller : Name \cup {NoName},
          genuine : BOOLEAN, peer : Peer] : r.genuine => r.caller \in User}

ServeRequests ==
  [uname : Name, days : {0}, caller : {NoName}, genuine : {FALSE}, peer : Peer]

Next ==
  \/ \E c \in Banning : \E r \in BanRequests : Arrive(c, r)
  \/ \E c \in Serving : \E r \in ServeRequests : Arrive(c, r)
  \/ \E c \in Call : Intercept(c) \/ BanUser(c) \/ Serve(c) \/ LoseConnection(c)
  \/ Tick

Spec == Init /\ [][Next]_vars

-----------------------------------------------------------------------------
(* Properties *)

Label == {"idle", "checkingPeer", "checkingUser", "checkingPeerAgain",
          "authenticating", "authorizing", "finding", "looking", "serving",
          "done"} \cup Writing

StatusCode == {"none", "OK", "UNAUTHENTICATED", "INTERNAL", "UNAVAILABLE"}

Stamp == (-Half)..(Half - 1)

BanRow == [user : User, expire : Stamp, by : Banning, at : Start..MaxClock]

Request == [uname : Name \cup {NoName}, days : Days \cup {0},
            caller : Name \cup {NoName}, genuine : BOOLEAN,
            peer : Peer \cup {NoPeer}]

\* Every variable stays in its set; an expiry that is not an int is never
\* stored (DBPostgres.cpp:55-63, 151-165).
TypeOK ==
  /\ bans \subseteq BanRow
  /\ banned_ips \subseteq [peer : Peer, expire : Stamp]
  /\ clock \in Start..MaxClock
  /\ pc \in [Call -> Label]
  /\ req \in [Call -> Request]
  /\ date \in [Call -> Stamp]
  /\ cancelled \in [Call -> BOOLEAN]
  /\ status \in [Call -> StatusCode]
  /\ before \in [Call -> SUBSET BanRow]

\* Every ban in the table is one that an administrator asked for with its
\* own token, for that very user, though the caller is checked in two
\* sessions and the ban written in a third, which may commit when the call
\* has failed (WrongthinkServiceImpl.cpp:47-54, DBPostgres.cpp:151-165).
BansByAdmins ==
  \A b \in bans :
    /\ req[b.by].genuine
    /\ req[b.by].caller \in Admin
    /\ req[b.by].uname = b.user

\* A BanUser answered with OK took effect: its user is banned by a row that
\* was not there when the call came, and every row that was there is
\* replaced, also if other BanUser calls left the user two rows
\* (DBPostgres.cpp:158-165).
LatestBanHolds ==
  \A c \in Banning : status[c] = "OK" =>
    /\ \E b \in bans \ before[c] : b.user = req[c].uname
    /\ \A b \in before[c] : b.user = req[c].uname => b \notin bans

\* Nobody is cancelled and no peer barred unless a user the interceptor asks
\* for was banned (DBPostgres.cpp:120-149, Interceptor.cpp:31-36, 61-65).
CancelNeedsBan ==
  (banned_ips # {} \/ \E c \in Call : cancelled[c]) =>
    \E b \in bans : b.user = EmptyName

\* A request of a user whose ban held all along is not served
\* (Interceptor.cpp:58-65).
BannedRefused ==
  \A c \in Serving : status[c] = "OK" =>
    ~\E b \in before[c] : b.user = req[c].uname /\ Holds(b.expire)

\* A ban lasts the days the administrator asked for
\* (DBPostgres.cpp:151-163).
BanLastsDays ==
  \A b \in bans : b.expire = b.at + req[b.by].days * SecondsPerDay

=============================================================================
