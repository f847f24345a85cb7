-------------------------- MODULE BanControlProofs --------------------------
(***************************************************************************)
(* Proofs about BanControl for any number of calls, users and peers, any   *)
(* request and any width of the integers.  Rows of banned_users are        *)
(* written by calls that are done afterwards, and a user who has a row     *)
(* keeps having one: the invariants follow from this (Frame).              *)
(***************************************************************************)
EXTENDS BanControl, TLAPS

Asking == {"authorizing", "finding", "looking", "extending", "adding"}

\* What a place says about the call that is there, and its status.
PlaceOK(c, label, st) ==
  /\ label # "idle" => req[c].uname \in Name /\ req[c].peer \in Peer
  /\ label = "authenticating" \/ label \in Asking => c \in Banning
  /\ label = "serving" => c \in Serving
  /\ label \in Asking => req[c].genuine
  /\ label \in Asking \ {"authorizing"} => req[c].caller \in Admin
  /\ label \in {"looking", "extending", "adding"} => req[c].uname \in User
  /\ st # "none" => label \in Writing \cup {"done"}
  /\ label = "done" => st # "none"
  /\ st = "OK" => label = "done"

CallOK(c) == PlaceOK(c, pc[c], status[c])

CallInv == \A c \in Call : CallOK(c)

Banned(u) == \E b \in bans : b.user = u

Barring == {"checkingPeerAgain", "freeingPeerAgain", "barringPeer"}

\* A call that goes on to bar its peer found a ban.
BarInv == \A c \in Call : pc[c] \in Barring => Banned(EmptyName)

\* Rows were written by calls that are done.
RowInv == \A b \in bans : pc[b.by] = "done"

\* So were the rows a call found on arrival, and their users are still
\* banned; a call that adds a row for its user found none.
BeforeInv ==
  \A c \in Call : \A b \in before[c] :
    /\ pc[b.by] = "done"
    /\ Banned(b.user)
    /\ pc[c] = "adding" => b.user # req[c].uname

\* The inductive invariant.
IInv ==
  /\ TypeOK
  /\ CallInv
  /\ BarInv
  /\ RowInv
  /\ BeforeInv
  /\ BansByAdmins
  /\ LatestBanHolds
  /\ CancelNeedsBan

-----------------------------------------------------------------------------
(* Initial states and types *)

LEMMA IntFacts ==
  /\ 0 \in Stamp
  /\ \A d \in Days \cup {0} : Span(d) \in Int
  <1>1. 0 \in Stamp
    BY BanAssumption DEF Stamp
  <1>2. ASSUME NEW d \in Days \cup {0}
        PROVE  Span(d) \in Int
    <2> DEFINE x == d * SecondsPerDay * MsPerSecond
               n == 2 * Half
    <2>1. x \in Int
      <3>1. d \in Int /\ SecondsPerDay \in Int /\ MsPerSecond \in Int
        BY BanAssumption
      <3>2. d * SecondsPerDay \in Int
        BY <3>1
      <3>3. QED
        BY <3>1, <3>2
    <2>2. n \in Int /\ n > 0 /\ Half \in Int
      BY BanAssumption
    <2>3. x + Half \in Int
      BY <2>1, <2>2
    <2> HIDE DEF x, n
    <2>4. (x + Half) % n \in Int
      BY <2>2, <2>3
    <2>5. ((x + Half) % n) - Half \in Int
      BY <2>2, <2>4
    <2>6. QED
      BY <2>5 DEF Span, Wrap, x, n
  <1>3. QED
    BY <1>1, <1>2

LEMMA RequestFacts ==
  /\ Ask(NoName, 0, NoName, FALSE, NoPeer) \in Request
  /\ \A r \in BanRequests \cup ServeRequests :
       r \in Request /\ r.uname \in Name /\ r.peer \in Peer
  BY DEF Ask, Request, BanRequests, ServeRequests

LEMMA InitIInv == Init => IInv
  <1> SUFFICES ASSUME Init PROVE IInv
    OBVIOUS
  <1>1. TypeOK
    <2>1. clock \in Start..MaxClock
      BY BanAssumption DEF Init
    <2>2. QED
      BY <2>1, IntFacts, RequestFacts DEF Init, TypeOK, Label, StatusCode
  <1>2. CallInv /\ BarInv /\ RowInv /\ BeforeInv
    BY DEF Init, CallInv, CallOK, PlaceOK, BarInv, Barring, RowInv, BeforeInv,
        Asking, Writing, Call
  <1>3. BansByAdmins /\ LatestBanHolds /\ CancelNeedsBan
    BY DEF Init, BansByAdmins, LatestBanHolds, CancelNeedsBan, Call
  <1>4. QED
    BY <1>1, <1>2, <1>3 DEF IInv

\* A row that is written.
LEMMA NewBanFacts ==
  ASSUME TypeOK, CallInv, NEW c \in Call, pc[c] \in {"extending", "adding"},
         Fits(Expiry(c))
  PROVE  /\ NewBan(c) \in BanRow
         /\ NewBan(c).by = c
         /\ NewBan(c).user = req[c].uname
         /\ c \in Banning
         /\ req[c].uname \in User
  <1>1. CallOK(c)
    BY DEF CallInv
  <1>2. c \in Banning /\ req[c].uname \in User
    BY <1>1 DEF CallOK, PlaceOK, Asking
  <1>3. req[c].days \in Days \cup {0} /\ clock \in Start..MaxClock
    BY DEF TypeOK, Request
  <1>4. clock \in Int /\ Span(req[c].days) \in Int
    <2>1. Span(req[c].days) \in Int
      BY <1>3, IntFacts
    <2>2. clock \in Int
      BY <1>3, BanAssumption
    <2>3. QED
      BY <2>1, <2>2
  <1>5. Expiry(c) \in Int
    BY <1>4 DEF Expiry
  <1>6. Expiry(c) \in Stamp
    BY <1>5, BanAssumption DEF Fits, Stamp
  <1>7. QED
    BY <1>2, <1>3, <1>6 DEF NewBan, BanRow

-----------------------------------------------------------------------------
(* Steps *)

\* What a step of call c does: it moves c from one place to another, may end
\* it, and touches no other call.  Only ExtendBan and AddBan write bans and
\* answer a BanUser call with OK.
OneCall(c) ==
  /\ UNCHANGED <<clock, req, before>>
  /\ pc[c] \notin {"idle", "done"}
  /\ pc' = [pc EXCEPT ![c] = pc'[c]]
  /\ pc'[c] \in Label \ {"idle"}
  /\ status' = [status EXCEPT ![c] = status'[c]]
  /\ status'[c] \in StatusCode
  /\ status'[c] = status[c] \/ status[c] = "none"
  /\ PlaceOK(c, pc'[c], status'[c])
  /\ pc'[c] \in Barring => pc[c] \in Barring \/ Banned(EmptyName)
  /\ \/ /\ bans' = bans
        /\ c \in Banning /\ status'[c] = "OK" => status[c] = "OK"
        /\ pc'[c] = "adding" => pc[c] = "adding" \/ ~Banned(req[c].uname)
     \/ ExtendBan(c)
     \/ AddBan(c)
  /\ date' \in [Call -> Stamp]
  /\ cancelled' \in [Call -> BOOLEAN]
  /\ cancelled' = cancelled \/ banned_ips # {} \/ pc[c] \in Barring
  /\ banned_ips' \subseteq [peer : Peer, expire : Stamp]
  /\ banned_ips' \subseteq banned_ips \/ pc[c] \in Barring

LEMMA StepCases ==
  ASSUME TypeOK, CallInv, [Next]_vars
  PROVE  \/ /\ UNCHANGED <<tables, pc, req, date, cancelled, status, before>>
            /\ clock' \in Start..MaxClock
         \/ Abort
         \/ \E c \in Call, r \in BanRequests \cup ServeRequests : Arrive(c, r)
         \/ \E c \in Call : OneCall(c)
  <1>1. ASSUME NEW c \in Call, CheckPeer(c)
       PROVE  OneCall(c)
    <2>1. CallOK(c)
      BY DEF CallInv
    <2>2. QED
      BY <1>1, <2>1
      DEF OneCall, CallOK, PlaceOK, TypeOK, Alive, Label, StatusCode, Writing,
          Asking, Barring, Call, CheckPeer, Verdicts, RowsOfPeer, GoOn,
          CancelAnd, Goto, tables
  <1>2. ASSUME NEW c \in Call, FreePeer(c)
       PROVE  OneCall(c)
    <2>1. CallOK(c)
      BY DEF CallInv
    <2>2. QED
      BY <1>2, <2>1
      DEF OneCall, CallOK, PlaceOK, TypeOK, Alive, Label, StatusCode, Writing,
          Asking, Barring, Call, FreePeer, RowsOfPeer, Goto
  <1>3. ASSUME NEW c \in Call, CheckUser(c)
       PROVE  OneCall(c) \/ Abort
    <2>1. CallOK(c)
      BY DEF CallInv
    <2>2. QED
      BY <1>3, <2>1
      DEF OneCall, CallOK, PlaceOK, TypeOK, Alive, Label, StatusCode, Writing,
          Asking, Barring, Call, CheckUser, RowsOfUser, Banned, GoOn, Goto,
          Handler, tables, BanRow
  <1>4. ASSUME NEW c \in Call, CheckPeerAgain(c)
       PROVE  OneCall(c)
    <2>1. CallOK(c)
      BY DEF CallInv
    <2>2. QED
      BY <1>4, <2>1
      DEF OneCall, CallOK, PlaceOK, TypeOK, Alive, Label, StatusCode, Writing,
          Asking, Barring, Call, CheckPeerAgain, Verdicts, RowsOfPeer, GoOn,
          CancelAnd, Goto, Handler, tables
  <1>5. ASSUME NEW c \in Call, BarPeer(c)
       PROVE  OneCall(c)
    <2>1. CallOK(c)
      BY DEF CallInv
    <2>2. cancelled' \in [Call -> BOOLEAN]
      BY <1>5 DEF BarPeer, TypeOK, Alive
    <2>3. banned_ips' \subseteq [peer : Peer, expire : Stamp]
      BY <1>5, <2>1 DEF BarPeer, TypeOK, CallOK, PlaceOK
    <2>4. QED
      BY <1>5, <2>1, <2>2, <2>3
      DEF OneCall, CallOK, PlaceOK, TypeOK, Alive, Label, StatusCode, Writing,
          Asking, Barring, Call, BarPeer, Goto, Handler
  <1>6. ASSUME NEW c \in Call, Authenticate(c)
       PROVE  OneCall(c)
    <2>1. CallOK(c)
      BY DEF CallInv
    <2>2. QED
      BY <1>6, <2>1
      DEF OneCall, CallOK, PlaceOK, TypeOK, Alive, Label, StatusCode, Writing,
          Asking, Barring, Call, Authenticate, Known, GoOn, Refuse, Return,
          Goto, tables
  <1>7. ASSUME NEW c \in Call, Authorize(c)
       PROVE  OneCall(c)
    <2>1. CallOK(c)
      BY DEF CallInv
    <2>2. QED
      BY <1>7, <2>1
      DEF OneCall, CallOK, PlaceOK, TypeOK, Alive, Label, StatusCode, Writing,
          Asking, Barring, Call, Authorize, GoOn, Refuse, Return, Goto, tables
  <1>8. ASSUME NEW c \in Call, FindUser(c)
       PROVE  OneCall(c)
    <2>1. CallOK(c)
      BY DEF CallInv
    <2>2. QED
      BY <1>8, <2>1
      DEF OneCall, CallOK, PlaceOK, TypeOK, Alive, Label, StatusCode, Writing,
          Asking, Barring, Call, FindUser, GoOn, Refuse, Return, Goto, tables
  <1>9. ASSUME NEW c \in Call, LookForBan(c)
       PROVE  OneCall(c)
    <2>1. CallOK(c)
      BY DEF CallInv
    <2>2. QED
      BY <1>9, <2>1
      DEF OneCall, CallOK, PlaceOK, TypeOK, Alive, Label, StatusCode, Writing,
          Asking, Barring, Call, LookForBan, Banned, GoOn, Goto, tables
  <1>10. ASSUME NEW c \in Call, ExtendBan(c)
       PROVE  OneCall(c)
    <2>1. CallOK(c)
      BY DEF CallInv
    <2>2. QED
      BY <1>10, <2>1
      DEF OneCall, CallOK, PlaceOK, TypeOK, Alive, Label, StatusCode, Writing,
          Asking, Barring, Call, ExtendBan, Return, Goto
  <1>11. ASSUME NEW c \in Call, AddBan(c)
       PROVE  OneCall(c)
    <2>1. CallOK(c)
      BY DEF CallInv
    <2>2. QED
      BY <1>11, <2>1
      DEF OneCall, CallOK, PlaceOK, TypeOK, Alive, Label, StatusCode, Writing,
          Asking, Barring, Call, AddBan, Return, Goto
  <1>12. ASSUME NEW c \in Call, BanFails(c)
       PROVE  OneCall(c)
    <2>1. CallOK(c)
      BY DEF CallInv
    <2>2. QED
      BY <1>12, <2>1
      DEF OneCall, CallOK, PlaceOK, TypeOK, Alive, Label, StatusCode, Writing,
          Asking, Barring, Call, BanFails, Refuse, Return, Goto, tables
  <1>13. ASSUME NEW c \in Call, Serve(c)
       PROVE  OneCall(c)
    <2>1. CallOK(c)
      BY DEF CallInv
    <2>2. QED
      BY <1>13, <2>1, BanAssumption
      DEF OneCall, CallOK, PlaceOK, TypeOK, Alive, Label, StatusCode, Writing,
          Asking, Barring, Call, Serve, Refuse, Return, Goto, tables
  <1>14. ASSUME NEW c \in Call, LoseConnection(c)
       PROVE  OneCall(c) \/ Abort
    <2>1. CallOK(c)
      BY DEF CallInv
    <2>2. QED
      BY <1>14, <2>1, BanAssumption
      DEF OneCall, CallOK, PlaceOK, TypeOK, Alive, Label, StatusCode, Writing,
          Asking, Barring, Call, LoseConnection, InBanUser, Halted, tables
  <1>15. ASSUME Tick
       PROVE  /\ UNCHANGED <<tables, pc, req, date, cancelled, status, before>>
              /\ clock' \in Start..MaxClock
    BY <1>15, BanAssumption DEF Tick, TypeOK
  <1>16. QED
    BY <1>1, <1>2, <1>3, <1>4, <1>5, <1>6, <1>7, <1>8, <1>9,
      <1>10, <1>11, <1>12, <1>13, <1>14, <1>15
    DEF Next, vars, tables, Intercept, BanUser, BarPeerTwice, Call, TypeOK

\* A write adds the row of its call, which is then done, and lets no user
\* lose the last one.
LEMMA WriteFacts ==
  ASSUME IInv, NEW c \in Call, ExtendBan(c) \/ AddBan(c)
  PROVE  /\ NewBan(c) \in BanRow
         /\ NewBan(c).by = c
         /\ NewBan(c).user = req[c].uname
         /\ c \in Banning
         /\ pc[c] \in {"extending", "adding"}
         /\ pc'[c] = "done"
         /\ NewBan(c) \in bans'
         /\ bans' \subseteq bans \cup {NewBan(c)}
         /\ \A b \in bans : b.user # req[c].uname => b \in bans'
  <1>1. pc[c] \in {"extending", "adding"} /\ Fits(Expiry(c))
    BY DEF ExtendBan, AddBan
  <1>2. TypeOK /\ CallInv
    BY DEF IInv
  <1>3. pc'[c] = "done"
    BY <1>2 DEF ExtendBan, AddBan, Return, Goto, TypeOK
  <1>4. /\ NewBan(c) \in bans'
        /\ bans' \subseteq bans \cup {NewBan(c)}
        /\ \A b \in bans : b.user # req[c].uname => b \in bans'
    BY DEF ExtendBan, AddBan
  <1>5. QED
    BY <1>1, <1>2, <1>3, <1>4, NewBanFacts

\* Whoever is banned stays banned.
LEMMA BannedKept ==
  ASSUME IInv, NEW c \in Call, OneCall(c), NEW b \in bans
  PROVE  \E r \in bans' : r.user = b.user
  <1>1. CASE bans' = bans
    BY <1>1
  <1>2. CASE ExtendBan(c) \/ AddBan(c)
    BY <1>2, WriteFacts
  <1>3. QED
    BY <1>1, <1>2 DEF OneCall

-----------------------------------------------------------------------------
(* The invariant, by kind of step *)

LEMMA AbortStep ==
  ASSUME IInv, Abort
  PROVE  IInv'
  <1>1. TypeOK /\ CallInv
    BY DEF IInv
  <1>2. UNCHANGED <<bans, banned_ips, clock, req, date, cancelled, before>>
    BY DEF Abort, tables
  <1>3. ASSUME NEW c \in Call
        PROVE  /\ pc'[c] \in Label /\ status'[c] \in StatusCode
               /\ pc'[c] = pc[c] \/ pc'[c] = "done"
               /\ pc[c] = "done" => pc'[c] = "done"
               /\ status'[c] = "OK" => status[c] = "OK"
               /\ PlaceOK(c, pc'[c], status'[c])
    <2>1. CallOK(c)
      BY <1>1 DEF CallInv
    <2>2. QED
      BY <2>1, <1>1 DEF Abort, Running, Alive, Halted, Label, StatusCode,
                        TypeOK, CallOK, PlaceOK, Writing, Asking
  <1>4. TypeOK'
    <2>1. pc' \in [Call -> Label] /\ status' \in [Call -> StatusCode]
      BY <1>3 DEF Abort
    <2>2. QED
      BY <2>1, <1>1, <1>2 DEF TypeOK
  <1>5. CallInv'
    BY <1>2, <1>3 DEF CallInv, CallOK, PlaceOK
  <1>6. BarInv'
    BY <1>2, <1>3 DEF IInv, BarInv, Barring, Banned
  <1>7. RowInv' /\ BeforeInv'
    <2>1. \A b \in BanRow : b.by \in Call
      BY DEF BanRow, Call
    <2>2. bans \subseteq BanRow /\ \A c \in Call : before[c] \subseteq BanRow
      BY <1>1 DEF TypeOK
    <2>3. RowInv'
      BY <1>2, <1>3, <2>1, <2>2 DEF IInv, RowInv
    <2>4. BeforeInv'
      BY <1>2, <1>3, <2>1, <2>2 DEF IInv, BeforeInv, Banned
    <2>5. QED
      BY <2>3, <2>4
  <1>8. BansByAdmins' /\ LatestBanHolds' /\ CancelNeedsBan'
    BY <1>2, <1>3 DEF IInv, BansByAdmins, LatestBanHolds, CancelNeedsBan, Call
  <1>9. QED
    BY <1>4, <1>5, <1>6, <1>7, <1>8 DEF IInv

LEMMA ArriveStep ==
  ASSUME IInv, NEW c \in Call, NEW r \in BanRequests \cup ServeRequests,
         Arrive(c, r)
  PROVE  IInv'
  <1>1. TypeOK /\ CallInv /\ CallOK(c)
    BY DEF IInv, CallInv
  <1>2. /\ UNCHANGED <<bans, banned_ips, clock, date, cancelled, status>>
        /\ pc[c] = "idle"
        /\ status[c] = "none"
        /\ pc' = [pc EXCEPT ![c] = "checkingPeer"]
        /\ req' = [req EXCEPT ![c] = r]
        /\ before' = [before EXCEPT ![c] = bans]
    <2>1. status[c] = "none"
      BY <1>1 DEF Arrive, CallOK, PlaceOK, Writing
    <2>2. QED
      BY <2>1 DEF Arrive, Goto, Alive, tables
  <1>3. r \in Request /\ r.uname \in Name /\ r.peer \in Peer
    BY RequestFacts
  <1>4. TypeOK'
    BY <1>1, <1>2, <1>3 DEF TypeOK, Label
  <1>5. CallInv'
    BY <1>1, <1>2, <1>3 DEF CallInv, CallOK, PlaceOK, TypeOK, Asking, Writing
  <1>6. BarInv'
    BY <1>1, <1>2 DEF IInv, BarInv, Barring, Banned, TypeOK
  <1>7. \A b \in BanRow : b.by \in Call
    BY DEF BanRow, Call
  <1>8. bans \subseteq BanRow /\ \A d \in Call : before[d] \subseteq BanRow
    BY <1>1 DEF TypeOK
  <1>9. RowInv'
    BY <1>1, <1>2, <1>7, <1>8 DEF IInv, RowInv, TypeOK
  <1>10. ASSUME NEW d \in Call, NEW b \in before'[d]
         PROVE  /\ pc'[b.by] = "done"
                /\ Banned(b.user)'
                /\ pc'[d] = "adding" => b.user # req'[d].uname
    <2>1. CASE d = c
      <3>1. b \in bans /\ pc'[d] = "checkingPeer"
        BY <2>1, <1>10, <1>1, <1>2 DEF TypeOK
      <3>2. pc'[b.by] = "done"
        BY <3>1, <1>9, <1>2 DEF RowInv
      <3>3. QED
        BY <3>1, <3>2, <1>2 DEF Banned
    <2>2. CASE d # c
      <3>1. b \in before[d]
        BY <2>2, <1>10, <1>1, <1>2 DEF TypeOK
      <3>2. /\ pc[b.by] = "done"
            /\ Banned(b.user)
            /\ pc[d] = "adding" => b.user # req[d].uname
        BY <3>1 DEF IInv, BeforeInv
      <3>3. b.by \in Call
        BY <3>1, <1>7, <1>8
      <3>4. QED
        BY <2>2, <3>2, <3>3, <1>1, <1>2 DEF Banned, TypeOK
    <2>3. QED
      BY <2>1, <2>2
  <1>11. BeforeInv'
    BY <1>10 DEF BeforeInv
  <1>12. BansByAdmins'
    <2>1. \A b \in bans : b.by # c
      BY <1>2 DEF IInv, RowInv
    <2>2. QED
      BY <2>1, <1>1, <1>2, <1>7, <1>8 DEF IInv, BansByAdmins, TypeOK
  <1>13. LatestBanHolds'
    BY <1>1, <1>2 DEF IInv, LatestBanHolds, TypeOK, Call
  <1>14. CancelNeedsBan'
    BY <1>2 DEF IInv, CancelNeedsBan
  <1>15. QED
    BY <1>4, <1>5, <1>6, <1>9, <1>11, <1>12, <1>13, <1>14 DEF IInv

LEMMA CallStep ==
  ASSUME IInv, NEW c \in Call, OneCall(c)
  PROVE  IInv'
  <1>1. TypeOK /\ CallInv /\ CallOK(c)
    BY DEF IInv, CallInv
  <1>2. /\ UNCHANGED <<clock, req, before>>
        /\ pc[c] \notin {"idle", "done"}
        /\ \A d \in Call : d # c => pc'[d] = pc[d] /\ status'[d] = status[d]
    BY <1>1 DEF OneCall, TypeOK
  <1>3. \/ /\ bans' = bans
           /\ c \in Banning /\ status'[c] = "OK" => status[c] = "OK"
           /\ pc'[c] = "adding" => pc[c] = "adding" \/ ~Banned(req[c].uname)
        \/ ExtendBan(c) \/ AddBan(c)
    BY DEF OneCall
  <1>4. /\ \A b \in BanRow : b.by \in Call
        /\ bans \subseteq BanRow
        /\ \A d \in Call : before[d] \subseteq BanRow
    BY <1>1 DEF BanRow, Call, TypeOK
  <1>5. bans' \subseteq BanRow
    BY <1>3, <1>4, WriteFacts
  <1>6. TypeOK'
    <2>1. pc' \in [Call -> Label] /\ status' \in [Call -> StatusCode]
      BY <1>1 DEF OneCall, TypeOK
    <2>2. QED
      BY <2>1, <1>1, <1>2, <1>5 DEF OneCall, TypeOK
  <1>7. CallInv'
    <2>1. ASSUME NEW d \in Call
          PROVE  PlaceOK(d, pc'[d], status'[d])
      BY <1>1, <1>2 DEF OneCall, CallInv, CallOK
    <2>2. QED
      BY <2>1, <1>2 DEF CallInv, CallOK, PlaceOK
  <1>8. ASSUME NEW b \in bans
        PROVE  Banned(b.user)'
    BY BannedKept DEF Banned
  <1>9. \A u : Banned(u) => Banned(u)'
    BY <1>8 DEF Banned
  <1>10. BarInv'
    BY <1>2, <1>9 DEF IInv, BarInv, OneCall
  <1>11. RowInv'
    <2>1. \A b \in bans : pc[b.by] = "done" /\ pc'[b.by] = "done"
      BY <1>2, <1>4 DEF IInv, RowInv
    <2>2. CASE bans' = bans
      BY <2>1, <2>2 DEF RowInv
    <2>3. CASE ExtendBan(c) \/ AddBan(c)
      BY <2>1, <2>3, WriteFacts DEF RowInv
    <2>4. QED
      BY <2>2, <2>3, <1>3
  <1>12. ASSUME NEW d \in Call, NEW b \in before[d]
         PROVE  /\ pc[b.by] = "done"
                /\ pc'[b.by] = "done"
                /\ b.by # c
                /\ Banned(b.user)'
                /\ pc'[d] = "adding" => b.user # req[d].uname
    <2>1. /\ pc[b.by] = "done"
          /\ Banned(b.user)
          /\ pc[d] = "adding" => b.user # req[d].uname
      BY DEF IInv, BeforeInv
    <2>2. b.by # c /\ pc'[b.by] = "done"
      BY <2>1, <1>2, <1>4
    <2>3. ASSUME pc'[d] = "adding"
          PROVE  b.user # req[d].uname
      <3>1. CASE d # c
        BY <3>1, <2>1, <2>3, <1>2
      <3>2. CASE d = c
        <4>1. ~(ExtendBan(c) \/ AddBan(c))
          BY <2>3, <3>2, WriteFacts
        <4>2. QED
          BY <4>1, <2>1, <2>3, <3>2, <1>3
      <3>3. QED
        BY <3>1, <3>2
    <2>4. QED
      BY <2>1, <2>2, <2>3, <1>9
  <1>13. BeforeInv'
    BY <1>12, <1>2 DEF BeforeInv
  <1>14. BansByAdmins'
    <2>1. CASE bans' = bans
      BY <2>1, <1>2 DEF IInv, BansByAdmins
    <2>2. CASE ExtendBan(c) \/ AddBan(c)
      <3>1. /\ req[c].genuine
            /\ req[c].caller \in Admin
        BY <2>2, <1>1, WriteFacts DEF CallOK, PlaceOK, Asking
      <3>2. QED
        BY <3>1, <2>2, <1>2, WriteFacts DEF IInv, BansByAdmins
    <2>3. QED
      BY <2>1, <2>2, <1>3
  <1>15. ASSUME NEW d \in Banning, status'[d] = "OK"
         PROVE  /\ \E b \in bans' \ before[d] : b.user = req[d].uname
                /\ \A b \in before[d] : b.user = req[d].uname => b \notin bans'
    <2>1. d \in Call
      BY DEF Call
    <2>2. CASE bans' = bans
      <3>1. status[d] = "OK"
        <4>1. ASSUME ExtendBan(c) \/ AddBan(c)
              PROVE  FALSE
          <5>1. NewBan(c) \in bans /\ NewBan(c).by = c /\ c \in Call
            BY <4>1, <2>2, WriteFacts
          <5>2. pc[c] = "done"
            BY <5>1 DEF IInv, RowInv
          <5>3. QED
            BY <5>2, <1>2
        <4>2. QED
          BY <4>1, <1>2, <1>3, <1>15, <2>1
      <3>2. QED
        BY <3>1, <2>2 DEF IInv, LatestBanHolds
    <2>3. CASE ExtendBan(c) \/ AddBan(c)
      <3>1. NewBan(c) \notin before[d]
        BY <2>1, <2>3, <1>12, WriteFacts
      <3>2. CASE d = c
        <4>1. ASSUME NEW b \in before[c], b.user = req[c].uname
              PROVE  b \notin bans'
          <5>1. ~(pc[c] = "adding")
            BY <4>1 DEF IInv, BeforeInv
          <5>2. ExtendBan(c)
            BY <5>1, <2>3 DEF AddBan
          <5>3. bans' = {x \in bans : x.user # req[c].uname} \cup {NewBan(c)}
            BY <5>2 DEF ExtendBan
          <5>4. QED
            BY <5>3, <4>1, <3>1, <3>2
        <4>2. QED
          BY <4>1, <3>1, <3>2, <2>3, WriteFacts
      <3>3. CASE d # c
        <4>1. status[d] = "OK"
          BY <3>3, <2>1, <1>2, <1>15
        <4>2. /\ \E b \in bans \ before[d] : b.user = req[d].uname
              /\ \A b \in before[d] : b.user = req[d].uname => b \notin bans
          BY <4>1 DEF IInv, LatestBanHolds
        <4>3. QED
          BY <4>2, <3>1, <2>3, WriteFacts
      <3>4. QED
        BY <3>2, <3>3
    <2>4. QED
      BY <2>2, <2>3, <1>3
  <1>16. LatestBanHolds'
    BY <1>15, <1>2 DEF LatestBanHolds
  <1>17. CancelNeedsBan'
    <2>1. ASSUME banned_ips' # {} \/ \E d \in Call : cancelled'[d]
          PROVE  Banned(EmptyName)
      <3>1. CASE pc[c] \in Barring
        BY <3>1 DEF IInv, BarInv
      <3>2. CASE pc[c] \notin Barring
        BY <3>2, <2>1 DEF OneCall, IInv, CancelNeedsBan, Banned
      <3>3. QED
        BY <3>1, <3>2
    <2>2. QED
      BY <2>1, <1>9 DEF CancelNeedsBan, Banned
  <1>18. QED
    BY <1>6, <1>7, <1>10, <1>11, <1>13, <1>14, <1>16, <1>17 DEF IInv

LEMMA QuietStep ==
  ASSUME IInv, clock' \in Start..MaxClock,
         UNCHANGED <<tables, pc, req, date, cancelled, status, before>>
  PROVE  IInv'
  BY DEF IInv, TypeOK, CallInv, CallOK, PlaceOK, BarInv, RowInv, BeforeInv,
         Banned, BansByAdmins, LatestBanHolds, CancelNeedsBan, tables

LEMMA Invariance == Spec => []IInv
  <1>1. IInv /\ [Next]_vars => IInv'
    <2> SUFFICES ASSUME IInv, [Next]_vars PROVE IInv'
      OBVIOUS
    <2>1. TypeOK /\ CallInv
      BY DEF IInv
    <2>2. QED
      BY <2>1, StepCases, QuietStep, AbortStep, ArriveStep, CallStep
  <1>2. QED
    BY InitIInv, <1>1, PTL DEF Spec

\* DBPostgres.cpp:55-63, 151-165: every variable stays in its set.
THEOREM TypeCorrect == Spec => []TypeOK
  <1>1. IInv => TypeOK
    BY DEF IInv
  <1>2. QED
    BY Invariance, <1>1, PTL

\* WrongthinkServiceImpl.cpp:47-54: only an administrator's ban is written,
\* for the user it named.
THEOREM OnlyAdminsBan == Spec => []BansByAdmins
  <1>1. IInv => BansByAdmins
    BY DEF IInv
  <1>2. QED
    BY Invariance, <1>1, PTL

\* DBPostgres.cpp:158-165: a ban answered with OK replaces all the bans its
\* call found.
THEOREM LatestHolds == Spec => []LatestBanHolds
  <1>1. IInv => LatestBanHolds
    BY DEF IInv
  <1>2. QED
    BY Invariance, <1>1, PTL

\* DBPostgres.cpp:120-149: without a ban of the user "", nobody is cancelled
\* and no peer barred.
THEOREM NoCancelWithoutBan == Spec => []CancelNeedsBan
  <1>1. IInv => CancelNeedsBan
    BY DEF IInv
  <1>2. QED
    BY Invariance, <1>1, PTL

=============================================================================
