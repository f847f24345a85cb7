----------------------- MODULE DirectoryServiceProofs -----------------------
(***************************************************************************)
(* Proofs about DirectoryService for any number of calls, names, ids and   *)
(* crashes.  Every step is described once, by what it may change and which *)
(* rows it may add (Frame); the invariants follow from that description.   *)
(***************************************************************************)
EXTENDS DirectoryService, TLAPS

\* What the place of a call says about its kind and its data.
CallOK(c) ==
  /\ pc[c] = "counting" => c \in Account
  /\ pc[c] \in {"inserting", "committing", "selecting", "orphan"} => c \in Maker
  /\ pc[c] \in {"querying", "writing"} => c \in Lister
  /\ pc[c] \in {"committing", "orphan"} => drawn[c] \in 1..serial[TableOf(c)]
  /\ status[c] = "OK" => pc[c] = "done"

CallInv == \A c \in Call : CallOK(c)

\* A row's call is past its insert, and names are unique.
RowInv ==
  \A t \in Table : \A r \in rows[t] :
    /\ pc[r.call] \in {"selecting", "done"}
    /\ r.id = drawn[r.call]
    /\ \A s \in rows[t] : req[s.call].name = req[r.call].name => s = r

OwnRow(c) == [id |-> drawn[c], call |-> c]

\* A call that is looking for its row has one.
SelectInv ==
  \A c \in Maker : pc[c] = "selecting" => OwnRow(c) \in rows[TableOf(c)]

\* A call that does not make an admin has seen one.
CountInv ==
  \A c \in Account : ~admin[c] =>
    /\ pc[c] = "inserting" => \E a \in rows["users"] : admin[a.call]
    /\ pc[c] \in {"committing", "orphan"} =>
         \E a \in rows["users"] : admin[a.call] /\ a.id < drawn[c]

\* Communities and channels refer to users that exist.
RefInv ==
  \A t \in Table \ {"users"} : \A r \in rows[t] :
    req[r.call].admin \in Ids("users")

Written(c, r) == \E i \in DOMAIN sent[c] : sent[c][i].row = r

\* A listing under way, or ended well, has written or will write each row it
\* owes, and writes none twice.
ListOK(c) ==
  /\ acked[c] \subseteq rows[TableOf(c)]
  /\ pc[c] \in {"idle", "querying"} => sent[c] = <<>>
  /\ status[c] = "OK" => pending[c] = {}
  /\ pc[c] = "writing" \/ status[c] = "OK" =>
       /\ \A r \in acked[c] : InScope(c, r) => r \in pending[c] \/ Written(c, r)
       /\ \A r \in pending[c] : ~Written(c, r)
       /\ \A i, j \in DOMAIN sent[c] : sent[c][i].row = sent[c][j].row => i = j

ListInv == \A c \in Lister : ListOK(c)

\* The inductive invariant.
IInv ==
  /\ TypeOK
  /\ CallInv
  /\ RowInv
  /\ SelectInv
  /\ CountInv
  /\ RefInv
  /\ ListInv
  /\ AnsweredOwnRow
  /\ FirstUserIsAdmin

-----------------------------------------------------------------------------
(* Initial states and types *)

LEMMA EmptyFacts ==
  ASSUME NEW S
  PROVE  <<>> \in Seq(S) /\ Len(<<>>) = 0 /\ DOMAIN <<>> = {}
  OBVIOUS

LEMMA AppendFacts ==
  ASSUME NEW S, NEW q \in Seq(S), NEW e \in S
  PROVE  /\ Append(q, e) \in Seq(S)
         /\ Len(q) \in Nat
         /\ DOMAIN q = 1..Len(q)
         /\ DOMAIN Append(q, e) = 1..(Len(q) + 1)
         /\ Append(q, e)[Len(q) + 1] = e
         /\ \A i \in 1..Len(q) : Append(q, e)[i] = q[i]
  OBVIOUS

LEMMA RequestFacts ==
  /\ 0 \in 0..MaxId
  /\ \A n \in Name \cup {NoName}, uid \in 0..MaxId, cid \in 0..MaxId :
       \A b \in BOOLEAN : Ask(n, uid, cid, b) \in Request
  BY DirectoryAssumption DEF Ask, Request

LEMMA InitIInv == Init => IInv
  <1> SUFFICES ASSUME Init PROVE IInv
    OBVIOUS
  <1>1. Ask(NoName, 0, 0, FALSE) \in Request
    BY RequestFacts
  <1>2. TypeOK
    <2>1. /\ req \in [Call -> Request]
          /\ sent \in [Call -> Seq([row : Row, anonymous : BOOLEAN])]
      BY <1>1, EmptyFacts DEF Init
    <2>2. /\ rows \in [Table -> SUBSET Row]
          /\ \A t \in Table : rows[t] = {}
          /\ serial \in [Table -> Nat]
      BY DEF Init
    <2>3. /\ crashes \in 0..MaxCrashes
          /\ drawn \in [Call -> Nat]
          /\ answer \in [Call -> Nat]
      BY DirectoryAssumption DEF Init
    <2>4. QED
      BY <2>1, <2>2, <2>3 DEF Init, TypeOK, Label, StatusCode
  <1>3. CallInv /\ SelectInv /\ CountInv /\ ListInv
    BY DEF Init, CallInv, CallOK, SelectInv, CountInv, ListInv, ListOK, Call,
        Maker, Account, Lister, Table
  <1>4. RowInv /\ RefInv /\ AnsweredOwnRow /\ FirstUserIsAdmin
    BY DEF Init, RowInv, RefInv, AnsweredOwnRow, FirstUserIsAdmin, Call, Table
  <1>5. QED
    BY <1>2, <1>3, <1>4 DEF IInv

LEMMA TableFacts ==
  \A c \in Call : TableOf(c) \in Table
  BY DEF TableOf, Table

\* Types, one action at a time.
LEMMA StepTypeOK == TypeOK /\ CallInv /\ [Next]_vars => TypeOK'
  <1> SUFFICES ASSUME TypeOK, CallInv, [Next]_vars PROVE TypeOK'
    OBVIOUS
  <1>1. TypeOK /\ CallInv
    OBVIOUS
  <1>2. ASSUME NEW c \in Call, NEW n \in Name, NEW b \in Flag,
              StartCreateUser(c, n, b)
       PROVE  TypeOK'
    <2>1. req' \in [Call -> Request]
      BY <1>2, <1>1, RequestFacts, DirectoryAssumption
      DEF StartCreateUser, Begin, TypeOK
    <2>2. admin' \in [Call -> BOOLEAN]
      BY <1>2, <1>1, DirectoryAssumption DEF StartCreateUser, TypeOK, makerVars
    <2>3. QED
      BY <2>1, <2>2, <1>2, <1>1 DEF StartCreateUser, Begin, Goto, Label,
          TypeOK, dbVars, processVars, makerVars, listVars
  <1>3. ASSUME NEW c \in Call, NEW n \in Name,
              StartGenerateUser(c, n)
       PROVE  TypeOK'
    <2>1. req' \in [Call -> Request]
      BY <1>3, <1>1, RequestFacts, DirectoryAssumption
      DEF StartGenerateUser, Begin, TypeOK
    <2>2. admin' \in [Call -> BOOLEAN]
      BY <1>3, <1>1, DirectoryAssumption DEF StartGenerateUser, TypeOK, makerVars
    <2>3. QED
      BY <2>1, <2>2, <1>3, <1>1 DEF StartGenerateUser, Begin, Goto, Label,
          TypeOK, dbVars, processVars, makerVars, listVars
  <1>4. ASSUME NEW c \in Call, NEW n \in Name, NEW b \in Flag, NEW uid \in 0..MaxId,
              StartCreateCommunity(c, n, uid, b)
       PROVE  TypeOK'
    <2>1. req' \in [Call -> Request]
      BY <1>4, <1>1, RequestFacts, DirectoryAssumption
      DEF StartCreateCommunity, Begin, TypeOK
    <2>2. admin' \in [Call -> BOOLEAN]
      BY <1>4, <1>1, DirectoryAssumption DEF StartCreateCommunity, TypeOK, makerVars
    <2>3. QED
      BY <2>1, <2>2, <1>4, <1>1 DEF StartCreateCommunity, Begin, Goto, Label,
          TypeOK, dbVars, processVars, makerVars, listVars
  <1>5. ASSUME NEW c \in Call, NEW n \in Name, NEW b \in Flag, NEW uid \in 0..MaxId,
                         NEW cid \in 0..MaxId,
              StartCreateChannel(c, n, cid, uid, b)
       PROVE  TypeOK'
    <2>1. req' \in [Call -> Request]
      BY <1>5, <1>1, RequestFacts, DirectoryAssumption
      DEF StartCreateChannel, Begin, TypeOK
    <2>2. admin' \in [Call -> BOOLEAN]
      BY <1>5, <1>1, DirectoryAssumption DEF StartCreateChannel, TypeOK, makerVars
    <2>3. QED
      BY <2>1, <2>2, <1>5, <1>1 DEF StartCreateChannel, Begin, Goto, Label,
          TypeOK, dbVars, processVars, makerVars, listVars
  <1>6. ASSUME NEW c \in Call, NEW cid \in 0..MaxId,
              StartList(c, cid)
       PROVE  TypeOK'
    <2>1. acked' \in [Call -> SUBSET Row]
      BY <1>6, <1>1, TableFacts DEF StartList, Acknowledged, TypeOK
    <2>2. req' \in [Call -> Request]
      BY <1>6, <1>1, RequestFacts
      DEF StartList, Begin, TypeOK
    <2>3. QED
      BY <2>1, <2>2, <1>6, <1>1 DEF StartList, Begin, Goto, Label, TypeOK,
          dbVars, processVars, makerVars
  <1>7. ASSUME NEW c \in Call,
              CountAdmins(c)
       PROVE  TypeOK'
    BY <1>7, <1>1
    DEF CountAdmins, Goto, Label, StatusCode, TypeOK, dbVars, processVars,
        makerVars, listVars
  <1>8. ASSUME NEW c \in Call,
              DrawId(c)
       PROVE  TypeOK'
    <2>1. TableOf(c) \in Table
      BY TableFacts
    <2>2. serial' \in [Table -> Nat] /\ drawn' \in [Call -> Nat]
      BY <1>8, <1>1, <2>1 DEF DrawId, TypeOK
    <2>3. \A t \in Table : \A r \in rows'[t] :
            TableOf(r.call) = t /\ r.id <= serial'[t]
      BY <1>8, <1>1, <2>1 DEF DrawId, TypeOK, Row
    <2>4. QED
      BY <2>2, <2>3, <1>8, <1>1 DEF DrawId, Goto, Label, TypeOK, processVars,
          listVars
  <1>9. ASSUME NEW c \in Call,
              CommitRow(c)
       PROVE  TypeOK'
    <2>1. rows' \in [Table -> SUBSET Row]
      BY <1>9, <1>1, TableFacts DEF CommitRow, Insert, CallInv, CallOK, TypeOK,
          Row, Maker
    <2>2. \A t \in Table : \A r \in rows'[t] :
            TableOf(r.call) = t /\ r.id <= serial'[t]
      BY <1>9, <1>1, TableFacts DEF CommitRow, Insert, CallInv, CallOK, TypeOK
    <2>3. QED
      BY <2>1, <2>2, <1>9, <1>1 DEF CommitRow, Goto, Label, StatusCode, TypeOK,
          dbVars, processVars, makerVars, listVars
  <1>10. ASSUME NEW c \in Call,
              RejectRow(c)
       PROVE  TypeOK'
    BY <1>10, <1>1
    DEF RejectRow, Return, Goto, Label, StatusCode, TypeOK, dbVars,
        processVars, makerVars, listVars
  <1>11. ASSUME NEW c \in Call,
              SelectId(c)
       PROVE  TypeOK'
    <2>1. PICK r \in rows[TableOf(c)] : answer' = [answer EXCEPT ![c] = r.id]
      BY <1>11 DEF SelectId
    <2>2. r.id \in Nat
      BY <1>1, <2>1, TableFacts DEF TypeOK, Row
    <2>3. QED
      BY <2>1, <2>2, <1>11, <1>1 DEF SelectId, Return, Goto, Label, StatusCode,
          TypeOK, dbVars, processVars, listVars
  <1>12. ASSUME NEW c \in Call,
              QueryRows(c)
       PROVE  TypeOK'
    <2>1. pending' \in [Call -> SUBSET Row]
      BY <1>12, <1>1, TableFacts DEF QueryRows, TypeOK
    <2>2. QED
      BY <2>1, <1>12, <1>1 DEF QueryRows, Goto, Label, TypeOK, dbVars,
          processVars, makerVars
  <1>13. ASSUME NEW c \in Call,
              WriteEntry(c)
       PROVE  TypeOK'
    <2>1. PICK r \in pending[c] :
            /\ pending' = [pending EXCEPT ![c] = @ \ {r}]
            /\ sent' = [sent EXCEPT ![c] = Append(@, Entry(c, r))]
      BY <1>13 DEF WriteEntry
    <2>2. Entry(c, r) \in [row : Row, anonymous : BOOLEAN]
      BY <1>1 DEF Entry, TypeOK
    <2> DEFINE Sent == [row : Row, anonymous : BOOLEAN]
    <2>3. Append(sent[c], Entry(c, r)) \in Seq(Sent)
      <3>1. sent[c] \in Seq(Sent) /\ Entry(c, r) \in Sent
        BY <2>2, <1>1 DEF TypeOK
      <3> HIDE DEF Sent
      <3>2. QED
        BY <3>1, AppendFacts
    <2>4. pending' \in [Call -> SUBSET Row]
      BY <2>1, <1>1 DEF TypeOK
    <2>5. sent' \in [Call -> Seq([row : Row, anonymous : BOOLEAN])]
      BY <2>1, <2>3, <1>1 DEF TypeOK
    <2>6. QED
      BY <2>4, <2>5, <1>13, <1>1 DEF WriteEntry, TypeOK, dbVars, processVars,
          makerVars
  <1>14. ASSUME NEW c \in Call,
              EndList(c)
       PROVE  TypeOK'
    BY <1>14, <1>1
    DEF EndList, Return, Goto, Label, StatusCode, TypeOK, dbVars,
        processVars, makerVars, listVars
  <1>15. ASSUME NEW c \in Call,
              LoseConnection(c)
       PROVE  TypeOK'
    BY <1>15, <1>1
    DEF LoseConnection, Goto, Label, StatusCode, TypeOK, dbVars, processVars,
        makerVars, listVars
  <1>16. ASSUME NEW c \in Call,
              OrphanCommit(c)
       PROVE  TypeOK'
    <2>1. rows' \in [Table -> SUBSET Row]
      BY <1>16, <1>1, TableFacts DEF OrphanCommit, Insert, CallInv, CallOK, TypeOK,
          Row, Maker
    <2>2. \A t \in Table : \A r \in rows'[t] :
            TableOf(r.call) = t /\ r.id <= serial'[t]
      BY <1>16, <1>1, TableFacts DEF OrphanCommit, Insert, CallInv, CallOK, TypeOK
    <2>3. QED
      BY <2>1, <2>2, <1>16, <1>1 DEF OrphanCommit, Goto, Label, StatusCode, TypeOK,
          dbVars, processVars, makerVars, listVars
  <1>17. ASSUME Crash
       PROVE  TypeOK'
    <2>1. pc' \in [Call -> Label]
      BY <1>17, <1>1 DEF Crash, Running, Label, TypeOK
    <2>2. status' \in [Call -> StatusCode]
      BY <1>17, <1>1 DEF Crash, StatusCode, TypeOK
    <2>3. up' \in BOOLEAN /\ crashes' \in 0..MaxCrashes
      <3>1. crashes \in 0..MaxCrashes
        BY <1>1 DEF TypeOK
      <3>2. up' = FALSE /\ crashes < MaxCrashes /\ crashes' = crashes + 1
        BY <1>17 DEF Crash
      <3>3. QED
        <4>1. up' \in BOOLEAN
          BY <3>2
        <4>2. MaxCrashes \in Nat
          BY DirectoryAssumption
        <4>3. crashes' \in 0..MaxCrashes
          BY <3>1, <3>2, <4>2
        <4>4. QED
          BY <4>1, <4>3
    <2>4. QED
      BY <2>1, <2>2, <2>3, <1>17, <1>1
      DEF Crash, TypeOK, dbVars, makerVars, listVars
  <1>18. ASSUME Restart
       PROVE  TypeOK'
    BY <1>18, <1>1
    DEF Restart, Label, StatusCode, TypeOK, dbVars, processVars, makerVars,
        listVars
  <1>19. ASSUME UNCHANGED vars
       PROVE  TypeOK'
    BY <1>19, <1>1
    DEF vars, Label, StatusCode, TypeOK, dbVars, processVars, makerVars,
        listVars
  <1>20. QED
    BY <1>1, <1>2, <1>3, <1>4, <1>5, <1>6, <1>7, <1>8, <1>9, <1>10, <1>11,
       <1>12, <1>13, <1>14, <1>15, <1>16, <1>17, <1>18, <1>19
    DEF Next, ClientStep, MakeStep, ListStep

-----------------------------------------------------------------------------
(* What a step may do *)

\* What no step takes back.
Kept ==
  /\ \A t \in Table : rows[t] \subseteq rows'[t]
  /\ \A t \in Table : serial[t] <= serial'[t]
  /\ \A c \in Call : pc[c] # "idle" => req'[c] = req[c]
  /\ \A c \in Call : pc[c] \notin {"idle", "counting"} => admin'[c] = admin[c]
  /\ \A c \in Call : pc[c] \notin {"idle", "counting", "inserting"} =>
       drawn'[c] = drawn[c]
  /\ \A c \in Call : pc[c] \in {"selecting", "done"} =>
       pc'[c] \in {"selecting", "done"}
  /\ \A c \in Call : pc[c] = "done" =>
       pc'[c] = "done" /\ status'[c] = status[c] /\ answer'[c] = answer[c]

\* A step inserts at most one row, that of a call at its insert.
Inserts(c) ==
  /\ pc[c] \in {"committing", "orphan"}
  /\ MayInsert(c)
  /\ pc'[c] \in {"selecting", "done"}
  /\ rows' = [rows EXCEPT ![TableOf(c)] = @ \cup {OwnRow(c)}]
  /\ UNCHANGED <<req, admin, drawn>>

Grows == rows' = rows \/ \E c \in Call : Inserts(c)

\* How a call can have come to a place.
Arrives(c) ==
  /\ pc'[c] = "selecting" =>
       \/ pc[c] = "selecting"
       \/ OwnRow(c) \in rows'[TableOf(c)] /\ drawn'[c] = drawn[c]
  /\ pc'[c] = "inserting" /\ c \in Account /\ ~admin'[c] =>
       \/ pc[c] = "inserting"
       \/ \E a \in rows["users"] : admin[a.call]
  /\ pc'[c] \in {"committing", "orphan"} =>
       \/ pc[c] \in {"committing", "orphan"}
       \/ pc[c] = "inserting" /\ drawn'[c] = serial[TableOf(c)] + 1
  /\ c \in Maker /\ status'[c] = "OK" =>
       \/ status[c] = "OK"
       \/ /\ pc[c] = "selecting"
          /\ \E r \in rows[TableOf(c)] :
               req[r.call].name = req[c].name /\ answer'[c] = r.id

Frame == Kept /\ Grows /\ \A c \in Call : Arrives(c)

LEMMA StepFrame == TypeOK /\ CallInv /\ [Next]_vars => Frame
  <1> SUFFICES ASSUME TypeOK, CallInv, [Next]_vars PROVE Frame
    OBVIOUS
  <1>1. /\ rows \in [Table -> SUBSET Row]
        /\ serial \in [Table -> Nat]
        /\ pc \in [Call -> Label]
        /\ status \in [Call -> StatusCode]
        /\ req \in [Call -> Request]
        /\ admin \in [Call -> BOOLEAN]
        /\ drawn \in [Call -> Nat]
        /\ answer \in [Call -> Nat]
        /\ \A c \in Call : CallOK(c)
        /\ Maker \cap Lister = {}
        /\ Account \cap (CommunityCall \cup ChannelCall) = {}
        /\ \A n \in Nat : n <= n /\ n <= n + 1
    BY DirectoryAssumption DEF TypeOK, CallInv
  <1>2. ASSUME NEW c \in Call, NEW n \in Name, NEW b \in Flag,
              StartCreateUser(c, n, b)
       PROVE  Frame
    <2>1. Kept
      BY <1>2, <1>1, TableFacts
      DEF StartCreateUser, Goto, Begin, dbVars, processVars, makerVars,
          listVars, Kept
    <2>2. Grows
      BY <1>2, <1>1, TableFacts
      DEF StartCreateUser, Goto, Begin, dbVars, processVars, makerVars,
          listVars, Grows, Inserts, OwnRow
    <2>3. \A d \in Call : Arrives(d)
      BY <1>2, <1>1, TableFacts
      DEF StartCreateUser, Goto, Begin, dbVars, processVars, makerVars,
          listVars, Arrives, OwnRow, CallInv, CallOK, Maker, Lister
    <2>4. QED
      BY <2>1, <2>2, <2>3 DEF Frame
  <1>3. ASSUME NEW c \in Call, NEW n \in Name,
              StartGenerateUser(c, n)
       PROVE  Frame
    <2>1. Kept
      BY <1>3, <1>1, TableFacts
      DEF StartGenerateUser, Goto, Begin, dbVars, processVars, makerVars,
          listVars, Kept
    <2>2. Grows
      BY <1>3, <1>1, TableFacts
      DEF StartGenerateUser, Goto, Begin, dbVars, processVars, makerVars,
          listVars, Grows, Inserts, OwnRow
    <2>3. \A d \in Call : Arrives(d)
      BY <1>3, <1>1, TableFacts
      DEF StartGenerateUser, Goto, Begin, dbVars, processVars, makerVars,
          listVars, Arrives, OwnRow, CallInv, CallOK, Maker, Lister
    <2>4. QED
      BY <2>1, <2>2, <2>3 DEF Frame
  <1>4. ASSUME NEW c \in Call, NEW n \in Name, NEW b \in Flag, NEW uid \in 0..MaxId,
              StartCreateCommunity(c, n, uid, b)
       PROVE  Frame
    <2>1. Kept
      BY <1>4, <1>1, TableFacts
      DEF StartCreateCommunity, Goto, Begin, dbVars, processVars, makerVars,
          listVars, Kept
    <2>2. Grows
      BY <1>4, <1>1, TableFacts
      DEF StartCreateCommunity, Goto, Begin, dbVars, processVars, makerVars,
          listVars, Grows, Inserts, OwnRow
    <2>3. \A d \in Call : Arrives(d)
      BY <1>4, <1>1, TableFacts
      DEF StartCreateCommunity, Goto, Begin, dbVars, processVars, makerVars,
          listVars, Arrives, OwnRow, CallInv, CallOK, Maker, Lister
    <2>4. QED
      BY <2>1, <2>2, <2>3 DEF Frame
  <1>5. ASSUME NEW c \in Call, NEW n \in Name, NEW b \in Flag, NEW uid \in 0..MaxId,
                         NEW cid \in 0..MaxId,
              StartCreateChannel(c, n, cid, uid, b)
       PROVE  Frame
    <2>1. Kept
      BY <1>5, <1>1, TableFacts
      DEF StartCreateChannel, Goto, Begin, dbVars, processVars, makerVars,
          listVars, Kept
    <2>2. Grows
      BY <1>5, <1>1, TableFacts
      DEF StartCreateChannel, Goto, Begin, dbVars, processVars, makerVars,
          listVars, Grows, Inserts, OwnRow
    <2>3. \A d \in Call : Arrives(d)
      BY <1>5, <1>1, TableFacts
      DEF StartCreateChannel, Goto, Begin, dbVars, processVars, makerVars,
          listVars, Arrives, OwnRow, CallInv, CallOK, Maker, Lister
    <2>4. QED
      BY <2>1, <2>2, <2>3 DEF Frame
  <1>6. ASSUME NEW c \in Call, NEW cid \in 0..MaxId,
              StartList(c, cid)
       PROVE  Frame
    <2>1. Kept
      BY <1>6, <1>1, TableFacts
      DEF StartList, Goto, Begin, dbVars, processVars, makerVars, listVars,
          Kept
    <2>2. Grows
      BY <1>6, <1>1, TableFacts
      DEF StartList, Goto, Begin, dbVars, processVars, makerVars, listVars,
          Grows, Inserts, OwnRow
    <2>3. \A d \in Call : Arrives(d)
      BY <1>6, <1>1, TableFacts
      DEF StartList, Goto, Begin, dbVars, processVars, makerVars, listVars,
          Arrives, OwnRow, CallInv, CallOK, Maker, Lister
    <2>4. QED
      BY <2>1, <2>2, <2>3 DEF Frame
  <1>7. ASSUME NEW c \in Call,
              CountAdmins(c)
       PROVE  Frame
    <2>1. Kept
      BY <1>7, <1>1, TableFacts
      DEF CountAdmins, Goto, dbVars, processVars, makerVars, listVars, Kept
    <2>2. Grows
      BY <1>7, <1>1, TableFacts
      DEF CountAdmins, Goto, dbVars, processVars, makerVars, listVars, Grows,
          Inserts, OwnRow
    <2>3. \A d \in Call : Arrives(d)
      BY <1>7, <1>1, TableFacts
      DEF CountAdmins, Goto, dbVars, processVars, makerVars, listVars,
          Arrives, OwnRow, CallInv, CallOK, Maker, Lister
    <2>4. QED
      BY <2>1, <2>2, <2>3 DEF Frame
  <1>8. ASSUME NEW c \in Call,
              DrawId(c)
       PROVE  Frame
    <2>1. Kept
      BY <1>8, <1>1, TableFacts
      DEF DrawId, Goto, dbVars, processVars, makerVars, listVars, Kept
    <2>2. Grows
      BY <1>8, <1>1, TableFacts
      DEF DrawId, Goto, dbVars, processVars, makerVars, listVars, Grows,
          Inserts, OwnRow
    <2>3. \A d \in Call : Arrives(d)
      BY <1>8, <1>1, TableFacts
      DEF DrawId, Goto, dbVars, processVars, makerVars, listVars, Arrives,
          OwnRow, CallInv, CallOK, Maker, Lister
    <2>4. QED
      BY <2>1, <2>2, <2>3 DEF Frame
  <1>9. ASSUME NEW c \in Call,
              CommitRow(c)
       PROVE  Frame
    <2>1. Kept
      BY <1>9, <1>1, TableFacts
      DEF CommitRow, Goto, Insert, dbVars, processVars, makerVars, listVars,
          Kept
    <2>2. Grows
      BY <1>9, <1>1, TableFacts
      DEF CommitRow, Goto, Insert, dbVars, processVars, makerVars, listVars,
          Grows, Inserts, OwnRow
    <2>3. \A d \in Call : Arrives(d)
      BY <1>9, <1>1, TableFacts
      DEF CommitRow, Goto, Insert, dbVars, processVars, makerVars, listVars,
          Arrives, OwnRow, CallInv, CallOK, Maker, Lister
    <2>4. QED
      BY <2>1, <2>2, <2>3 DEF Frame
  <1>10. ASSUME NEW c \in Call,
              RejectRow(c)
       PROVE  Frame
    <2>1. Kept
      BY <1>10, <1>1, TableFacts
      DEF RejectRow, Goto, Return, dbVars, processVars, makerVars, listVars,
          Kept
    <2>2. Grows
      BY <1>10, <1>1, TableFacts
      DEF RejectRow, Goto, Return, dbVars, processVars, makerVars, listVars,
          Grows, Inserts, OwnRow
    <2>3. \A d \in Call : Arrives(d)
      BY <1>10, <1>1, TableFacts
      DEF RejectRow, Goto, Return, dbVars, processVars, makerVars, listVars,
          Arrives, OwnRow, CallInv, CallOK, Maker, Lister
    <2>4. QED
      BY <2>1, <2>2, <2>3 DEF Frame
  <1>11. ASSUME NEW c \in Call,
              SelectId(c)
       PROVE  Frame
    <2>1. Kept
      BY <1>11, <1>1, TableFacts
      DEF SelectId, Goto, Return, dbVars, processVars, makerVars, listVars,
          Kept
    <2>2. Grows
      BY <1>11, <1>1, TableFacts
      DEF SelectId, Goto, Return, dbVars, processVars, makerVars, listVars,
          Grows, Inserts, OwnRow
    <2>3. \A d \in Call : Arrives(d)
      BY <1>11, <1>1, TableFacts
      DEF SelectId, Goto, Return, dbVars, processVars, makerVars, listVars,
          Arrives, OwnRow, CallInv, CallOK, Maker, Lister
    <2>4. QED
      BY <2>1, <2>2, <2>3 DEF Frame
  <1>12. ASSUME NEW c \in Call,
              QueryRows(c)
       PROVE  Frame
    <2>1. Kept
      BY <1>12, <1>1, TableFacts
      DEF QueryRows, Goto, dbVars, processVars, makerVars, listVars, Kept
    <2>2. Grows
      BY <1>12, <1>1, TableFacts
      DEF QueryRows, Goto, dbVars, processVars, makerVars, listVars, Grows,
          Inserts, OwnRow
    <2>3. \A d \in Call : Arrives(d)
      BY <1>12, <1>1, TableFacts
      DEF QueryRows, Goto, dbVars, processVars, makerVars, listVars, Arrives,
          OwnRow, CallInv, CallOK, Maker, Lister
    <2>4. QED
      BY <2>1, <2>2, <2>3 DEF Frame
  <1>13. ASSUME NEW c \in Call,
              WriteEntry(c)
       PROVE  Frame
    <2>1. Kept
      BY <1>13, <1>1, TableFacts
      DEF WriteEntry, Goto, dbVars, processVars, makerVars, listVars, Kept
    <2>2. Grows
      BY <1>13, <1>1, TableFacts
      DEF WriteEntry, Goto, dbVars, processVars, makerVars, listVars, Grows,
          Inserts, OwnRow
    <2>3. \A d \in Call : Arrives(d)
      BY <1>13, <1>1, TableFacts
      DEF WriteEntry, Goto, dbVars, processVars, makerVars, listVars,
          Arrives, OwnRow, CallInv, CallOK, Maker, Lister
    <2>4. QED
      BY <2>1, <2>2, <2>3 DEF Frame
  <1>14. ASSUME NEW c \in Call,
              EndList(c)
       PROVE  Frame
    <2>1. Kept
      BY <1>14, <1>1, TableFacts
      DEF EndList, Goto, Return, dbVars, processVars, makerVars, listVars,
          Kept
    <2>2. Grows
      BY <1>14, <1>1, TableFacts
      DEF EndList, Goto, Return, dbVars, processVars, makerVars, listVars,
          Grows, Inserts, OwnRow
    <2>3. \A d \in Call : Arrives(d)
      BY <1>14, <1>1, TableFacts
      DEF EndList, Goto, Return, dbVars, processVars, makerVars, listVars,
          Arrives, OwnRow, CallInv, CallOK, Maker, Lister
    <2>4. QED
      BY <2>1, <2>2, <2>3 DEF Frame
  <1>15. ASSUME NEW c \in Call,
              LoseConnection(c)
       PROVE  Frame
    <2>1. Kept
      BY <1>15, <1>1, TableFacts
      DEF LoseConnection, Goto, dbVars, processVars, makerVars, listVars,
          Kept
    <2>2. Grows
      BY <1>15, <1>1, TableFacts
      DEF LoseConnection, Goto, dbVars, processVars, makerVars, listVars,
          Grows, Inserts, OwnRow
    <2>3. \A d \in Call : Arrives(d)
      BY <1>15, <1>1, TableFacts
      DEF LoseConnection, Goto, dbVars, processVars, makerVars, listVars,
          Arrives, OwnRow, CallInv, CallOK, Maker, Lister
    <2>4. QED
      BY <2>1, <2>2, <2>3 DEF Frame
  <1>16. ASSUME NEW c \in Call,
              OrphanCommit(c)
       PROVE  Frame
    <2>1. Kept
      BY <1>16, <1>1, TableFacts
      DEF OrphanCommit, Goto, Insert, dbVars, processVars, makerVars,
          listVars, Kept
    <2>2. Grows
      BY <1>16, <1>1, TableFacts
      DEF OrphanCommit, Goto, Insert, dbVars, processVars, makerVars,
          listVars, Grows, Inserts, OwnRow
    <2>3. \A d \in Call : Arrives(d)
      BY <1>16, <1>1, TableFacts
      DEF OrphanCommit, Goto, Insert, dbVars, processVars, makerVars,
          listVars, Arrives, OwnRow, CallInv, CallOK, Maker, Lister
    <2>4. QED
      BY <2>1, <2>2, <2>3 DEF Frame
  <1>17. ASSUME Crash
       PROVE  Frame
    <2>1. Kept
      BY <1>17, <1>1, TableFacts
      DEF Crash, Goto, Running, dbVars, processVars, makerVars, listVars,
          Kept
    <2>2. Grows
      BY <1>17, <1>1, TableFacts
      DEF Crash, Goto, Running, dbVars, processVars, makerVars, listVars,
          Grows, Inserts, OwnRow
    <2>3. \A d \in Call : Arrives(d)
      BY <1>17, <1>1, TableFacts
      DEF Crash, Goto, Running, dbVars, processVars, makerVars, listVars,
          Arrives, OwnRow, CallInv, CallOK, Maker, Lister
    <2>4. QED
      BY <2>1, <2>2, <2>3 DEF Frame
  <1>18. ASSUME Restart
       PROVE  Frame
    <2>1. Kept
      BY <1>18, <1>1, TableFacts
      DEF Restart, Goto, dbVars, processVars, makerVars, listVars, Kept
    <2>2. Grows
      BY <1>18, <1>1, TableFacts
      DEF Restart, Goto, dbVars, processVars, makerVars, listVars, Grows,
          Inserts, OwnRow
    <2>3. \A d \in Call : Arrives(d)
      BY <1>18, <1>1, TableFacts
      DEF Restart, Goto, dbVars, processVars, makerVars, listVars, Arrives,
          OwnRow, CallInv, CallOK, Maker, Lister
    <2>4. QED
      BY <2>1, <2>2, <2>3 DEF Frame
  <1>19. ASSUME UNCHANGED vars
       PROVE  Frame
    BY <1>19, <1>1
    DEF vars, Frame, Kept, Grows, Arrives
  <1>20. QED
    BY <1>1, <1>2, <1>3, <1>4, <1>5, <1>6, <1>7, <1>8, <1>9, <1>10, <1>11,
       <1>12, <1>13, <1>14, <1>15, <1>16, <1>17, <1>18, <1>19
    DEF Next, ClientStep, MakeStep, ListStep

-----------------------------------------------------------------------------
(* The parts of the invariant *)

\* One step per action: CallInv is about the order of the places.
LEMMA StepCallInv == TypeOK /\ CallInv /\ [Next]_vars => CallInv'
  <1> SUFFICES ASSUME TypeOK, CallInv, [Next]_vars PROVE CallInv'
    OBVIOUS
  <1>1. /\ serial \in [Table -> Nat]
        /\ pc \in [Call -> Label]
        /\ status \in [Call -> StatusCode]
        /\ drawn \in [Call -> Nat]
        /\ \A c \in Call : CallOK(c)
        /\ Maker \cap Lister = {}
        /\ \A n \in Nat : n + 1 \in 1..(n + 1)
        /\ \A n \in Nat : \A i \in 1..n : i \in 1..(n + 1)
    BY DirectoryAssumption DEF TypeOK, CallInv
  <1>2. ASSUME NEW c \in Call, NEW n \in Name, NEW b \in Flag,
              StartCreateUser(c, n, b)
       PROVE  CallInv'
    BY <1>2, <1>1, TableFacts
    DEF StartCreateUser, Goto, Begin, dbVars, processVars, makerVars,
        listVars, CallInv, CallOK, Account, Maker, Lister
  <1>3. ASSUME NEW c \in Call, NEW n \in Name,
              StartGenerateUser(c, n)
       PROVE  CallInv'
    BY <1>3, <1>1, TableFacts
    DEF StartGenerateUser, Goto, Begin, dbVars, processVars, makerVars,
        listVars, CallInv, CallOK, Account, Maker, Lister
  <1>4. ASSUME NEW c \in Call, NEW n \in Name, NEW b \in Flag, NEW uid \in 0..MaxId,
              StartCreateCommunity(c, n, uid, b)
       PROVE  CallInv'
    BY <1>4, <1>1, TableFacts
    DEF StartCreateCommunity, Goto, Begin, dbVars, processVars, makerVars,
        listVars, CallInv, CallOK, Account, Maker, Lister
  <1>5. ASSUME NEW c \in Call, NEW n \in Name, NEW b \in Flag, NEW uid \in 0..MaxId,
                         NEW cid \in 0..MaxId,
              StartCreateChannel(c, n, cid, uid, b)
       PROVE  CallInv'
    BY <1>5, <1>1, TableFacts
    DEF StartCreateChannel, Goto, Begin, dbVars, processVars, makerVars,
        listVars, CallInv, CallOK, Account, Maker, Lister
  <1>6. ASSUME NEW c \in Call, NEW cid \in 0..MaxId,
              StartList(c, cid)
       PROVE  CallInv'
    BY <1>6, <1>1, TableFacts
    DEF StartList, Goto, Begin, dbVars, processVars, makerVars, listVars,
        CallInv, CallOK, Account, Maker, Lister
  <1>7. ASSUME NEW c \in Call,
              CountAdmins(c)
       PROVE  CallInv'
    BY <1>7, <1>1, TableFacts
    DEF CountAdmins, Goto, dbVars, processVars, makerVars, listVars, CallInv,
        CallOK, Account, Maker, Lister
  <1>8. ASSUME NEW c \in Call,
              DrawId(c)
       PROVE  CallInv'
    BY <1>8, <1>1, TableFacts
    DEF DrawId, Goto, dbVars, processVars, makerVars, listVars, CallInv,
        CallOK, Account, Maker, Lister
  <1>9. ASSUME NEW c \in Call,
              CommitRow(c)
       PROVE  CallInv'
    BY <1>9, <1>1, TableFacts
    DEF CommitRow, Goto, Insert, dbVars, processVars, makerVars, listVars,
        CallInv, CallOK, Account, Maker, Lister
  <1>10. ASSUME NEW c \in Call,
              RejectRow(c)
       PROVE  CallInv'
    BY <1>10, <1>1, TableFacts
    DEF RejectRow, Goto, Return, dbVars, processVars, makerVars, listVars,
        CallInv, CallOK, Account, Maker, Lister
  <1>11. ASSUME NEW c \in Call,
              SelectId(c)
       PROVE  CallInv'
    BY <1>11, <1>1, TableFacts
    DEF SelectId, Goto, Return, dbVars, processVars, makerVars, listVars,
        CallInv, CallOK, Account, Maker, Lister
  <1>12. ASSUME NEW c \in Call,
              QueryRows(c)
       PROVE  CallInv'
    BY <1>12, <1>1, TableFacts
    DEF QueryRows, Goto, dbVars, processVars, makerVars, listVars, CallInv,
        CallOK, Account, Maker, Lister
  <1>13. ASSUME NEW c \in Call,
              WriteEntry(c)
       PROVE  CallInv'
    BY <1>13, <1>1, TableFacts
    DEF WriteEntry, Goto, dbVars, processVars, makerVars, listVars, CallInv,
        CallOK, Account, Maker, Lister
  <1>14. ASSUME NEW c \in Call,
              EndList(c)
       PROVE  CallInv'
    BY <1>14, <1>1, TableFacts
    DEF EndList, Goto, Return, dbVars, processVars, makerVars, listVars,
        CallInv, CallOK, Account, Maker, Lister
  <1>15. ASSUME NEW c \in Call,
              LoseConnection(c)
       PROVE  CallInv'
    BY <1>15, <1>1, TableFacts
    DEF LoseConnection, Goto, dbVars, processVars, makerVars, listVars,
        CallInv, CallOK, Account, Maker, Lister
  <1>16. ASSUME NEW c \in Call,
              OrphanCommit(c)
       PROVE  CallInv'
    BY <1>16, <1>1, TableFacts
    DEF OrphanCommit, Goto, Insert, dbVars, processVars, makerVars, listVars,
        CallInv, CallOK, Account, Maker, Lister
  <1>17. ASSUME Crash
       PROVE  CallInv'
    BY <1>17, <1>1, TableFacts
    DEF Crash, Goto, Running, dbVars, processVars, makerVars, listVars,
        CallInv, CallOK, Account, Maker, Lister
  <1>18. ASSUME Restart
       PROVE  CallInv'
    BY <1>18, <1>1, TableFacts
    DEF Restart, Goto, dbVars, processVars, makerVars, listVars, CallInv,
        CallOK, Account, Maker, Lister
  <1>19. ASSUME UNCHANGED vars
       PROVE  CallInv'
    BY <1>19, <1>1
    DEF vars, CallInv, CallOK
  <1>20. QED
    BY <1>1, <1>2, <1>3, <1>4, <1>5, <1>6, <1>7, <1>8, <1>9, <1>10, <1>11,
       <1>12, <1>13, <1>14, <1>15, <1>16, <1>17, <1>18, <1>19
    DEF Next, ClientStep, MakeStep, ListStep

\* The facts about a step that the lemmas below use.
LEMMA FrameFacts ==
  ASSUME TypeOK, TypeOK', Frame
  PROVE  /\ \A t \in Table : \A r \in rows[t] :
              /\ r \in rows'[t]
              /\ r \in Row
              /\ r.call \in Call
              /\ TableOf(r.call) = t
              /\ r.id <= serial[t]
              /\ r = [id |-> r.id, call |-> r.call]
         /\ \A c \in Maker : c \in Call /\ TableOf(c) \in Table
         /\ \A c \in Account : c \in Maker /\ TableOf(c) = "users"
         /\ "users" \in Table
  BY TableFacts DEF TypeOK, Frame, Kept, Row, Maker, Account, Call, TableOf,
     Table

\* A row stays what it was; a new one is that of a call at its insert.
LEMMA StepRowInv ==
  TypeOK /\ TypeOK' /\ RowInv /\ Frame => RowInv'
  <1> SUFFICES ASSUME TypeOK, TypeOK', RowInv, Frame,
                      NEW t \in Table, NEW r \in rows'[t]
               PROVE  /\ pc'[r.call] \in {"selecting", "done"}
                      /\ r.id = drawn'[r.call]
                      /\ \A s \in rows'[t] :
                           req'[s.call].name = req'[r.call].name => s = r
    BY DEF RowInv
  <1>1. \A s \in rows[t] :
          /\ s.call \in Call
          /\ pc'[s.call] \in {"selecting", "done"}
          /\ s.id = drawn'[s.call]
          /\ req'[s.call] = req[s.call]
    BY FrameFacts DEF RowInv, Frame, Kept
  <1>2. CASE rows' = rows
    BY <1>1, <1>2 DEF RowInv
  <1>3. CASE \E c \in Call : Inserts(c)
    <2>1. PICK c \in Call : Inserts(c)
      BY <1>3
    <2>2. CASE t # TableOf(c)
      <3>1. rows'[t] = rows[t]
        BY <2>1, <2>2 DEF Inserts, TypeOK
      <3>2. QED
        BY <3>1, <1>1 DEF RowInv
    <2>3. CASE t = TableOf(c)
      <3>1. rows'[t] = rows[t] \cup {OwnRow(c)}
        BY <2>1, <2>3 DEF Inserts, TypeOK
      <3>2. /\ OwnRow(c).call = c
            /\ OwnRow(c).id = drawn[c]
            /\ drawn'[c] = drawn[c]
            /\ req' = req
            /\ pc'[c] \in {"selecting", "done"}
        BY <2>1 DEF OwnRow, Inserts
      <3>3. \A s \in rows[t] : req[s.call].name # req[c].name
        BY <2>1, <2>3 DEF Inserts, MayInsert
      <3>4. QED
        BY <1>1, <3>1, <3>2, <3>3 DEF RowInv
    <2>4. QED
      BY <2>2, <2>3
  <1>4. QED
    BY <1>2, <1>3 DEF Frame, Grows

\* A call comes to its lookup by inserting, and rows stay.
LEMMA StepSelectInv ==
  TypeOK /\ TypeOK' /\ SelectInv /\ Frame => SelectInv'
  <1> SUFFICES ASSUME TypeOK, TypeOK', SelectInv, Frame,
                      NEW c \in Maker, pc'[c] = "selecting"
               PROVE  OwnRow(c)' \in rows'[TableOf(c)]
    BY DEF SelectInv
  <1>1. c \in Call /\ TableOf(c) \in Table
    BY FrameFacts
  <1>2. CASE pc[c] = "selecting"
    <2>1. OwnRow(c) \in rows[TableOf(c)]
      BY <1>2 DEF SelectInv
    <2>2. drawn'[c] = drawn[c]
      BY <1>1, <1>2 DEF Frame, Kept
    <2>3. QED
      BY <1>1, <2>1, <2>2 DEF OwnRow, Frame, Kept
  <1>3. CASE OwnRow(c) \in rows'[TableOf(c)] /\ drawn'[c] = drawn[c]
    BY <1>3 DEF OwnRow
  <1>4. QED
    BY <1>1, <1>2, <1>3 DEF Frame, Arrives

\* The name decides the row, so the id answered is that of the own row.
LEMMA StepAnsweredOwnRow ==
  TypeOK /\ TypeOK' /\ CallInv /\ RowInv /\ SelectInv /\ AnsweredOwnRow /\ Frame
    => AnsweredOwnRow'
  <1> SUFFICES ASSUME TypeOK, TypeOK', CallInv, RowInv, SelectInv,
                      AnsweredOwnRow, Frame, NEW c \in Maker, status'[c] = "OK"
               PROVE  [id |-> answer'[c], call |-> c] \in rows'[TableOf(c)]
    BY DEF AnsweredOwnRow
  <1>1. /\ c \in Call
        /\ TableOf(c) \in Table
        /\ rows[TableOf(c)] \subseteq rows'[TableOf(c)]
    BY FrameFacts DEF Frame, Kept
  <1>2. CASE status[c] = "OK"
    <2>1. pc[c] = "done"
      BY <1>1, <1>2 DEF CallInv, CallOK
    <2>2. answer'[c] = answer[c]
      BY <1>1, <2>1 DEF Frame, Kept
    <2>3. QED
      BY <1>1, <1>2, <2>2 DEF AnsweredOwnRow
  <1>3. CASE /\ pc[c] = "selecting"
             /\ \E r \in rows[TableOf(c)] :
                  req[r.call].name = req[c].name /\ answer'[c] = r.id
    <2>1. PICK r \in rows[TableOf(c)] :
            req[r.call].name = req[c].name /\ answer'[c] = r.id
      BY <1>3
    <2>2. OwnRow(c) \in rows[TableOf(c)] /\ OwnRow(c).call = c
      BY <1>3 DEF SelectInv, OwnRow
    <2>3. r = OwnRow(c)
      BY <1>1, <2>1, <2>2 DEF RowInv
    <2>4. QED
      BY <1>1, <2>1, <2>2, <2>3 DEF OwnRow
  <1>4. QED
    BY <1>1, <1>2, <1>3 DEF Frame, Arrives

\* The users' rows, which are all the count looks at, never change.
LEMMA AdminsStay ==
  ASSUME TypeOK, TypeOK', RowInv, Frame, NEW a \in rows["users"]
  PROVE  /\ a \in rows'["users"]
         /\ admin'[a.call] = admin[a.call]
         /\ a.id \in Nat
         /\ a.id <= serial["users"]
  <1>1. /\ a \in rows'["users"]
        /\ a.call \in Call
        /\ a.id \in Nat
        /\ a.id <= serial["users"]
    BY FrameFacts DEF Row
  <1>2. pc[a.call] \in {"selecting", "done"}
    BY FrameFacts DEF RowInv
  <1>3. QED
    BY <1>1, <1>2 DEF Frame, Kept

\* Who counted an admin draws a larger id than that admin.
LEMMA StepCountInv ==
  TypeOK /\ TypeOK' /\ RowInv /\ CountInv /\ Frame => CountInv'
  <1> SUFFICES ASSUME TypeOK, TypeOK', RowInv, CountInv, Frame,
                      NEW c \in Account, ~admin'[c]
               PROVE  /\ pc'[c] = "inserting" =>
                           \E a \in rows'["users"] : admin'[a.call]
                      /\ pc'[c] \in {"committing", "orphan"} =>
                           \E a \in rows'["users"] :
                             admin'[a.call] /\ a.id < drawn'[c]
    BY DEF CountInv
  <1>1. /\ c \in Call
        /\ c \in Maker
        /\ TableOf(c) = "users"
        /\ serial["users"] \in Nat
    BY FrameFacts DEF TypeOK, Maker, Call
  <1>2. pc[c] \in {"inserting", "committing", "orphan"} => ~admin[c]
    BY <1>1 DEF Frame, Kept
  <1>3. ASSUME pc'[c] = "inserting"
        PROVE  \E a \in rows'["users"] : admin'[a.call]
    <2>1. \E a \in rows["users"] : admin[a.call]
      BY <1>1, <1>2, <1>3 DEF Frame, Arrives, CountInv
    <2>2. QED
      BY <2>1, AdminsStay
  <1>4. ASSUME pc'[c] \in {"committing", "orphan"}
        PROVE  \E a \in rows'["users"] : admin'[a.call] /\ a.id < drawn'[c]
    <2>1. CASE pc[c] \in {"committing", "orphan"}
      <3>1. PICK a \in rows["users"] : admin[a.call] /\ a.id < drawn[c]
        BY <1>2, <2>1 DEF CountInv
      <3>2. drawn'[c] = drawn[c]
        BY <1>1, <2>1 DEF Frame, Kept
      <3>3. QED
        BY <3>1, <3>2, AdminsStay
    <2>2. CASE pc[c] = "inserting" /\ drawn'[c] = serial[TableOf(c)] + 1
      <3>1. PICK a \in rows["users"] : admin[a.call]
        BY <1>2, <2>2 DEF CountInv
      <3>2. /\ a \in rows'["users"]
            /\ admin'[a.call]
            /\ a.id \in Nat
            /\ a.id <= serial["users"]
        BY <3>1, AdminsStay
      <3>3. a.id < drawn'[c]
        BY <1>1, <2>2, <3>2
      <3>4. QED
        BY <3>2, <3>3
    <2>3. QED
      BY <1>1, <1>4, <2>1, <2>2 DEF Frame, Arrives
  <1>5. QED
    BY <1>3, <1>4

LEMMA StepFirstUserIsAdmin ==
  TypeOK /\ TypeOK' /\ RowInv /\ CountInv /\ FirstUserIsAdmin /\ Frame
    => FirstUserIsAdmin'
  <1> SUFFICES ASSUME TypeOK, TypeOK', RowInv, CountInv, FirstUserIsAdmin, Frame,
                      NEW r \in rows'["users"], ~admin'[r.call]
               PROVE  \E a \in rows'["users"] : admin'[a.call] /\ a.id < r.id
    BY DEF FirstUserIsAdmin
  <1>1. CASE r \in rows["users"]
    <2>1. PICK a \in rows["users"] : admin[a.call] /\ a.id < r.id
      BY <1>1, AdminsStay DEF FirstUserIsAdmin
    <2>2. QED
      BY <2>1, AdminsStay
  <1>2. CASE r \notin rows["users"]
    <2>1. PICK c \in Call : Inserts(c)
      BY <1>2 DEF Frame, Grows
    <2>2. TableOf(c) = "users" /\ r = OwnRow(c)
      BY <1>2, <2>1, FrameFacts DEF Inserts, TypeOK
    <2>3. c \in Account /\ ~admin[c] /\ r.id = drawn[c]
      BY <2>1, <2>2 DEF Inserts, OwnRow, TableOf
    <2>4. PICK a \in rows["users"] : admin[a.call] /\ a.id < drawn[c]
      BY <2>1, <2>3 DEF CountInv, Inserts
    <2>5. QED
      BY <2>3, <2>4, AdminsStay
  <1>3. QED
    BY <1>1, <1>2

\* An insert is checked against the users, which stay.
LEMMA StepRefInv ==
  TypeOK /\ TypeOK' /\ RowInv /\ RefInv /\ Frame => RefInv'
  <1> SUFFICES ASSUME TypeOK, TypeOK', RowInv, RefInv, Frame,
                      NEW t \in Table \ {"users"}, NEW r \in rows'[t]
               PROVE  req'[r.call].admin \in Ids("users")'
    BY DEF RefInv
  <1>1. Ids("users") \subseteq Ids("users")'
    BY FrameFacts DEF Ids
  <1>2. CASE r \in rows[t]
    <2>1. r.call \in Call /\ pc[r.call] \in {"selecting", "done"}
      BY <1>2, FrameFacts DEF RowInv
    <2>2. req'[r.call] = req[r.call]
      BY <2>1 DEF Frame, Kept
    <2>3. QED
      BY <1>1, <1>2, <2>2 DEF RefInv
  <1>3. CASE r \notin rows[t]
    <2>1. PICK c \in Call : Inserts(c)
      BY <1>3 DEF Frame, Grows
    <2>2. TableOf(c) = t /\ r = OwnRow(c)
      BY <1>3, <2>1 DEF Inserts, TypeOK
    <2>3. r.call = c /\ c \notin Account /\ req' = req
      BY <2>1, <2>2 DEF Inserts, OwnRow, TableOf
    <2>4. req[c].admin \in Ids("users")
      BY <2>1, <2>3 DEF Inserts, MayInsert
    <2>5. QED
      BY <1>1, <2>3, <2>4
  <1>4. QED
    BY <1>2, <1>3

\* A step that leaves the listing of d as it was, or ends it.
Quiet(d) ==
  /\ acked'[d] = acked[d]
  /\ pending'[d] = pending[d]
  /\ sent'[d] = sent[d]
  /\ pc'[d] \in {"idle", "querying"} => pc[d] \in {"idle", "querying"}
  /\ pc'[d] = "writing" => pc[d] = "writing"
  /\ status'[d] = "OK" =>
       \/ status[d] = "OK"
       \/ pc[d] = "writing" /\ pending[d] = {}

LEMMA ScopeStays ==
  ASSUME TypeOK, TypeOK', RowInv, Frame, NEW d \in Lister, pc[d] # "idle",
         NEW r \in rows[TableOf(d)]
  PROVE  InScope(d, r)' <=> InScope(d, r)
  <1>1. /\ d \in Call
        /\ TableOf(d) \in Table
    BY TableFacts DEF Call
  <1>2. r.call \in Call /\ pc[r.call] \in {"selecting", "done"}
    BY <1>1, FrameFacts DEF RowInv
  <1>3. req'[d] = req[d] /\ req'[r.call] = req[r.call]
    BY <1>1, <1>2 DEF Frame, Kept
  <1>4. QED
    BY <1>3 DEF InScope

LEMMA QuietList ==
  ASSUME TypeOK, TypeOK', CallInv, RowInv, Frame, NEW d \in Lister, ListOK(d),
         Quiet(d)
  PROVE  ListOK(d)'
  <1>1. /\ d \in Call
        /\ TableOf(d) \in Table
        /\ rows[TableOf(d)] \subseteq rows'[TableOf(d)]
    BY TableFacts DEF Call, Frame, Kept
  <1>2. acked'[d] \subseteq rows'[TableOf(d)]
    BY <1>1 DEF Quiet, ListOK
  <1>3. pc'[d] \in {"idle", "querying"} => sent'[d] = <<>>
    BY DEF Quiet, ListOK
  <1>4. status'[d] = "OK" => pending'[d] = {}
    BY DEF Quiet, ListOK
  <1>5. ASSUME pc'[d] = "writing" \/ status'[d] = "OK"
        PROVE  /\ \A r \in acked'[d] :
                    InScope(d, r)' => r \in pending'[d] \/ Written(d, r)'
               /\ \A r \in pending'[d] : ~Written(d, r)'
               /\ \A i, j \in DOMAIN sent'[d] :
                    sent'[d][i].row = sent'[d][j].row => i = j
    <2>1. pc[d] = "writing" \/ status[d] = "OK"
      BY <1>5 DEF Quiet
    <2>2. pc[d] # "idle"
      BY <1>1, <2>1 DEF CallInv, CallOK
    <2>3. \A r \in acked[d] : InScope(d, r)' <=> InScope(d, r)
      BY <2>2, ScopeStays DEF ListOK
    <2>4. \A r : Written(d, r)' <=> Written(d, r)
      BY DEF Quiet, Written
    <2>5. QED
      BY <2>1, <2>3, <2>4 DEF Quiet, ListOK
  <1>6. QED
    BY <1>2, <1>3, <1>4, <1>5 DEF ListOK

\* The join finds every row it should, as each names a user that exists.
LEMMA QueryListOK ==
  ASSUME TypeOK, TypeOK', CallInv, RowInv, RefInv, Frame,
         NEW c \in Lister, ListOK(c), QueryRows(c)
  PROVE  ListOK(c)'
  <1>1. /\ c \in Call
        /\ TableOf(c) \in Table \ {"users"}
    BY DirectoryAssumption DEF Call, Maker, Account, Lister, TableOf, Table
  <1>2. /\ pc[c] = "querying"
        /\ pc'[c] = "writing"
        /\ UNCHANGED <<rows, status, sent, acked, req>>
        /\ sent[c] = <<>>
        /\ status[c] # "OK"
        /\ pending'[c] = {r \in rows[TableOf(c)] :
                            InScope(c, r) /\ req[r.call].admin \in Ids("users")}
    BY <1>1 DEF QueryRows, Goto, TypeOK, ListOK, CallInv, CallOK, dbVars
  <1>3. \A r : ~Written(c, r)'
    BY <1>2, EmptyFacts DEF Written
  <1>4. \A r \in acked[c] :
          /\ r \in rows[TableOf(c)]
          /\ req[r.call].admin \in Ids("users")
          /\ InScope(c, r)' <=> InScope(c, r)
    BY <1>1, <1>2 DEF ListOK, RefInv, InScope
  <1>5. QED
    BY <1>1, <1>2, <1>3, <1>4, EmptyFacts DEF ListOK

LEMMA WriteListOK ==
  ASSUME TypeOK, TypeOK', CallInv, RowInv, Frame,
         NEW c \in Lister, ListOK(c), WriteEntry(c)
  PROVE  ListOK(c)'
  <1> DEFINE Sent == [row : Row, anonymous : BOOLEAN]
             q == sent[c]
  <1>1. c \in Call /\ q \in Seq(Sent) /\ pending[c] \subseteq Row
    BY DEF Call, TypeOK
  <1>2. PICK r \in pending[c] :
          /\ pending' = [pending EXCEPT ![c] = @ \ {r}]
          /\ sent' = [sent EXCEPT ![c] = Append(@, Entry(c, r))]
    BY DEF WriteEntry
  <1>3. /\ Entry(c, r) \in Sent
        /\ Entry(c, r).row = r
    BY <1>1, <1>2 DEF Entry
  <1>4. /\ pending'[c] = pending[c] \ {r}
        /\ sent'[c] = Append(q, Entry(c, r))
        /\ UNCHANGED <<rows, pc, status, req, acked>>
        /\ pc[c] = "writing"
        /\ status[c] # "OK"
    BY <1>1, <1>2 DEF WriteEntry, TypeOK, CallInv, CallOK, dbVars
  <1>5. /\ Len(q) \in Nat
        /\ DOMAIN q = 1..Len(q)
        /\ DOMAIN sent'[c] = 1..(Len(q) + 1)
        /\ sent'[c][Len(q) + 1].row = r
        /\ \A i \in 1..Len(q) : sent'[c][i] = q[i]
    <2> HIDE DEF Sent
    <2>1. QED
      BY <1>1, <1>3, <1>4, AppendFacts
  <1>6. \A x : Written(c, x)' <=> Written(c, x) \/ x = r
    <2>1. \A i \in 1..(Len(q) + 1) : i \in 1..Len(q) \/ i = Len(q) + 1
      BY <1>5
    <2>2. 1..Len(q) \subseteq 1..(Len(q) + 1) /\ Len(q) + 1 \in 1..(Len(q) + 1)
      BY <1>5
    <2>3. QED
      BY <1>5, <2>1, <2>2 DEF Written
  <1>7. ~Written(c, r)
    BY <1>2, <1>4 DEF ListOK
  <1>8. \A i, j \in DOMAIN sent'[c] :
          sent'[c][i].row = sent'[c][j].row => i = j
    <2>1. \A i \in 1..(Len(q) + 1) : i \in 1..Len(q) \/ i = Len(q) + 1
      BY <1>5
    <2>2. \A i \in 1..Len(q) : q[i].row # r
      BY <1>5, <1>7 DEF Written
    <2>3. \A i, j \in 1..Len(q) : q[i].row = q[j].row => i = j
      BY <1>4, <1>5 DEF ListOK
    <2>4. QED
      BY <1>5, <2>1, <2>2, <2>3
  <1>9. \A x : InScope(c, x)' <=> InScope(c, x)
    BY <1>4 DEF InScope
  <1>10. QED
    BY <1>4, <1>6, <1>7, <1>8, <1>9 DEF ListOK

LEMMA StartListOK ==
  ASSUME TypeOK, TypeOK', CallInv, Frame, NEW c \in Lister, ListOK(c),
         NEW cid \in 0..MaxId, StartList(c, cid)
  PROVE  ListOK(c)'
  <1>1. c \in Call
    BY DEF Call
  <1>2. /\ pc[c] = "idle"
        /\ pc'[c] = "querying"
        /\ status' = status
        /\ rows' = rows
        /\ sent' = sent
        /\ acked'[c] = Acknowledged(TableOf(c))
    BY <1>1 DEF StartList, Begin, Goto, TypeOK, dbVars
  <1>3. status[c] # "OK" /\ sent[c] = <<>>
    BY <1>1, <1>2 DEF CallInv, CallOK, ListOK
  <1>4. QED
    BY <1>2, <1>3 DEF ListOK, Acknowledged

LEMMA StepListInv ==
  /\ TypeOK /\ TypeOK' /\ CallInv /\ RowInv /\ RefInv /\ ListInv /\ Frame
  /\ [Next]_vars
  => ListInv'
  <1> SUFFICES ASSUME TypeOK, TypeOK', CallInv, RowInv, RefInv, ListInv, Frame,
                      [Next]_vars
               PROVE  \A d \in Lister : ListOK(d)'
    BY DEF ListInv
  <1>1. /\ TypeOK /\ TypeOK' /\ CallInv /\ RowInv /\ RefInv /\ Frame
        /\ \A d \in Lister : ListOK(d)
        /\ pc \in [Call -> Label]
        /\ status \in [Call -> StatusCode]
        /\ pending \in [Call -> SUBSET Row]
        /\ sent \in [Call -> Seq([row : Row, anonymous : BOOLEAN])]
        /\ acked \in [Call -> SUBSET Row]
        /\ Lister \subseteq Call
        /\ Lister \cap Maker = {}
        /\ \A d \in Call : CallOK(d)
        /\ UserCall \cup GuestCall \cup CommunityCall \cup ChannelCall \subseteq Maker
    BY DirectoryAssumption DEF ListInv, TypeOK, CallInv, Call, Maker, Account
  <1>2. ASSUME NEW c \in Call, NEW n \in Name, NEW b \in Flag,
              StartCreateUser(c, n, b)
       PROVE  \A d \in Lister : ListOK(d)'
    <2>1. \A d \in Lister : Quiet(d)
      BY <1>2, <1>1, TableFacts
      DEF StartCreateUser, Goto, Begin, dbVars, processVars, makerVars,
          listVars, Quiet
    <2>2. QED
      BY <2>1, <1>1, QuietList
  <1>3. ASSUME NEW c \in Call, NEW n \in Name,
              StartGenerateUser(c, n)
       PROVE  \A d \in Lister : ListOK(d)'
    <2>1. \A d \in Lister : Quiet(d)
      BY <1>3, <1>1, TableFacts
      DEF StartGenerateUser, Goto, Begin, dbVars, processVars, makerVars,
          listVars, Quiet
    <2>2. QED
      BY <2>1, <1>1, QuietList
  <1>4. ASSUME NEW c \in Call, NEW n \in Name, NEW b \in Flag, NEW uid \in 0..MaxId,
              StartCreateCommunity(c, n, uid, b)
       PROVE  \A d \in Lister : ListOK(d)'
    <2>1. \A d \in Lister : Quiet(d)
      BY <1>4, <1>1, TableFacts
      DEF StartCreateCommunity, Goto, Begin, dbVars, processVars, makerVars,
          listVars, Quiet
    <2>2. QED
      BY <2>1, <1>1, QuietList
  <1>5. ASSUME NEW c \in Call, NEW n \in Name, NEW b \in Flag, NEW uid \in 0..MaxId,
                         NEW cid \in 0..MaxId,
              StartCreateChannel(c, n, cid, uid, b)
       PROVE  \A d \in Lister : ListOK(d)'
    <2>1. \A d \in Lister : Quiet(d)
      BY <1>5, <1>1, TableFacts
      DEF StartCreateChannel, Goto, Begin, dbVars, processVars, makerVars,
          listVars, Quiet
    <2>2. QED
      BY <2>1, <1>1, QuietList
  <1>6. ASSUME NEW c \in Call, NEW cid \in 0..MaxId,
              StartList(c, cid)
       PROVE  \A d \in Lister : ListOK(d)'
    <2>1. \A d \in Lister \ {c} : Quiet(d)
      BY <1>6, <1>1
      DEF StartList, Goto, Begin, dbVars, processVars, makerVars, listVars,
          Quiet
    <2>2. c \in Lister => ListOK(c)'
      BY <1>6, <1>1, StartListOK
    <2>3. QED
      BY <2>1, <2>2, <1>1, QuietList
  <1>7. ASSUME NEW c \in Call,
              CountAdmins(c)
       PROVE  \A d \in Lister : ListOK(d)'
    <2>1. \A d \in Lister : Quiet(d)
      BY <1>7, <1>1, TableFacts
      DEF CountAdmins, Goto, dbVars, processVars, makerVars, listVars, Quiet
    <2>2. QED
      BY <2>1, <1>1, QuietList
  <1>8. ASSUME NEW c \in Call,
              DrawId(c)
       PROVE  \A d \in Lister : ListOK(d)'
    <2>1. \A d \in Lister : Quiet(d)
      BY <1>8, <1>1, TableFacts
      DEF DrawId, Goto, dbVars, processVars, makerVars, listVars, Quiet
    <2>2. QED
      BY <2>1, <1>1, QuietList
  <1>9. ASSUME NEW c \in Call,
              CommitRow(c)
       PROVE  \A d \in Lister : ListOK(d)'
    <2>1. \A d \in Lister : Quiet(d)
      BY <1>9, <1>1, TableFacts
      DEF CommitRow, Goto, Insert, dbVars, processVars, makerVars, listVars,
          Quiet
    <2>2. QED
      BY <2>1, <1>1, QuietList
  <1>10. ASSUME NEW c \in Call,
              RejectRow(c)
       PROVE  \A d \in Lister : ListOK(d)'
    <2>1. \A d \in Lister : Quiet(d)
      BY <1>10, <1>1, TableFacts
      DEF RejectRow, Goto, Return, dbVars, processVars, makerVars, listVars,
          Quiet
    <2>2. QED
      BY <2>1, <1>1, QuietList
  <1>11. ASSUME NEW c \in Call,
              SelectId(c)
       PROVE  \A d \in Lister : ListOK(d)'
    <2>1. \A d \in Lister : Quiet(d)
      BY <1>11, <1>1, TableFacts
      DEF SelectId, Goto, Return, CallOK, dbVars, processVars, makerVars,
          listVars, Quiet
    <2>2. QED
      BY <2>1, <1>1, QuietList
  <1>12. ASSUME NEW c \in Call,
              QueryRows(c)
       PROVE  \A d \in Lister : ListOK(d)'
    <2>1. \A d \in Lister \ {c} : Quiet(d)
      BY <1>12, <1>1
      DEF QueryRows, Goto, dbVars, processVars, makerVars, listVars, Quiet
    <2>2. c \in Lister => ListOK(c)'
      BY <1>12, <1>1, QueryListOK
    <2>3. QED
      BY <2>1, <2>2, <1>1, QuietList
  <1>13. ASSUME NEW c \in Call,
              WriteEntry(c)
       PROVE  \A d \in Lister : ListOK(d)'
    <2>1. \A d \in Lister \ {c} : Quiet(d)
      BY <1>13, <1>1
      DEF WriteEntry, Goto, dbVars, processVars, makerVars, listVars, Quiet
    <2>2. c \in Lister => ListOK(c)'
      BY <1>13, <1>1, WriteListOK
    <2>3. QED
      BY <2>1, <2>2, <1>1, QuietList
  <1>14. ASSUME NEW c \in Call,
              EndList(c)
       PROVE  \A d \in Lister : ListOK(d)'
    <2>1. \A d \in Lister : Quiet(d)
      BY <1>14, <1>1, TableFacts
      DEF EndList, Goto, Return, dbVars, processVars, makerVars, listVars,
          Quiet
    <2>2. QED
      BY <2>1, <1>1, QuietList
  <1>15. ASSUME NEW c \in Call,
              LoseConnection(c)
       PROVE  \A d \in Lister : ListOK(d)'
    <2>1. \A d \in Lister : Quiet(d)
      BY <1>15, <1>1, TableFacts
      DEF LoseConnection, Goto, dbVars, processVars, makerVars, listVars,
          Quiet
    <2>2. QED
      BY <2>1, <1>1, QuietList
  <1>16. ASSUME NEW c \in Call,
              OrphanCommit(c)
       PROVE  \A d \in Lister : ListOK(d)'
    <2>1. \A d \in Lister : Quiet(d)
      BY <1>16, <1>1, TableFacts
      DEF OrphanCommit, Goto, Insert, dbVars, processVars, makerVars,
          listVars, Quiet
    <2>2. QED
      BY <2>1, <1>1, QuietList
  <1>17. ASSUME Crash
       PROVE  \A d \in Lister : ListOK(d)'
    <2>1. \A d \in Lister : Quiet(d)
      BY <1>17, <1>1, TableFacts
      DEF Crash, Goto, Running, dbVars, processVars, makerVars, listVars,
          Quiet
    <2>2. QED
      BY <2>1, <1>1, QuietList
  <1>18. ASSUME Restart
       PROVE  \A d \in Lister : ListOK(d)'
    <2>1. \A d \in Lister : Quiet(d)
      BY <1>18, <1>1, TableFacts
      DEF Restart, Goto, dbVars, processVars, makerVars, listVars, Quiet
    <2>2. QED
      BY <2>1, <1>1, QuietList
  <1>19. ASSUME UNCHANGED vars
       PROVE  \A d \in Lister : ListOK(d)'
    <2>1. \A d \in Lister : Quiet(d)
      BY <1>19, <1>1 DEF vars, Quiet
    <2>2. QED
      BY <2>1, <1>1, QuietList
  <1>20. QED
    BY <1>1, <1>2, <1>3, <1>4, <1>5, <1>6, <1>7, <1>8, <1>9, <1>10, <1>11,
       <1>12, <1>13, <1>14, <1>15, <1>16, <1>17, <1>18, <1>19
    DEF Next, ClientStep, MakeStep, ListStep

-----------------------------------------------------------------------------
(* Theorems *)

LEMMA Invariance == Spec => []IInv
  <1>1. IInv /\ [Next]_vars => IInv'
    <2> SUFFICES ASSUME IInv, [Next]_vars PROVE IInv'
      OBVIOUS
    <2>1. TypeOK' /\ Frame
      BY StepTypeOK, StepFrame DEF IInv
    <2>2. CallInv' /\ RowInv' /\ SelectInv'
      BY <2>1, StepCallInv, StepRowInv, StepSelectInv DEF IInv
    <2>3. CountInv' /\ RefInv' /\ ListInv'
      BY <2>1, StepCountInv, StepRefInv, StepListInv DEF IInv
    <2>4. AnsweredOwnRow' /\ FirstUserIsAdmin'
      BY <2>1, StepAnsweredOwnRow, StepFirstUserIsAdmin DEF IInv
    <2>5. QED
      BY <2>1, <2>2, <2>3, <2>4 DEF IInv
  <1>2. QED
    BY InitIInv, <1>1, PTL DEF Spec

\* DBPostgres.cpp:49-78, 171-208: every variable stays in its set.
THEOREM TypeCorrect == Spec => []TypeOK
  <1>1. IInv => TypeOK
    BY DEF IInv
  <1>2. QED
    BY Invariance, <1>1, PTL

\* WrongthinkServiceImpl.cpp:80-82: whoever is not an admin came after one
\* who is, however many accounts are created at once.
THEOREM FirstIsAdmin == Spec => []FirstUserIsAdmin
  <1>1. IInv => FirstUserIsAdmin
    BY DEF IInv
  <1>2. QED
    BY Invariance, <1>1, PTL

\* DBPostgres.cpp:176-178, 188-193, 202-205: the id in an OK answer is that
\* of the row the call inserted.
THEOREM AnswersOwnRow == Spec => []AnsweredOwnRow
  <1>1. IInv => AnsweredOwnRow
    BY DEF IInv
  <1>2. QED
    BY Invariance, <1>1, PTL

\* DBPostgres.cpp:210-226: a listing has every row acknowledged before it
\* was asked for, each once.
THEOREM ListsAreComplete == Spec => []ListsAcknowledged
  <1>1. IInv => ListsAcknowledged
    BY DEF IInv, ListInv, ListOK, ListsAcknowledged, Written
  <1>2. QED
    BY Invariance, <1>1, PTL

=============================================================================
