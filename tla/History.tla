------------------------------ MODULE History ------------------------------
(***************************************************************************)
(* What GetWrongthinkMessages shows of the messages that are being sent.   *)
(* The history is ordered by msg_id.  An id is drawn from a sequence when  *)
(* the insert begins, after the message was broadcast and before the row   *)
(* is committed: rows become visible in another order than that of their   *)
(* ids, and ids are lost with inserts that fail.                           *)
(*                                                                         *)
(* SendWrongthinkMessageWeb is the stream of one message.  The handler     *)
(* uses none of the fields limit, afterid and afterdate of a request.      *)
(***************************************************************************)
EXTENDS Naturals, Sequences, FiniteSets, Functions

CONSTANTS
  Stream,      \* calls of SendWrongthinkMessage
  Web,         \* calls of SendWrongthinkMessageWeb
  Reader,      \* calls of GetWrongthinkMessages
  Channel,     \* channel ids in table channels
  User,        \* user ids a client may name
  KnownUser,   \* those with a row in users
  MaxPerCall,  \* bound: messages read in one stream
  MaxCrashes   \* bound: times the server process dies

Sender == Stream \cup Web
Call == Sender \cup Reader

ASSUME HistoryAssumption ==
  /\ Stream \cap Web = {}
  /\ Sender \cap Reader = {}
  /\ KnownUser \subseteq User
  /\ MaxPerCall \in Nat \ {0}
  /\ MaxCrashes \in Nat

VARIABLES
  serial,   \* database: the msg_id drawn last
  rows,     \* database: table message
  up,       \* is a server process running?
  crashes,  \* how often it died
  pc,       \* per call: where its handler is
  status,   \* per call: the status it ended with, or "none"
  sent,     \* per sender: the messages it broadcast, oldest first
  id,       \* per sender: the msg_id its last insert drew, 0 if none
  channel,  \* per reader: the channel its client asks for
  left,     \* per reader: the rows of the answer it has not written yet
  shown,    \* per reader: the rows it wrote, oldest first
  before,   \* history, per sender: for each message, `rows` at its broadcast
  asked     \* history, per reader: what was settled when it asked

dbVars == <<serial, rows>>
senderVars == <<sent, id, before>>
readerVars == <<channel, left, shown, asked>>
vars == <<serial, rows, up, crashes, pc, status, sent, id, channel, left,
          shown, before, asked>>

Init ==
  /\ serial = 0
  /\ rows = {}
  /\ up = TRUE
  /\ crashes = 0
  /\ pc = [c \in Call |-> "idle"]
  /\ status = [c \in Call |-> "none"]
  /\ sent = [s \in Sender |-> <<>>]
  /\ id = [s \in Sender |-> 0]
  /\ channel \in [Reader -> Channel]
  /\ left = [r \in Reader |-> {}]
  /\ shown = [r \in Reader |-> <<>>]
  /\ before = [s \in Sender |-> <<>>]
  /\ asked = [r \in Reader |-> [messages |-> {}, readers |-> {}]]

-----------------------------------------------------------------------------
Goto(c, label) == pc' = [pc EXCEPT ![c] = label]

Return(c, st) ==
  /\ Goto(c, "done")
  /\ status' = [status EXCEPT ![c] = st]

Start(s) ==
  /\ up
  /\ pc[s] = "idle"
  /\ Goto(s, "reading")
  /\ UNCHANGED <<dbVars, up, crashes, status, senderVars, readerVars>>

\* A sender that may yet broadcast a message.
Receiving(s) == pc[s] = "reading" /\ (s \in Web => sent[s] = <<>>)

\* checkForChannel finds no channel of that id.
TurnAway(s) ==
  /\ Receiving(s)
  /\ Return(s, "INVALID_ARGUMENT")
  /\ UNCHANGED <<dbVars, up, crashes, senderVars, readerVars>>

\* A message is read and broadcast; its insert goes to the database.
Send(s, ch, u) ==
  /\ Receiving(s)
  /\ Len(sent[s]) < MaxPerCall
  /\ sent' = [sent EXCEPT ![s] =
       Append(@, [call |-> s, n |-> Len(@) + 1, channel |-> ch, user |-> u])]
  /\ before' = [before EXCEPT ![s] = Append(@, rows)]
  /\ Goto(s, "inserting")
  /\ UNCHANGED <<dbVars, up, crashes, status, id, readerVars>>

Message(s) == sent[s][Len(sent[s])]

\* Slip: the new id is one more than the number of rows.
DrawCount(s) ==
  /\ pc[s] \in {"inserting", "orphan inserting"}
  /\ serial' = serial + 1
  /\ id' = [id EXCEPT ![s] = Cardinality(rows) + 1]
  /\ Goto(s, IF pc[s] = "inserting" THEN "drawn" ELSE "orphan drawn")
  /\ UNCHANGED <<rows, up, crashes, status, sent, before, readerVars>>

\* Slip: every session draws its ids in blocks of two.
DrawFromBlock(s) ==
  /\ pc[s] \in {"inserting", "orphan inserting"}
  /\ IF id[s] % 2 = 1
       THEN id' = [id EXCEPT ![s] = @ + 1] /\ UNCHANGED serial
       ELSE id' = [id EXCEPT ![s] = serial + 1] /\ serial' = serial + 2
  /\ Goto(s, IF pc[s] = "inserting" THEN "drawn" ELSE "orphan drawn")
  /\ UNCHANGED <<rows, up, crashes, status, sent, before, readerVars>>

\* The default of msg_id: nextval, which no rollback takes back.
Draw(s) ==
  /\ pc[s] \in {"inserting", "orphan inserting"}
  /\ serial' = serial + 1
  /\ id' = [id EXCEPT ![s] = serial']
  /\ Goto(s, IF pc[s] = "inserting" THEN "drawn" ELSE "orphan drawn")
  /\ UNCHANGED <<rows, up, crashes, status, sent, before, readerVars>>

\* The references hold and the row is committed, whether the handler is
\* still there or not.
Commit(s) ==
  /\ pc[s] \in {"drawn", "orphan drawn"}
  /\ Message(s).user \in KnownUser
  /\ rows' = rows \cup {[id |-> id[s], message |-> Message(s)]}
  /\ Goto(s, IF pc[s] = "drawn" THEN "inserted" ELSE "done")
  /\ UNCHANGED <<serial, up, crashes, status, senderVars, readerVars>>

Reject(s) ==
  /\ pc[s] = "drawn"
  /\ Message(s).user \notin KnownUser
  /\ Return(s, "INTERNAL")
  /\ UNCHANGED <<dbVars, up, crashes, senderVars, readerVars>>

\* The database has answered: the next message, please.
Answered(s) ==
  /\ pc[s] = "inserted"
  /\ Goto(s, "reading")
  /\ UNCHANGED <<dbVars, up, crashes, status, senderVars, readerVars>>

EndOfStream(s) ==
  /\ pc[s] = "reading"
  /\ s \in Web => sent[s] # <<>>
  /\ Return(s, "OK")
  /\ UNCHANGED <<dbVars, up, crashes, senderVars, readerVars>>

-----------------------------------------------------------------------------
(* GetWrongthinkMessagesImpl *)

Acknowledged == UNION {Range(sent[s]) : s \in {q \in Sender : status[q] = "OK"}}

Ask(r) ==
  /\ up
  /\ pc[r] = "idle"
  /\ asked' = [asked EXCEPT ![r] =
       [messages |-> Acknowledged, readers |-> {q \in Reader : status[q] = "OK"}]]
  /\ Goto(r, "querying")
  /\ UNCHANGED <<dbVars, up, crashes, status, senderVars, channel, left, shown>>

\* getChannelMessages: the whole answer comes at once.  The join with users
\* loses no row, as message.user_id references users.
Query(r) ==
  /\ pc[r] = "querying"
  /\ left' = [left EXCEPT ![r] =
       {row \in rows : row.message.channel = channel[r]}]
  /\ Goto(r, "writing")
  /\ UNCHANGED <<dbVars, up, crashes, status, senderVars, channel, shown, asked>>

\* Slip: no "order by".
WriteAnyRow(r) ==
  /\ pc[r] = "writing"
  /\ \E row \in left[r] :
       /\ left' = [left EXCEPT ![r] = @ \ {row}]
       /\ shown' = [shown EXCEPT ![r] = Append(@, row)]
  /\ UNCHANGED <<dbVars, up, crashes, pc, status, senderVars, channel, asked>>

\* The next row in the order of msg_id; whether the client gets it is not
\* looked at.
WriteRow(r) ==
  /\ pc[r] = "writing"
  /\ \E row \in left[r] :
       /\ \A other \in left[r] : row.id <= other.id
       /\ left' = [left EXCEPT ![r] = @ \ {row}]
       /\ shown' = [shown EXCEPT ![r] = Append(@, row)]
  /\ UNCHANGED <<dbVars, up, crashes, pc, status, senderVars, channel, asked>>

EndRead(r) ==
  /\ pc[r] = "writing"
  /\ left[r] = {}
  /\ Return(r, "OK")
  /\ UNCHANGED <<dbVars, up, crashes, senderVars, readerVars>>

-----------------------------------------------------------------------------
(* Failures *)

\* An insert under way when its handler goes is left to the database.
Abandoned(label) ==
  CASE label = "inserting" -> "orphan inserting"
    [] label = "drawn" -> "orphan drawn"
    [] OTHER -> "done"

\* Slip: the exception is swallowed and OK returned.
LoseSilently(c) ==
  /\ \/ c \in Sender /\ Receiving(c)
     \/ pc[c] \in {"inserting", "drawn", "inserted", "querying"}
  /\ Goto(c, Abandoned(pc[c]))
  /\ status' = [status EXCEPT ![c] = "OK"]
  /\ UNCHANGED <<dbVars, up, crashes, senderVars, readerVars>>

\* The connection to the database breaks under a statement, or cannot be had;
\* before the broadcast that may be the handler's or the interceptor's.
LoseConnection(c) ==
  /\ \/ c \in Sender /\ Receiving(c)
     \/ pc[c] \in {"inserting", "drawn", "inserted", "querying"}
  /\ Goto(c, Abandoned(pc[c]))
  /\ status' = [status EXCEPT ![c] = "INTERNAL"]
  /\ UNCHANGED <<dbVars, up, crashes, senderVars, readerVars>>

Running(c) ==
  pc[c] \in {"reading", "inserting", "drawn", "inserted", "querying", "writing"}

\* The process dies; the sequence and the rows are the database's.
Crash ==
  /\ up
  /\ crashes < MaxCrashes
  /\ up' = FALSE
  /\ crashes' = crashes + 1
  /\ pc' = [c \in Call |-> IF Running(c) THEN Abandoned(pc[c]) ELSE pc[c]]
  /\ status' = [c \in Call |-> IF Running(c) THEN "UNAVAILABLE" ELSE status[c]]
  /\ UNCHANGED <<dbVars, senderVars, readerVars>>

\* main without "clear".
Restart ==
  /\ ~up
  /\ up' = TRUE
  /\ UNCHANGED <<dbVars, crashes, pc, status, senderVars, readerVars>>

-----------------------------------------------------------------------------
Next ==
  \/ \E s \in Sender :
       \/ Start(s) \/ TurnAway(s) \/ Draw(s) \/ Commit(s) \/ Reject(s)
       \/ Answered(s) \/ EndOfStream(s)
       \/ \E ch \in Channel, u \in User : Send(s, ch, u)
  \/ \E r \in Reader : Ask(r) \/ Query(r) \/ WriteRow(r) \/ EndRead(r)
  \/ \E c \in Call : LoseConnection(c)
  \/ Crash
  \/ Restart

Spec == Init /\ [][Next]_vars

-----------------------------------------------------------------------------
(* Properties *)

StatusCode == {"none", "OK", "INVALID_ARGUMENT", "INTERNAL", "UNAVAILABLE"}

Label == {"idle", "reading", "inserting", "drawn", "inserted",
          "orphan inserting", "orphan drawn", "querying", "writing", "done"}

SentMessage ==
  [call : Sender, n : 1..MaxPerCall, channel : Channel, user : User]

Row == [id : 1..serial, message : SentMessage]

\* Every variable stays in its set; an id is that of one message and a message
\* has one id (DBPostgres.cpp:82, WrongthinkServiceImpl.cpp:261).
TypeOK ==
  /\ serial \in Nat
  /\ rows \subseteq Row
  /\ \A row, other \in rows :
       row.id = other.id <=> row.message = other.message
  /\ up \in BOOLEAN
  /\ crashes \in 0..MaxCrashes
  /\ pc \in [Call -> Label]
  /\ status \in [Call -> StatusCode]
  /\ sent \in [Sender -> Seq(SentMessage)]
  /\ id \in [Sender -> 0..serial]
  /\ \A s \in Sender : Len(before[s]) = Len(sent[s])
  /\ channel \in [Reader -> Channel]
  /\ left \in [Reader -> SUBSET rows]
  /\ shown \in [Reader -> Seq(rows)]
  /\ asked \in [Reader -> [messages : SUBSET SentMessage, readers : SUBSET Reader]]

\* The history respects time: a message that was stored when another was
\* broadcast comes first, so that the messages of a stream keep their order
\* and what answers a message of the history comes after it, across failed
\* inserts and restarts (WrongthinkServiceImpl.cpp:260-261, DBPostgres.cpp:241-243).
RealTimeOrder ==
  \A row \in rows :
    \A earlier \in before[row.message.call][row.message.n] :
      earlier.id < row.id

\* A finished reading has every message of the channel that was acknowledged
\* when it was asked for (WrongthinkServiceImpl.cpp:262-268 and 305-330).
HistoryHasAcked ==
  \A r \in Reader : status[r] = "OK" =>
    \A m \in asked[r].messages : m.channel = channel[r] =>
      \E row \in Range(shown[r]) : row.message = m

Place(r, row) == CHOOSE i \in DOMAIN shown[r] : shown[r][i] = row

\* Who reads a channel again finds what was there, in the same order, though
\* a message may have come in between: rows of smaller ids may become visible
\* after rows of larger ones (WrongthinkServiceImpl.cpp:305-330, DBPostgres.cpp:241-243).
RepeatableOrder ==
  \A r \in Reader : status[r] = "OK" =>
    \A q \in asked[r].readers : channel[q] = channel[r] =>
      /\ Range(shown[q]) \subseteq Range(shown[r])
      /\ \A i, j \in DOMAIN shown[q] : i < j =>
           Place(r, shown[q][i]) < Place(r, shown[q][j])

-----------------------------------------------------------------------------
(* Refinement *)

Messages(set) == {row.message : row \in set}

Precedes ==
  {<<p[1].message, p[2].message>> :
    p \in {q \in rows \X rows : q[1].id < q[2].id}}

Floor(s) == IF sent[s] = <<>> THEN {} ELSE Messages(before[s][Len(sent[s])])

Seen(r) == [i \in DOMAIN shown[r] |-> shown[r][i].message]

Outcome(c) == IF pc[c] = "writing" THEN "answered" ELSE status[c]

Archive == INSTANCE MessageArchive WITH
  Post <- SentMessage,
  history <- Messages(rows),
  precedes <- Precedes,
  floor <- [s \in Sender |-> Floor(s)],
  answer <- [r \in Reader |-> Messages(left[r])],
  seen <- [r \in Reader |-> Seen(r)],
  outcome <- [c \in Call |-> Outcome(c)]

\* The history is one growing line of messages: concurrent inserts, the late
\* rows of calls that are gone, lost ids and restarts put a message anywhere
\* behind what it may answer and move nothing, and a reading is one moment of
\* that line (WrongthinkServiceImpl.cpp:258-268 and 305-330, DBPostgres.cpp:240-246).
ArchiveSpec == Archive!Spec

=============================================================================
