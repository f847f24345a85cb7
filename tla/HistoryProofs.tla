---------------------------- MODULE HistoryProofs ----------------------------
(***************************************************************************)
(* Proofs about History for any number of streams, one-message calls,      *)
(* readers, channels, users, messages per stream and crashes.              *)
(***************************************************************************)
EXTENDS History, SequenceTheorems, TLAPS

Stored(m) == \E row \in rows : row.message = m

\* Where the id of the message in hand is drawn, and where its insert may
\* still take effect.
Drawn == {"drawn", "orphan drawn"}
InFlight == {"inserting", "orphan inserting"} \cup Drawn

Over == {"done", "orphan inserting", "orphan drawn"}

\* What the place of a call says about its outcome, its kind and its data.
StatusOK(c) ==
  /\ status[c] = "none" <=> pc[c] \notin Over
  /\ status[c] = "OK" => pc[c] = "done"

SenderOK(s) ==
  /\ pc[s] \notin {"querying", "writing"}
  /\ pc[s] = "idle" => sent[s] = <<>>
  /\ pc[s] \in InFlight \cup {"inserted"} => sent[s] # <<>>
  /\ \A n \in DOMAIN sent[s] : sent[s][n].call = s /\ sent[s][n].n = n

CallInv ==
  /\ \A c \in Call : StatusOK(c)
  /\ \A s \in Sender : SenderOK(s)
  /\ \A r \in Reader : pc[r] \in {"idle", "querying", "writing", "done"}

\* What was in the database when a message was broadcast is still there.
BeforeInv == before \in [Sender -> Seq(SUBSET rows)]

\* A row is what its sender sent at the row's place in the call.
RowInv ==
  \A row \in rows :
    /\ row.message.n \in DOMAIN sent[row.message.call]
    /\ row.message = sent[row.message.call][row.message.n]

\* An id that was drawn is of no row and no other insert under way, and
\* above those of all rows that were there at the broadcast.
IdInv ==
  \A s \in Sender : pc[s] \in Drawn =>
    /\ id[s] \in 1..serial
    /\ \A row \in rows : row.id # id[s]
    /\ \A q \in Sender \ {s} : pc[q] \in Drawn => id[q] # id[s]
    /\ \A earlier \in before[s][Len(sent[s])] : earlier.id < id[s]

\* Every message of a call but the last is stored; whether the last one is
\* depends on where the call is.
StoreOK(s) ==
  \A n \in DOMAIN sent[s] :
    /\ n < Len(sent[s]) => Stored(sent[s][n])
    /\ pc[s] \in {"reading", "inserted"} \/ status[s] = "OK" =>
         Stored(sent[s][n])
    /\ n = Len(sent[s]) /\ pc[s] \in InFlight => ~Stored(sent[s][n])

StoreInv == \A s \in Sender : StoreOK(s)

\* The rows of the answer of r, written or not.
Answer(r) == left[r] \cup Range(shown[r])

\* What r has written is in the order of ids and below what is left.
SortedOK(r) ==
  /\ \A i, j \in DOMAIN shown[r] : i < j => shown[r][i].id < shown[r][j].id
  /\ \A i \in DOMAIN shown[r], row \in left[r] : shown[r][i].id < row.id
  /\ pc[r] \in {"idle", "querying"} => left[r] = {} /\ shown[r] = <<>>
  /\ status[r] = "OK" => left[r] = {}
  /\ \A row \in Answer(r) : row.message.channel = channel[r]

SortedInv == \A r \in Reader : SortedOK(r)

\* What was settled when r asked is settled, and once r has its answer it is
\* in there.
AskedOK(r) ==
  /\ \A m \in asked[r].messages : Stored(m)
  /\ \A q \in asked[r].readers : status[q] = "OK"
  /\ pc[r] = "writing" \/ status[r] = "OK" =>
       /\ \A m \in asked[r].messages : m.channel = channel[r] =>
            \E row \in Answer(r) : row.message = m
       /\ \A q \in asked[r].readers : channel[q] = channel[r] =>
            Range(shown[q]) \subseteq Answer(r)

AskedInv == \A r \in Reader : AskedOK(r)

\* The inductive invariant.
IInv ==
  /\ TypeOK
  /\ CallInv
  /\ BeforeInv
  /\ RowInv
  /\ IdInv
  /\ StoreInv
  /\ RealTimeOrder
  /\ SortedInv
  /\ AskedInv

-----------------------------------------------------------------------------
(* Sequences *)

\* What Append does to a sequence.
LEMMA AppendFacts ==
  ASSUME NEW S, NEW q \in Seq(S), NEW e \in S
  PROVE  /\ Append(q, e) \in Seq(S)
         /\ Len(q) \in Nat
         /\ Len(Append(q, e)) = Len(q) + 1
         /\ DOMAIN q = 1..Len(q)
         /\ DOMAIN Append(q, e) = 1..(Len(q) + 1)
         /\ Append(q, e)[Len(q) + 1] = e
         /\ \A i \in 1..Len(q) : Append(q, e)[i] = q[i]
         /\ \A i \in 1..Len(q) : q[i] \in S
  OBVIOUS

\* The empty sequence.
LEMMA EmptyFacts ==
  ASSUME NEW S
  PROVE  <<>> \in Seq(S) /\ Len(<<>>) = 0 /\ DOMAIN <<>> = {}
  OBVIOUS

\* A sequence stays one over a larger set.
LEMMA WiderSeq ==
  ASSUME NEW S, NEW T, S \subseteq T, NEW q \in Seq(S)
  PROVE  q \in Seq(T)
  OBVIOUS

\* What Append adds to the elements of a sequence.
LEMMA RangeAppend ==
  ASSUME NEW S, NEW q \in Seq(S), NEW e \in S
  PROVE  Range(Append(q, e)) = Range(q) \cup {e}
  BY AppendFacts DEF Range

\* The message in hand.
LEMMA MessageFacts ==
  ASSUME TypeOK, NEW s \in Sender, sent[s] # <<>>
  PROVE  /\ Message(s) \in SentMessage
         /\ Len(sent[s]) \in DOMAIN sent[s]
         /\ Message(s) = sent[s][Len(sent[s])]
  <1>1. sent[s] \in Seq(SentMessage)
    BY DEF TypeOK
  <1>2. QED
    BY <1>1 DEF Message

-----------------------------------------------------------------------------
(* Kinds of steps *)

\* A call stays where it is, a sender wants its next message, or the call
\* ends.
MoveOK(c) ==
  \/ pc'[c] = pc[c] /\ status'[c] = status[c]
  \/ /\ c \in Sender
     /\ pc[c] \in {"idle", "inserted"}
     /\ pc'[c] = "reading"
     /\ status'[c] = status[c]
  \/ /\ status[c] = "none"
     /\ \/ pc'[c] = "done"
        \/ pc[c] = "inserting" /\ pc'[c] = "orphan inserting"
        \/ pc[c] = "drawn" /\ pc'[c] = "orphan drawn"
     /\ \/ status'[c] \in {"INTERNAL", "UNAVAILABLE"}
        \/ /\ c \in Sender /\ pc[c] = "reading"
           /\ status'[c] = "INVALID_ARGUMENT"
        \/ /\ status'[c] = "OK" /\ pc'[c] = "done"
           /\ \/ c \in Sender /\ pc[c] = "reading"
              \/ c \in Reader /\ pc[c] = "writing" /\ left[c] = {}

\* Only places and outcomes change.
Calm ==
  /\ UNCHANGED <<dbVars, senderVars, readerVars>>
  /\ up' \in BOOLEAN
  /\ crashes' \in 0..MaxCrashes
  /\ pc' \in [Call -> Label]
  /\ status' \in [Call -> StatusCode]
  /\ \A c \in Call : MoveOK(c)

Kinds ==
  \/ Calm
  \/ \E s \in Sender :
       \/ \E ch \in Channel, u \in User : Send(s, ch, u)
       \/ Draw(s) \/ Commit(s)
  \/ \E r \in Reader : Ask(r) \/ Query(r) \/ WriteRow(r)

\* Every step is of one of these kinds.
LEMMA StepKinds == IInv /\ [Next]_vars => Kinds
  <1> SUFFICES ASSUME IInv, [Next]_vars PROVE Kinds
    OBVIOUS
  <1>0. /\ pc \in [Call -> Label]
        /\ status \in [Call -> StatusCode]
        /\ \A c \in Call : status[c] = "none" <=> pc[c] \notin Over
        /\ \A s \in Sender : s \in Call
        /\ \A r \in Reader : r \in Call
    BY DEF IInv, TypeOK, CallInv, StatusOK, Call
  <1>a. up \in BOOLEAN
    BY DEF IInv, TypeOK
  <1>b. crashes \in 0..MaxCrashes
    BY DEF IInv, TypeOK
  <1> USE DEF Over, StatusCode
  <1>1. ASSUME NEW s \in Sender, Start(s) PROVE Calm
    BY <1>0, <1>a, <1>b, <1>1 DEF Start, Goto, Calm, MoveOK, Label
  <1>2. ASSUME NEW s \in Sender, Reject(s) PROVE Calm
    BY <1>0, <1>a, <1>b, <1>2 DEF Reject, Return, Goto, Calm, MoveOK, Label
  <1>3. ASSUME NEW s \in Sender, Answered(s) PROVE Calm
    BY <1>0, <1>a, <1>b, <1>3 DEF Answered, Goto, Calm, MoveOK, Label
  <1>4. ASSUME NEW s \in Sender, EndOfStream(s) PROVE Calm
    BY <1>0, <1>a, <1>b, <1>4 DEF EndOfStream, Return, Goto, Calm, MoveOK, Label
  <1>5. ASSUME NEW r \in Reader, EndRead(r) PROVE Calm
    BY <1>0, <1>a, <1>b, <1>5 DEF EndRead, Return, Goto, Calm, MoveOK, Label
  <1>6. ASSUME NEW c \in Call, LoseConnection(c) PROVE Calm
    BY <1>0, <1>a, <1>b, <1>6
    DEF LoseConnection, Receiving, Abandoned, Goto, Calm, MoveOK, Label
  <1>10. ASSUME NEW s \in Sender, TurnAway(s) PROVE Calm
    BY <1>0, <1>a, <1>b, <1>10
    DEF TurnAway, Receiving, Return, Goto, Calm, MoveOK, Label
  <1>7. ASSUME Crash PROVE Calm
    <2>1. UNCHANGED <<dbVars, senderVars, readerVars>>
      BY <1>7 DEF Crash
    <2>2. up' \in BOOLEAN /\ crashes' \in 0..MaxCrashes
      <3>1. up' \in BOOLEAN
        BY <1>7 DEF Crash
      <3>2. crashes' \in 0..MaxCrashes
        BY <1>b, <1>7, HistoryAssumption DEF Crash
      <3>3. QED
        BY <3>1, <3>2
    <2>3. ASSUME NEW c \in Call
          PROVE  /\ pc'[c] \in Label
                 /\ status'[c] \in StatusCode
                 /\ MoveOK(c)
      BY <1>0, <1>7 DEF Crash, Running, Abandoned, MoveOK, Label
    <2>4. /\ pc' \in [Call -> Label]
          /\ status' \in [Call -> StatusCode]
      BY <1>7, <2>3 DEF Crash
    <2>5. QED
      BY <2>1, <2>2, <2>3, <2>4 DEF Calm
  <1>8. ASSUME Restart PROVE Calm
    BY <1>0, <1>a, <1>b, <1>8 DEF Restart, Calm, MoveOK
  <1>9. ASSUME UNCHANGED vars PROVE Calm
    <2>1. UNCHANGED <<dbVars, up, crashes, pc, status, senderVars, readerVars>>
      BY <1>9 DEF vars, dbVars, senderVars, readerVars
    <2>2. up' \in BOOLEAN
      BY <1>a, <2>1
    <2>3. QED
      BY <1>0, <1>b, <2>1, <2>2 DEF Calm, MoveOK
  <1>11. QED
    BY <1>1, <1>2, <1>3, <1>4, <1>5, <1>6, <1>7, <1>8, <1>9, <1>10 DEF Next, Kinds

\* A sender reads and broadcasts one message more.
LEMMA SendFacts ==
  ASSUME IInv, NEW s \in Sender, NEW ch \in Channel, NEW u \in User,
         Send(s, ch, u)
  PROVE  \E m \in SentMessage :
           /\ m.call = s
           /\ m.n = Len(sent[s]) + 1
           /\ sent[s] \in Seq(SentMessage)
           /\ sent' = [sent EXCEPT ![s] = Append(sent[s], m)]
           /\ sent' \in [Sender -> Seq(SentMessage)]
           /\ Len(sent[s]) \in Nat
           /\ Len(sent'[s]) = Len(sent[s]) + 1
           /\ DOMAIN sent[s] = 1..Len(sent[s])
           /\ DOMAIN sent'[s] = 1..(Len(sent[s]) + 1)
           /\ sent'[s][Len(sent[s]) + 1] = m
           /\ \A n \in 1..Len(sent[s]) : sent'[s][n] = sent[s][n]
           /\ \A q \in Sender \ {s} : sent'[q] = sent[q]
           /\ pc[s] = "reading"
           /\ pc' = [pc EXCEPT ![s] = "inserting"]
           /\ UNCHANGED <<serial, rows, up, crashes, status, id, channel,
                          left, shown, asked>>
  <1> DEFINE m == [call |-> s, n |-> Len(sent[s]) + 1, channel |-> ch, user |-> u]
  <1>1. sent \in [Sender -> Seq(SentMessage)] /\ sent[s] \in Seq(SentMessage)
    BY DEF IInv, TypeOK
  <1>2. Len(sent[s]) + 1 \in 1..MaxPerCall
    BY <1>1, HistoryAssumption DEF Send
  <1>3. m \in SentMessage
    BY <1>2 DEF SentMessage
  <1>4. sent' = [sent EXCEPT ![s] = Append(sent[s], m)]
    BY DEF Send
  <1>5. /\ Append(sent[s], m) \in Seq(SentMessage)
        /\ Len(sent[s]) \in Nat
        /\ Len(Append(sent[s], m)) = Len(sent[s]) + 1
        /\ DOMAIN sent[s] = 1..Len(sent[s])
        /\ DOMAIN Append(sent[s], m) = 1..(Len(sent[s]) + 1)
        /\ Append(sent[s], m)[Len(sent[s]) + 1] = m
        /\ \A n \in 1..Len(sent[s]) : Append(sent[s], m)[n] = sent[s][n]
    BY <1>1, <1>3, AppendFacts
  <1>6. /\ sent'[s] = Append(sent[s], m)
        /\ sent' \in [Sender -> Seq(SentMessage)]
        /\ \A q \in Sender \ {s} : sent'[q] = sent[q]
    BY <1>1, <1>4, <1>5
  <1>7. /\ pc[s] = "reading"
        /\ pc' = [pc EXCEPT ![s] = "inserting"]
        /\ UNCHANGED <<serial, rows, up, crashes, status, id, channel,
                       left, shown, asked>>
    BY DEF Send, Receiving, Goto, dbVars, readerVars
  <1>8. m.call = s /\ m.n = Len(sent[s]) + 1
    OBVIOUS
  <1>9. WITNESS m \in SentMessage
  <1>10. QED
    BY <1>1, <1>4, <1>5, <1>6, <1>7, <1>8

\* What the database has at the broadcast is noted beside the message.
LEMMA BeforeFacts ==
  ASSUME IInv, NEW s \in Sender, NEW ch \in Channel, NEW u \in User,
         Send(s, ch, u)
  PROVE  /\ before' \in [Sender -> Seq(SUBSET rows)]
         /\ Len(before[s]) = Len(sent[s])
         /\ Len(before'[s]) = Len(sent[s]) + 1
         /\ DOMAIN before[s] = 1..Len(sent[s])
         /\ before'[s][Len(sent[s]) + 1] = rows
         /\ \A n \in 1..Len(sent[s]) : before'[s][n] = before[s][n]
         /\ \A q \in Sender \ {s} : before'[q] = before[q]
  <1>1. /\ before \in [Sender -> Seq(SUBSET rows)]
        /\ before[s] \in Seq(SUBSET rows)
        /\ Len(before[s]) = Len(sent[s])
        /\ rows \in SUBSET rows
    BY DEF IInv, TypeOK, BeforeInv
  <1>2. before' = [before EXCEPT ![s] = Append(before[s], rows)]
    BY DEF Send
  <1>3. /\ Append(before[s], rows) \in Seq(SUBSET rows)
        /\ Len(before[s]) \in Nat
        /\ Len(Append(before[s], rows)) = Len(before[s]) + 1
        /\ DOMAIN before[s] = 1..Len(before[s])
        /\ Append(before[s], rows)[Len(before[s]) + 1] = rows
        /\ \A n \in 1..Len(before[s]) : Append(before[s], rows)[n] = before[s][n]
    BY <1>1, AppendFacts
  <1>4. QED
    BY <1>1, <1>2, <1>3

\* An insert takes the next value of the serial, which no row and no other
\* insert has.
LEMMA DrawFacts ==
  ASSUME IInv, NEW s \in Sender, Draw(s)
  PROVE  /\ pc[s] \in {"inserting", "orphan inserting"}
         /\ serial \in Nat
         /\ serial' = serial + 1
         /\ id' \in [Sender -> 0..serial']
         /\ id'[s] = serial + 1
         /\ \A q \in Sender \ {s} : id'[q] = id[q]
         /\ pc' \in [Call -> Label]
         /\ pc'[s] = IF pc[s] = "inserting" THEN "drawn" ELSE "orphan drawn"
         /\ \A c \in Call \ {s} : pc'[c] = pc[c]
         /\ UNCHANGED <<rows, up, crashes, status, sent, before, channel,
                        left, shown, asked>>
  <1>1. /\ s \in Call
        /\ pc \in [Call -> Label]
        /\ id \in [Sender -> 0..serial]
        /\ serial \in Nat
    BY DEF IInv, TypeOK, Call
  <1>2. id' = [id EXCEPT ![s] = serial + 1] /\ serial' = serial + 1
    BY DEF Draw
  <1>3. /\ id' \in [Sender -> 0..serial']
        /\ id'[s] = serial + 1
        /\ \A q \in Sender \ {s} : id'[q] = id[q]
    BY <1>1, <1>2
  <1>4. /\ pc' \in [Call -> Label]
        /\ pc'[s] = IF pc[s] = "inserting" THEN "drawn" ELSE "orphan drawn"
        /\ \A c \in Call \ {s} : pc'[c] = pc[c]
    BY <1>1 DEF Draw, Goto, Label
  <1>5. QED
    BY <1>1, <1>2, <1>3, <1>4 DEF Draw, readerVars

\* An insert commits its message under the id it has drawn.
LEMMA CommitFacts ==
  ASSUME IInv, NEW s \in Sender, Commit(s)
  PROVE  \E new \in Row :
           /\ new.id = id[s]
           /\ new.message = Message(s)
           /\ rows' = rows \cup {new}
           /\ sent[s] # <<>>
           /\ pc[s] \in Drawn
           /\ pc' \in [Call -> Label]
           /\ pc'[s] = IF pc[s] = "drawn" THEN "inserted" ELSE "done"
           /\ \A c \in Call \ {s} : pc'[c] = pc[c]
           /\ UNCHANGED <<serial, up, crashes, status, sent, id, before,
                          channel, left, shown, asked>>
  <1> DEFINE new == [id |-> id[s], message |-> Message(s)]
  <1>1. s \in Call /\ pc \in [Call -> Label] /\ pc[s] \in Drawn
    BY DEF IInv, TypeOK, Call, Commit, Drawn
  <1>2. id[s] \in 1..serial /\ sent[s] # <<>>
    BY <1>1 DEF IInv, IdInv, CallInv, SenderOK, InFlight
  <1>3. new \in Row
    BY <1>2, MessageFacts DEF Row, IInv
  <1>4. /\ pc' \in [Call -> Label]
        /\ pc'[s] = IF pc[s] = "drawn" THEN "inserted" ELSE "done"
        /\ \A c \in Call \ {s} : pc'[c] = pc[c]
    BY <1>1 DEF Commit, Goto, Label
  <1>5. WITNESS new \in Row
  <1>6. QED
    BY <1>1, <1>2, <1>4 DEF Commit, senderVars, readerVars

\* A reader asks, and nothing else changes.
LEMMA AskFacts ==
  ASSUME IInv, NEW r \in Reader, Ask(r)
  PROVE  /\ pc[r] = "idle"
         /\ asked' \in [Reader ->
              [messages : SUBSET SentMessage, readers : SUBSET Reader]]
         /\ asked'[r].messages = Acknowledged
         /\ asked'[r].readers = {q \in Reader : status[q] = "OK"}
         /\ \A q \in Reader \ {r} : asked'[q] = asked[q]
         /\ pc' \in [Call -> Label]
         /\ pc'[r] = "querying"
         /\ \A c \in Call \ {r} : pc'[c] = pc[c]
         /\ UNCHANGED <<serial, rows, up, crashes, status, sent, id, before,
                        channel, left, shown>>
  <1>1. /\ r \in Call
        /\ pc \in [Call -> Label]
        /\ sent \in [Sender -> Seq(SentMessage)]
        /\ asked \in [Reader ->
             [messages : SUBSET SentMessage, readers : SUBSET Reader]]
    BY DEF IInv, TypeOK, Call
  <1>2. Acknowledged \subseteq SentMessage
    <2>1. \A s \in Sender : Range(sent[s]) \subseteq SentMessage
      BY <1>1 DEF Range
    <2>2. QED
      BY <2>1 DEF Acknowledged
  <1> DEFINE new == [messages |-> Acknowledged,
                     readers |-> {q \in Reader : status[q] = "OK"}]
  <1>3. asked' = [asked EXCEPT ![r] = new]
    BY DEF Ask
  <1>4. new \in [messages : SUBSET SentMessage, readers : SUBSET Reader]
    BY <1>2
  <1>5. /\ asked' \in [Reader ->
             [messages : SUBSET SentMessage, readers : SUBSET Reader]]
        /\ asked'[r] = new
        /\ \A q \in Reader \ {r} : asked'[q] = asked[q]
    BY <1>1, <1>3, <1>4
  <1>6. /\ pc[r] = "idle"
        /\ pc' \in [Call -> Label]
        /\ pc'[r] = "querying"
        /\ \A c \in Call \ {r} : pc'[c] = pc[c]
    BY <1>1 DEF Ask, Goto, Label
  <1>7. QED
    BY <1>5, <1>6 DEF Ask, dbVars, senderVars

\* A reader gets all rows of its channel at once.
LEMMA QueryFacts ==
  ASSUME IInv, NEW r \in Reader, Query(r)
  PROVE  /\ pc[r] = "querying"
         /\ left' \in [Reader -> SUBSET rows]
         /\ left'[r] = {row \in rows : row.message.channel = channel[r]}
         /\ \A q \in Reader \ {r} : left'[q] = left[q]
         /\ pc' \in [Call -> Label]
         /\ pc'[r] = "writing"
         /\ \A c \in Call \ {r} : pc'[c] = pc[c]
         /\ UNCHANGED <<serial, rows, up, crashes, status, sent, id, before,
                        channel, shown, asked>>
  <1>1. /\ r \in Call
        /\ pc \in [Call -> Label]
        /\ left \in [Reader -> SUBSET rows]
    BY DEF IInv, TypeOK, Call
  <1>2. /\ left' \in [Reader -> SUBSET rows]
        /\ left'[r] = {row \in rows : row.message.channel = channel[r]}
        /\ \A q \in Reader \ {r} : left'[q] = left[q]
    BY <1>1 DEF Query
  <1>3. /\ pc[r] = "querying"
        /\ pc' \in [Call -> Label]
        /\ pc'[r] = "writing"
        /\ \A c \in Call \ {r} : pc'[c] = pc[c]
    BY <1>1 DEF Query, Goto, Label
  <1>4. QED
    BY <1>2, <1>3 DEF Query, dbVars, senderVars

\* The row that is written leaves what is left and is below the rest of it.
LEMMA WriteFacts ==
  ASSUME IInv, NEW r \in Reader, WriteRow(r)
  PROVE  \E row \in left[r] :
           /\ row \in rows
           /\ shown[r] \in Seq(rows)
           /\ pc[r] = "writing"
           /\ \A other \in left[r] \ {row} : row.id < other.id
           /\ left' \in [Reader -> SUBSET rows]
           /\ left'[r] = left[r] \ {row}
           /\ shown' \in [Reader -> Seq(rows)]
           /\ shown'[r] = Append(shown[r], row)
           /\ \A q \in Reader \ {r} : left'[q] = left[q] /\ shown'[q] = shown[q]
           /\ UNCHANGED <<serial, rows, up, crashes, pc, status, sent, id,
                          before, channel, asked>>
  <1>1. /\ left \in [Reader -> SUBSET rows]
        /\ shown \in [Reader -> Seq(rows)]
        /\ rows \subseteq Row
        /\ \A row, other \in rows :
             row.id = other.id <=> row.message = other.message
        /\ serial \in Nat
    BY DEF IInv, TypeOK
  <1>2. PICK row \in left[r] :
          /\ \A other \in left[r] : row.id <= other.id
          /\ left' = [left EXCEPT ![r] = left[r] \ {row}]
          /\ shown' = [shown EXCEPT ![r] = Append(shown[r], row)]
    BY DEF WriteRow
  <1>3. row \in rows /\ shown[r] \in Seq(rows)
    BY <1>1
  <1>4. Append(shown[r], row) \in Seq(rows)
    BY <1>3, AppendFacts
  <1>5. ASSUME NEW other \in left[r] \ {row} PROVE row.id < other.id
    <2>1. row \in Row /\ other \in Row /\ other \in rows
      BY <1>1, <1>3
    <2>2. /\ row = [id |-> row.id, message |-> row.message]
          /\ other = [id |-> other.id, message |-> other.message]
          /\ row.id \in 1..serial /\ other.id \in 1..serial
      BY <2>1 DEF Row
    <2>3. row.id # other.id
      BY <1>1, <1>3, <1>5, <2>1, <2>2
    <2>4. QED
      BY <1>1, <1>2, <2>2, <2>3
  <1>6. /\ left' \in [Reader -> SUBSET rows]
        /\ left'[r] = left[r] \ {row}
        /\ shown' \in [Reader -> Seq(rows)]
        /\ shown'[r] = Append(shown[r], row)
        /\ \A q \in Reader \ {r} : left'[q] = left[q] /\ shown'[q] = shown[q]
    BY <1>1, <1>2, <1>4
  <1>7. /\ pc[r] = "writing"
        /\ UNCHANGED <<serial, rows, up, crashes, pc, status, sent, id,
                       before, channel, asked>>
    BY DEF WriteRow, dbVars, senderVars
  <1>8. WITNESS row \in left[r]
  <1>9. QED
    BY <1>3, <1>5, <1>6, <1>7

-----------------------------------------------------------------------------
(* The variables *)

\* The initial states.
LEMMA InitIInv == Init => IInv
  <1> SUFFICES ASSUME Init PROVE IInv
    OBVIOUS
  <1> USE DEF Init
  <1>1. /\ \A s \in Sender : s \in Call /\ sent[s] = <<>> /\ before[s] = <<>>
        /\ \A r \in Reader : r \in Call /\ left[r] = {} /\ shown[r] = <<>>
        /\ \A r \in Reader : asked[r].messages = {} /\ asked[r].readers = {}
        /\ \A c \in Call : pc[c] = "idle" /\ status[c] = "none"
        /\ rows = {}
    BY DEF Call
  <1>2. TypeOK
    <2>1. /\ up \in BOOLEAN /\ serial \in Nat /\ crashes \in 0..MaxCrashes
          /\ rows \subseteq Row
      BY HistoryAssumption
    <2>2. /\ sent \in [Sender -> Seq(SentMessage)]
          /\ shown \in [Reader -> Seq(rows)]
          /\ id \in [Sender -> 0..serial]
      BY EmptyFacts
    <2>3. /\ pc \in [Call -> Label]
          /\ status \in [Call -> StatusCode]
      BY DEF Label, StatusCode
    <2>4. /\ left \in [Reader -> SUBSET rows]
          /\ asked \in [Reader ->
               [messages : SUBSET SentMessage, readers : SUBSET Reader]]
          /\ channel \in [Reader -> Channel]
      OBVIOUS
    <2>5. QED
      BY <1>1, <2>1, <2>2, <2>3, <2>4 DEF TypeOK
  <1>3. CallInv
    BY <1>1, EmptyFacts DEF CallInv, StatusOK, SenderOK, Over, InFlight, Drawn
  <1>4. BeforeInv
    BY <1>1, EmptyFacts DEF BeforeInv
  <1>5. RowInv /\ RealTimeOrder
    BY <1>1 DEF RowInv, RealTimeOrder
  <1>6. IdInv
    BY <1>1 DEF IdInv, Drawn
  <1>7. StoreInv
    BY <1>1, EmptyFacts DEF StoreInv, StoreOK
  <1>8. Range(<<>>) = {}
    BY EmptyFacts DEF Range
  <1>9. SortedInv /\ AskedInv
    BY <1>1, <1>8, EmptyFacts DEF SortedInv, SortedOK, AskedInv, AskedOK, Answer
  <1>10. QED
    BY <1>2, <1>3, <1>4, <1>5, <1>6, <1>7, <1>9 DEF IInv

\* Types, by the kind of the step.
LEMMA StepTypeOK == IInv /\ Kinds => TypeOK'
  <1> SUFFICES ASSUME IInv, Kinds PROVE TypeOK'
    OBVIOUS
  <1> USE DEF IInv
  <1>1. CASE Calm
    BY <1>1 DEF Calm, TypeOK, Row, dbVars, senderVars, readerVars
  <1>2. ASSUME NEW s \in Sender, NEW ch \in Channel, NEW u \in User,
               Send(s, ch, u) PROVE TypeOK'
    <2>1. \A q \in Sender : Len(before'[q]) = Len(sent'[q])
      <3>1. Len(before'[s]) = Len(sent'[s])
        BY <1>2, SendFacts, BeforeFacts
      <3>2. ASSUME NEW q \in Sender \ {s} PROVE Len(before'[q]) = Len(sent'[q])
        <4>1. before'[q] = before[q]
          BY <1>2, <3>2, BeforeFacts
        <4>2. sent'[q] = sent[q]
          BY <1>2, <3>2, SendFacts
        <4>3. QED
          BY <4>1, <4>2 DEF TypeOK
      <3>3. QED
        BY <3>1, <3>2
    <2>2. sent' \in [Sender -> Seq(SentMessage)]
      BY <1>2, SendFacts
    <2>3. pc' \in [Call -> Label]
      BY <1>2 DEF Send, Goto, TypeOK, Label
    <2>4. QED
      BY <1>2, <2>1, <2>2, <2>3
      DEF Send, TypeOK, Row, dbVars, readerVars
  <1>3. ASSUME NEW s \in Sender, Draw(s) PROVE TypeOK'
    <2>1. serial \in Nat /\ serial' = serial + 1
      BY <1>3, DrawFacts
    <2>2. Row \subseteq Row'
      BY <2>1 DEF Row
    <2>3. rows' \subseteq Row' /\ serial' \in Nat
      <3>1. rows' = rows
        BY <1>3, DrawFacts
      <3>2. QED
        BY <2>1, <2>2, <3>1 DEF TypeOK
    <2>4. QED
      BY <1>3, <2>3, DrawFacts DEF TypeOK
  <1>4. ASSUME NEW s \in Sender, Commit(s) PROVE TypeOK'
    <2>1. PICK new \in Row :
            /\ new.id = id[s]
            /\ new.message = Message(s)
            /\ rows' = rows \cup {new}
            /\ sent[s] # <<>>
            /\ pc[s] \in Drawn
            /\ pc' \in [Call -> Label]
            /\ UNCHANGED <<serial, up, crashes, status, sent, id, before,
                           channel, left, shown, asked>>
      BY <1>4, CommitFacts
    <2>2. \A row \in rows : row.id # new.id /\ row.message # new.message
      <3>1. \A row \in rows : row.id # id[s]
        BY <2>1 DEF IdInv
      <3>2. ~Stored(Message(s))
        BY <2>1, MessageFacts DEF StoreInv, StoreOK, InFlight
      <3>3. QED
        BY <2>1, <3>1, <3>2 DEF Stored
    <2>3. /\ rows' \subseteq Row'
          /\ \A row, other \in rows' :
               row.id = other.id <=> row.message = other.message
      <3>1. Row' = Row
        BY <2>1 DEF Row
      <3>2. QED
        BY <2>1, <2>2, <3>1 DEF TypeOK
    <2>4. shown' \in [Reader -> Seq(rows')]
      <3>1. \A r \in Reader : shown[r] \in Seq(rows')
        BY <2>1, WiderSeq DEF TypeOK
      <3>2. QED
        BY <2>1, <3>1 DEF TypeOK
    <2>5. left' \in [Reader -> SUBSET rows']
      BY <2>1 DEF TypeOK
    <2>6. QED
      BY <2>1, <2>3, <2>4, <2>5 DEF TypeOK
  <1>5. ASSUME NEW r \in Reader, Ask(r) PROVE TypeOK'
    BY <1>5, AskFacts DEF TypeOK, Row
  <1>6. ASSUME NEW r \in Reader, Query(r) PROVE TypeOK'
    BY <1>6, QueryFacts DEF TypeOK, Row
  <1>7. ASSUME NEW r \in Reader, WriteRow(r) PROVE TypeOK'
    BY <1>7, WriteFacts DEF TypeOK, Row
  <1>8. QED
    BY <1>1, <1>2, <1>3, <1>4, <1>5, <1>6, <1>7 DEF Kinds

\* Places of calls and their data, by the kind of the step.
LEMMA StepCallInv == IInv /\ Kinds => CallInv'
  <1> SUFFICES ASSUME IInv, Kinds PROVE CallInv'
    OBVIOUS
  <1>0. /\ \A c \in Call : StatusOK(c)
        /\ \A s \in Sender : SenderOK(s)
        /\ \A r \in Reader : pc[r] \in {"idle", "querying", "writing", "done"}
    BY DEF IInv, CallInv
  <1>a. /\ \A s \in Sender : s \in Call /\ s \notin Reader
        /\ \A r \in Reader : r \in Call /\ r \notin Sender
        /\ pc \in [Call -> Label]
    BY HistoryAssumption DEF IInv, TypeOK, Call
  <1>b. ASSUME NEW x \in Call,
               StatusOK(x)',
               x \in Sender => SenderOK(x)',
               x \in Reader => pc'[x] \in {"idle", "querying", "writing", "done"},
               \A c \in Call \ {x} : pc'[c] = pc[c] /\ status'[c] = status[c],
               \A s \in Sender \ {x} : sent'[s] = sent[s]
        PROVE  CallInv'
    <2>1. ASSUME NEW c \in Call PROVE StatusOK(c)'
      BY <1>0, <1>b DEF StatusOK
    <2>2. ASSUME NEW s \in Sender PROVE SenderOK(s)'
      BY <1>0, <1>a, <1>b DEF SenderOK
    <2>3. ASSUME NEW r \in Reader
          PROVE  pc'[r] \in {"idle", "querying", "writing", "done"}
      BY <1>0, <1>a, <1>b
    <2>4. QED
      BY <2>1, <2>2, <2>3 DEF CallInv
  <1> USE DEF Over, InFlight, Drawn
  <1>1. CASE Calm
    <2>1. \A c \in Call : MoveOK(c)
      BY <1>1 DEF Calm
    <2>2. sent' = sent
      BY <1>1 DEF Calm, senderVars
    <2>3. ASSUME NEW c \in Call PROVE StatusOK(c)'
      BY <1>0, <2>1 DEF MoveOK, StatusOK
    <2>4. ASSUME NEW r \in Reader
          PROVE  pc'[r] \in {"idle", "querying", "writing", "done"}
      BY <1>0, <1>a, <2>1 DEF MoveOK
    <2>5. ASSUME NEW s \in Sender PROVE SenderOK(s)'
      BY <1>0, <1>a, <2>1, <2>2 DEF MoveOK, SenderOK
    <2>6. QED
      BY <2>3, <2>4, <2>5 DEF CallInv
  <1>2. ASSUME NEW s \in Sender, NEW ch \in Channel, NEW u \in User,
               Send(s, ch, u) PROVE CallInv'
    <2>1. sent'[s] # <<>>
      BY <1>2, SendFacts, EmptyFacts
    <2>2. /\ pc[s] = "reading"
          /\ pc'[s] = "inserting"
          /\ \A c \in Call \ {s} : pc'[c] = pc[c]
          /\ status' = status
      BY <1>a, <1>2, SendFacts
    <2>3. ASSUME NEW n \in DOMAIN sent'[s]
          PROVE  sent'[s][n].call = s /\ sent'[s][n].n = n
      <3>1. PICK m \in SentMessage :
              /\ m.call = s
              /\ m.n = Len(sent[s]) + 1
              /\ Len(sent[s]) \in Nat
              /\ DOMAIN sent[s] = 1..Len(sent[s])
              /\ DOMAIN sent'[s] = 1..(Len(sent[s]) + 1)
              /\ sent'[s][Len(sent[s]) + 1] = m
              /\ \A i \in 1..Len(sent[s]) : sent'[s][i] = sent[s][i]
        BY <1>2, SendFacts
      <3>2. \A i \in 1..Len(sent[s]) :
              sent[s][i].call = s /\ sent[s][i].n = i
        <4>1. \A i \in DOMAIN sent[s] :
                sent[s][i].call = s /\ sent[s][i].n = i
          BY <1>0 DEF SenderOK
        <4>2. QED
          BY <3>1, <4>1
      <3>3. n = Len(sent[s]) + 1 \/ n \in 1..Len(sent[s])
        BY <2>3, <3>1
      <3>4. QED
        BY <3>1, <3>2, <3>3
    <2>4. \A q \in Sender \ {s} : sent'[q] = sent[q]
      BY <1>2, SendFacts
    <2>5. StatusOK(s)' /\ SenderOK(s)'
      BY <1>0, <1>a, <2>1, <2>2, <2>3 DEF StatusOK, SenderOK
    <2>6. QED
      BY <1>a, <1>b, <2>2, <2>4, <2>5
  <1>3. ASSUME NEW s \in Sender, Draw(s) PROVE CallInv'
    <2>1. /\ pc[s] \in {"inserting", "orphan inserting"}
          /\ pc'[s] = IF pc[s] = "inserting" THEN "drawn" ELSE "orphan drawn"
          /\ \A c \in Call \ {s} : pc'[c] = pc[c]
          /\ UNCHANGED <<status, sent>>
      BY <1>3, DrawFacts
    <2>2. StatusOK(s)' /\ SenderOK(s)'
      BY <1>0, <1>a, <2>1 DEF StatusOK, SenderOK
    <2>3. QED
      BY <1>a, <1>b, <2>1, <2>2
  <1>4. ASSUME NEW s \in Sender, Commit(s) PROVE CallInv'
    <2>1. /\ pc[s] \in Drawn
          /\ pc'[s] = IF pc[s] = "drawn" THEN "inserted" ELSE "done"
          /\ \A c \in Call \ {s} : pc'[c] = pc[c]
          /\ UNCHANGED <<status, sent>>
      BY <1>4, CommitFacts
    <2>2. StatusOK(s)' /\ SenderOK(s)'
      BY <1>0, <1>a, <2>1 DEF StatusOK, SenderOK
    <2>3. QED
      BY <1>a, <1>b, <2>1, <2>2
  <1>5. ASSUME NEW r \in Reader, Ask(r) PROVE CallInv'
    <2>1. StatusOK(r)'
      BY <1>0, <1>a, <1>5, AskFacts DEF StatusOK
    <2>2. QED
      BY <1>a, <1>b, <1>5, <2>1, AskFacts
  <1>6. ASSUME NEW r \in Reader, Query(r) PROVE CallInv'
    <2>1. StatusOK(r)'
      BY <1>0, <1>a, <1>6, QueryFacts DEF StatusOK
    <2>2. QED
      BY <1>a, <1>b, <1>6, <2>1, QueryFacts
  <1>7. ASSUME NEW r \in Reader, WriteRow(r) PROVE CallInv'
    <2>1. UNCHANGED <<pc, status, sent>>
      BY <1>7, WriteFacts
    <2>2. QED
      BY <1>0, <2>1 DEF CallInv, StatusOK, SenderOK
  <1>8. QED
    BY <1>1, <1>2, <1>3, <1>4, <1>5, <1>6, <1>7 DEF Kinds

-----------------------------------------------------------------------------
(* Messages, rows and ids *)

\* Rows stay.
LEMMA RowsKept ==
  ASSUME IInv, Kinds
  PROVE  rows \subseteq rows' /\ \A m : Stored(m) => Stored(m)'
  <1>1. rows \subseteq rows'
    <2>1. ASSUME NEW s \in Sender, Commit(s) PROVE rows \subseteq rows'
      BY <2>1, CommitFacts
    <2>2. ASSUME NEW s \in Sender, Draw(s) PROVE rows' = rows
      BY <2>2, DrawFacts
    <2>3. ASSUME NEW r \in Reader, Ask(r) \/ Query(r) \/ WriteRow(r)
          PROVE  rows' = rows
      BY <2>3, AskFacts, QueryFacts, WriteFacts
    <2>4. QED
      BY <2>1, <2>2, <2>3 DEF Kinds, Calm, Send, dbVars
  <1>2. QED
    BY <1>1 DEF Stored

\* Reading, drawing an id and answering a reader leave the senders alone.
LEMMA ReadersApart ==
  ASSUME IInv, NEW r \in Reader, Ask(r) \/ Query(r) \/ WriteRow(r)
  PROVE  /\ UNCHANGED <<serial, rows, status, sent, id, before, channel>>
         /\ \A s \in Sender : pc'[s] = pc[s]
  <1>1. \A s \in Sender : s \in Call \ {r}
    BY HistoryAssumption DEF Call
  <1>2. CASE Ask(r)
    BY <1>1, <1>2, AskFacts
  <1>3. CASE Query(r)
    BY <1>1, <1>3, QueryFacts
  <1>4. CASE WriteRow(r)
    BY <1>4, WriteFacts
  <1>5. QED
    BY <1>2, <1>3, <1>4

\* No step removes a row.
LEMMA StepBeforeInv == IInv /\ Kinds => BeforeInv'
  <1> SUFFICES ASSUME IInv, Kinds PROVE BeforeInv'
    OBVIOUS
  <1>1. before' \in [Sender -> Seq(SUBSET rows)]
    <2>1. ASSUME NEW s \in Sender, NEW ch \in Channel, NEW u \in User,
                 Send(s, ch, u) PROVE before' \in [Sender -> Seq(SUBSET rows)]
      BY <2>1, BeforeFacts
    <2>2. ASSUME NEW s \in Sender, Draw(s) PROVE before' = before
      BY <2>2, DrawFacts
    <2>3. ASSUME NEW s \in Sender, Commit(s) PROVE before' = before
      BY <2>3, CommitFacts
    <2>4. ASSUME NEW r \in Reader, Ask(r) \/ Query(r) \/ WriteRow(r)
          PROVE  before' = before
      BY <2>4, ReadersApart
    <2>5. QED
      BY <2>1, <2>2, <2>3, <2>4
      DEF Kinds, Calm, senderVars, IInv, BeforeInv
  <1>2. SUBSET rows \subseteq SUBSET rows'
    BY RowsKept
  <1>3. \A s \in Sender : before'[s] \in Seq(SUBSET rows')
    BY <1>1, <1>2, WiderSeq
  <1>4. QED
    BY <1>1, <1>3 DEF BeforeInv

\* A row is what its sender sent, by the kind of the step.
LEMMA StepRowInv == IInv /\ Kinds => RowInv'
  <1> SUFFICES ASSUME IInv, Kinds PROVE RowInv'
    OBVIOUS
  <1>0. /\ RowInv
        /\ \A row \in rows : row.message.call \in Sender
    BY DEF IInv, TypeOK, Row, SentMessage
  <1>1. CASE Calm
    BY <1>0, <1>1 DEF Calm, dbVars, senderVars, RowInv
  <1>2. ASSUME NEW s \in Sender, NEW ch \in Channel, NEW u \in User,
               Send(s, ch, u) PROVE RowInv'
    <2>1. /\ rows' = rows
          /\ DOMAIN sent[s] \subseteq DOMAIN sent'[s]
          /\ \A n \in DOMAIN sent[s] : sent'[s][n] = sent[s][n]
          /\ \A q \in Sender \ {s} : sent'[q] = sent[q]
      BY <1>2, SendFacts
    <2>2. QED
      BY <1>0, <2>1 DEF RowInv
  <1>3. ASSUME NEW s \in Sender, Draw(s) PROVE RowInv'
    BY <1>0, <1>3, DrawFacts DEF RowInv
  <1>4. ASSUME NEW s \in Sender, Commit(s) PROVE RowInv'
    <2>1. PICK new \in Row : /\ new.message = Message(s)
                             /\ rows' = rows \cup {new}
                             /\ sent[s] # <<>>
                             /\ sent' = sent
      BY <1>4, CommitFacts
    <2>2. /\ Len(sent[s]) \in DOMAIN sent[s]
          /\ Message(s) = sent[s][Len(sent[s])]
          /\ Message(s).call = s
          /\ Message(s).n = Len(sent[s])
      BY <2>1, MessageFacts DEF IInv, CallInv, SenderOK
    <2>3. QED
      BY <1>0, <2>1, <2>2 DEF RowInv
  <1>5. ASSUME NEW r \in Reader, Ask(r) \/ Query(r) \/ WriteRow(r) PROVE RowInv'
    BY <1>0, <1>5, ReadersApart DEF RowInv
  <1>6. QED
    BY <1>1, <1>2, <1>3, <1>4, <1>5 DEF Kinds

\* An id that is drawn is above all that were drawn before.
LEMMA StepIdInv == IInv /\ Kinds => IdInv'
  <1> SUFFICES ASSUME IInv, Kinds PROVE IdInv'
    OBVIOUS
  <1>0. /\ IdInv
        /\ \A s \in Sender : s \in Call
        /\ serial \in Nat
        /\ \A row \in rows : row.id \in 1..serial
        /\ pc \in [Call -> Label]
    BY DEF IInv, TypeOK, Row, Call
  <1> USE DEF Drawn
  <1>1. CASE Calm
    <2>1. \A s \in Sender : pc'[s] \in Drawn => pc[s] \in Drawn
      BY <1>0, <1>1 DEF Calm, MoveOK
    <2>2. UNCHANGED <<serial, rows, id, before, sent>>
      BY <1>1 DEF Calm, dbVars, senderVars
    <2>3. QED
      BY <1>0, <2>1, <2>2 DEF IdInv
  <1>2. ASSUME NEW s \in Sender, NEW ch \in Channel, NEW u \in User,
               Send(s, ch, u) PROVE IdInv'
    <2>1. /\ UNCHANGED <<serial, rows, id>>
          /\ pc'[s] = "inserting"
          /\ \A q \in Sender \ {s} : /\ pc'[q] = pc[q]
                                     /\ sent'[q] = sent[q]
                                     /\ before'[q] = before[q]
      BY <1>0, <1>2, SendFacts, BeforeFacts
    <2>2. QED
      BY <1>0, <2>1 DEF IdInv
  <1>3. ASSUME NEW s \in Sender, Draw(s) PROVE IdInv'
    <2>1. /\ UNCHANGED <<rows, sent, before>>
          /\ serial' = serial + 1
          /\ id'[s] = serial + 1
          /\ \A q \in Sender \ {s} : id'[q] = id[q] /\ pc'[q] = pc[q]
          /\ pc[s] \in {"inserting", "orphan inserting"}
      BY <1>0, <1>3, DrawFacts
    <2>2. \A earlier \in before[s][Len(sent[s])] : earlier \in rows
      <3>1. Len(sent[s]) \in DOMAIN before[s]
        <4>1. Len(sent[s]) \in DOMAIN sent[s]
          BY <2>1, MessageFacts DEF IInv, CallInv, SenderOK, InFlight
        <4>2. /\ sent[s] \in Seq(SentMessage)
              /\ before[s] \in Seq(SUBSET rows)
              /\ Len(before[s]) = Len(sent[s])
          BY DEF IInv, TypeOK, BeforeInv
        <4>3. QED
          BY <4>1, <4>2
      <3>2. before[s] \in Seq(SUBSET rows)
        BY DEF IInv, BeforeInv
      <3>3. QED
        BY <3>1, <3>2
    <2>0. \A i \in 1..serial : i \in 1..(serial + 1) /\ i # serial + 1 /\ i < serial + 1
      BY <1>0
    <2>3. /\ id'[s] \in 1..serial'
          /\ \A row \in rows : row.id # id'[s] /\ row.id < id'[s]
      <3>1. serial + 1 \in 1..(serial + 1)
        BY <1>0
      <3>2. ASSUME NEW row \in rows PROVE row.id # id'[s] /\ row.id < id'[s]
        <4>1. row.id \in 1..serial
          BY <1>0
        <4>2. QED
          BY <2>0, <2>1, <4>1
      <3>3. QED
        BY <2>1, <3>1, <3>2
    <2>4. ASSUME NEW q \in Sender \ {s}, pc'[q] \in Drawn
          PROVE  /\ id[q] \in 1..serial
                 /\ id[q] \in 1..serial'
                 /\ id[q] # id'[s]
                 /\ \A row \in rows : row.id # id[q]
                 /\ \A p \in Sender \ {q} : pc[p] \in Drawn => id[p] # id[q]
                 /\ \A earlier \in before[q][Len(sent[q])] : earlier.id < id[q]
      <3>1. id[q] \in 1..serial
        BY <2>1, <2>4 DEF IInv, IdInv
      <3>2. id[q] \in 1..serial' /\ id[q] # id'[s]
        BY <2>0, <2>1, <3>1
      <3>3. pc[q] \in Drawn
        BY <2>1, <2>4
      <3>4. /\ \A row \in rows : row.id # id[q]
            /\ \A p \in Sender \ {q} : pc[p] \in Drawn => id[p] # id[q]
            /\ \A earlier \in before[q][Len(sent[q])] : earlier.id < id[q]
        BY <1>0, <3>3 DEF IdInv
      <3>5. QED
        BY <3>1, <3>2, <3>4
    <2>5. ASSUME NEW q \in Sender, pc'[q] \in Drawn
          PROVE  /\ id'[q] \in 1..serial'
                 /\ \A row \in rows' : row.id # id'[q]
                 /\ \A p \in Sender \ {q} : pc'[p] \in Drawn => id'[p] # id'[q]
                 /\ \A earlier \in before'[q][Len(sent'[q])] : earlier.id < id'[q]
      <3>1. CASE q = s
        <4>1. \A p \in Sender \ {s} : pc'[p] \in Drawn => id'[p] # id'[s]
          BY <2>1, <2>4
        <4>2. QED
          BY <2>1, <2>2, <2>3, <3>1, <4>1
      <3>2. CASE q # s
        <4>1. id'[q] = id[q]
          BY <2>1, <3>2
        <4>2. \A p \in Sender \ {q} : pc'[p] \in Drawn => id'[p] # id[q]
          BY <2>1, <2>4, <2>5, <3>2
        <4>3. QED
          BY <2>1, <2>4, <2>5, <3>2, <4>1, <4>2
      <3>3. QED
        BY <3>1, <3>2
    <2>6. QED
      BY <2>5 DEF IdInv
  <1>4. ASSUME NEW s \in Sender, Commit(s) PROVE IdInv'
    <2>1. PICK new \in Row :
            /\ new.id = id[s]
            /\ rows' = rows \cup {new}
            /\ pc[s] \in Drawn
            /\ pc'[s] = IF pc[s] = "drawn" THEN "inserted" ELSE "done"
            /\ \A c \in Call \ {s} : pc'[c] = pc[c]
            /\ UNCHANGED <<serial, sent, id, before>>
      BY <1>4, CommitFacts
    <2>2. pc'[s] \notin Drawn /\ \A q \in Sender \ {s} : pc'[q] = pc[q]
      BY <1>0, <2>1
    <2>3. QED
      BY <1>0, <2>1, <2>2 DEF IdInv
  <1>5. ASSUME NEW r \in Reader, Ask(r) \/ Query(r) \/ WriteRow(r) PROVE IdInv'
    BY <1>0, <1>5, ReadersApart DEF IdInv
  <1>6. QED
    BY <1>1, <1>2, <1>3, <1>4, <1>5 DEF Kinds

\* A committed row has an id above those that were there at its broadcast:
\* this is where RealTimeOrder needs IdInv.
LEMMA StepOrder == IInv /\ Kinds => RealTimeOrder'
  <1> SUFFICES ASSUME IInv, Kinds PROVE RealTimeOrder'
    OBVIOUS
  <1>0. RealTimeOrder
    BY DEF IInv
  <1>a. \A row \in rows : /\ row.message.call \in Sender
                          /\ row.message.n \in DOMAIN sent[row.message.call]
    BY DEF IInv, TypeOK, Row, SentMessage, RowInv
  <1>1. CASE Calm
    BY <1>0, <1>1 DEF Calm, dbVars, senderVars, RealTimeOrder
  <1>2. ASSUME NEW s \in Sender, NEW ch \in Channel, NEW u \in User,
               Send(s, ch, u) PROVE RealTimeOrder'
    <2>1. /\ rows' = rows
          /\ \A n \in DOMAIN sent[s] : before'[s][n] = before[s][n]
          /\ \A q \in Sender \ {s} : before'[q] = before[q]
      BY <1>2, SendFacts, BeforeFacts
    <2>2. QED
      BY <1>0, <1>a, <2>1 DEF RealTimeOrder
  <1>3. ASSUME NEW s \in Sender, Draw(s) PROVE RealTimeOrder'
    BY <1>0, <1>3, DrawFacts DEF RealTimeOrder
  <1>4. ASSUME NEW s \in Sender, Commit(s) PROVE RealTimeOrder'
    <2>1. PICK new \in Row : /\ new.id = id[s]
                             /\ new.message = Message(s)
                             /\ rows' = rows \cup {new}
                             /\ sent[s] # <<>>
                             /\ pc[s] \in Drawn
                             /\ UNCHANGED <<before, sent>>
      BY <1>4, CommitFacts
    <2>2. Message(s).call = s /\ Message(s).n = Len(sent[s])
      BY <2>1, MessageFacts DEF IInv, CallInv, SenderOK
    <2>3. \A earlier \in before[s][Len(sent[s])] : earlier.id < id[s]
      BY <2>1 DEF IInv, IdInv
    <2>4. QED
      BY <1>0, <2>1, <2>2, <2>3 DEF RealTimeOrder
  <1>5. ASSUME NEW r \in Reader, Ask(r) \/ Query(r) \/ WriteRow(r)
        PROVE  RealTimeOrder'
    BY <1>0, <1>5, ReadersApart DEF RealTimeOrder
  <1>6. QED
    BY <1>1, <1>2, <1>3, <1>4, <1>5 DEF Kinds

\* What is stored of a call, by the kind of the step.
LEMMA StepStoreInv == IInv /\ Kinds => StoreInv'
  <1> SUFFICES ASSUME IInv, Kinds PROVE StoreInv'
    OBVIOUS
  <1>0. /\ \A s \in Sender : StoreOK(s)
        /\ \A s \in Sender : s \in Call /\ s \notin Reader
        /\ \A s \in Sender : StatusOK(s) /\ SenderOK(s)
        /\ pc \in [Call -> Label]
    BY HistoryAssumption DEF IInv, TypeOK, CallInv, Call, StoreInv
  <1>a. \A m : Stored(m) => Stored(m)'
    BY RowsKept
  <1>b. \A s \in Sender : \A n \in DOMAIN sent[s] : sent[s][n].call = s
    BY DEF IInv, CallInv, SenderOK
  <1> USE DEF InFlight, Drawn
  <1>1. CASE Calm
    <2>1. UNCHANGED <<rows, sent>>
      BY <1>1 DEF Calm, dbVars, senderVars
    <2>2. \A m : Stored(m)' <=> Stored(m)
      BY <2>1 DEF Stored
    <2>3. ASSUME NEW s \in Sender
          PROVE  /\ pc'[s] \in {"reading", "inserted"} \/ status'[s] = "OK" =>
                      \/ pc[s] \in {"reading", "inserted"}
                      \/ status[s] = "OK"
                      \/ sent[s] = <<>>
                 /\ pc'[s] \in InFlight => pc[s] \in InFlight
      BY <1>0, <1>1 DEF Calm, MoveOK, SenderOK
    <2>4. \A s \in Sender : sent[s] = <<>> => DOMAIN sent[s] = {}
      BY EmptyFacts
    <2>5. QED
      BY <1>0, <2>1, <2>2, <2>3, <2>4 DEF StoreInv, StoreOK
  <1>2. ASSUME NEW s \in Sender, NEW ch \in Channel, NEW u \in User,
               Send(s, ch, u) PROVE StoreInv'
    <2>1. PICK m \in SentMessage :
            /\ m.call = s
            /\ m.n = Len(sent[s]) + 1
            /\ Len(sent[s]) \in Nat
            /\ Len(sent'[s]) = Len(sent[s]) + 1
            /\ DOMAIN sent[s] = 1..Len(sent[s])
            /\ DOMAIN sent'[s] = 1..(Len(sent[s]) + 1)
            /\ sent'[s][Len(sent[s]) + 1] = m
            /\ \A n \in 1..Len(sent[s]) : sent'[s][n] = sent[s][n]
            /\ \A q \in Sender \ {s} : sent'[q] = sent[q]
            /\ pc[s] = "reading"
            /\ pc' = [pc EXCEPT ![s] = "inserting"]
            /\ UNCHANGED <<rows, status>>
      BY <1>2, SendFacts
    <2>2. \A x : Stored(x)' <=> Stored(x)
      BY <2>1 DEF Stored
    <2>3. ~Stored(m)
      BY <2>1 DEF Stored, IInv, RowInv
    <2>4. /\ pc'[s] = "inserting"
          /\ status'[s] # "OK"
          /\ \A q \in Sender \ {s} : pc'[q] = pc[q]
      BY <1>0, <2>1 DEF StatusOK
    <2>5. ASSUME NEW n \in DOMAIN sent'[s]
          PROVE  IF n = Len(sent'[s]) THEN ~Stored(sent'[s][n])
                                      ELSE Stored(sent'[s][n])
      <3>1. CASE n = Len(sent'[s])
        BY <2>1, <2>3, <3>1
      <3>2. CASE n # Len(sent'[s])
        <4>1. n \in 1..Len(sent[s])
          BY <2>1, <2>5, <3>2
        <4>2. QED
          BY <1>0, <2>1, <3>2, <4>1 DEF StoreOK
      <3>3. QED
        BY <3>1, <3>2
    <2>6. ASSUME NEW n \in DOMAIN sent'[s], n < Len(sent'[s])
          PROVE  n # Len(sent'[s])
      BY <2>1, <2>6
    <2>7. StoreOK(s)'
      BY <2>2, <2>4, <2>5, <2>6 DEF StoreOK
    <2>8. ASSUME NEW q \in Sender \ {s} PROVE StoreOK(q)'
      <3>1. UNCHANGED <<pc[q], status[q], sent[q]>>
        BY <2>1, <2>4
      <3>2. QED
        BY <1>0, <2>2, <3>1 DEF StoreOK
    <2>9. QED
      BY <2>7, <2>8 DEF StoreInv
  <1>3. ASSUME NEW s \in Sender, Draw(s) PROVE StoreInv'
    <2>1. /\ pc[s] \in InFlight /\ pc'[s] \in Drawn
          /\ \A q \in Sender \ {s} : pc'[q] = pc[q]
          /\ UNCHANGED <<rows, sent, status>>
      BY <1>0, <1>3, DrawFacts
    <2>2. \A m : Stored(m)' <=> Stored(m)
      BY <2>1 DEF Stored
    <2>3. QED
      BY <1>0, <2>1, <2>2 DEF StoreInv, StoreOK
  <1>4. ASSUME NEW s \in Sender, Commit(s) PROVE StoreInv'
    <2>1. PICK new \in Row :
            /\ new.message = Message(s)
            /\ rows' = rows \cup {new}
            /\ sent[s] # <<>>
            /\ pc[s] \in Drawn
            /\ pc'[s] = IF pc[s] = "drawn" THEN "inserted" ELSE "done"
            /\ \A c \in Call \ {s} : pc'[c] = pc[c]
            /\ UNCHANGED <<status, sent>>
      BY <1>4, CommitFacts
    <2>2. /\ Len(sent[s]) \in DOMAIN sent[s]
          /\ Message(s) = sent[s][Len(sent[s])]
      BY <2>1, MessageFacts DEF IInv
    <2>3. Message(s).call = s
      BY <1>b, <2>2
    <2>4. \A m : Stored(m)' <=> Stored(m) \/ m = Message(s)
      BY <2>1 DEF Stored
    <2>5. ASSUME NEW n \in DOMAIN sent[s] PROVE Stored(sent[s][n])'
      <3>1. sent[s] \in Seq(SentMessage)
        BY DEF IInv, TypeOK
      <3>2. n < Len(sent[s]) \/ n = Len(sent[s])
        BY <3>1
      <3>3. n < Len(sent[s]) => Stored(sent[s][n])
        BY <1>0 DEF StoreOK
      <3>4. sent'[s][n] = sent[s][n]
        BY <2>1
      <3>5. QED
        BY <2>2, <2>4, <3>2, <3>3, <3>4
    <2>6. StoreOK(s)'
      <3>1. pc'[s] \notin InFlight /\ sent' = sent
        BY <1>0, <2>1
      <3>2. QED
        BY <2>5, <3>1 DEF StoreOK
    <2>7. ASSUME NEW q \in Sender \ {s} PROVE StoreOK(q)'
      <3>1. pc'[q] = pc[q] /\ status'[q] = status[q] /\ sent'[q] = sent[q]
        BY <1>0, <2>1
      <3>2. ASSUME NEW n \in DOMAIN sent[q] PROVE sent[q][n] # Message(s)
        BY <1>b, <2>3
      <3>3. QED
        BY <1>0, <2>4, <3>1, <3>2 DEF StoreOK
    <2>8. QED
      BY <2>6, <2>7 DEF StoreInv
  <1>5. ASSUME NEW r \in Reader, Ask(r) \/ Query(r) \/ WriteRow(r)
        PROVE  StoreInv'
    <2>1. /\ \A s \in Sender : pc'[s] = pc[s]
          /\ UNCHANGED <<rows, sent, status>>
      BY <1>5, ReadersApart
    <2>2. \A m : Stored(m)' <=> Stored(m)
      BY <2>1 DEF Stored
    <2>3. QED
      BY <1>0, <2>1, <2>2 DEF StoreInv, StoreOK
  <1>6. QED
    BY <1>1, <1>2, <1>3, <1>4, <1>5 DEF Kinds

-----------------------------------------------------------------------------
(* Readers *)

\* A message that is sent, inserted or stored leaves the readers alone.
LEMMA SendersApart ==
  ASSUME IInv, NEW s \in Sender,
         \/ \E ch \in Channel, u \in User : Send(s, ch, u)
         \/ Draw(s)
         \/ Commit(s)
  PROVE  /\ UNCHANGED <<status, channel, left, shown, asked>>
         /\ \A r \in Reader : pc'[r] = pc[r]
  <1>1. /\ pc \in [Call -> Label]
        /\ \A r \in Reader : r \in Call \ {s}
    BY HistoryAssumption DEF IInv, TypeOK, Call
  <1>2. ASSUME NEW ch \in Channel, NEW u \in User, Send(s, ch, u)
        PROVE  /\ UNCHANGED <<status, channel, left, shown, asked>>
               /\ \A r \in Reader : pc'[r] = pc[r]
    BY <1>1, <1>2, SendFacts
  <1>3. CASE Draw(s)
    BY <1>1, <1>3, DrawFacts
  <1>4. CASE Commit(s)
    BY <1>1, <1>4, CommitFacts
  <1>5. QED
    BY <1>2, <1>3, <1>4

\* What the place of a reader says about its outcome.
LEMMA ReaderFacts ==
  ASSUME IInv, NEW r \in Reader
  PROVE  /\ r \in Call
         /\ pc[r] \in {"idle", "querying", "writing"} => status[r] = "none"
         /\ SortedOK(r)
         /\ AskedOK(r)
         /\ asked[r].readers \subseteq Reader
         /\ asked[r].messages \subseteq SentMessage
  <1>1. r \in Call
    BY DEF Call
  <1>2. StatusOK(r) /\ SortedOK(r) /\ AskedOK(r)
    BY <1>1 DEF IInv, CallInv, SortedInv, AskedInv
  <1>3. asked[r] \in [messages : SUBSET SentMessage, readers : SUBSET Reader]
    BY DEF IInv, TypeOK
  <1>4. QED
    BY <1>1, <1>2, <1>3 DEF StatusOK, Over

\* What a calm step does to a reader.
LEMMA CalmReader ==
  ASSUME IInv, Calm, NEW r \in Reader
  PROVE  /\ pc'[r] \in {"idle", "querying", "writing"} => pc'[r] = pc[r]
         /\ status[r] = "OK" => status'[r] = "OK"
         /\ status'[r] = "OK" => \/ status[r] = "OK"
                                 \/ pc[r] = "writing" /\ left[r] = {}
  <1>1. MoveOK(r) /\ r \notin Sender
    BY HistoryAssumption, ReaderFacts DEF Calm
  <1>2. QED
    BY <1>1 DEF MoveOK

\* The rows that are there when a query of r is answered.
LEMMA QueryAnswer ==
  ASSUME IInv, NEW r \in Reader, Query(r)
  PROVE  /\ left[r] = {}
         /\ shown[r] = <<>>
         /\ status[r] = "none"
         /\ Answer(r)' = {row \in rows : row.message.channel = channel[r]}
  <1>1. left[r] = {} /\ shown[r] = <<>> /\ status[r] = "none"
    BY QueryFacts, ReaderFacts DEF SortedOK
  <1>2. Range(<<>>) = {}
    BY EmptyFacts DEF Range
  <1>3. QED
    BY <1>1, <1>2, QueryFacts DEF Answer

\* A row that is written stays a row of the answer.
LEMMA WriteAnswer ==
  ASSUME IInv, NEW r \in Reader, WriteRow(r)
  PROVE  Answer(r)' = Answer(r)
  <1>1. PICK row \in left[r] : /\ row \in rows
                               /\ shown[r] \in Seq(rows)
                               /\ left'[r] = left[r] \ {row}
                               /\ shown'[r] = Append(shown[r], row)
    BY WriteFacts
  <1>2. Range(shown'[r]) = Range(shown[r]) \cup {row}
    BY <1>1, RangeAppend
  <1>3. QED
    BY <1>1, <1>2 DEF Answer

\* What a reader wrote and what it has left, by the kind of the step.
LEMMA StepSortedInv == IInv /\ Kinds => SortedInv'
  <1> SUFFICES ASSUME IInv, Kinds PROVE SortedInv'
    OBVIOUS
  <1>0. \A r \in Reader : SortedOK(r)
    BY ReaderFacts
  <1>a. ASSUME NEW r \in Reader,
               UNCHANGED <<channel, left[r], shown[r]>>,
               pc'[r] \in {"idle", "querying"} => pc[r] \in {"idle", "querying"},
               status'[r] = "OK" => left[r] = {}
        PROVE  SortedOK(r)'
    <2>1. Answer(r)' = Answer(r)
      BY <1>a DEF Answer
    <2>2. QED
      BY <1>0, <1>a, <2>1 DEF SortedOK
  <1>1. CASE Calm
    <2>1. UNCHANGED <<channel, left, shown>>
      BY <1>1 DEF Calm, readerVars
    <2>2. ASSUME NEW r \in Reader PROVE SortedOK(r)'
      <3>1. /\ pc'[r] \in {"idle", "querying"} => pc[r] \in {"idle", "querying"}
            /\ status'[r] = "OK" => left[r] = {}
        BY <1>0, <1>1, CalmReader DEF SortedOK
      <3>2. QED
        BY <1>a, <2>1, <3>1
    <2>3. QED
      BY <2>2 DEF SortedInv
  <1>2. ASSUME NEW s \in Sender,
               \/ \E ch \in Channel, u \in User : Send(s, ch, u)
               \/ Draw(s)
               \/ Commit(s)
        PROVE  SortedInv'
    <2>1. /\ UNCHANGED <<status, channel, left, shown>>
          /\ \A r \in Reader : pc'[r] = pc[r]
      BY <1>2, SendersApart
    <2>2. \A r \in Reader : status[r] = "OK" => left[r] = {}
      BY <1>0 DEF SortedOK
    <2>3. QED
      BY <1>a, <2>1, <2>2 DEF SortedInv
  <1>3. ASSUME NEW r \in Reader, Ask(r) PROVE SortedInv'
    <2>1. /\ UNCHANGED <<status, channel, left, shown>>
          /\ pc[r] = "idle"
          /\ \A q \in Reader \ {r} : pc'[q] = pc[q]
      BY <1>3, AskFacts, ReaderFacts
    <2>2. \A q \in Reader : status[q] = "OK" => left[q] = {}
      BY <1>0 DEF SortedOK
    <2>3. QED
      BY <1>a, <2>1, <2>2 DEF SortedInv
  <1>4. ASSUME NEW r \in Reader, Query(r) PROVE SortedInv'
    <2>1. ASSUME NEW q \in Reader \ {r} PROVE SortedOK(q)'
      <3>1. /\ UNCHANGED <<channel, left[q], shown[q]>>
            /\ pc'[q] = pc[q]
            /\ status' = status
        BY <1>4, QueryFacts, ReaderFacts
      <3>2. status[q] = "OK" => left[q] = {}
        BY <1>0 DEF SortedOK
      <3>3. QED
        BY <1>a, <3>1, <3>2
    <2>2. SortedOK(r)'
      <3>1. /\ pc'[r] = "writing"
            /\ status'[r] # "OK"
            /\ shown'[r] = <<>>
            /\ channel' = channel
            /\ \A row \in Answer(r)' : row.message.channel = channel[r]
        BY <1>4, QueryFacts, QueryAnswer
      <3>2. QED
        BY <3>1, EmptyFacts DEF SortedOK
    <2>3. QED
      BY <2>1, <2>2 DEF SortedInv
  <1>5. ASSUME NEW r \in Reader, WriteRow(r) PROVE SortedInv'
    <2>1. PICK row \in left[r] :
            /\ row \in rows
            /\ shown[r] \in Seq(rows)
            /\ pc[r] = "writing"
            /\ \A other \in left[r] \ {row} : row.id < other.id
            /\ left'[r] = left[r] \ {row}
            /\ shown'[r] = Append(shown[r], row)
            /\ \A q \in Reader \ {r} : left'[q] = left[q] /\ shown'[q] = shown[q]
            /\ UNCHANGED <<pc, status, channel>>
      BY <1>5, WriteFacts
    <2>2. ASSUME NEW q \in Reader \ {r} PROVE SortedOK(q)'
      <3>1. status[q] = "OK" => left[q] = {}
        BY <1>0 DEF SortedOK
      <3>2. QED
        BY <1>a, <2>1, <3>1
    <2>3. SortedOK(r)'
      <3>1. /\ Len(shown[r]) \in Nat
            /\ DOMAIN shown[r] = 1..Len(shown[r])
            /\ DOMAIN shown'[r] = 1..(Len(shown[r]) + 1)
            /\ shown'[r][Len(shown[r]) + 1] = row
            /\ \A i \in 1..Len(shown[r]) : shown'[r][i] = shown[r][i]
        BY <2>1, AppendFacts
      <3>2. ASSUME NEW i \in DOMAIN shown'[r], NEW j \in DOMAIN shown'[r], i < j
            PROVE  shown'[r][i].id < shown'[r][j].id
        <4>1. i \in DOMAIN shown[r]
          BY <3>1, <3>2
        <4>2. j \in DOMAIN shown[r] \/ j = Len(shown[r]) + 1
          BY <3>1
        <4>3. CASE j \in DOMAIN shown[r]
          BY <1>0, <3>1, <3>2, <4>1, <4>3 DEF SortedOK
        <4>4. CASE j = Len(shown[r]) + 1
          BY <1>0, <3>1, <4>1, <4>4 DEF SortedOK
        <4>5. QED
          BY <4>2, <4>3, <4>4
      <3>3. ASSUME NEW i \in DOMAIN shown'[r], NEW other \in left'[r]
            PROVE  shown'[r][i].id < other.id
        <4>1. i \in DOMAIN shown[r] \/ i = Len(shown[r]) + 1
          BY <3>1
        <4>2. other \in left[r] /\ row.id < other.id
          BY <2>1, <3>3
        <4>3. QED
          BY <1>0, <3>1, <4>1, <4>2 DEF SortedOK
      <3>4. pc'[r] = "writing" /\ status'[r] # "OK"
        BY <2>1, ReaderFacts
      <3>5. \A x \in Answer(r)' : x.message.channel = channel'[r]
        BY <1>0, <1>5, <2>1, WriteAnswer DEF SortedOK
      <3>6. QED
        BY <3>2, <3>3, <3>4, <3>5 DEF SortedOK
    <2>4. QED
      BY <2>2, <2>3 DEF SortedInv
  <1>6. QED
    BY <1>1, <1>2, <1>3, <1>4, <1>5 DEF Kinds

\* What was acknowledged is stored.
LEMMA AcknowledgedStored ==
  ASSUME IInv
  PROVE  \A m \in Acknowledged : Stored(m)
  <1>1. ASSUME NEW s \in Sender, status[s] = "OK", NEW n \in DOMAIN sent[s]
        PROVE  Stored(sent[s][n])
    BY <1>1 DEF IInv, StoreInv, StoreOK
  <1>2. QED
    BY <1>1 DEF Acknowledged, Range

\* What a reader's answer must have, by the kind of the step: at its query
\* StoreInv and SortedInv of earlier readers put it all into the answer.
LEMMA StepAskedInv == IInv /\ Kinds => AskedInv'
  <1> SUFFICES ASSUME IInv, Kinds PROVE AskedInv'
    OBVIOUS
  <1>0. \A r \in Reader : AskedOK(r) /\ asked[r].readers \subseteq Reader
    BY ReaderFacts
  <1>a. \A m : Stored(m) => Stored(m)'
    BY RowsKept
  \* A reader whose answer stays, and those that had ended when it asked.
  <1>b. ASSUME NEW r \in Reader,
               UNCHANGED <<channel, asked[r]>>,
               Answer(r)' = Answer(r),
               \A q \in asked[r].readers :
                 status'[q] = "OK" /\ shown'[q] = shown[q],
               pc'[r] = "writing" \/ status'[r] = "OK" =>
                 pc[r] = "writing" \/ status[r] = "OK"
        PROVE  AskedOK(r)'
    <2>1. \A m \in asked'[r].messages : Stored(m)'
      BY <1>0, <1>a, <1>b DEF AskedOK
    <2>2. \A q \in asked'[r].readers : status'[q] = "OK"
      BY <1>b
    <2>3. ASSUME pc'[r] = "writing" \/ status'[r] = "OK"
          PROVE  /\ \A m \in asked'[r].messages : m.channel = channel'[r] =>
                      \E row \in Answer(r)' : row.message = m
                 /\ \A q \in asked'[r].readers : channel'[q] = channel'[r] =>
                      Range(shown'[q]) \subseteq Answer(r)'
      BY <1>0, <1>b, <2>3 DEF AskedOK
    <2>4. QED
      BY <2>1, <2>2, <2>3 DEF AskedOK
  <1>1. CASE Calm
    <2>1. UNCHANGED <<channel, left, shown, asked>>
      BY <1>1 DEF Calm, readerVars
    <2>2. ASSUME NEW r \in Reader PROVE AskedOK(r)'
      <3>1. Answer(r)' = Answer(r)
        BY <2>1 DEF Answer
      <3>2. \A q \in asked[r].readers : status'[q] = "OK"
        BY <1>0, <1>1, CalmReader DEF AskedOK
      <3>3. pc'[r] = "writing" \/ status'[r] = "OK" =>
              pc[r] = "writing" \/ status[r] = "OK"
        BY <1>1, CalmReader
      <3>4. QED
        BY <1>b, <2>1, <3>1, <3>2, <3>3
    <2>3. QED
      BY <2>2 DEF AskedInv
  <1>2. ASSUME NEW s \in Sender,
               \/ \E ch \in Channel, u \in User : Send(s, ch, u)
               \/ Draw(s)
               \/ Commit(s)
        PROVE  AskedInv'
    <2>1. /\ UNCHANGED <<status, channel, left, shown, asked>>
          /\ \A r \in Reader : pc'[r] = pc[r]
      BY <1>2, SendersApart
    <2>2. ASSUME NEW r \in Reader PROVE AskedOK(r)'
      <3>1. Answer(r)' = Answer(r)
        BY <2>1 DEF Answer
      <3>2. \A q \in asked[r].readers : status'[q] = "OK"
        BY <1>0, <2>1 DEF AskedOK
      <3>3. QED
        BY <1>b, <2>1, <3>1, <3>2
    <2>3. QED
      BY <2>2 DEF AskedInv
  <1>3. ASSUME NEW r \in Reader, Ask(r) PROVE AskedInv'
    <2>1. UNCHANGED <<status, channel, left, shown>>
      BY <1>3, AskFacts
    <2>2. ASSUME NEW x \in Reader \ {r} PROVE AskedOK(x)'
      <3>1. asked'[x] = asked[x] /\ pc'[x] = pc[x]
        BY <1>3, AskFacts, ReaderFacts
      <3>2. Answer(x)' = Answer(x)
        BY <2>1 DEF Answer
      <3>3. \A q \in asked[x].readers : status'[q] = "OK"
        BY <1>0, <2>1 DEF AskedOK
      <3>4. QED
        BY <1>b, <2>1, <3>1, <3>2, <3>3
    <2>3. AskedOK(r)'
      <3>1. /\ pc'[r] = "querying"
            /\ status'[r] = "none"
            /\ asked'[r].messages = Acknowledged
            /\ asked'[r].readers = {q \in Reader : status[q] = "OK"}
        BY <1>3, <2>1, AskFacts, ReaderFacts
      <3>2. \A m \in asked'[r].messages : Stored(m)'
        BY <1>a, <3>1, AcknowledgedStored
      <3>3. QED
        BY <2>1, <3>1, <3>2 DEF AskedOK
    <2>4. QED
      BY <2>2, <2>3 DEF AskedInv
  <1>4. ASSUME NEW r \in Reader, Query(r) PROVE AskedInv'
    <2>1. /\ UNCHANGED <<rows, status, channel, shown, asked>>
          /\ \A q \in Reader \ {r} : left'[q] = left[q] /\ pc'[q] = pc[q]
      BY <1>4, QueryFacts, ReaderFacts
    <2>2. ASSUME NEW x \in Reader \ {r} PROVE AskedOK(x)'
      <3>1. Answer(x)' = Answer(x)
        BY <2>1 DEF Answer
      <3>2. \A q \in asked[x].readers : status'[q] = "OK"
        BY <1>0, <2>1 DEF AskedOK
      <3>3. QED
        BY <1>b, <2>1, <3>1, <3>2
    <2>3. AskedOK(r)'
      <3>1. Answer(r)' = {row \in rows : row.message.channel = channel[r]}
        BY <1>4, QueryAnswer
      <3>2. \A m \in asked[r].messages : Stored(m) /\ Stored(m)'
        BY <1>0, <1>a DEF AskedOK
      <3>3. ASSUME NEW m \in asked[r].messages, m.channel = channel[r]
            PROVE  \E row \in Answer(r)' : row.message = m
        BY <3>1, <3>2, <3>3 DEF Stored
      <3>4. ASSUME NEW q \in asked[r].readers, channel[q] = channel[r]
            PROVE  Range(shown[q]) \subseteq Answer(r)'
        <4>1. q \in Reader /\ shown[q] \in Seq(rows)
          BY <1>0 DEF IInv, TypeOK
        <4>2. Range(shown[q]) \subseteq rows
          BY <4>1 DEF Range
        <4>3. \A row \in Range(shown[q]) : row.message.channel = channel[q]
          BY <4>1, ReaderFacts DEF SortedOK, Answer
        <4>4. QED
          BY <3>1, <3>4, <4>2, <4>3
      <3>5. \A q \in asked[r].readers : status[q] = "OK"
        BY <1>0 DEF AskedOK
      <3>6. QED
        BY <2>1, <3>2, <3>3, <3>4, <3>5 DEF AskedOK
    <2>4. QED
      BY <2>2, <2>3 DEF AskedInv
  <1>5. ASSUME NEW r \in Reader, WriteRow(r) PROVE AskedInv'
    <2>1. /\ UNCHANGED <<pc, status, channel, asked>>
          /\ \A q \in Reader \ {r} : left'[q] = left[q] /\ shown'[q] = shown[q]
          /\ status[r] = "none"
      BY <1>5, WriteFacts, ReaderFacts
    <2>2. ASSUME NEW x \in Reader PROVE AskedOK(x)'
      <3>1. Answer(x)' = Answer(x)
        <4>1. CASE x = r
          BY <1>5, <4>1, WriteAnswer
        <4>2. CASE x # r
          BY <2>1, <4>2 DEF Answer
        <4>3. QED
          BY <4>1, <4>2
      <3>2. \A q \in asked[x].readers : status'[q] = "OK" /\ shown'[q] = shown[q]
        <4>1. \A q \in asked[x].readers : status[q] = "OK" /\ q \in Reader
          BY <1>0 DEF AskedOK
        <4>2. QED
          BY <2>1, <4>1
      <3>3. QED
        BY <1>b, <2>1, <3>1, <3>2
    <2>3. QED
      BY <2>2 DEF AskedInv
  <1>6. QED
    BY <1>1, <1>2, <1>3, <1>4, <1>5 DEF Kinds

-----------------------------------------------------------------------------
(* Theorems *)

\* The inductive invariant holds in every reachable state.
LEMMA Invariance == Spec => []IInv
  <1>1. IInv /\ [Next]_vars => IInv'
    <2> SUFFICES ASSUME IInv, [Next]_vars PROVE IInv'
      OBVIOUS
    <2>1. Kinds
      BY StepKinds
    <2>2. /\ TypeOK' /\ CallInv' /\ BeforeInv' /\ RowInv' /\ IdInv'
          /\ StoreInv' /\ RealTimeOrder' /\ SortedInv' /\ AskedInv'
      BY <2>1, StepTypeOK, StepCallInv, StepBeforeInv, StepRowInv, StepIdInv,
         StepStoreInv, StepOrder, StepSortedInv, StepAskedInv
    <2>3. QED
      BY <2>2 DEF IInv
  <1>2. QED
    BY InitIInv, <1>1, PTL DEF Spec

\* Every variable stays in its set, and ids and messages of the rows
\* determine each other: no two inserts, of whatever streams, before or after
\* a restart, get the same msg_id, and no message is stored twice
\* (DBPostgres.cpp:82, WrongthinkServiceImpl.cpp:261).
THEOREM TypeCorrect == Spec => []TypeOK
  <1>1. IInv => TypeOK
    BY DEF IInv
  <1>2. QED
    BY Invariance, <1>1, PTL

\* Whatever was stored when a message was broadcast has a smaller msg_id than
\* the message, with any number of streams, failed inserts and restarts
\* between them (WrongthinkServiceImpl.cpp:260-261, DBPostgres.cpp:241-243).
THEOREM HistoryInTime == Spec => []RealTimeOrder
  <1>1. IInv => RealTimeOrder
    BY DEF IInv
  <1>2. QED
    BY Invariance, <1>1, PTL

\* Nothing is left of the answer of a reader that ended well.
LEMMA FinishedReader ==
  ASSUME IInv, NEW r \in Reader, status[r] = "OK"
  PROVE  Answer(r) = Range(shown[r])
  BY ReaderFacts DEF SortedOK, Answer

\* A reading that ended well wrote every message of its channel that had been
\* acknowledged when it was asked for (WrongthinkServiceImpl.cpp:262-268 and
\* 305-330).
THEOREM HistoryIsComplete == Spec => []HistoryHasAcked
  <1>1. IInv => HistoryHasAcked
    <2> SUFFICES ASSUME IInv,
                        NEW r \in Reader, status[r] = "OK",
                        NEW m \in asked[r].messages, m.channel = channel[r]
                 PROVE  \E row \in Range(shown[r]) : row.message = m
      BY DEF HistoryHasAcked
    <2>1. \E row \in Answer(r) : row.message = m
      BY ReaderFacts DEF AskedOK
    <2>2. QED
      BY <2>1, FinishedReader
  <1>2. QED
    BY Invariance, <1>1, PTL

\* A row that r wrote is at its place.
LEMMA PlaceFacts ==
  ASSUME NEW r \in Reader, NEW row \in Range(shown[r])
  PROVE  Place(r, row) \in DOMAIN shown[r] /\ shown[r][Place(r, row)] = row
  <1>1. \E i \in DOMAIN shown[r] : shown[r][i] = row
    BY DEF Range
  <1>2. QED
    BY <1>1 DEF Place

\* Ids tell the order in which the rows of a reader were written.
LEMMA PlaceOrder ==
  ASSUME IInv, NEW r \in Reader,
         NEW a \in Range(shown[r]), NEW b \in Range(shown[r]), a.id < b.id
  PROVE  Place(r, a) < Place(r, b)
  <1> DEFINE i == Place(r, a)
             j == Place(r, b)
  <1>1. /\ i \in DOMAIN shown[r] /\ shown[r][i] = a
        /\ j \in DOMAIN shown[r] /\ shown[r][j] = b
    BY PlaceFacts
  <1>2. shown[r] \in Seq(rows) /\ rows \subseteq Row /\ serial \in Nat
    BY DEF IInv, TypeOK
  <1>3. i \in Nat /\ j \in Nat /\ a \in Row /\ b \in Row
    BY <1>1, <1>2
  <1>4. a.id \in Nat /\ b.id \in Nat
    BY <1>2, <1>3 DEF Row
  <1>5. j < i => b.id < a.id
    BY <1>1, ReaderFacts DEF SortedOK
  <1>6. i = j => a = b
    BY <1>1
  <1> HIDE DEF i, j
  <1>7. i < j
    BY <1>3, <1>4, <1>5, <1>6
  <1>8. QED
    BY <1>7 DEF i, j

\* Whoever reads a channel again, after a reading that ended well, finds all
\* of its rows and in the order they had, whatever was inserted meanwhile
\* (WrongthinkServiceImpl.cpp:305-330, DBPostgres.cpp:241-243).
THEOREM HistoryRepeats == Spec => []RepeatableOrder
  <1>1. IInv => RepeatableOrder
    <2> SUFFICES ASSUME IInv,
                        NEW r \in Reader, status[r] = "OK",
                        NEW q \in asked[r].readers, channel[q] = channel[r]
                 PROVE  /\ Range(shown[q]) \subseteq Range(shown[r])
                        /\ \A i, j \in DOMAIN shown[q] : i < j =>
                             Place(r, shown[q][i]) < Place(r, shown[q][j])
      BY DEF RepeatableOrder
    <2>1. q \in Reader
      BY ReaderFacts
    <2>2. Range(shown[q]) \subseteq Range(shown[r])
      <3>1. Range(shown[q]) \subseteq Answer(r)
        BY ReaderFacts DEF AskedOK
      <3>2. QED
        BY <3>1, FinishedReader
    <2>3. ASSUME NEW i \in DOMAIN shown[q], NEW j \in DOMAIN shown[q], i < j
          PROVE  Place(r, shown[q][i]) < Place(r, shown[q][j])
      <3>1. shown[q][i] \in Range(shown[r]) /\ shown[q][j] \in Range(shown[r])
        BY <2>2 DEF Range
      <3>2. shown[q][i].id < shown[q][j].id
        BY <2>1, <2>3, ReaderFacts DEF SortedOK
      <3>3. QED
        BY <3>1, <3>2, PlaceOrder
    <2>4. QED
      BY <2>2, <2>3
  <1>2. QED
    BY Invariance, <1>1, PTL

-----------------------------------------------------------------------------
(* The history as a line of messages *)

\* The messages of a sequence of rows.
LEMMA SeenFacts ==
  ASSUME NEW S, NEW q \in Seq(S)
  PROVE  [i \in DOMAIN q |-> q[i].message] \in Seq(Messages(S))
  <1>1. DOMAIN q = 1..Len(q) /\ Len(q) \in Nat
    OBVIOUS
  <1>2. \A i \in 1..Len(q) : q[i].message \in Messages(S)
    BY DEF Messages
  <1> HIDE DEF Messages
  <1>3. [i \in 1..Len(q) |-> q[i].message] \in Seq(Messages(S))
    BY <1>1, <1>2
  <1>4. QED
    BY <1>1, <1>3

\* A row more is a message more.
LEMMA SeenAppend ==
  ASSUME NEW S, NEW q \in Seq(S), NEW e \in S
  PROVE  [i \in DOMAIN Append(q, e) |-> Append(q, e)[i].message]
           = Append([i \in DOMAIN q |-> q[i].message], e.message)
  <1> DEFINE f == [i \in DOMAIN q |-> q[i].message]
             g == [i \in DOMAIN Append(q, e) |-> Append(q, e)[i].message]
             h == Append(f, e.message)
  <1>1. f \in Seq(Messages(S)) /\ e.message \in Messages(S)
    BY SeenFacts DEF Messages
  <1>2. Append(q, e) \in Seq(S)
    BY AppendFacts
  <1>3. g \in Seq(Messages(S))
    BY <1>2, SeenFacts
  <1>4. /\ Len(q) \in Nat
        /\ DOMAIN q = 1..Len(q)
        /\ DOMAIN Append(q, e) = 1..(Len(q) + 1)
        /\ Append(q, e)[Len(q) + 1] = e
        /\ \A i \in 1..Len(q) : Append(q, e)[i] = q[i]
    BY AppendFacts
  <1>5. Len(f) = Len(q) /\ \A i \in 1..Len(q) : f[i] = q[i].message
    BY <1>4
  <1>6. Len(g) = Len(q) + 1 /\ \A i \in 1..(Len(q) + 1) : g[i] = Append(q, e)[i].message
    BY <1>4
  <1> HIDE DEF f, g
  <1>7. /\ h \in Seq(Messages(S))
        /\ Len(h) = Len(f) + 1
        /\ h[Len(f) + 1] = e.message
        /\ \A i \in 1..Len(f) : h[i] = f[i]
    BY <1>1, AppendFacts
  <1> HIDE DEF h
  <1>8. Len(h) = Len(g)
    BY <1>5, <1>6, <1>7
  <1>9. ASSUME NEW i \in 1..Len(g) PROVE g[i] = h[i]
    BY <1>4, <1>5, <1>6, <1>7, <1>9
  <1>10. g = h
    BY <1>3, <1>7, <1>8, <1>9, SeqEqual
  <1>11. QED
    BY <1>10 DEF f, g, h

\* Ids and messages of rows determine each other.
LEMMA RowFacts ==
  ASSUME IInv
  PROVE  /\ rows \subseteq Row
         /\ \A row \in rows : row.id \in Nat /\ row.message \in SentMessage
         /\ \A row, other \in rows :
              row.id = other.id <=> row.message = other.message
  <1>1. rows \subseteq Row /\ serial \in Nat
    BY DEF IInv, TypeOK
  <1>2. \A row \in rows : row.id \in Nat /\ row.message \in SentMessage
    BY <1>1 DEF Row
  <1>3. QED
    BY <1>1, <1>2 DEF IInv, TypeOK

\* What is stored is in the history.
LEMMA HistoryFacts == \A m : Stored(m) <=> m \in Messages(rows)
  BY DEF Stored, Messages

\* The pairs of messages of some rows in the order of the ids of their rows.
Pairs(S) == {q \in S \X S : q[1].id < q[2].id}
Ordered(S) == {<<p[1].message, p[2].message>> : p \in Pairs(S)}

\* When two messages are such a pair.
LEMMA PairFacts ==
  ASSUME NEW S, NEW a, NEW b
  PROVE  <<a, b>> \in Ordered(S) <=>
           \E row, other \in S :
             row.id < other.id /\ a = row.message /\ b = other.message
  <1>1. ASSUME <<a, b>> \in Ordered(S)
        PROVE  \E row, other \in S :
                 row.id < other.id /\ a = row.message /\ b = other.message
    <2>1. PICK p \in Pairs(S) : <<a, b>> = <<p[1].message, p[2].message>>
      BY <1>1 DEF Ordered
    <2>2. p[1] \in S /\ p[2] \in S /\ p[1].id < p[2].id
      BY DEF Pairs
    <2>3. QED
      BY <2>1, <2>2
  <1>2. ASSUME NEW row \in S, NEW other \in S, row.id < other.id,
               a = row.message, b = other.message
        PROVE  <<a, b>> \in Ordered(S)
    <2> DEFINE p == <<row, other>>
    <2>1. p \in Pairs(S) /\ p[1] = row /\ p[2] = other
      BY <1>2 DEF Pairs
    <2>2. <<a, b>> = <<p[1].message, p[2].message>>
      BY <1>2, <2>1
    <2> HIDE DEF p
    <2>3. QED
      BY <2>1, <2>2 DEF Ordered
  <1>3. QED
    BY <1>1, <1>2

\* The line of messages by the ids of their rows, now and after a step.
LEMMA PrecedesFacts ==
  ASSUME NEW a, NEW b
  PROVE  /\ <<a, b>> \in Precedes <=>
              \E row, other \in rows :
                row.id < other.id /\ a = row.message /\ b = other.message
         /\ <<a, b>> \in Precedes' <=>
              \E row, other \in rows' :
                row.id < other.id /\ a = row.message /\ b = other.message
  <1>1. Precedes = Ordered(rows) /\ Precedes' = Ordered(rows')
    BY DEF Precedes, Ordered, Pairs
  <1>2. QED
    BY <1>1, PairFacts

\* A sender has something pending where its insert is under way, and nothing
\* where it wants its next message.
LEMMA PendingFacts ==
  ASSUME IInv, NEW s \in Sender
  PROVE  /\ pc[s] \in InFlight => Archive!Pending(s)
         /\ pc[s] = "reading" => ~Archive!Pending(s)
  <1>1. sent[s] \in Seq(SentMessage) /\ s \in Call
    BY DEF IInv, TypeOK, Call
  <1>2. sent[s] # <<>> => Len(sent[s]) \in DOMAIN sent[s]
    BY <1>1
  <1>3. pc[s] \in InFlight => sent[s] # <<>>
    BY DEF IInv, CallInv, SenderOK
  <1>4. StoreOK(s)
    BY DEF IInv, StoreInv
  <1>5. Archive!Pending(s) <=>
          sent[s] # <<>> /\ sent[s][Len(sent[s])] \notin Messages(rows)
    BY DEF Archive!Pending, Archive!Newest
  <1>6. QED
    BY <1>2, <1>3, <1>4, <1>5, HistoryFacts DEF StoreOK

\* The initial states.
LEMMA InitArchive == Init => Archive!Init
  <1> SUFFICES ASSUME Init PROVE Archive!Init
    OBVIOUS
  <1>1. /\ rows = {}
        /\ sent = [s \in Sender |-> <<>>]
        /\ channel \in [Reader -> Channel]
        /\ left = [r \in Reader |-> {}]
        /\ shown = [r \in Reader |-> <<>>]
        /\ pc = [c \in Call |-> "idle"]
        /\ status = [c \in Call |-> "none"]
    BY DEF Init
  <1>2. Messages({}) = {}
    BY DEF Messages
  <1>3. Precedes = {}
    BY <1>1 DEF Precedes
  <1>4. \A s \in Sender : Floor(s) = {}
    BY <1>1 DEF Floor
  <1>5. [i \in DOMAIN <<>> |-> <<>>[i].message] = <<>>
    <2>1. <<>> \in Seq({}) /\ DOMAIN <<>> = {}
      BY EmptyFacts
    <2>2. [i \in DOMAIN <<>> |-> <<>>[i].message] \in Seq(Messages({}))
      BY <2>1, SeenFacts
    <2>3. QED
      BY <2>1, <2>2
  <1>6. \A r \in Reader : Seen(r) = <<>>
    BY <1>1, <1>5 DEF Seen
  <1>7. \A c \in Call : Outcome(c) = "none"
    BY <1>1 DEF Outcome
  <1>8. [s \in Sender |-> Floor(s)] = [s \in Sender |-> {}]
    BY <1>4
  <1>9. [r \in Reader |-> Messages(left[r])] = [r \in Reader |-> {}]
    BY <1>1, <1>2
  <1>10. [r \in Reader |-> Seen(r)] = [r \in Reader |-> <<>>]
    BY <1>6
  <1>11. [c \in Call |-> Outcome(c)] = [c \in Call |-> "none"]
    BY <1>7
  <1>12. QED
    BY <1>1, <1>2, <1>3, <1>8, <1>9, <1>10, <1>11 DEF Archive!Init, Archive!Call, Call

\* What the archive sees of calls whose places and outcomes stay.
LEMMA OutcomeKept ==
  ASSUME UNCHANGED status,
         \A c \in Call : pc'[c] = "writing" <=> pc[c] = "writing"
  PROVE  [c \in Call |-> Outcome(c)]' = [c \in Call |-> Outcome(c)]
  <1>1. \A c \in Call : Outcome(c)' = Outcome(c)
    BY DEF Outcome
  <1>2. QED
    BY <1>1

\* What the archive sees of readers changes with their answers only.
LEMMA ReadersKept ==
  ASSUME UNCHANGED <<left, shown>>
  PROVE  /\ [r \in Reader |-> Messages(left[r])]' = [r \in Reader |-> Messages(left[r])]
         /\ [r \in Reader |-> Seen(r)]' = [r \in Reader |-> Seen(r)]
  BY DEF Messages, Seen

\* Nor what it sees of senders that broadcast nothing.
LEMMA SendersKept ==
  ASSUME UNCHANGED <<sent, before>>
  PROVE  [s \in Sender |-> Floor(s)]' = [s \in Sender |-> Floor(s)]
  BY DEF Floor, Messages

\* Nor the line of messages.
LEMMA RowsUnchanged ==
  ASSUME UNCHANGED rows
  PROVE  /\ Messages(rows)' = Messages(rows)
         /\ Precedes' = Precedes
  BY DEF Messages, Precedes

\* Calls end, or move without the archive taking notice.
LEMMA CalmArchive == IInv /\ Calm => Archive!End
  <1> SUFFICES ASSUME IInv, Calm PROVE Archive!End
    OBVIOUS
  <1>1. UNCHANGED <<rows, sent, before, channel, left, shown>>
    BY DEF Calm, dbVars, senderVars, readerVars
  <1>2. \A c \in Call : status'[c] \in StatusCode
    BY DEF Calm
  <1>3. ASSUME NEW c \in Call, Outcome(c)' # Outcome(c)
        PROVE  Archive!MayEnd(c, Outcome(c)')
    <2>1. MoveOK(c) /\ StatusOK(c)
      BY DEF Calm, IInv, CallInv
    <2>2. /\ status[c] = "none"
          /\ pc'[c] # "writing"
          /\ \/ status'[c] \in {"INTERNAL", "UNAVAILABLE"}
             \/ /\ c \in Sender /\ pc[c] = "reading"
                /\ status'[c] = "INVALID_ARGUMENT"
             \/ /\ status'[c] = "OK"
                /\ \/ c \in Sender /\ pc[c] = "reading"
                   \/ c \in Reader /\ pc[c] = "writing" /\ left[c] = {}
      BY <1>3, <2>1 DEF MoveOK, Outcome
    <2>3. /\ Outcome(c)' = status'[c]
          /\ Outcome(c) = IF pc[c] = "writing" THEN "answered" ELSE "none"
      BY <2>2 DEF Outcome
    <2>4. Messages({}) = {}
      BY DEF Messages
    <2>5. [q \in Call |-> Outcome(q)][c] = Outcome(c)
      OBVIOUS
    <2>6. ASSUME c \in Reader
          PROVE  [r \in Reader |-> Messages(left[r])][c] = Messages(left[c])
      BY <2>6
    <2>7. QED
      BY <2>2, <2>3, <2>4, <2>5, <2>6, PendingFacts DEF Archive!MayEnd
  <1>4. \A c \in Call : Outcome(c)' \in Archive!Code
    BY <1>2 DEF Outcome, StatusCode, Archive!Code
  <1>5. [c \in Call |-> Outcome(c)]' \in [Call -> Archive!Code]
    BY <1>4
  <1>6. \A c \in Call :
          [q \in Call |-> Outcome(q)]'[c] # [q \in Call |-> Outcome(q)][c]
            => Archive!MayEnd(c, [q \in Call |-> Outcome(q)]'[c])
    BY <1>3
  <1>7. QED
    BY <1>1, <1>5, <1>6, ReadersKept, SendersKept, RowsUnchanged
    DEF Archive!End, Archive!Call, Call

\* A message that is broadcast is a new one, and may only be stored behind
\* what is stored already.
LEMMA SendArchive ==
  ASSUME IInv, NEW s \in Sender, NEW ch \in Channel, NEW u \in User,
         Send(s, ch, u)
  PROVE  Archive!Broadcast(s)
  <1>1. PICK m \in SentMessage :
          /\ m.call = s
          /\ m.n = Len(sent[s]) + 1
          /\ sent' = [sent EXCEPT ![s] = Append(sent[s], m)]
          /\ Len(sent[s]) \in Nat
          /\ Len(sent'[s]) = Len(sent[s]) + 1
          /\ DOMAIN sent[s] = 1..Len(sent[s])
          /\ sent'[s] = Append(sent[s], m)
          /\ sent'[s] # <<>>
          /\ \A q \in Sender \ {s} : sent'[q] = sent[q]
          /\ pc[s] = "reading"
          /\ pc' = [pc EXCEPT ![s] = "inserting"]
          /\ UNCHANGED <<rows, status, channel, left, shown>>
    <2>1. sent \in [Sender -> Seq(SentMessage)]
      BY DEF IInv, TypeOK
    <2>3. PICK m \in SentMessage :
          /\ m.call = s
          /\ m.n = Len(sent[s]) + 1
          /\ sent' = [sent EXCEPT ![s] = Append(sent[s], m)]
          /\ Len(sent[s]) \in Nat
          /\ Len(sent'[s]) = Len(sent[s]) + 1
          /\ DOMAIN sent[s] = 1..Len(sent[s])
          /\ \A q \in Sender \ {s} : sent'[q] = sent[q]
          /\ pc[s] = "reading"
          /\ pc' = [pc EXCEPT ![s] = "inserting"]
          /\ UNCHANGED <<rows, status, channel, left, shown>>
      BY SendFacts
    <2>4. sent'[s] = Append(sent[s], m)
      BY <2>1, <2>3
    <2>5. sent'[s] # <<>>
      BY <2>1, <2>3, <2>4, AppendProperties
    <2>6. QED
      BY <2>3, <2>4, <2>5
  <1>2. s \in Call /\ pc \in [Call -> Label] /\ status[s] = "none"
    <2>1. s \in Call /\ pc \in [Call -> Label]
      BY DEF Call, IInv, TypeOK
    <2>2. QED
      BY <1>1, <2>1 DEF IInv, CallInv, StatusOK, Over
  <1>3. [c \in Call |-> Outcome(c)][s] = "none"
    BY <1>1, <1>2 DEF Outcome
  <1>4. ~Archive!Pending(s)
    BY <1>1, PendingFacts
  <1>5. ASSUME NEW q \in Sender PROVE m \notin Archive!Range(sent[q])
    <2>1. \A n \in DOMAIN sent[q] : sent[q][n].call = q /\ sent[q][n].n = n
      BY DEF IInv, CallInv, SenderOK
    <2>2. \A n \in DOMAIN sent[q] : sent[q][n] # m
      BY <1>1, <2>1
    <2>3. QED
      BY <2>2 DEF Archive!Range
  <1>6. [q \in Sender |-> Floor(q)]'
          = [[q \in Sender |-> Floor(q)] EXCEPT ![s] = Messages(rows)]
    <2>1. /\ before'[s][Len(sent[s]) + 1] = rows
          /\ \A q \in Sender \ {s} : before'[q] = before[q]
      BY BeforeFacts
    <2>2. Floor(s)' = Messages(rows)
      BY <1>1, <2>1 DEF Floor, Messages
    <2>3. \A q \in Sender \ {s} : Floor(q)' = Floor(q)
      BY <1>1, <2>1 DEF Floor, Messages
    <2>4. QED
      BY <2>2, <2>3
  <1>7. \A c \in Call : pc'[c] = "writing" <=> pc[c] = "writing"
    BY <1>1, <1>2
  <1>8. \E new \in SentMessage :
          /\ \A q \in Sender : new \notin Archive!Range(sent[q])
          /\ sent' = [sent EXCEPT ![s] = Append(sent[s], new)]
    BY <1>1, <1>5
  <1>9. /\ [c \in Call |-> Outcome(c)]' = [c \in Call |-> Outcome(c)]
        /\ [r \in Reader |-> Messages(left[r])]' = [r \in Reader |-> Messages(left[r])]
        /\ [r \in Reader |-> Seen(r)]' = [r \in Reader |-> Seen(r)]
        /\ Messages(rows)' = Messages(rows)
        /\ Precedes' = Precedes
        /\ channel' = channel
    BY <1>1, <1>7, OutcomeKept, ReadersKept, RowsUnchanged
  <1>10. QED
    BY <1>3, <1>4, <1>6, <1>8, <1>9 DEF Archive!Broadcast

\* Drawing an id is nothing to the archive.
LEMMA DrawArchive ==
  ASSUME IInv, NEW s \in Sender, Draw(s)
  PROVE  UNCHANGED Archive!vars
  <1>1. s \in Call
    BY DEF Call
  <1>2. \A c \in Call : pc'[c] = "writing" <=> pc[c] = "writing"
    BY <1>1, DrawFacts
  <1>3. UNCHANGED <<rows, sent, before, channel, left, shown, status>>
    BY DrawFacts
  <1>4. QED
    BY <1>2, <1>3, OutcomeKept, ReadersKept, SendersKept, RowsUnchanged
    DEF Archive!vars

\* Asking is nothing to it either.
LEMMA AskArchive ==
  ASSUME IInv, NEW r \in Reader, Ask(r)
  PROVE  UNCHANGED Archive!vars
  <1>1. \A c \in Call : pc'[c] = "writing" <=> pc[c] = "writing"
    BY AskFacts
  <1>2. UNCHANGED <<rows, sent, before, channel, left, shown, status>>
    BY AskFacts
  <1>3. QED
    BY <1>1, <1>2, OutcomeKept, ReadersKept, SendersKept, RowsUnchanged
    DEF Archive!vars

\* A row that is committed puts its message behind all those of smaller ids,
\* among them what was stored at its broadcast, and before the others.
LEMMA CommitArchive ==
  ASSUME IInv, NEW s \in Sender, Commit(s)
  PROVE  Archive!Insert(s)
  <1>1. PICK new \in Row :
          /\ new.id = id[s]
          /\ new.message = Message(s)
          /\ rows' = rows \cup {new}
          /\ sent[s] # <<>>
          /\ pc[s] \in Drawn
          /\ pc'[s] = IF pc[s] = "drawn" THEN "inserted" ELSE "done"
          /\ \A c \in Call \ {s} : pc'[c] = pc[c]
          /\ UNCHANGED <<status, sent, before, channel, left, shown>>
    BY CommitFacts
  <1> DEFINE lower == {row \in rows : row.id < new.id}
             higher == {row \in rows : new.id < row.id}
             behind == Messages(lower)
             m == new.message
  <1>2. /\ new.id \in Nat
        /\ \A row \in rows : row.id \in Nat /\ row.id # new.id
        /\ \A earlier \in before[s][Len(sent[s])] :
             earlier \in rows /\ earlier.id < new.id
    <2>1. id[s] \in 1..serial /\ serial \in Nat
      BY <1>1 DEF IInv, IdInv, TypeOK
    <2>2. /\ \A row \in rows : row.id # id[s]
          /\ \A earlier \in before[s][Len(sent[s])] : earlier.id < id[s]
      BY <1>1 DEF IInv, IdInv
    <2>3. before[s][Len(sent[s])] \subseteq rows
      <3>1. /\ before[s] \in Seq(SUBSET rows)
            /\ Len(before[s]) = Len(sent[s])
            /\ Len(sent[s]) \in DOMAIN sent[s]
            /\ sent[s] \in Seq(SentMessage)
        BY <1>1, MessageFacts DEF IInv, BeforeInv, TypeOK
      <3>2. QED
        BY <3>1
    <2>4. QED
      BY <1>1, <2>1, <2>2, <2>3, RowFacts
  <1>3. rows = lower \cup higher
    BY <1>2
  <1>4. ASSUME NEW low \in lower, NEW high \in higher
        PROVE  low.message # high.message
    BY <1>2, RowFacts
  <1>5. /\ Messages(rows) = behind \cup Messages(higher)
        /\ Messages(rows) \ behind = Messages(higher)
    BY <1>3, <1>4 DEF Messages
  <1>6. Messages(rows)' = Messages(rows) \cup {m}
    BY <1>1 DEF Messages
  <1>7. Floor(s) \subseteq behind
    BY <1>1, <1>2 DEF Floor, Messages
  <1>8. ASSUME NEW a \in behind, NEW b \in Messages(rows) \ behind
        PROVE  <<a, b>> \in Precedes
    <2>1. PICK low \in lower : a = low.message
      BY DEF Messages
    <2>2. PICK high \in higher : b = high.message
      BY <1>5 DEF Messages
    <2>3. low.id < high.id
      BY <1>2
    <2>4. QED
      BY <2>1, <2>2, <2>3, PrecedesFacts
  <1>9. Precedes' = Precedes \cup (behind \X {m}) \cup ({m} \X Messages(higher))
    <2> DEFINE Wider == Precedes \cup (behind \X {m}) \cup ({m} \X Messages(higher))
    <2>1. ASSUME NEW a, NEW b
          PROVE  <<a, b>> \in Precedes' <=>
                   \E row, other \in rows' :
                     row.id < other.id /\ a = row.message /\ b = other.message
      BY PrecedesFacts
    <2>2. ASSUME NEW a, NEW b
          PROVE  <<a, b>> \in Precedes' <=> <<a, b>> \in Wider
      <3>1. (\E row, other \in rows' :
               row.id < other.id /\ a = row.message /\ b = other.message)
              <=> \/ \E row, other \in rows :
                       row.id < other.id /\ a = row.message /\ b = other.message
                  \/ \E row \in lower : a = row.message /\ b = m
                  \/ \E row \in higher : a = m /\ b = row.message
        BY <1>1, <1>2
      <3>2. /\ (\E row \in lower : a = row.message) <=> a \in behind
            /\ (\E row \in higher : b = row.message) <=> b \in Messages(higher)
        BY DEF Messages
      <3>3. QED
        BY <2>1, <3>1, <3>2, PrecedesFacts
    <2>3. /\ \A p \in Precedes' : p = <<p[1], p[2]>>
          /\ \A p \in Wider : p = <<p[1], p[2]>>
      BY DEF Precedes
    <2> HIDE DEF Wider
    <2>4. ASSUME NEW p, p = <<p[1], p[2]>>
          PROVE  p \in Precedes' <=> p \in Wider
      <3>1. <<p[1], p[2]>> \in Precedes' <=> <<p[1], p[2]>> \in Wider
        BY <2>2
      <3>2. QED
        BY <2>4, <3>1
    <2>5. \A p : p \in Precedes' <=> p \in Wider
      BY <2>3, <2>4
    <2>6. Precedes' = Wider
      BY <2>5
    <2>7. QED
      BY <2>6 DEF Wider
  <1>10. \A c \in Call : pc'[c] = "writing" <=> pc[c] = "writing"
    BY <1>1 DEF Drawn
  <1>11. Archive!Pending(s) /\ Archive!Newest(s) = m
    BY <1>1, PendingFacts DEF InFlight, Archive!Newest, Message
  <1>12. /\ [c \in Call |-> Outcome(c)]' = [c \in Call |-> Outcome(c)]
         /\ [q \in Sender |-> Floor(q)]' = [q \in Sender |-> Floor(q)]
         /\ [r \in Reader |-> Messages(left[r])]' = [r \in Reader |-> Messages(left[r])]
         /\ [r \in Reader |-> Seen(r)]' = [r \in Reader |-> Seen(r)]
         /\ UNCHANGED <<sent, channel>>
    BY <1>1, <1>10, OutcomeKept, ReadersKept, SendersKept
  <1>13. behind \in SUBSET Messages(rows)
    BY <1>5
  <1>14. [q \in Sender |-> Floor(q)][s] \subseteq behind
    BY <1>7
  <1> HIDE DEF behind, m
  <1>15. QED
    BY <1>5, <1>6, <1>8, <1>9, <1>11, <1>12, <1>13, <1>14 DEF Archive!Insert

\* A query is answered with the messages of the channel at that moment.
LEMMA QueryArchive ==
  ASSUME IInv, NEW r \in Reader, Query(r)
  PROVE  Archive!Read(r)
  <1>1. /\ pc[r] = "querying"
        /\ left' \in [Reader -> SUBSET rows]
        /\ left'[r] = {row \in rows : row.message.channel = channel[r]}
        /\ \A q \in Reader \ {r} : left'[q] = left[q]
        /\ pc'[r] = "writing"
        /\ \A c \in Call \ {r} : pc'[c] = pc[c]
        /\ UNCHANGED <<rows, status, sent, before, channel, shown>>
    BY QueryFacts
  <1>2. r \in Call /\ status[r] = "none"
    BY <1>1, ReaderFacts
  <1>3. /\ [c \in Call |-> Outcome(c)][r] = "none"
        /\ [c \in Call |-> Outcome(c)]'
             = [[c \in Call |-> Outcome(c)] EXCEPT ![r] = "answered"]
    <2>1. Outcome(r) = "none" /\ Outcome(r)' = "answered"
      BY <1>1, <1>2 DEF Outcome
    <2>2. \A c \in Call \ {r} : Outcome(c)' = Outcome(c)
      BY <1>1 DEF Outcome
    <2>3. QED
      BY <1>2, <2>1, <2>2
  <1>4. [q \in Reader |-> Messages(left[q])]'
          = [[q \in Reader |-> Messages(left[q])] EXCEPT
               ![r] = {m \in Messages(rows) : m.channel = channel[r]}]
    <2>1. Messages(left'[r]) = {m \in Messages(rows) : m.channel = channel[r]}
      BY <1>1 DEF Messages
    <2>2. \A q \in Reader \ {r} : Messages(left'[q]) = Messages(left[q])
      BY <1>1
    <2>3. \A q \in Reader : Messages(left[q])' = Messages(left'[q])
      BY DEF Messages
    <2>4. QED
      BY <2>1, <2>2, <2>3
  <1>5. /\ [s \in Sender |-> Floor(s)]' = [s \in Sender |-> Floor(s)]
        /\ Messages(rows)' = Messages(rows)
        /\ Precedes' = Precedes
        /\ UNCHANGED <<sent, channel>>
    BY <1>1, SendersKept, RowsUnchanged
  <1>6. [q \in Reader |-> Seen(q)]' = [q \in Reader |-> Seen(q)]
    BY <1>1 DEF Seen
  <1>7. QED
    BY <1>3, <1>4, <1>5, <1>6 DEF Archive!Read

\* The row of the smallest id that is left is that of the first message.
LEMMA WriteArchive ==
  ASSUME IInv, NEW r \in Reader, WriteRow(r)
  PROVE  Archive!Show(r)
  <1>1. PICK row \in left[r] :
          /\ row \in rows
          /\ shown[r] \in Seq(rows)
          /\ pc[r] = "writing"
          /\ \A other \in left[r] \ {row} : row.id < other.id
          /\ left' \in [Reader -> SUBSET rows]
          /\ left'[r] = left[r] \ {row}
          /\ shown' \in [Reader -> Seq(rows)]
          /\ shown'[r] = Append(shown[r], row)
          /\ \A q \in Reader \ {r} : left'[q] = left[q] /\ shown'[q] = shown[q]
          /\ UNCHANGED <<rows, pc, status, sent, before, channel>>
    BY WriteFacts
  <1> DEFINE m == row.message
  <1>2. left[r] \subseteq rows
    BY DEF IInv, TypeOK
  <1>3. \A other \in left[r] \ {row} : other.message # m
    <2>1. ASSUME NEW other \in left[r] \ {row} PROVE other.message # m
      <3>1. row.id \in Nat /\ other.id \in Nat /\ row.id < other.id
        BY <1>1, <1>2, RowFacts
      <3>2. row.id # other.id
        BY <3>1
      <3>3. QED
        BY <1>1, <1>2, <3>2, RowFacts
    <2>2. QED
      BY <2>1
  <1>4. m \in Messages(left[r]) /\ Messages(left'[r]) = Messages(left[r]) \ {m}
    BY <1>1, <1>3 DEF Messages
  <1>5. ASSUME NEW other \in Messages(left[r]) \ {m}
        PROVE  <<m, other>> \in Precedes
    <2>1. PICK next \in left[r] \ {row} : other = next.message
      BY DEF Messages
    <2>2. QED
      BY <1>1, <1>2, <2>1, PrecedesFacts
  <1>6. /\ [q \in Reader |-> Messages(left[q])][r] = Messages(left[r])
        /\ [q \in Reader |-> Messages(left[q])]'
             = [[q \in Reader |-> Messages(left[q])] EXCEPT
                  ![r] = Messages(left[r]) \ {m}]
    <2>1. \A q \in Reader \ {r} : Messages(left'[q]) = Messages(left[q])
      BY <1>1
    <2>2. \A q \in Reader : Messages(left[q])' = Messages(left'[q])
      BY DEF Messages
    <2>3. QED
      BY <1>4, <2>1, <2>2
  <1>7. [q \in Reader |-> Seen(q)]'
          = [[q \in Reader |-> Seen(q)] EXCEPT ![r] = Append(Seen(r), m)]
    <2>1. Seen(r)' = Append(Seen(r), m)
      <3>1. [i \in DOMAIN Append(shown[r], row) |-> Append(shown[r], row)[i].message]
              = Append([i \in DOMAIN shown[r] |-> shown[r][i].message], m)
        BY <1>1, SeenAppend
      <3>2. QED
        BY <1>1, <3>1 DEF Seen
    <2>2. \A q \in Reader \ {r} : Seen(q)' = Seen(q)
      BY <1>1 DEF Seen
    <2>3. QED
      BY <2>1, <2>2
  <1>8. /\ [c \in Call |-> Outcome(c)]' = [c \in Call |-> Outcome(c)]
        /\ [c \in Call |-> Outcome(c)][r] = "answered"
    <2>1. r \in Call
      BY DEF Call
    <2>2. QED
      BY <1>1, <2>1, OutcomeKept DEF Outcome
  <1>9. /\ [s \in Sender |-> Floor(s)]' = [s \in Sender |-> Floor(s)]
        /\ Messages(rows)' = Messages(rows)
        /\ Precedes' = Precedes
        /\ UNCHANGED <<sent, channel>>
    BY <1>1, SendersKept, RowsUnchanged
  <1>10. [q \in Reader |-> Seen(q)][r] = Seen(r)
    OBVIOUS
  <1> HIDE DEF m
  <1>11. QED
    BY <1>4, <1>5, <1>6, <1>7, <1>8, <1>9, <1>10 DEF Archive!Show

\* Every step of the history is one of the archive or changes nothing there.
LEMMA StepArchive == IInv /\ [Next]_vars => [Archive!Next]_(Archive!vars)
  <1> SUFFICES ASSUME IInv, [Next]_vars PROVE Archive!Next \/ UNCHANGED Archive!vars
    OBVIOUS
  <1>1. Kinds
    BY StepKinds
  <1>2. CASE Calm
    BY <1>2, CalmArchive DEF Archive!Next
  <1>3. ASSUME NEW s \in Sender, NEW ch \in Channel, NEW u \in User, Send(s, ch, u)
        PROVE  Archive!Next
    BY <1>3, SendArchive DEF Archive!Next
  <1>4. ASSUME NEW s \in Sender, Commit(s) PROVE Archive!Next
    BY <1>4, CommitArchive DEF Archive!Next
  <1>5. ASSUME NEW r \in Reader, Query(r) PROVE Archive!Next
    BY <1>5, QueryArchive DEF Archive!Next
  <1>6. ASSUME NEW r \in Reader, WriteRow(r) PROVE Archive!Next
    BY <1>6, WriteArchive DEF Archive!Next
  <1>7. ASSUME NEW s \in Sender, Draw(s) PROVE UNCHANGED Archive!vars
    BY <1>7, DrawArchive
  <1>8. ASSUME NEW r \in Reader, Ask(r) PROVE UNCHANGED Archive!vars
    BY <1>8, AskArchive
  <1>9. QED
    BY <1>1, <1>2, <1>3, <1>4, <1>5, <1>6, <1>7, <1>8 DEF Kinds

\* The history implements the archive: for any number of streams, readers,
\* failed inserts and restarts it is one growing line in which nothing moves,
\* a message comes behind all that was stored at its broadcast, and a reading
\* is one moment of the line (WrongthinkServiceImpl.cpp:258-268 and 305-330,
\* DBPostgres.cpp:240-246).
THEOREM ImplementsArchive == Spec => ArchiveSpec
  <1>1. QED
    BY InitArchive, StepArchive, Invariance, PTL
    DEF Spec, ArchiveSpec, Archive!Spec

\* The messages of two rows are in the order of their ids.
LEMMA PrecedesIds ==
  ASSUME IInv, NEW x \in rows, NEW y \in rows
  PROVE  <<x.message, y.message>> \in Precedes <=> x.id < y.id
  <1>1. ASSUME <<x.message, y.message>> \in Precedes PROVE x.id < y.id
    <2>1. PICK row \in rows, other \in rows :
            /\ row.id < other.id
            /\ x.message = row.message
            /\ y.message = other.message
      BY <1>1, PrecedesFacts
    <2>2. row.id = x.id /\ other.id = y.id
      BY <2>1, RowFacts
    <2>3. QED
      BY <2>1, <2>2
  <1>2. ASSUME x.id < y.id PROVE <<x.message, y.message>> \in Precedes
    BY <1>2, PrecedesFacts
  <1>3. QED
    BY <1>1, <1>2

\* `precedes` of the archive is a strict linear order of its history.
Line ==
  /\ Precedes \subseteq Messages(rows) \X Messages(rows)
  /\ \A a, b \in Messages(rows) :
       /\ <<a, b>> \in Precedes => <<b, a>> \notin Precedes
       /\ a # b => <<a, b>> \in Precedes \/ <<b, a>> \in Precedes
  /\ \A a, b, c \in Messages(rows) :
       <<a, b>> \in Precedes /\ <<b, c>> \in Precedes => <<a, c>> \in Precedes

\* The order in which readers show the history is a linear order of all that
\* was ever stored, at every moment and whatever ids were lost
\* (DBPostgres.cpp:82 and 240-243).
THEOREM HistoryIsALine == Spec => []Line
  <1>1. IInv => Line
    <2> SUFFICES ASSUME IInv PROVE Line
      OBVIOUS
    <2>1. ASSUME NEW a, NEW b
          PROVE  <<a, b>> \in Precedes <=>
                   \E row, other \in rows :
                     row.id < other.id /\ a = row.message /\ b = other.message
      BY PrecedesFacts
    <2>2. Precedes \subseteq Messages(rows) \X Messages(rows)
      <3>1. ASSUME NEW p \in Pairs(rows)
            PROVE  <<p[1].message, p[2].message>> \in Messages(rows) \X Messages(rows)
        BY DEF Pairs, Messages
      <3>2. QED
        BY <3>1 DEF Precedes, Pairs
    <2>3. ASSUME NEW a \in Messages(rows), NEW b \in Messages(rows)
          PROVE  /\ <<a, b>> \in Precedes => <<b, a>> \notin Precedes
                 /\ a # b => <<a, b>> \in Precedes \/ <<b, a>> \in Precedes
      <3>1. PICK x \in rows, y \in rows : a = x.message /\ b = y.message
        BY DEF Messages
      <3>2. /\ x.id \in Nat /\ y.id \in Nat
            /\ x.id = y.id <=> a = b
        BY <3>1, RowFacts
      <3>3. <<a, b>> \in Precedes <=> x.id < y.id
        BY <3>1, PrecedesIds
      <3>4. <<b, a>> \in Precedes <=> y.id < x.id
        BY <3>1, PrecedesIds
      <3>5. QED
        BY <3>2, <3>3, <3>4
    <2>4. ASSUME NEW a, NEW b, NEW c, <<a, b>> \in Precedes, <<b, c>> \in Precedes
          PROVE  <<a, c>> \in Precedes
      <3>1. PICK x \in rows, y \in rows :
              x.id < y.id /\ a = x.message /\ b = y.message
        BY <2>1, <2>4
      <3>2. PICK u \in rows, v \in rows :
              u.id < v.id /\ b = u.message /\ c = v.message
        BY <2>1, <2>4
      <3>3. /\ x.id \in Nat /\ y.id \in Nat /\ u.id \in Nat /\ v.id \in Nat
            /\ y.id = u.id
        BY <3>1, <3>2, RowFacts
      <3>4. x.id < v.id
        BY <3>1, <3>2, <3>3
      <3>5. QED
        BY <2>1, <3>1, <3>2, <3>4
    <2>5. QED
      BY <2>2, <2>3, <2>4 DEF Line
  <1>2. QED
    BY Invariance, <1>1, PTL

=============================================================================
