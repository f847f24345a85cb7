--------------------------- MODULE MessageArchive ---------------------------
(***************************************************************************)
(* What the message RPCs promise about the history, without ids, inserts,  *)
(* the database and the process.                                           *)
(*                                                                         *)
(* The history is one line of messages.  It only grows, anywhere behind    *)
(* what was in it when the new message was broadcast, and nothing in it    *)
(* moves.  A reader is given the messages of its channel as they are at    *)
(* one moment, and shows them along the line.  OK means to a sender that   *)
(* all it sent is in the history, to a reader that it showed all it was    *)
(* given.                                                                  *)
(***************************************************************************)
EXTENDS Sequences, Functions

CONSTANTS
  Sender,
  Reader,
  Channel,
  Post  \* the messages, records with a channel

VARIABLES
  history,   \* the messages in the history
  precedes,  \* pairs of them: the first comes before the second
  sent,      \* per sender: its messages, oldest first
  floor,     \* per sender: the history when its last one was broadcast
  channel,   \* per reader: the channel it asks for
  answer,    \* per reader: what it was given and has not shown yet
  seen,      \* per reader: what it has shown, oldest first
  outcome    \* per call: the status it ended with, or "none"; "answered" for
             \* a reader that has its answer

vars == <<history, precedes, sent, floor, channel, answer, seen, outcome>>

Call == Sender \cup Reader

Init ==
  /\ history = {}
  /\ precedes = {}
  /\ sent = [s \in Sender |-> <<>>]
  /\ floor = [s \in Sender |-> {}]
  /\ channel \in [Reader -> Channel]
  /\ answer = [r \in Reader |-> {}]
  /\ seen = [r \in Reader |-> <<>>]
  /\ outcome = [c \in Call |-> "none"]

Newest(s) == sent[s][Len(sent[s])]
Pending(s) == sent[s] # <<>> /\ Newest(s) \notin history

Broadcast(s) ==
  /\ outcome[s] = "none"
  /\ ~Pending(s)
  /\ floor' = [floor EXCEPT ![s] = history]
  /\ \E m \in Post :
       /\ sent' = [sent EXCEPT ![s] = Append(@, m)]
       /\ \A q \in Sender : m \notin Range(sent[q])
  /\ UNCHANGED <<history, precedes, channel, answer, seen, outcome>>

\* The message enters the line behind some messages, all those before its
\* broadcast among them, and possibly after its call has failed.
Insert(s) ==
  /\ Pending(s)
  /\ \E behind \in SUBSET history :
       /\ floor[s] \subseteq behind
       /\ \A a \in behind, b \in history \ behind : <<a, b>> \in precedes
       /\ history' = history \cup {Newest(s)}
       /\ precedes' = precedes \cup (behind \X {Newest(s)})
                               \cup ({Newest(s)} \X (history \ behind))
  /\ UNCHANGED <<sent, floor, channel, answer, seen, outcome>>

Read(r) ==
  /\ outcome[r] = "none"
  /\ answer' = [answer EXCEPT ![r] = {m \in history : m.channel = channel[r]}]
  /\ outcome' = [outcome EXCEPT ![r] = "answered"]
  /\ UNCHANGED <<history, precedes, sent, floor, channel, seen>>

Show(r) ==
  /\ outcome[r] = "answered"
  /\ \E m \in answer[r] :
       /\ \A other \in answer[r] \ {m} : <<m, other>> \in precedes
       /\ answer' = [answer EXCEPT ![r] = @ \ {m}]
       /\ seen' = [seen EXCEPT ![r] = Append(@, m)]
  /\ UNCHANGED <<history, precedes, sent, floor, channel, outcome>>

Code == {"none", "answered", "OK", "INVALID_ARGUMENT", "INTERNAL", "UNAVAILABLE"}

MayEnd(c, o) ==
  \/ o \in {"INTERNAL", "UNAVAILABLE"} /\ outcome[c] \in {"none", "answered"}
  \/ c \in Sender /\ o = "INVALID_ARGUMENT" /\ outcome[c] = "none" /\ ~Pending(c)
  \/ c \in Sender /\ o = "OK" /\ outcome[c] = "none" /\ ~Pending(c)
  \/ c \in Reader /\ o = "OK" /\ outcome[c] = "answered" /\ answer[c] = {}

\* Calls end, several at once when their process dies.
End ==
  /\ UNCHANGED <<sent, history, precedes, floor, channel, answer, seen>>
  /\ outcome' \in [Call -> Code]
  /\ \A c \in Call : outcome'[c] # outcome[c] => MayEnd(c, outcome'[c])

Next ==
  \/ End
  \/ \E s \in Sender : Broadcast(s) \/ Insert(s)
  \/ \E r \in Reader : Read(r) \/ Show(r)

Spec == Init /\ [][Next]_vars

=============================================================================
