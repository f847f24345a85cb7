--------------------------- MODULE MessageLedger ---------------------------
(***************************************************************************)
(* What the message RPCs promise about broadcasting, storing and answering *)
(* together, without the map of channels, the threads and the process.     *)
(*                                                                         *)
(* A call submits its messages one after the other, the next when the last *)
(* one is stored.  A message is shown to listeners at most once, while its *)
(* call runs, and stored at most once, after it was shown, and possibly    *)
(* after its call has failed.  OK means that all of it is stored; a call   *)
(* is refused only for a message nobody was shown.  Nothing that was shown *)
(* or stored is taken back, and an outcome is final.                       *)
(***************************************************************************)
EXTENDS Sequences, Functions

CONSTANTS
  Sender,  \* the calls
  Message  \* what they can send

VARIABLES
  sent,    \* per call: its messages, oldest first
  shown,   \* the messages listeners could see
  stored,  \* the messages in the database, in the order of insertion
  outcome  \* per call: the status it ended with, or "none"

vars == <<sent, shown, stored, outcome>>

Init ==
  /\ sent = [s \in Sender |-> <<>>]
  /\ shown = {}
  /\ stored = <<>>
  /\ outcome = [s \in Sender |-> "none"]

Newest(s) == sent[s][Len(sent[s])]
Pending(s) == sent[s] # <<>> /\ Newest(s) \notin Range(stored)

Submit(s, m) ==
  /\ outcome[s] = "none"
  /\ ~Pending(s)
  /\ m \notin Range(sent[s])
  /\ sent' = [sent EXCEPT ![s] = Append(@, m)]
  /\ UNCHANGED <<shown, stored, outcome>>

Show(s) ==
  /\ outcome[s] = "none"
  /\ Pending(s)
  /\ Newest(s) \notin shown
  /\ shown' = shown \cup {Newest(s)}
  /\ UNCHANGED <<sent, stored, outcome>>

Store(s) ==
  /\ Pending(s)
  /\ Newest(s) \in shown
  /\ stored' = Append(stored, Newest(s))
  /\ UNCHANGED <<sent, shown, outcome>>

MayEnd(s, o) ==
  CASE o = "OK" -> ~Pending(s)
    [] o = "INVALID_ARGUMENT" -> Pending(s) /\ Newest(s) \notin shown
    [] OTHER -> o \in {"INTERNAL", "UNAVAILABLE"}

\* Calls end, several at once when their process dies.
End ==
  /\ \E ending \in SUBSET {s \in Sender : outcome[s] = "none"} :
       \E o \in {"OK", "INVALID_ARGUMENT", "INTERNAL", "UNAVAILABLE"} :
         /\ \A s \in ending : MayEnd(s, o)
         /\ outcome' = [s \in Sender |-> IF s \in ending THEN o ELSE outcome[s]]
  /\ UNCHANGED <<sent, shown, stored>>

Next ==
  \/ \E s \in Sender :
       \/ \E m \in Message : Submit(s, m)
       \/ Show(s)
       \/ Store(s)
  \/ End

Spec == Init /\ [][Next]_vars

=============================================================================
