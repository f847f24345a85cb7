-------------------------- MODULE ChannelBroadcast --------------------------
(***************************************************************************)
(* What one SynchronizedChannel promises to the RPC handlers that share    *)
(* it, with its mutex and condition variable left out.                     *)
(*                                                                         *)
(* Messages enter an append-only log.  A listener takes, in one step, the  *)
(* message that is newest at that moment, and later writes exactly that    *)
(* message to its client.  Nothing is invented, nothing is reordered for   *)
(* one listener, and what is written was the newest message at some moment *)
(* since the listener's previous write.  A listener may miss messages (it  *)
(* only ever takes the newest) and may take the same one twice.            *)
(***************************************************************************)
EXTENDS Naturals, Sequences

CONSTANTS
  Message,       \* what can be sent
  Listener,      \* the ListenWrongthinkMessages calls on this channel
  EmptyMessage   \* a default-constructed WrongthinkMessage

VARIABLES
  log,      \* every message published on the channel, oldest first
  holding,  \* the listeners that took a message they have not written yet
  taken,    \* per listener: the log position it took last, 0 if none
  shown     \* per listener: the message its client received last

vars == <<log, holding, taken, shown>>

\* The message at position p; position 0 is the channel before any message.
At(p) == IF p = 0 THEN EmptyMessage ELSE log[p]

Init ==
  /\ log = <<>>
  /\ holding = {}
  /\ taken = [l \in Listener |-> 0]
  /\ shown = [l \in Listener |-> EmptyMessage]

Publish(m) ==
  /\ log' = Append(log, m)
  /\ UNCHANGED <<holding, taken, shown>>

Take(l) ==
  /\ l \notin holding
  /\ holding' = holding \cup {l}
  /\ taken' = [taken EXCEPT ![l] = Len(log)]
  /\ UNCHANGED <<log, shown>>

Show(l) ==
  /\ l \in holding
  /\ holding' = holding \ {l}
  /\ shown' = [shown EXCEPT ![l] = At(taken[l])]
  /\ UNCHANGED <<log, taken>>

Next ==
  \/ \E m \in Message : Publish(m)
  \/ \E l \in Listener : Take(l) \/ Show(l)

Spec == Init /\ [][Next]_vars

=============================================================================
