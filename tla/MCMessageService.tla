-------------------------- MODULE MCMessageService --------------------------
(* Small instances of MessageService for TLC. *)
EXTENDS MessageService, TLC

\* Calls of one kind and channels are only compared for equality.
Symmetry ==
  Permutations(Stream) \cup Permutations(Web) \cup Permutations(Listener)
    \cup Permutations(Channel)

=============================================================================
