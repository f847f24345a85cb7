---------------------------- MODULE MCBanControl ----------------------------
(* Small instances of BanControl for TLC. *)
EXTENDS BanControl, TLC

\* Calls of one kind and peers are only compared for equality.
Symmetry ==
  Permutations(Banning) \cup Permutations(Serving) \cup Permutations(Peer)

=============================================================================
