------------------------- MODULE MCDirectoryService -------------------------
(* Small instances of DirectoryService for TLC. *)
EXTENDS DirectoryService, TLC

\* Calls of one kind and names are only compared for equality.
Symmetry ==
  Permutations(UserCall) \cup Permutations(CommunityCall)
    \cup Permutations(ChannelCall) \cup Permutations(Name)

=============================================================================
