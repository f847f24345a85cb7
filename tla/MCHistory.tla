----------------------------- MODULE MCHistory -----------------------------
(* Small instances of History for TLC. *)
EXTENDS History, TLC

\* Readers and channels are only compared for equality.
Symmetry ==
  Permutations(Reader) \cup Permutations(Channel)

\* Bound: readings follow each other.  They write nothing that others read.
OneReading ==
  Cardinality({r \in Reader : pc[r] \in {"querying", "writing"}}) <= 1

=============================================================================
