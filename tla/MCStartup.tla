----------------------------- MODULE MCStartup -----------------------------
(* Small instances of Startup for TLC. *)
EXTENDS Startup, TLC

\* Processes are only compared for equality.
Symmetry == Permutations(Process)

=============================================================================
