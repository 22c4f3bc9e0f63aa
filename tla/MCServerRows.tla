----------------------------- MODULE MCServerRows -----------------------------
(***************************************************************************)
(* ServerRows for TLC.  Addresses and machines are only ever compared.     *)
(***************************************************************************)
EXTENDS ServerRows, TLC

Symmetry == Permutations(Addresses) \cup Permutations(Machines)

=============================================================================
