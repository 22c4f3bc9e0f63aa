--------------------------- MODULE MCProvisioning ---------------------------
(***************************************************************************)
(* Provisioning for TLC.  Job ids and server ids are only ever compared.   *)
(***************************************************************************)
EXTENDS Provisioning, TLC

Symmetry == Permutations(Jobs) \cup Permutations(Servers)

Rows == {p \in Pairs : tasks[p[1]][p[2]].state # "none"}
Wide == {j \in Jobs : jobs[j].width > 1}

\* Bounds: three task rows; a job that runs its servers side by side is alone;
\* of two jobs with rows each has one.
FewRows == Cardinality(Rows) <= 3
WideAlone == Wide # {} => \A j \in Jobs \ Wide : jobs[j].state = "none"
SmallPair == (\E p, q \in Rows : p[1] # q[1]) => Cardinality(Rows) <= 2

=============================================================================
