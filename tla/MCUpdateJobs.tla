---------------------------- MODULE MCUpdateJobs ----------------------------
(***************************************************************************)
(* UpdateJobs for TLC.  Job ids and server ids are only ever compared, so  *)
(* any renaming of them maps behaviours to behaviours.                     *)
(***************************************************************************)
EXTENDS UpdateJobs, TLC

Symmetry == Permutations(Jobs) \cup Permutations(Servers)

Rows == {p \in Jobs \X Servers : tasks[p[1]][p[2]] # "none"}
Wide == {j \in Jobs : jobs[j].conc > 1}
Open == {j \in Jobs : jobs[j].state # "none"}

\* Bounds: three task rows; a job that runs its servers side by side is alone,
\* and so is a job under which a second write raises.
FewRows == Cardinality(Rows) <= 3
WideAlone == Wide # {} => Cardinality(Open) <= 1
FaultsAlone == faults > 1 => Cardinality(Open) <= 1

=============================================================================
