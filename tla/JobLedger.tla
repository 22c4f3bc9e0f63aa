------------------------------ MODULE JobLedger ------------------------------
(***************************************************************************)
(* What the two tables promise to whoever reads them (the jobs page, the   *)
(* reports, the next launch), with no coroutine, thread or process in it:  *)
(* jobs and tasks are opened, tasks get a result once, and a job is closed *)
(* once, after its tasks, with a verdict that fits their results.          *)
(***************************************************************************)
CONSTANTS Jobs, Servers

VARIABLES
  job,    \* absent, open or the verdict, by job
  task    \* absent, open or the result, by job and server

ledger == <<job, task>>

Verdicts == {"completed", "completed_with_errors", "failed", "cancelled"}

Has(j, result) == \E s \in Servers : task[j][s] = result

\* The verdicts the results of j allow.
Fits(j, verdict) ==
  /\ ~Has(j, "open")
  /\ verdict = "completed" => ~Has(j, "failed")
  /\ verdict = "completed_with_errors" => Has(j, "completed") /\ Has(j, "failed")

Init ==
  /\ job = [j \in Jobs |-> "absent"]
  /\ task = [j \in Jobs |-> [s \in Servers |-> "absent"]]

Open(j) ==
  /\ job[j] = "absent"
  /\ job' = [job EXCEPT ![j] = "open"]
  /\ UNCHANGED task

AddTask(j, s) ==
  /\ job[j] = "open" /\ task[j][s] = "absent"
  /\ task' = [task EXCEPT ![j][s] = "open"]
  /\ UNCHANGED job

Finish(j, s) ==
  /\ job[j] = "open" /\ task[j][s] = "open"
  /\ \E result \in {"completed", "failed"} : task' = [task EXCEPT ![j][s] = result]
  /\ UNCHANGED job

\* One statement may close several jobs.
Close(S) ==
  /\ \A j \in S : job[j] = "open"
  /\ \E verdict \in [S -> Verdicts] :
       /\ \A j \in S : Fits(j, verdict[j])
       /\ job' = [j \in Jobs |-> IF j \in S THEN verdict[j] ELSE job[j]]
  /\ UNCHANGED task

Next ==
  \/ \E j \in Jobs : Open(j)
  \/ \E j \in Jobs, s \in Servers : AddTask(j, s) \/ Finish(j, s)
  \/ \E S \in SUBSET Jobs : Close(S)

Spec == Init /\ [][Next]_ledger

=============================================================================
