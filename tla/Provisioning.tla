---------------------------- MODULE Provisioning ----------------------------
(***************************************************************************)
(* Bulk OS installs: ProvisioningOrchestrator (core/services/              *)
(* provisioning_orchestrator.py) with its tables (data/repositories/       *)
(* provisioning_repo.py) and, when OnePage holds, the only caller it has,  *)
(* the ProvisioningController of the Provision page (ui/bridge/            *)
(* controllers.py), which starts a job when it has seen the last one end.  *)
(* A task mounts the ISO on a server's BMC, sets the boot target, power    *)
(* cycles the host and waits for it; between two of its awaits a coroutine *)
(* runs alone, so everything up to the next await is one step.             *)
(*                                                                         *)
(* A restart boots what set_boot_once chose just before it, the image.     *)
(* The BMC and the host are outside the code and modelled from its calls:  *)
(* a call that fails may have taken effect, and port 22 of info.ip, the    *)
(* address of the BMC, may answer whatever the host does.  Row writes do   *)
(* not raise here; UpdateJobs has them raise in the same job skeleton.     *)
(* Nothing bounds this module but the constants: a job id is used once.    *)
(***************************************************************************)
EXTENDS Integers, FiniteSets

CONSTANTS
  Jobs,       \* ids the table provisioning_jobs can hand out
  Servers,
  NoJob,
  Widths,     \* numbers passed to start_job as concurrency
  OnePage     \* jobs are started by the controller only

MaxWidth == 32
Steps == {"mounting_iso", "setting_boot", "power_cycling", "installing", "verifying"}
NonTerminal == {"queued"} \cup Steps
Terminal == {"completed", "failed", "cancelled"}
Verdicts == {"completed", "completed_with_errors", "failed", "cancelled"}

ASSUME JobsAssumption == IsFiniteSet(Jobs) /\ NoJob \notin Jobs
ASSUME ServersAssumption == IsFiniteSet(Servers)
ASSUME WidthsAssumption == Widths \subseteq Int
ASSUME PageAssumption == OnePage \in BOOLEAN

VARIABLES
  jobs,      \* provisioning_jobs: state, concurrency and counters
  tasks,     \* provisioning_tasks: state and the disk resolved at job time
  mode,      \* down, jobs (between the sweeps of resume_interrupted), up, quitting
  gui,       \* the main thread inside start_job
  run,       \* the _run_job coroutine of each job
  coro,      \* the run_one coroutine of each task
  cancelRef, \* self._cancel_event, by the job that made it
  posted,    \* set() calls in the loop's callback queue
  configs,   \* self._configs: tasks whose rendered config is in memory
  page,      \* the controller: _running and the signals queued for it
  bmc        \* virtual media and host, by server

vars == <<jobs, tasks, mode, gui, run, coro, cancelRef, posted, configs, page, bmc>>

NoRow  == [state |-> "none", width |-> 1, succ |-> 0, fail |-> 0]
NoTask == [state |-> "none", disk |-> FALSE]
NoRun  == [pc |-> "idle", cancel |-> FALSE, succ |-> 0, fail |-> 0]
Idle   == [job |-> NoJob, todo |-> {}]
Shown  == [running |-> FALSE, inbox |-> {}]

\* Mutation: the requested width is only capped.
ClampWithoutFloor(n) == IF n > MaxWidth THEN MaxWidth ELSE n

Clamp(n) == IF n < 1 THEN 1 ELSE IF n > MaxWidth THEN MaxWidth ELSE n

InSlot == {"mounting", "booting", "cycling", "polling", "asleep", "verifying", "ejecting"}
Holding(j) == {s \in Servers : coro[j][s] \in InSlot}
\* Mutation: one slot too many.
SlotFreeOffByOne(j) == Cardinality(Holding(j)) <= jobs[j].width

SlotFree(j) == Cardinality(Holding(j)) < jobs[j].width
Live(j)    == run[j].pc \in {"submitted", "gather"}
Settled(j) == jobs[j].state \in Verdicts

Init ==
  /\ jobs = [j \in Jobs |-> NoRow]
  /\ tasks = [j \in Jobs |-> [s \in Servers |-> NoTask]]
  /\ mode = "down"
  /\ gui = Idle
  /\ run = [j \in Jobs |-> NoRun]
  /\ coro = [j \in Jobs |-> [s \in Servers |-> "idle"]]
  /\ cancelRef = NoJob /\ posted = {} /\ configs = {}
  /\ page = Shown
  /\ bmc = [s \in Servers |-> [media |-> "empty", host |-> "disk"]]

-----------------------------------------------------------------------------
(* start_job and cancel on the main thread.                                *)

BeginJob(j, ids, width) ==
  /\ mode = "up" /\ gui = Idle /\ ids # {}
  /\ OnePage => ~page.running
  /\ jobs[j].state = "none"
  /\ jobs' = [jobs EXCEPT ![j] = [NoRow EXCEPT !.state = "pending", !.width = Clamp(width)]]
  /\ gui' = [job |-> j, todo |-> ids]
  /\ UNCHANGED <<tasks, mode, run, coro, cancelRef, posted, configs, page, bmc>>

\* A task freezes what the resolver picked; preview skips a deleted server.
CreateTask(s) ==
  /\ mode = "up" /\ s \in gui.todo
  /\ gui' = [gui EXCEPT !.todo = @ \ {s}]
  /\ \/ \E disk \in BOOLEAN :
          tasks' = [tasks EXCEPT ![gui.job][s] = [state |-> "queued", disk |-> disk]]
     \/ UNCHANGED tasks
  /\ UNCHANGED <<jobs, mode, run, coro, cancelRef, posted, configs, page, bmc>>

SubmitJob ==
  /\ mode = "up" /\ gui.job # NoJob /\ gui.todo = {}
  /\ jobs' = [jobs EXCEPT ![gui.job].state = "running"]
  /\ run' = [run EXCEPT ![gui.job] = [NoRun EXCEPT !.pc = "submitted"]]
  /\ page' = [page EXCEPT !.running = TRUE]
  /\ gui' = Idle
  /\ UNCHANGED <<tasks, mode, coro, cancelRef, posted, configs, bmc>>

Cancel ==
  /\ mode = "up" /\ gui = Idle /\ page.running /\ cancelRef # NoJob
  /\ posted' = posted \cup {cancelRef}
  /\ UNCHANGED <<jobs, tasks, mode, gui, run, coro, cancelRef, configs, page, bmc>>

\* _on_job_done_main.
HandleEnd(j) ==
  /\ mode = "up" /\ gui = Idle /\ j \in page.inbox
  /\ page' = [running |-> FALSE, inbox |-> page.inbox \ {j}]
  /\ UNCHANGED <<jobs, tasks, mode, gui, run, coro, cancelRef, posted, configs, bmc>>

-----------------------------------------------------------------------------
(* _run_job and run_one on the engine thread.                              *)

RunJob(j) ==
  /\ mode = "up" /\ run[j].pc = "submitted"
  /\ run' = [run EXCEPT ![j].pc = "gather"]
  /\ coro' = [coro EXCEPT ![j] = [s \in Servers |->
                IF tasks[j][s].state # "none" THEN "spawned" ELSE "idle"]]
  /\ cancelRef' = j
  /\ UNCHANGED <<jobs, tasks, mode, gui, posted, configs, page, bmc>>

DeliverCancel(j) ==
  /\ mode = "up" /\ j \in posted
  /\ run' = [run EXCEPT ![j].cancel = TRUE]
  /\ posted' = posted \ {j}
  /\ UNCHANGED <<jobs, tasks, mode, gui, coro, cancelRef, configs, page, bmc>>

AtGate(j, s) ==
  /\ mode = "up" /\ run[j].pc = "gather"
  /\ \/ coro[j][s] = "spawned"
     \/ coro[j][s] = "waiting" /\ SlotFree(j)

\* A task ends: its row, its count, its config and its slot.
EndTaskKeepingConfig(j, s, result) ==
  /\ tasks' = [tasks EXCEPT ![j][s].state = result]
  /\ run' = IF result = "completed" THEN [run EXCEPT ![j].succ = @ + 1]
                                    ELSE [run EXCEPT ![j].fail = @ + 1]
  /\ coro' = [coro EXCEPT ![j][s] = "done"]
  /\ configs' = IF result = "completed" THEN configs \ {<<j, s>>} ELSE configs
  /\ UNCHANGED <<jobs, mode, gui, cancelRef, posted, page>>

EndTask(j, s, result) ==
  /\ tasks' = [tasks EXCEPT ![j][s].state = result]
  /\ run' = IF result = "completed" THEN [run EXCEPT ![j].succ = @ + 1]
                                    ELSE [run EXCEPT ![j].fail = @ + 1]
  /\ coro' = [coro EXCEPT ![j][s] = "done"]
  /\ configs' = configs \ {<<j, s>>}
  /\ UNCHANGED <<jobs, mode, gui, cancelRef, posted, page>>

SkipCancelled(j, s) ==
  /\ AtGate(j, s) /\ run[j].cancel
  /\ EndTask(j, s, "cancelled")
  /\ UNCHANGED bmc

WaitForSlot(j, s) ==
  /\ AtGate(j, s) /\ ~run[j].cancel /\ ~SlotFree(j)
  /\ coro' = [coro EXCEPT ![j][s] = "waiting"]
  /\ UNCHANGED <<jobs, tasks, mode, gui, run, cancelRef, posted, configs, page, bmc>>

\* No server, endpoint, OEM, plugin, safe disk target or file server.
Refuse(j, s) ==
  /\ AtGate(j, s) /\ ~run[j].cancel /\ SlotFree(j)
  /\ EndTask(j, s, "failed")
  /\ UNCHANGED bmc

\* Mutation: any resolution is runnable.
PrepareAnyDisk(j, s) ==
  /\ AtGate(j, s) /\ ~run[j].cancel /\ SlotFree(j)
  /\ tasks' = [tasks EXCEPT ![j][s].state = "mounting_iso"]
  /\ coro' = [coro EXCEPT ![j][s] = "mounting"]
  /\ configs' = configs \cup {<<j, s>>}
  /\ UNCHANGED <<jobs, mode, gui, run, cancelRef, posted, page, bmc>>

\* Everything before the first await: resolving_disk, rendering_config, publishing.
Prepare(j, s) ==
  /\ AtGate(j, s) /\ ~run[j].cancel /\ SlotFree(j) /\ tasks[j][s].disk
  /\ tasks' = [tasks EXCEPT ![j][s].state = "mounting_iso"]
  /\ coro' = [coro EXCEPT ![j][s] = "mounting"]
  /\ configs' = configs \cup {<<j, s>>}
  /\ UNCHANGED <<jobs, mode, gui, run, cancelRef, posted, page, bmc>>

Mounted(s) == [bmc EXCEPT ![s].media = "iso"]
Ejected(s) == [bmc EXCEPT ![s].media = "empty"]
Cycled(s)  == [bmc EXCEPT ![s].host = IF bmc[s].media = "iso" THEN "installer" ELSE @]

\* What the call the coroutine waits for does to the BMC.
Effect(j, s) == CASE coro[j][s] = "mounting" -> Mounted(s)
                  [] coro[j][s] = "cycling"  -> Cycled(s)
                  [] coro[j][s] = "ejecting" -> Ejected(s)
                  [] OTHER                   -> bmc

\* The BMC acts before its answer arrives, if one does.
Act(j, s) ==
  /\ bmc' = Effect(j, s)
  /\ UNCHANGED <<jobs, tasks, mode, gui, run, coro, cancelRef, posted, configs, page>>

Advance(j, s, from, to, state) ==
  /\ mode = "up" /\ coro[j][s] = from
  /\ coro' = [coro EXCEPT ![j][s] = to]
  /\ tasks' = [tasks EXCEPT ![j][s].state = state]
  /\ bmc' = Effect(j, s)
  /\ UNCHANGED <<jobs, mode, gui, run, cancelRef, posted, configs, page>>

MountIso(j, s)   == Advance(j, s, "mounting", "booting", "setting_boot")
SetBootOnce(j, s) == Advance(j, s, "booting", "cycling", "power_cycling")

\* Not ok or an exception, whether or not the BMC has acted.
PluginFails(j, s) ==
  /\ mode = "up" /\ coro[j][s] \in {"mounting", "booting", "cycling", "ejecting"}
  /\ EndTask(j, s, "failed")
  /\ UNCHANGED bmc

\* The wait reads self._cancel_event, the other checks the job's own event; it reads
\* it before each poll of port 22 and does not see one set while a poll is under way.
SharedEventSet == cancelRef # NoJob /\ run[cancelRef].cancel

PowerCycle(j, s) == ~SharedEventSet /\ Advance(j, s, "cycling", "polling", "installing")

PollAgain(j, s) == ~SharedEventSet /\ Advance(j, s, "asleep", "polling", "installing")

CancelInstall(j, s) ==
  /\ mode = "up" /\ coro[j][s] \in {"cycling", "asleep"} /\ SharedEventSet
  /\ EndTask(j, s, "cancelled")
  /\ bmc' = Effect(j, s)

PortSilent(j, s)  == Advance(j, s, "polling", "asleep", "installing")
PortAnswers(j, s) == Advance(j, s, "polling", "verifying", "verifying")

Verify(j, s) == Advance(j, s, "verifying", "ejecting", "verifying")

\* The 30-minute ceiling, after the pause between two polls, or no answer when verifying.
NoAnswer(j, s) ==
  /\ mode = "up" /\ coro[j][s] \in {"asleep", "verifying"}
  /\ EndTask(j, s, "failed")
  /\ UNCHANGED bmc

\* The result of eject_iso is not looked at.
EjectIso(j, s) ==
  /\ mode = "up" /\ coro[j][s] = "ejecting"
  /\ EndTask(j, s, "completed")
  /\ UNCHANGED bmc

\* Mutation: a job whose tasks were cancelled has failed.
FinalStateUncancelled(cancelled, succeeded, failed) ==
  IF failed = 0 THEN "completed" ELSE IF succeeded = 0 THEN "failed" ELSE "completed_with_errors"

FinalState(cancelled, succeeded, failed) ==
  CASE cancelled                                  -> "cancelled"
    [] ~cancelled /\ failed > 0 /\ succeeded = 0  -> "failed"
    [] ~cancelled /\ failed > 0 /\ succeeded # 0  -> "completed_with_errors"
    [] ~cancelled /\ ~(failed > 0)                -> "completed"

\* gather has returned: the verdict, on_job_done, and the finally clause.
SettleJob(j) ==
  /\ mode = "up" /\ run[j].pc = "gather"
  /\ \A s \in Servers : coro[j][s] \in {"idle", "done"}
  /\ jobs' = [jobs EXCEPT ![j] =
       [@ EXCEPT !.state = FinalState(run[j].cancel, run[j].succ, run[j].fail),
                 !.succ = run[j].succ, !.fail = run[j].fail]]
  /\ run' = [run EXCEPT ![j].pc = "done"]
  /\ page' = [page EXCEPT !.inbox = @ \cup {j}]
  /\ cancelRef' = NoJob
  /\ UNCHANGED <<tasks, mode, gui, coro, posted, configs, bmc>>

-----------------------------------------------------------------------------
(* The process, and the host it installs.                                  *)

\* A crash, or the end of a graceful quit.
Stop ==
  /\ mode # "down"
  /\ mode' = "down"
  /\ gui' = Idle
  /\ run' = [j \in Jobs |-> NoRun]
  /\ coro' = [j \in Jobs |-> [s \in Servers |-> "idle"]]
  /\ cancelRef' = NoJob /\ posted' = {} /\ configs' = {}
  /\ page' = Shown
  /\ UNCHANGED <<jobs, tasks, bmc>>

\* A quit cancels the coroutines inside _run_task: the row says so.
QuitTask(j, s) ==
  /\ mode \in {"up", "quitting"} /\ coro[j][s] \in InSlot
  /\ mode' = "quitting"
  /\ tasks' = [tasks EXCEPT ![j][s].state = "cancelled"]
  /\ coro' = [coro EXCEPT ![j][s] = "done"]
  /\ configs' = configs \ {<<j, s>>}
  /\ UNCHANGED <<jobs, gui, run, cancelRef, posted, page, bmc>>

\* Mutation: the statement lists the states a task passes through, not 'queued'.
StrandedStarted == Steps

\* fail_non_terminal_tasks: NOT IN ('completed', 'failed', 'cancelled').
Stranded == NonTerminal

\* A launch begins with it; the process may end before the jobs are swept.
SweepTasks ==
  /\ mode = "down"
  /\ mode' = "jobs"
  /\ tasks' = [j \in Jobs |-> [s \in Servers |->
       IF tasks[j][s].state \in Stranded THEN [tasks[j][s] EXCEPT !.state = "failed"]
                                         ELSE tasks[j][s]]]
  /\ UNCHANGED <<jobs, gui, run, coro, cancelRef, posted, configs, page, bmc>>

SweepJobs ==
  /\ mode = "jobs"
  /\ mode' = "up"
  /\ jobs' = [j \in Jobs |->
       IF jobs[j].state \in {"pending", "running"} THEN [jobs[j] EXCEPT !.state = "failed"]
                                                   ELSE jobs[j]]
  /\ UNCHANGED <<tasks, gui, run, coro, cancelRef, posted, configs, page, bmc>>

\* The installer is through, later than the restart that booted it is answered.
InstallerEnds(s) ==
  /\ bmc[s].host = "installer" /\ \A j \in Jobs : coro[j][s] # "cycling"
  /\ bmc' = [bmc EXCEPT ![s].host = "disk"]
  /\ UNCHANGED <<jobs, tasks, mode, gui, run, coro, cancelRef, posted, configs, page>>

-----------------------------------------------------------------------------
MainThread ==
  \/ \E j \in Jobs, ids \in SUBSET Servers, width \in Widths : BeginJob(j, ids, width)
  \/ \E s \in Servers : CreateTask(s)
  \/ SubmitJob \/ Cancel
  \/ \E j \in Jobs : HandleEnd(j)

JobStep(j) == RunJob(j) \/ DeliverCancel(j) \/ SettleJob(j)

Gate(j, s) == SkipCancelled(j, s) \/ WaitForSlot(j, s) \/ Refuse(j, s) \/ Prepare(j, s)

Call(j, s) ==
  \/ MountIso(j, s) \/ SetBootOnce(j, s) \/ PowerCycle(j, s)
  \/ EjectIso(j, s) \/ PluginFails(j, s)

Wait(j, s) ==
  \/ PollAgain(j, s) \/ PortSilent(j, s) \/ PortAnswers(j, s)
  \/ CancelInstall(j, s) \/ Verify(j, s) \/ NoAnswer(j, s)

Process ==
  \/ Stop \/ SweepTasks \/ SweepJobs
  \/ \E j \in Jobs, s \in Servers : QuitTask(j, s)

Next ==
  \/ MainThread
  \/ \E j \in Jobs : JobStep(j)
  \/ \E j \in Jobs, s \in Servers : Gate(j, s) \/ Call(j, s) \/ Wait(j, s) \/ Act(j, s)
  \/ Process
  \/ \E s \in Servers : InstallerEnds(s)

Spec == Init /\ [][Next]_vars

-----------------------------------------------------------------------------
TaskStates == {"none"} \cup NonTerminal \cup Terminal
Pairs == Jobs \X Servers

\* Every variable stays within the domain the tables and the memory give it.
TypeOK ==
  /\ jobs \in [Jobs -> [state : {"none", "pending", "running"} \cup Verdicts,
                         width : 1 .. MaxWidth, succ : Nat, fail : Nat]]
  /\ tasks \in [Jobs -> [Servers -> [state : TaskStates, disk : BOOLEAN]]]
  /\ mode \in {"down", "jobs", "up", "quitting"}
  /\ gui \in [job : Jobs \cup {NoJob}, todo : SUBSET Servers]
  /\ run \in [Jobs -> [pc : {"idle", "submitted", "gather", "done"},
                        cancel : BOOLEAN, succ : Nat, fail : Nat]]
  /\ coro \in [Jobs -> [Servers -> {"idle", "spawned", "waiting", "done"} \cup InSlot]]
  /\ cancelRef \in Jobs \cup {NoJob} /\ posted \subseteq Jobs
  /\ configs \subseteq Pairs
  /\ page \in [running : BOOLEAN, inbox : SUBSET Jobs]
  /\ bmc \in [Servers -> [media : {"empty", "iso"},
                           host : {"disk", "installer"}]]

\* Installs go in batches of the (clamped) width, over all jobs together: no
\* job has a host between mount and eject while another one has, and none has
\* more of them than its width, so that the inrush stays bounded.
BatchBounded ==
  \A j \in Jobs :
    /\ Cardinality(Holding(j)) <= jobs[j].width
    /\ Holding(j) # {} => \A k \in Jobs \ {j} : Holding(k) = {}

\* A task row says 'cancelled' only if the event of its own job was set, and
\* then the verdict says so too: nobody else's Cancel ends an install, and a
\* job with cancelled tasks does not pass for a failed or a finished one.
CancelBelongsToJob ==
  mode = "up" =>
    \A j \in Jobs :
      run[j].pc # "idle" /\ (\E s \in Servers : tasks[j][s].state = "cancelled") =>
        run[j].cancel /\ (run[j].pc = "done" => jobs[j].state = "cancelled")

\* The rendered answers, root password included, are in memory only for tasks
\* inside the slot, whichever way a task leaves it.
ConfigsOnlyWhileInstalling ==
  \A p \in configs : coro[p[1]][p[2]] \in InSlot

\* A host is touched, by a mounted image or a restart into it, only on behalf of
\* a task whose disk was resolved when the job was confirmed.
TouchedOnlyWithDisk ==
  \A s \in Servers :
    bmc[s] # [media |-> "empty", host |-> "disk"] =>
      \E j \in Jobs : tasks[j][s].disk

\* While the application is up, an unfinished task belongs to the job being
\* created or to a live one, and a job row that says 'running' has a coroutine:
\* no wipe is shown as under way for ever.
NothingStranded ==
  mode = "up" =>
    \A j \in Jobs :
      /\ jobs[j].state = "running" => Live(j)
      /\ (\E s \in Servers : tasks[j][s].state \in NonTerminal) => Live(j) \/ gui.job = j

\* provisioning_orchestrator.py:484 says of the poll of port 22 that it waits for
\* the installer to do its thing; a task that reports success has waited.
WaitsForInstaller ==
  \A j \in Jobs, s \in Servers :
    run[j].pc = "gather" /\ tasks[j][s].state = "completed" => bmc[s].host # "installer"

=============================================================================
