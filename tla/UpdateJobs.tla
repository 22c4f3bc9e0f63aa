----------------------------- MODULE UpdateJobs -----------------------------
(***************************************************************************)
(* Bulk firmware updates: UpdateOrchestrator (core/services/               *)
(* update_orchestrator.py) over the rows JobsRepo keeps in SQLite          *)
(* (data/repositories/jobs_repo.py), scheduled on the asyncio loop that    *)
(* AsyncEngine runs in its own thread (core/engine/async_engine.py).       *)
(*                                                                         *)
(* Two threads act.  The Qt main thread runs start_job, cancel, the        *)
(* startup sweep resume_interrupted and the shutdown; the engine thread    *)
(* runs one _run_job coroutine per job and one run_one coroutine per task. *)
(* A step of the model is the code between two points where the other      *)
(* thread, another coroutine or a crash can observe the difference: a      *)
(* committed row, an await, a call_soon_threadsafe.  The process may die   *)
(* between any two steps; the rows survive, the memory does not.           *)
(*                                                                         *)
(* jobs and tasks are the tables update_jobs and update_tasks, everything  *)
(* else is memory of the process.  A task is the pair of a job and a       *)
(* server.  What the OEM plugin does to the BMC is outside this module: it *)
(* reports states through on_progress and then returns or raises.          *)
(***************************************************************************)
EXTENDS Integers, FiniteSets

CONSTANTS
  Jobs,                 \* ids the table update_jobs can hand out
  Servers,              \* ids of the servers an operator can select
  NoJob,                \* None, where a job id or an event may be absent
  ConcurrencyRequests,  \* numbers the Updates page passes to start_job
  PluginStates,         \* states a plugin reports through on_progress
  MaxWriteFaults        \* bound: statements that raise sqlite3.Error, writing nothing

MaxConcurrency == 64
InFlight == {"precheck", "uploading", "flashing", "rebooting", "verifying"}
NonTerminal == {"queued"} \cup InFlight
Terminal == {"completed", "failed"}
JobVerdicts == {"completed", "completed_with_errors", "failed", "cancelled"}
Unsettled == {"pending", "running"}

ASSUME JobsAssumption == IsFiniteSet(Jobs) /\ NoJob \notin Jobs
ASSUME ServersAssumption == IsFiniteSet(Servers)
ASSUME RequestsAssumption == ConcurrencyRequests \subseteq Int
ASSUME PluginAssumption == PluginStates \subseteq InFlight
ASSUME FaultsAssumption == MaxWriteFaults \in Nat

VARIABLES
  jobs,          \* the rows of update_jobs
  tasks,         \* the state column of update_tasks, by job and server
  mode,          \* the process: down, sweep (resume_interrupted), up, stopping
  gui,           \* the main thread inside start_job
  sweep,         \* what resume_interrupted listed and has not handled yet
  run,           \* the _run_job coroutine of each job: its locals
  coro,          \* the run_one coroutine of each task
  cancelRef,     \* self._cancel_event: the job whose event it refers to
  cancelPosted,  \* events whose set() waits in the loop's callback queue
  current,       \* self._current_job_id
  faults,        \* row writes that have raised so far
  lost           \* history: the write of a failure handler raised as well

rows   == <<jobs, tasks>>
memory == <<gui, sweep, run, coro, cancelRef, cancelPosted, current>>
vars   == <<jobs, tasks, mode, gui, sweep, run, coro, cancelRef, cancelPosted,
            current, faults, lost>>

\* Mutation: the requested width is only capped.
ClampWithoutFloor(n) == IF n > MaxConcurrency THEN MaxConcurrency ELSE n

Clamp(n) == IF n < 1 THEN 1 ELSE IF n > MaxConcurrency THEN MaxConcurrency ELSE n

NoRow   == [state |-> "none", conc |-> 1, total |-> 0, succ |-> 0, fail |-> 0]
Idle    == [phase |-> "idle", job |-> NoJob, todo |-> {}]
NoSweep == [todo |-> [j \in Jobs |-> {}], jobs |-> {}]
NoRun   == [pc |-> "idle", cancel |-> FALSE, succ |-> 0, fail |-> 0]

InState(j, S)  == {s \in Servers : tasks[j][s] \in S}
SomeIn(j, S)   == \E s \in Servers : tasks[j][s] \in S
TasksOf(j)     == {s \in Servers : tasks[j][s] # "none"}
Settled(j)     == jobs[j].state \in JobVerdicts
Holding(j)     == {s \in Servers : coro[j][s] \in {"running", "refreshing"}}
\* Mutation: one slot too many.
SlotFreeOffByOne(j) == Cardinality(Holding(j)) <= jobs[j].conc

SlotFree(j)    == Cardinality(Holding(j)) < jobs[j].conc
Live(j)        == run[j].pc \in {"submitted", "gather"}

Init ==
  /\ jobs = [j \in Jobs |-> NoRow]
  /\ tasks = [j \in Jobs |-> [s \in Servers |-> "none"]]
  /\ mode = "down"
  /\ gui = Idle
  /\ sweep = NoSweep
  /\ run = [j \in Jobs |-> NoRun]
  /\ coro = [j \in Jobs |-> [s \in Servers |-> "idle"]]
  /\ cancelRef = NoJob
  /\ cancelPosted = {}
  /\ current = NoJob
  /\ faults = 0
  /\ lost = FALSE

-----------------------------------------------------------------------------
(* start_job, on the main thread: every INSERT commits on its own.         *)

BeginJob(j, ids, request) ==
  /\ mode = "up" /\ gui.phase = "idle"
  /\ ids # {} /\ jobs[j].state = "none"
  /\ jobs' = [jobs EXCEPT ![j] = [NoRow EXCEPT !.state = "pending",
                                               !.conc = Clamp(request)]]
  /\ gui' = [phase |-> "creating", job |-> j, todo |-> ids]
  /\ UNCHANGED <<tasks, mode, sweep, run, coro, cancelRef, cancelPosted, current,
                 faults, lost>>

CreateTask(s) ==
  /\ mode = "up" /\ s \in gui.todo
  /\ tasks' = [tasks EXCEPT ![gui.job][s] = "queued"]
  /\ gui' = [gui EXCEPT !.todo = @ \ {s}]
  /\ UNCHANGED <<jobs, mode, sweep, run, coro, cancelRef, cancelPosted, current,
                 faults, lost>>

\* The server was deleted after the page listed it: no task, no error.
SkipMissingServer(s) ==
  /\ mode = "up" /\ s \in gui.todo
  /\ gui' = [gui EXCEPT !.todo = @ \ {s}]
  /\ UNCHANGED <<jobs, tasks, mode, sweep, run, coro, cancelRef, cancelPosted,
                 current, faults, lost>>

SubmitJob ==
  /\ mode = "up" /\ gui.phase = "creating" /\ gui.todo = {}
  /\ LET j == gui.job IN
       /\ jobs' = [jobs EXCEPT ![j] = [@ EXCEPT !.state = "running",
                                                !.total = Cardinality(TasksOf(j))]]
       /\ run' = [run EXCEPT ![j] = [NoRun EXCEPT !.pc = "submitted"]]
       /\ current' = j
  /\ gui' = Idle
  /\ UNCHANGED <<tasks, mode, sweep, coro, cancelRef, cancelPosted, faults, lost>>

\* create_task or update_job_state raises: start_job is left by the exception.
StartJobRaises ==
  /\ mode = "up" /\ gui.phase = "creating" /\ faults < MaxWriteFaults
  /\ gui' = Idle
  /\ faults' = faults + 1
  /\ UNCHANGED <<jobs, tasks, mode, sweep, run, coro, cancelRef, cancelPosted,
                 current, lost>>

\* Without an event, cancel() returns having done nothing.
Cancel ==
  /\ mode = "up" /\ gui.phase = "idle" /\ cancelRef # NoJob
  /\ cancelPosted' = cancelPosted \cup {cancelRef}
  /\ UNCHANGED <<jobs, tasks, mode, gui, sweep, run, coro, cancelRef, current,
                 faults, lost>>

-----------------------------------------------------------------------------
(* _run_job and run_one, on the engine thread.                             *)

RunJob(j) ==
  /\ mode = "up" /\ run[j].pc = "submitted"
  /\ run' = [run EXCEPT ![j].pc = "gather"]
  /\ coro' = [coro EXCEPT ![j] =
                [s \in Servers |-> IF s \in TasksOf(j) THEN "spawned" ELSE "idle"]]
  /\ cancelRef' = j
  /\ UNCHANGED <<jobs, tasks, mode, gui, sweep, cancelPosted, current, faults, lost>>

\* Mutation: set() is looked up on self._cancel_event when the callback runs.
DeliverCancelToLatest(j) ==
  /\ mode = "up" /\ j \in cancelPosted /\ cancelRef # NoJob
  /\ run' = [run EXCEPT ![cancelRef].cancel = TRUE]
  /\ cancelPosted' = cancelPosted \ {j}
  /\ UNCHANGED <<jobs, tasks, mode, gui, sweep, coro, cancelRef, current, faults, lost>>

DeliverCancel(j) ==
  /\ mode = "up" /\ j \in cancelPosted
  /\ run' = [run EXCEPT ![j].cancel = TRUE]
  /\ cancelPosted' = cancelPosted \ {j}
  /\ UNCHANGED <<jobs, tasks, mode, gui, sweep, coro, cancelRef, current, faults, lost>>

\* A coroutine reads the event when it starts and again once it has the slot.
AtCancelCheck(j, s) ==
  /\ mode = "up" /\ run[j].pc = "gather"
  /\ \/ coro[j][s] = "spawned"
     \/ coro[j][s] = "waiting" /\ SlotFree(j)

SkipCancelled(j, s) ==
  /\ AtCancelCheck(j, s) /\ run[j].cancel
  /\ tasks' = [tasks EXCEPT ![j][s] = "failed"]
  /\ run' = [run EXCEPT ![j].fail = @ + 1]
  /\ coro' = [coro EXCEPT ![j][s] = "done"]
  /\ UNCHANGED <<jobs, mode, gui, sweep, cancelRef, cancelPosted, current, faults,
                 lost>>

\* _mark_cancelled raises outside run_one's try: gather swallows it.
MarkCancelledRaises(j, s) ==
  /\ AtCancelCheck(j, s) /\ run[j].cancel /\ faults < MaxWriteFaults
  /\ coro' = [coro EXCEPT ![j][s] = "done"]
  /\ faults' = faults + 1
  /\ UNCHANGED <<jobs, tasks, mode, gui, sweep, run, cancelRef, cancelPosted,
                 current, lost>>

WaitForSlot(j, s) ==
  /\ mode = "up" /\ run[j].pc = "gather" /\ coro[j][s] = "spawned"
  /\ ~run[j].cancel /\ ~SlotFree(j)
  /\ coro' = [coro EXCEPT ![j][s] = "waiting"]
  /\ UNCHANGED <<jobs, tasks, mode, gui, sweep, run, cancelRef, cancelPosted,
                 current, faults, lost>>

\* Mutation: the event is not read again after the wait.
EnterTaskUnchecked(j, s) ==
  /\ AtCancelCheck(j, s) /\ SlotFree(j)
  /\ coro[j][s] = "spawned" => ~run[j].cancel
  /\ coro' = [coro EXCEPT ![j][s] = "running"]
  /\ UNCHANGED <<jobs, tasks, mode, gui, sweep, run, cancelRef, cancelPosted,
                 current, faults, lost>>

EnterTask(j, s) ==
  /\ AtCancelCheck(j, s) /\ ~run[j].cancel /\ SlotFree(j)
  /\ coro' = [coro EXCEPT ![j][s] = "running"]
  /\ UNCHANGED <<jobs, tasks, mode, gui, sweep, run, cancelRef, cancelPosted,
                 current, faults, lost>>

Progress(j, s, state) ==
  /\ mode = "up" /\ coro[j][s] = "running"
  /\ tasks' = [tasks EXCEPT ![j][s] = state]
  /\ UNCHANGED <<jobs, mode, gui, sweep, run, coro, cancelRef, cancelPosted, current,
                 faults, lost>>

\* A pre-flight check, the plugin or a progress write raises.
FailTask(j, s) ==
  /\ mode = "up" /\ coro[j][s] = "running"
  /\ tasks' = [tasks EXCEPT ![j][s] = "failed"]
  /\ run' = [run EXCEPT ![j].fail = @ + 1]
  /\ coro' = [coro EXCEPT ![j][s] = "done"]
  /\ UNCHANGED <<jobs, mode, gui, sweep, cancelRef, cancelPosted, current, faults,
                 lost>>

WriteCompleted(j, s) ==
  /\ mode = "up" /\ coro[j][s] = "running"
  /\ tasks' = [tasks EXCEPT ![j][s] = "completed"]
  /\ coro' = [coro EXCEPT ![j][s] = "refreshing"]
  /\ UNCHANGED <<jobs, mode, gui, sweep, run, cancelRef, cancelPosted, current,
                 faults, lost>>

RefreshServer(j, s) ==
  /\ mode = "up" /\ coro[j][s] = "refreshing"
  /\ run' = [run EXCEPT ![j].succ = @ + 1]
  /\ coro' = [coro EXCEPT ![j][s] = "done"]
  /\ UNCHANGED <<jobs, tasks, mode, gui, sweep, cancelRef, cancelPosted, current,
                 faults, lost>>

\* The writes after the verdict are inside the same try: the row is rewritten.
RefreshRaises(j, s) ==
  /\ mode = "up" /\ coro[j][s] = "refreshing" /\ faults < MaxWriteFaults
  /\ tasks' = [tasks EXCEPT ![j][s] = "failed"]
  /\ run' = [run EXCEPT ![j].fail = @ + 1]
  /\ coro' = [coro EXCEPT ![j][s] = "done"]
  /\ faults' = faults + 1
  /\ UNCHANGED <<jobs, mode, gui, sweep, cancelRef, cancelPosted, current, lost>>

\* So does the write of _run_task's handler, and then that of run_one's: the
\* row keeps what it says and the outcome is not counted.
FailureLost(j, s) ==
  /\ mode = "up" /\ coro[j][s] \in {"running", "refreshing"}
  /\ faults + 2 <= MaxWriteFaults
  /\ coro' = [coro EXCEPT ![j][s] = "done"]
  /\ faults' = faults + 2
  /\ lost' = TRUE
  /\ UNCHANGED <<jobs, tasks, mode, gui, sweep, run, cancelRef, cancelPosted, current>>

\* Mutation: one success makes the job a success.
FinalStateOptimist(cancelled, succeeded, failed) ==
  IF cancelled THEN "cancelled" ELSE IF succeeded = 0 THEN "failed" ELSE "completed"

FinalState(cancelled, succeeded, failed) ==
  CASE cancelled                                  -> "cancelled"
    [] ~cancelled /\ failed > 0 /\ succeeded = 0  -> "failed"
    [] ~cancelled /\ failed > 0 /\ succeeded # 0  -> "completed_with_errors"
    [] ~cancelled /\ ~(failed > 0)                -> "completed"

\* Mutation: the job does not wait for the tasks outside the semaphore.
GatheredEarly(j) ==
  /\ mode = "up" /\ run[j].pc = "gather"
  /\ \A s \in Servers : coro[j][s] \in {"idle", "waiting", "done"}

Gathered(j) ==
  /\ mode = "up" /\ run[j].pc = "gather"
  /\ \A s \in Servers : coro[j][s] \in {"idle", "done"}

SettleJob(j) ==
  /\ Gathered(j)
  /\ jobs' = [jobs EXCEPT ![j] =
       [@ EXCEPT !.state = FinalState(run[j].cancel, run[j].succ, run[j].fail),
                 !.succ = run[j].succ,
                 !.fail = run[j].fail]]
  /\ run' = [run EXCEPT ![j].pc = "closing"]
  /\ UNCHANGED <<tasks, mode, gui, sweep, coro, cancelRef, cancelPosted, current,
                 faults, lost>>

\* update_job_state raises: the handler writes 'failed' and keeps the counters.
SettleRaises(j) ==
  /\ Gathered(j) /\ faults < MaxWriteFaults
  /\ jobs' = [jobs EXCEPT ![j].state = "failed"]
  /\ run' = [run EXCEPT ![j].pc = "closing"]
  /\ faults' = faults + 1
  /\ UNCHANGED <<tasks, mode, gui, sweep, coro, cancelRef, cancelPosted, current, lost>>

\* The handler's write raises too: only the finally clause is left to run.
SettleLost(j) ==
  /\ Gathered(j) /\ faults + 2 <= MaxWriteFaults
  /\ run' = [run EXCEPT ![j].pc = "closing"]
  /\ faults' = faults + 2
  /\ lost' = TRUE
  /\ UNCHANGED <<jobs, tasks, mode, gui, sweep, coro, cancelRef, cancelPosted, current>>

EndJob(j) ==
  /\ mode = "up" /\ run[j].pc = "closing"
  /\ run' = [run EXCEPT ![j].pc = "done"]
  /\ cancelRef' = IF cancelRef = j THEN NoJob ELSE cancelRef
  /\ current' = NoJob
  /\ UNCHANGED <<jobs, tasks, mode, gui, sweep, coro, cancelPosted, faults, lost>>

-----------------------------------------------------------------------------
(* The process: graceful stop, crash, and the sweep of the next launch.    *)

Forget ==
  /\ gui' = Idle
  /\ sweep' = NoSweep
  /\ run' = [j \in Jobs |-> NoRun]
  /\ coro' = [j \in Jobs |-> [s \in Servers |-> "idle"]]
  /\ cancelRef' = NoJob
  /\ cancelPosted' = {}
  /\ current' = NoJob

Shutdown ==
  /\ mode = "up" /\ gui.phase = "idle"
  /\ mode' = "stopping"
  /\ UNCHANGED <<jobs, tasks, gui, sweep, run, coro, cancelRef, cancelPosted,
                 current, faults, lost>>

\* _drain cancels the coroutine: CancelledError inside _run_task fails the row;
\* a coroutine that still waits for its slot dies without touching its row.
DrainTask(j, s) ==
  /\ mode = "stopping" /\ coro[j][s] = "running"
  /\ tasks' = [tasks EXCEPT ![j][s] = "failed"]
  /\ run' = [run EXCEPT ![j].fail = @ + 1]
  /\ coro' = [coro EXCEPT ![j][s] = "done"]
  /\ UNCHANGED <<jobs, mode, gui, sweep, cancelRef, cancelPosted, current, faults,
                 lost>>

\* The drain gives up after two seconds, whatever it has reached.
Exit ==
  /\ mode = "stopping"
  /\ mode' = "down"
  /\ Forget
  /\ UNCHANGED <<jobs, tasks, faults, lost>>

Crash ==
  /\ mode \in {"sweep", "up", "stopping"}
  /\ mode' = "down"
  /\ Forget
  /\ UNCHANGED <<jobs, tasks, faults, lost>>

\* Mutations of list_non_terminal_tasks: without 'queued'; by job, with results.
LaunchForgetsQueued ==
  /\ mode = "down"
  /\ mode' = "sweep"
  /\ sweep' = [todo |-> [j \in Jobs |-> InState(j, InFlight)],
               jobs |-> {j \in Jobs : SomeIn(j, InFlight)}]
  /\ UNCHANGED <<jobs, tasks, gui, run, coro, cancelRef, cancelPosted, current,
                 faults, lost>>

LaunchListsWholeJobs ==
  /\ mode = "down"
  /\ mode' = "sweep"
  /\ sweep' = [todo |-> [j \in Jobs |-> IF Settled(j) THEN {} ELSE TasksOf(j)],
               jobs |-> {j \in Jobs : ~Settled(j) /\ TasksOf(j) # {}}]
  /\ UNCHANGED <<jobs, tasks, gui, run, coro, cancelRef, cancelPosted, current,
                 faults, lost>>

Launch ==
  /\ mode = "down"
  /\ mode' = "sweep"
  /\ sweep' = [todo |-> [j \in Jobs |-> InState(j, NonTerminal)],
               jobs |-> {j \in Jobs : SomeIn(j, NonTerminal)}]
  /\ UNCHANGED <<jobs, tasks, gui, run, coro, cancelRef, cancelPosted, current,
                 faults, lost>>

\* No code stores redfish_task, so every task listed is one without a URI.
SweepTask(j, s) ==
  /\ mode = "sweep" /\ s \in sweep.todo[j]
  /\ tasks' = [tasks EXCEPT ![j][s] = "failed"]
  /\ sweep' = [sweep EXCEPT !.todo[j] = @ \ {s}]
  /\ UNCHANGED <<jobs, mode, gui, run, coro, cancelRef, cancelPosted, current,
                 faults, lost>>

\* finalize_job_from_tasks: the verdict recomputed from the task rows.
VerdictFromRows(j) ==
  LET open == SomeIn(j, NonTerminal)
      failed == SomeIn(j, {"failed"})
      succeeded == SomeIn(j, {"completed"})
  IN CASE open                              -> "running"
       [] ~open /\ ~failed                  -> "completed"
       [] ~open /\ failed /\ ~succeeded     -> "failed"
       [] ~open /\ failed /\ succeeded      -> "completed_with_errors"

SweepJob(j) ==
  /\ mode = "sweep" /\ \A k \in Jobs : sweep.todo[k] = {}
  /\ j \in sweep.jobs
  /\ jobs' = [jobs EXCEPT ![j] =
       [@ EXCEPT !.state = VerdictFromRows(j),
                 !.total = Cardinality(TasksOf(j)),
                 !.succ = Cardinality(InState(j, {"completed"})),
                 !.fail = Cardinality(InState(j, {"failed"}))]]
  /\ sweep' = [sweep EXCEPT !.jobs = @ \ {j}]
  /\ UNCHANGED <<tasks, mode, gui, run, coro, cancelRef, cancelPosted, current,
                 faults, lost>>

JobsFailedFrom(S) ==
  [j \in Jobs |-> IF jobs[j].state \in S THEN [jobs[j] EXCEPT !.state = "failed"]
                                        ELSE jobs[j]]

\* Mutations: the statement names one of the two states only.
SweptPendingOnly == JobsFailedFrom({"pending"})
SweptRunningOnly == JobsFailedFrom({"running"})

\* fail_non_terminal_jobs_except([]): one UPDATE over the table.
Swept == JobsFailedFrom(Unsettled)

SweepOrphans ==
  /\ mode = "sweep" /\ sweep = NoSweep
  /\ jobs' = Swept
  /\ mode' = "up"
  /\ UNCHANGED <<tasks, gui, sweep, run, coro, cancelRef, cancelPosted, current,
                 faults, lost>>

-----------------------------------------------------------------------------
MainThread ==
  \/ \E j \in Jobs, ids \in SUBSET Servers, request \in ConcurrencyRequests :
        BeginJob(j, ids, request)
  \/ \E s \in Servers : CreateTask(s) \/ SkipMissingServer(s)
  \/ SubmitJob
  \/ StartJobRaises
  \/ Cancel

AtGate(j, s) ==
  \/ SkipCancelled(j, s) \/ MarkCancelledRaises(j, s)
  \/ WaitForSlot(j, s) \/ EnterTask(j, s)

AfterVerdict(j, s) == RefreshServer(j, s) \/ RefreshRaises(j, s)

TaskStep(j, s) ==
  \/ AtGate(j, s)
  \/ \E state \in PluginStates : Progress(j, s, state)
  \/ FailTask(j, s) \/ FailureLost(j, s) \/ WriteCompleted(j, s)
  \/ AfterVerdict(j, s)

JobStep(j) ==
  \/ RunJob(j) \/ DeliverCancel(j)
  \/ SettleJob(j) \/ SettleRaises(j) \/ SettleLost(j)
  \/ EndJob(j)

Sweeping ==
  \/ \E j \in Jobs, s \in Servers : SweepTask(j, s)
  \/ \E j \in Jobs : SweepJob(j)
  \/ SweepOrphans

Process ==
  \/ Shutdown
  \/ \E j \in Jobs, s \in Servers : DrainTask(j, s)
  \/ Exit \/ Crash \/ Launch
  \/ Sweeping

Next ==
  \/ MainThread
  \/ \E j \in Jobs : JobStep(j)
  \/ \E j \in Jobs, s \in Servers : TaskStep(j, s)
  \/ Process

Spec == Init /\ [][Next]_vars

-----------------------------------------------------------------------------
TaskStates == {"none"} \cup NonTerminal \cup Terminal
JobRow == [state : {"none"} \cup Unsettled \cup JobVerdicts,
           conc : 1 .. MaxConcurrency, total : Nat, succ : Nat, fail : Nat]
RunLocals == [pc : {"idle", "submitted", "gather", "closing", "done"},
              cancel : BOOLEAN, succ : Nat, fail : Nat]
CoroStates == {"idle", "spawned", "waiting", "running", "refreshing", "done"}

\* Every variable stays within the domain the tables and the memory give it.
TypeOK ==
  /\ jobs \in [Jobs -> JobRow]
  /\ tasks \in [Jobs -> [Servers -> TaskStates]]
  /\ mode \in {"down", "sweep", "up", "stopping"}
  /\ gui \in [phase : {"idle", "creating"}, job : Jobs \cup {NoJob},
              todo : SUBSET Servers]
  /\ sweep \in [todo : [Jobs -> SUBSET Servers], jobs : SUBSET Jobs]
  /\ run \in [Jobs -> RunLocals]
  /\ coro \in [Jobs -> [Servers -> CoroStates]]
  /\ cancelRef \in Jobs \cup {NoJob}
  /\ cancelPosted \subseteq Jobs
  /\ current \in Jobs \cup {NoJob}
  /\ faults \in 0 .. MaxWriteFaults
  /\ lost \in BOOLEAN

\* The semaphore: never more tasks of a job inside _run_task than the job's
\* (clamped) concurrency, whatever starts, waits, fails or is cancelled.
ConcurrencyBounded ==
  \A j \in Jobs : Cardinality(Holding(j)) <= jobs[j].conc

\* While the application is up, a job row that says 'running' has a coroutine
\* that will still write it: no crash, quit, sweep or failed write leaves a job
\* the Updates page shows as running for ever, unless the write of a failure
\* handler fails as well.
NoStrandedJob ==
  ~lost /\ mode = "up" =>
    \A j \in Jobs : jobs[j].state = "running" => Live(j)

\* The same for a task row: while the application is up, an unfinished task
\* belongs to the job being created or to a live job.
NoStrandedTask ==
  faults = 0 /\ mode = "up" =>
    \A j \in Jobs : SomeIn(j, NonTerminal) => Live(j) \/ gui.job = j

\* A job is closed after its tasks: a job row never carries a verdict while a
\* task of it is unfinished, and so no closed job is ever closed again.
ClosedAfterTasks ==
  faults = 0 =>
    \A j \in Jobs : Settled(j) => ~SomeIn(j, NonTerminal)

\* A verdict is never better than the task rows, on either path that computes
\* it (_compute_final_state and finalize_job_from_tasks), even when row writes
\* fail, short of those of the failure handlers: 'completed' hides no failure,
\* 'completed_with_errors' has both kinds.
VerdictNeverFlatters ==
  ~lost =>
    \A j \in Jobs :
      /\ jobs[j].state = "completed" => ~SomeIn(j, NonTerminal \cup {"failed"})
      /\ jobs[j].state = "completed_with_errors" =>
           /\ ~SomeIn(j, NonTerminal)
           /\ SomeIn(j, {"completed"}) /\ SomeIn(j, {"failed"})

\* A task the cancel event finds outside the semaphore is never flashed: from
\* then on its row goes from 'queued' to 'failed' and nowhere else.
CancelledTaskNeverStarts ==
  [][\A j \in Jobs, s \in Servers :
       run[j].cancel /\ coro[j][s] \in {"spawned", "waiting"} =>
         coro'[j][s] # "running" /\ tasks'[j][s] \in {"queued", "failed"}]_vars

\* What the operator was told stays true: as long as no row write fails, a
\* finished task keeps its result and a closed job its verdict and counters,
\* across crashes and relaunches.
ResultsAreFinal ==
  [][faults' = 0 =>
       \A j \in Jobs :
         /\ Settled(j) => jobs'[j] = jobs[j]
         /\ \A s \in Servers :
              tasks[j][s] \in Terminal => tasks'[j][s] = tasks[j][s]]_vars

\* A launch closes what the runs before it left open, whatever did: a crash, the end
\* of a drain, a start_job that raised between its INSERTs and whose 'pending' job
\* nobody runs, a launch that died in its own sweep.
LaunchClosesAll ==
  [][mode = "sweep" /\ mode' = "up" =>
       \A j \in Jobs :
         /\ jobs'[j].state \notin Unsettled
         /\ \A s \in Servers : tasks'[j][s] \notin NonTerminal]_vars

=============================================================================
