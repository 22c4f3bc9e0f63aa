-------------------------- MODULE UpdateJobsProofs --------------------------
(***************************************************************************)
(* Proofs about UpdateJobs, for every number of jobs, servers, widths,     *)
(* plugin states and failing row writes: its types, then its safety from   *)
(* one inductive invariant.  IInv ties four things together: the job row   *)
(* to the coroutine that owns it, the task row to its coroutine, the       *)
(* counters in memory to the rows they count, and the sweep's worklist to  *)
(* the rows it was read from.                                              *)
(***************************************************************************)
EXTENDS UpdateJobs, FiniteSetTheorems, TLAPS

-----------------------------------------------------------------------------
(* Type correctness.                                                       *)

LEMMA FiniteParts ==
  ASSUME NEW S \in SUBSET Servers
  PROVE  IsFiniteSet(S) /\ Cardinality(S) \in Nat
<1>1. IsFiniteSet(S)
  BY ServersAssumption, FS_Subset
<1>2. QED
  BY <1>1, FS_CardinalityType

LEMMA ClampInRange ==
  ASSUME NEW n \in Int
  PROVE  Clamp(n) \in 1 .. MaxConcurrency
BY DEF Clamp, MaxConcurrency

LEMMA RowType ==
  ASSUME NEW row \in JobRow, NEW state \in Unsettled \cup JobVerdicts,
         NEW total \in Nat, NEW succ \in Nat, NEW fail \in Nat
  PROVE  [row EXCEPT !.state = state, !.total = total, !.succ = succ, !.fail = fail]
           \in JobRow
BY DEF JobRow

LEMMA InitType == Init => TypeOK
<1>1. Init => lost \in BOOLEAN
  BY DEF Init
<1>2. Init => NoRun \in RunLocals
  BY DEF NoRun, RunLocals
<1>3. QED
  BY <1>1, <1>2, FaultsAssumption
     DEF Init, TypeOK, NoRow, Idle, NoSweep, TaskStates, JobRow, CoroStates, MaxConcurrency

\* The steps of the main thread.
LEMMA MainThreadType == TypeOK /\ MainThread => TypeOK'
<1> SUFFICES ASSUME TypeOK, MainThread PROVE TypeOK'
  OBVIOUS
<1>1. ASSUME NEW j \in Jobs, NEW ids \in SUBSET Servers,
             NEW request \in ConcurrencyRequests, BeginJob(j, ids, request)
      PROVE  TypeOK'
  <2>1. [NoRow EXCEPT !.state = "pending", !.conc = Clamp(request)] \in JobRow
    BY ClampInRange, RequestsAssumption DEF NoRow, JobRow, Unsettled
  <2>2. QED
    BY <1>1, <2>1 DEF BeginJob, TypeOK
<1>2. ASSUME NEW s \in Servers, CreateTask(s) PROVE TypeOK'
  BY <1>2 DEF CreateTask, TypeOK, TaskStates, NonTerminal
<1>3. ASSUME NEW s \in Servers, SkipMissingServer(s) PROVE TypeOK'
  BY <1>3 DEF SkipMissingServer, TypeOK
<1>4. CASE SubmitJob
  <2> DEFINE j == gui.job
             row == [jobs[j] EXCEPT !.state = "running",
                                    !.total = Cardinality(TasksOf(j))]
             locals == [NoRun EXCEPT !.pc = "submitted"]
  <2>1. j \in Jobs => row \in JobRow
    <3>1. Cardinality(TasksOf(j)) \in Nat
      BY FiniteParts DEF TasksOf
    <3>2. j \in Jobs => jobs[j] \in JobRow
      BY DEF TypeOK
    <3> HIDE DEF j
    <3>3. QED
      BY <3>1, <3>2 DEF JobRow, Unsettled
  <2>2. locals \in RunLocals
    BY DEF NoRun, RunLocals
  <2>3. /\ jobs' = [jobs EXCEPT ![j] = row]
        /\ run' = [run EXCEPT ![j] = locals]
        /\ current' = j /\ gui' = Idle
        /\ UNCHANGED <<tasks, mode, sweep, coro, cancelRef, cancelPosted, faults, lost>>
    BY <1>4 DEF SubmitJob
  <2> HIDE DEF row, locals
  <2>4. QED
    BY <2>1, <2>2, <2>3 DEF TypeOK, Idle
<1>5. CASE StartJobRaises
  BY <1>5, FaultsAssumption DEF StartJobRaises, TypeOK, Idle
<1>6. CASE Cancel
  BY <1>6 DEF Cancel, TypeOK
<1>7. QED
  BY <1>1, <1>2, <1>3, <1>4, <1>5, <1>6 DEF MainThread

\* The steps of a _run_job coroutine.
LEMMA JobStepType ==
  ASSUME NEW j \in Jobs
  PROVE  TypeOK /\ JobStep(j) => TypeOK'
<1> SUFFICES ASSUME TypeOK, JobStep(j) PROVE TypeOK'
  OBVIOUS
<1>0. run[j] \in RunLocals /\ jobs[j] \in JobRow
  BY DEF TypeOK
<1>1. CASE RunJob(j)
  <2>1. [run[j] EXCEPT !.pc = "gather"] \in RunLocals
    BY <1>0 DEF RunLocals
  <2>2. QED
    BY <1>1, <2>1 DEF RunJob, TypeOK, CoroStates
<1>2. CASE DeliverCancel(j)
  <2>1. [run[j] EXCEPT !.cancel = TRUE] \in RunLocals
    BY <1>0 DEF RunLocals
  <2>2. QED
    BY <1>2, <2>1 DEF DeliverCancel, TypeOK
<1>3. CASE SettleJob(j)
  <2>1. FinalState(run[j].cancel, run[j].succ, run[j].fail) \in JobVerdicts
    BY <1>0 DEF RunLocals, FinalState, JobVerdicts
  <2>2. [jobs[j] EXCEPT !.state = FinalState(run[j].cancel, run[j].succ, run[j].fail),
                        !.succ = run[j].succ, !.fail = run[j].fail] \in JobRow
    BY <1>0, <2>1 DEF RunLocals, JobRow
  <2>3. [run[j] EXCEPT !.pc = "closing"] \in RunLocals
    BY <1>0 DEF RunLocals
  <2>4. QED
    BY <1>3, <2>2, <2>3 DEF SettleJob, TypeOK
<1>4. CASE SettleRaises(j)
  <2>1. [jobs[j] EXCEPT !.state = "failed"] \in JobRow
    BY <1>0 DEF JobRow, JobVerdicts
  <2>2. [run[j] EXCEPT !.pc = "closing"] \in RunLocals
    BY <1>0 DEF RunLocals
  <2>3. QED
    BY <1>4, <2>1, <2>2, FaultsAssumption DEF SettleRaises, TypeOK
<1>5. CASE SettleLost(j)
  <2>1. [run[j] EXCEPT !.pc = "closing"] \in RunLocals
    BY <1>0 DEF RunLocals
  <2>2. QED
    BY <1>5, <2>1, FaultsAssumption DEF SettleLost, TypeOK
<1>6. CASE EndJob(j)
  <2>1. [run[j] EXCEPT !.pc = "done"] \in RunLocals
    BY <1>0 DEF RunLocals
  <2>2. QED
    BY <1>6, <2>1 DEF EndJob, TypeOK
<1>7. QED
  BY <1>1, <1>2, <1>3, <1>4, <1>5, <1>6 DEF JobStep

\* The steps of a run_one coroutine.
LEMMA TaskStepType ==
  ASSUME NEW j \in Jobs, NEW s \in Servers
  PROVE  TypeOK /\ (TaskStep(j, s) \/ DrainTask(j, s)) => TypeOK'
<1> SUFFICES ASSUME TypeOK, TaskStep(j, s) \/ DrainTask(j, s) PROVE TypeOK'
  OBVIOUS
<1> USE DEF TaskStates, NonTerminal, Terminal, InFlight, CoroStates
<1>0. run[j] \in RunLocals
  BY DEF TypeOK
<1>1. /\ [run[j] EXCEPT !.fail = @ + 1] \in RunLocals
      /\ [run[j] EXCEPT !.succ = @ + 1] \in RunLocals
  BY <1>0 DEF RunLocals
<1>2. CASE SkipCancelled(j, s)
  BY <1>1, <1>2 DEF SkipCancelled, TypeOK
<1>3. CASE MarkCancelledRaises(j, s)
  BY <1>3, FaultsAssumption DEF MarkCancelledRaises, TypeOK
<1>4. CASE WaitForSlot(j, s)
  BY <1>4 DEF WaitForSlot, TypeOK
<1>5. CASE EnterTask(j, s)
  BY <1>5 DEF EnterTask, TypeOK
<1>6. ASSUME NEW state \in PluginStates, Progress(j, s, state) PROVE TypeOK'
  BY <1>6, PluginAssumption DEF Progress, TypeOK
<1>7. CASE FailTask(j, s)
  BY <1>1, <1>7 DEF FailTask, TypeOK
<1>8. CASE WriteCompleted(j, s)
  BY <1>8 DEF WriteCompleted, TypeOK
<1>9. CASE RefreshServer(j, s)
  BY <1>1, <1>9 DEF RefreshServer, TypeOK
<1>10. CASE RefreshRaises(j, s)
  BY <1>1, <1>10, FaultsAssumption DEF RefreshRaises, TypeOK
<1>11. CASE DrainTask(j, s)
  BY <1>1, <1>11 DEF DrainTask, TypeOK
<1>12. CASE FailureLost(j, s)
  BY <1>12, FaultsAssumption DEF FailureLost, TypeOK
<1>13. QED
  BY <1>2, <1>3, <1>4, <1>5, <1>6, <1>7, <1>8, <1>9, <1>10, <1>11, <1>12
     DEF TaskStep, AtGate, AfterVerdict

\* Stopping, dying, launching and sweeping.
LEMMA ProcessType == TypeOK /\ Process => TypeOK'
<1> SUFFICES ASSUME TypeOK, Process PROVE TypeOK'
  OBVIOUS
<1>1. CASE Shutdown
  BY <1>1 DEF Shutdown, TypeOK
<1>2. CASE Exit \/ Crash
  <2>1. NoRun \in RunLocals /\ "idle" \in CoroStates
    BY DEF NoRun, RunLocals, CoroStates
  <2>2. Forget /\ mode' = "down" /\ UNCHANGED <<jobs, tasks, faults, lost>>
    BY <1>2 DEF Exit, Crash
  <2>3. Idle \in [phase : {"idle", "creating"}, job : Jobs \cup {NoJob},
                 todo : SUBSET Servers]
    BY DEF Idle
  <2>4. NoSweep \in [todo : [Jobs -> SUBSET Servers], jobs : SUBSET Jobs]
    BY DEF NoSweep
  <2>5. QED
    BY <2>1, <2>2, <2>3, <2>4 DEF Forget, TypeOK
<1>3. CASE Launch
  BY <1>3 DEF Launch, TypeOK, InState
<1>4. ASSUME NEW j \in Jobs, NEW s \in Servers, SweepTask(j, s) PROVE TypeOK'
  BY <1>4 DEF SweepTask, TypeOK, TaskStates, Terminal
<1>5. ASSUME NEW j \in Jobs, SweepJob(j) PROVE TypeOK'
  <2> DEFINE row == [jobs[j] EXCEPT
                       !.state = VerdictFromRows(j),
                       !.total = Cardinality(TasksOf(j)),
                       !.succ = Cardinality(InState(j, {"completed"})),
                       !.fail = Cardinality(InState(j, {"failed"}))]
  <2>1. VerdictFromRows(j) \in {"running"} \cup JobVerdicts
    BY DEF VerdictFromRows, JobVerdicts
  <2>2. /\ Cardinality(TasksOf(j)) \in Nat
        /\ Cardinality(InState(j, {"completed"})) \in Nat
        /\ Cardinality(InState(j, {"failed"})) \in Nat
    BY FiniteParts DEF TasksOf, InState
  <2>3. row \in JobRow
    <3>1. jobs[j] \in JobRow
      BY DEF TypeOK
    <3>2. VerdictFromRows(j) \in Unsettled \cup JobVerdicts
      BY <2>1 DEF Unsettled
    <3>3. QED
      BY <2>2, <3>1, <3>2, RowType
  <2>4. jobs' = [jobs EXCEPT ![j] = row]
    BY <1>5 DEF SweepJob
  <2> HIDE DEF row
  <2>5. QED
    BY <1>5, <2>3, <2>4 DEF SweepJob, TypeOK
<1>6. CASE SweepOrphans
  <2>1. \A j \in Jobs : [jobs[j] EXCEPT !.state = "failed"] \in JobRow
    <3>1. ASSUME NEW r \in JobRow PROVE [r EXCEPT !.state = "failed"] \in JobRow
      BY DEF JobRow, JobVerdicts
    <3> QED
      BY <3>1 DEF TypeOK
  <2>2. QED
    BY <1>6, <2>1 DEF SweepOrphans, Swept, JobsFailedFrom, TypeOK
<1>7. ASSUME NEW j \in Jobs, NEW s \in Servers, DrainTask(j, s) PROVE TypeOK'
  BY <1>7, TaskStepType
<1>8. QED
  BY <1>1, <1>2, <1>3, <1>4, <1>5, <1>6, <1>7 DEF Process, Sweeping

LEMMA NextType == TypeOK /\ [Next]_vars => TypeOK'
<1> SUFFICES ASSUME TypeOK, [Next]_vars PROVE TypeOK'
  OBVIOUS
<1>1. CASE UNCHANGED vars
  BY <1>1 DEF vars, TypeOK
<1>2. QED
  BY <1>1, MainThreadType, JobStepType, TaskStepType, ProcessType DEF Next

\* The rows and the memory keep their types, whatever the operator, the BMCs,
\* the database and the process do.
THEOREM TypeCorrect == Spec => []TypeOK
<1>1. QED
  BY InitType, NextType, PTL DEF Spec

-----------------------------------------------------------------------------
(* The inductive invariant, by what each part relates.                     *)

\* start_job runs in a process that is up, on a row that is still 'pending'.
GuiInv ==
  /\ gui.phase = "creating" =>
       /\ mode = "up"
       /\ gui.job \in Jobs
       /\ jobs[gui.job].state = "pending"
       /\ run[gui.job].pc = "idle"
  /\ gui.phase = "idle" => gui = Idle

\* A process that is down or still sweeping has no coroutine.
QuietInv ==
  mode \in {"down", "sweep"} =>
    /\ gui = Idle
    /\ \A j \in Jobs : run[j] = NoRun /\ \A s \in Servers : coro[j][s] = "idle"

\* The row of a job against the coroutine that owns it.
JobInv(j) ==
  /\ jobs[j].state = "none" =>
       run[j].pc = "idle" /\ \A s \in Servers : tasks[j][s] = "none"
  /\ Live(j) => jobs[j].state = "running"
  /\ run[j].pc \in {"closing", "done"} => Settled(j) \/ lost
  /\ mode \in {"up", "stopping"} /\ jobs[j].state = "running" => Live(j) \/ lost
  /\ mode \in {"up", "stopping"} /\ jobs[j].state = "pending" /\ faults = 0 =>
       gui.job = j

\* The row of a task against its coroutine.
TaskInv(j, s) ==
  /\ coro[j][s] = "idle" /\ run[j].pc # "idle" => tasks[j][s] \in {"none", "queued"}
  /\ coro[j][s] = "idle" /\ run[j].pc \notin {"idle", "submitted"} => tasks[j][s] = "none"
  /\ coro[j][s] # "idle" => run[j].pc \notin {"idle", "submitted"}
  /\ coro[j][s] \in {"spawned", "waiting"} => tasks[j][s] = "queued"
  /\ coro[j][s] = "running" => tasks[j][s] \in NonTerminal
  /\ coro[j][s] = "refreshing" => tasks[j][s] = "completed"
  /\ coro[j][s] = "done" =>
       \/ tasks[j][s] \in Terminal
       \/ faults > 0 /\ run[j].cancel
       \/ lost
  /\ coro[j][s] \notin {"idle", "done"} => run[j].pc = "gather"
  /\ gui.phase = "creating" /\ gui.job = j => tasks[j][s] \in {"none", "queued"}

\* The sweep still has to do exactly what the rows need.
SweepInv ==
  /\ mode # "sweep" => sweep = NoSweep
  /\ mode = "sweep" => \A j \in Jobs : sweep.todo[j] = InState(j, NonTerminal)
  /\ faults = 0 => \A j \in sweep.jobs : jobs[j].state \in Unsettled

DoneAs(j, state) == \E s \in Servers : coro[j][s] = "done" /\ tasks[j][s] = state

\* The counters of _run_job, without their cardinalities: zero says "none".
CountInv(j) ==
  /\ run[j].pc = "submitted" => run[j].fail = 0 /\ run[j].succ = 0
  /\ run[j].pc = "gather" =>
       /\ run[j].fail = 0 <=> ~DoneAs(j, "failed")
       /\ run[j].succ # 0 => DoneAs(j, "completed")

IInv ==
  /\ TypeOK
  /\ GuiInv
  /\ QuietInv
  /\ \A j \in Jobs : JobInv(j)
  /\ \A j \in Jobs, s \in Servers : TaskInv(j, s)
  /\ SweepInv
  /\ \A j \in Jobs : CountInv(j)
  /\ ClosedAfterTasks
  /\ VerdictNeverFlatters
  /\ lost => faults > 0

-----------------------------------------------------------------------------
(* IInv is inductive: one lemma per action, one step per part.             *)

\* The steps of one job leave the counters of every other job alone.
LEMMA CountFrame ==
  ASSUME NEW k \in Jobs, CountInv(k),
         run'[k] = run[k], coro'[k] = coro[k], tasks'[k] = tasks[k]
  PROVE  CountInv(k)'
BY DEF CountInv, DoneAs

LEMMA BeginJobSafe ==
  ASSUME NEW a \in Jobs, NEW ids \in SUBSET Servers, NEW request \in ConcurrencyRequests,
         IInv, TypeOK', BeginJob(a, ids, request)
  PROVE  IInv'
<1> USE DEF Idle, NoSweep, NoRun, Live, Settled, SomeIn, NonTerminal, Terminal, InFlight,
            JobVerdicts, Unsettled, TypeOK, JobRow, RunLocals,
            BeginJob, NoRow
<1>1. GuiInv'
  BY DEF IInv, GuiInv, JobInv
<1>2. QuietInv'
  BY DEF IInv, QuietInv
<1>3. \A k \in Jobs : JobInv(k)'
  BY JobsAssumption DEF IInv, JobInv, GuiInv
<1>4. \A k \in Jobs, r \in Servers : TaskInv(k, r)'
  BY DEF IInv, TaskInv, JobInv
<1>5. SweepInv'
  BY DEF IInv, SweepInv
<1>6. \A k \in Jobs : CountInv(k)'
  BY DEF IInv, CountInv, DoneAs
<1>7. ClosedAfterTasks'
  BY DEF IInv, ClosedAfterTasks
<1>8. VerdictNeverFlatters'
  BY DEF IInv, VerdictNeverFlatters
<1>9. (lost => faults > 0)'
  BY DEF IInv
<1>10. QED
  BY <1>1, <1>2, <1>3, <1>4, <1>5, <1>6, <1>7, <1>8, <1>9 DEF IInv

LEMMA CreateTaskSafe ==
  ASSUME NEW b \in Servers, IInv, TypeOK', CreateTask(b)
  PROVE  IInv'
<1> USE DEF Idle, NoSweep, NoRun, Live, Settled, SomeIn, NonTerminal, Terminal, InFlight,
            JobVerdicts, Unsettled, TypeOK, JobRow, RunLocals,
            CreateTask
<1>1. GuiInv'
  BY DEF IInv, GuiInv
<1>2. QuietInv'
  BY DEF IInv, QuietInv
<1>3. \A k \in Jobs : JobInv(k)'
  BY DEF IInv, JobInv, GuiInv
<1>4. \A k \in Jobs, r \in Servers : TaskInv(k, r)'
  BY DEF IInv, TaskInv, GuiInv
<1>5. SweepInv'
  BY DEF IInv, SweepInv
<1>6. ASSUME NEW k \in Jobs PROVE CountInv(k)'
  <2>1. CASE k # gui.job
    BY <2>1, CountFrame DEF IInv
  <2>2. CASE k = gui.job
    BY <2>2 DEF IInv, CountInv, GuiInv
  <2>3. QED
    BY <2>1, <2>2
<1>7. ClosedAfterTasks'
  BY DEF IInv, ClosedAfterTasks, GuiInv
<1>8. VerdictNeverFlatters'
  BY DEF IInv, VerdictNeverFlatters, GuiInv
<1>9. (lost => faults > 0)'
  BY DEF IInv
<1>10. QED
  BY <1>1, <1>2, <1>3, <1>4, <1>5, <1>6, <1>7, <1>8, <1>9 DEF IInv

LEMMA SkipMissingServerSafe ==
  ASSUME NEW b \in Servers, IInv, TypeOK', SkipMissingServer(b)
  PROVE  IInv'
<1> USE DEF Idle, NoSweep, NoRun, Live, Settled, SomeIn, NonTerminal, Terminal, InFlight,
            JobVerdicts, Unsettled, TypeOK, JobRow, RunLocals,
            SkipMissingServer
<1>1. GuiInv'
  BY DEF IInv, GuiInv
<1>2. QuietInv'
  BY DEF IInv, QuietInv
<1>3. \A k \in Jobs : JobInv(k)'
  BY DEF IInv, JobInv
<1>4. \A k \in Jobs, r \in Servers : TaskInv(k, r)'
  BY DEF IInv, TaskInv
<1>5. SweepInv'
  BY DEF IInv, SweepInv
<1>6. \A k \in Jobs : CountInv(k)'
  BY DEF IInv, CountInv, DoneAs
<1>7. ClosedAfterTasks'
  BY DEF IInv, ClosedAfterTasks
<1>8. VerdictNeverFlatters'
  BY DEF IInv, VerdictNeverFlatters
<1>9. (lost => faults > 0)'
  BY DEF IInv
<1>10. QED
  BY <1>1, <1>2, <1>3, <1>4, <1>5, <1>6, <1>7, <1>8, <1>9 DEF IInv

LEMMA SubmitJobSafe ==
  ASSUME IInv, TypeOK', SubmitJob
  PROVE  IInv'
<1> USE DEF Idle, NoSweep, NoRun, Live, Settled, SomeIn, NonTerminal, Terminal, InFlight,
            JobVerdicts, Unsettled, TypeOK, JobRow, RunLocals,
            SubmitJob
<1>1. GuiInv'
  BY DEF IInv, GuiInv
<1>2. QuietInv'
  BY DEF IInv, QuietInv
<1>3. \A k \in Jobs : JobInv(k)'
  BY DEF IInv, JobInv
<1>4. \A k \in Jobs, r \in Servers : TaskInv(k, r)'
  BY DEF IInv, TaskInv, GuiInv
<1>5. SweepInv'
  BY DEF IInv, SweepInv
<1>6. \A k \in Jobs : CountInv(k)'
  BY DEF IInv, CountInv, DoneAs
<1>7. ClosedAfterTasks'
  BY DEF IInv, ClosedAfterTasks
<1>8. VerdictNeverFlatters'
  BY DEF IInv, VerdictNeverFlatters
<1>9. (lost => faults > 0)'
  BY DEF IInv
<1>10. QED
  BY <1>1, <1>2, <1>3, <1>4, <1>5, <1>6, <1>7, <1>8, <1>9 DEF IInv

LEMMA StartJobRaisesSafe ==
  ASSUME IInv, TypeOK', StartJobRaises
  PROVE  IInv'
<1> USE DEF Idle, NoSweep, NoRun, Live, Settled, SomeIn, NonTerminal, Terminal, InFlight,
            JobVerdicts, Unsettled, TypeOK, JobRow, RunLocals,
            StartJobRaises
<1>1. GuiInv'
  BY DEF IInv, GuiInv
<1>2. QuietInv'
  BY DEF IInv, QuietInv
<1>3. \A k \in Jobs : JobInv(k)'
  BY DEF IInv, JobInv
<1>4. \A k \in Jobs, r \in Servers : TaskInv(k, r)'
  BY DEF IInv, TaskInv
<1>5. SweepInv'
  BY DEF IInv, SweepInv
<1>6. \A k \in Jobs : CountInv(k)'
  BY DEF IInv, CountInv, DoneAs
<1>7. ClosedAfterTasks'
  BY DEF IInv, ClosedAfterTasks
<1>8. VerdictNeverFlatters'
  BY DEF IInv, VerdictNeverFlatters
<1>9. (lost => faults > 0)'
  BY DEF IInv
<1>10. QED
  BY <1>1, <1>2, <1>3, <1>4, <1>5, <1>6, <1>7, <1>8, <1>9 DEF IInv

LEMMA CancelSafe ==
  ASSUME IInv, TypeOK', Cancel
  PROVE  IInv'
<1> USE DEF Idle, NoSweep, NoRun, Live, Settled, SomeIn, NonTerminal, Terminal, InFlight,
            JobVerdicts, Unsettled, TypeOK, JobRow, RunLocals,
            Cancel
<1>1. GuiInv'
  BY DEF IInv, GuiInv
<1>2. QuietInv'
  BY DEF IInv, QuietInv
<1>3. \A k \in Jobs : JobInv(k)'
  BY DEF IInv, JobInv
<1>4. \A k \in Jobs, r \in Servers : TaskInv(k, r)'
  BY DEF IInv, TaskInv
<1>5. SweepInv'
  BY DEF IInv, SweepInv
<1>6. \A k \in Jobs : CountInv(k)'
  BY DEF IInv, CountInv, DoneAs
<1>7. ClosedAfterTasks'
  BY DEF IInv, ClosedAfterTasks
<1>8. VerdictNeverFlatters'
  BY DEF IInv, VerdictNeverFlatters
<1>9. (lost => faults > 0)'
  BY DEF IInv
<1>10. QED
  BY <1>1, <1>2, <1>3, <1>4, <1>5, <1>6, <1>7, <1>8, <1>9 DEF IInv

LEMMA RunJobSafe ==
  ASSUME NEW a \in Jobs, IInv, TypeOK', RunJob(a)
  PROVE  IInv'
<1> USE DEF Idle, NoSweep, NoRun, Live, Settled, SomeIn, NonTerminal, Terminal, InFlight,
            JobVerdicts, Unsettled, TypeOK, JobRow, RunLocals,
            RunJob, TasksOf
<1>1. GuiInv'
  BY DEF IInv, GuiInv
<1>2. QuietInv'
  BY DEF IInv, QuietInv
<1>3. \A k \in Jobs : JobInv(k)'
  BY DEF IInv, JobInv
<1>4. \A k \in Jobs, r \in Servers : TaskInv(k, r)'
  BY DEF IInv, TaskInv
<1>5. SweepInv'
  BY DEF IInv, SweepInv
<1>6. ASSUME NEW k \in Jobs PROVE CountInv(k)'
  <2>1. CASE k # a
    BY <2>1, CountFrame DEF IInv
  <2>2. CASE k = a
    <3>1. run'[a].fail = 0 /\ run'[a].succ = 0
      BY DEF IInv, CountInv
    <3>2. \A r \in Servers : coro'[a][r] # "done"
      OBVIOUS
    <3>3. QED
      BY <2>2, <3>1, <3>2 DEF CountInv, DoneAs
  <2>3. QED
    BY <2>1, <2>2
<1>7. ClosedAfterTasks'
  BY DEF IInv, ClosedAfterTasks
<1>8. VerdictNeverFlatters'
  BY DEF IInv, VerdictNeverFlatters
<1>9. (lost => faults > 0)'
  BY DEF IInv
<1>10. QED
  BY <1>1, <1>2, <1>3, <1>4, <1>5, <1>6, <1>7, <1>8, <1>9 DEF IInv

LEMMA DeliverCancelSafe ==
  ASSUME NEW a \in Jobs, IInv, TypeOK', DeliverCancel(a)
  PROVE  IInv'
<1> USE DEF Idle, NoSweep, NoRun, Live, Settled, SomeIn, NonTerminal, Terminal, InFlight,
            JobVerdicts, Unsettled, TypeOK, JobRow, RunLocals,
            DeliverCancel
<1>1. GuiInv'
  BY DEF IInv, GuiInv
<1>2. QuietInv'
  BY DEF IInv, QuietInv
<1>3. \A k \in Jobs : JobInv(k)'
  BY DEF IInv, JobInv
<1>4. \A k \in Jobs, r \in Servers : TaskInv(k, r)'
  BY DEF IInv, TaskInv
<1>5. SweepInv'
  BY DEF IInv, SweepInv
<1>6. \A k \in Jobs : CountInv(k)'
  BY DEF IInv, CountInv, DoneAs
<1>7. ClosedAfterTasks'
  BY DEF IInv, ClosedAfterTasks
<1>8. VerdictNeverFlatters'
  BY DEF IInv, VerdictNeverFlatters
<1>9. (lost => faults > 0)'
  BY DEF IInv
<1>10. QED
  BY <1>1, <1>2, <1>3, <1>4, <1>5, <1>6, <1>7, <1>8, <1>9 DEF IInv

LEMMA SettleJobSafe ==
  ASSUME NEW a \in Jobs, IInv, TypeOK', SettleJob(a)
  PROVE  IInv'
<1> DEFINE verdict == FinalState(run[a].cancel, run[a].succ, run[a].fail)
           row == [jobs[a] EXCEPT !.state = verdict, !.succ = run[a].succ, !.fail = run[a].fail]
<1>a. /\ mode = "up" /\ run[a].pc = "gather"
      /\ \A r \in Servers : coro[a][r] \in {"idle", "done"}
      /\ jobs' = [jobs EXCEPT ![a] = row]
      /\ run' = [run EXCEPT ![a].pc = "closing"]
      /\ UNCHANGED <<tasks, mode, gui, sweep, coro, cancelRef, cancelPosted, current,
                     faults, lost>>
  BY DEF SettleJob, Gathered
<1>b. /\ jobs \in [Jobs -> JobRow] /\ run \in [Jobs -> RunLocals]
      /\ tasks \in [Jobs -> [Servers -> TaskStates]] /\ coro \in [Jobs -> [Servers -> CoroStates]]
      /\ gui.job \in Jobs \cup {NoJob} /\ sweep.jobs \subseteq Jobs
  BY DEF IInv, TypeOK
<1>c. run[a].fail \in Nat /\ run[a].succ \in Nat /\ run[a].cancel \in BOOLEAN
  BY <1>b DEF RunLocals
<1>d. /\ verdict \in {"cancelled", "failed", "completed_with_errors", "completed"}
      /\ verdict = "cancelled" <=> run[a].cancel
      /\ verdict = "completed" => run[a].fail = 0
      /\ verdict = "completed_with_errors" => run[a].fail # 0 /\ run[a].succ # 0
  BY <1>c DEF FinalState
<1>e. row.state = verdict
  BY <1>b DEF JobRow
<1> HIDE DEF verdict, row
<1>f. /\ \A k \in Jobs : jobs'[k] = IF k = a THEN row ELSE jobs[k]
      /\ \A k \in Jobs : k # a => run'[k] = run[k]
      /\ run'[a].pc = "closing" /\ run'[a].cancel = run[a].cancel
  BY <1>a, <1>b DEF RunLocals
<1>g. /\ \A k \in Jobs, r \in Servers : TaskInv(k, r)
      /\ \A k \in Jobs : JobInv(k) /\ CountInv(k)
      /\ GuiInv /\ QuietInv /\ SweepInv /\ ClosedAfterTasks /\ VerdictNeverFlatters
      /\ lost => faults > 0
  BY DEF IInv
<1>h. ASSUME NEW r \in Servers, coro[a][r] = "idle" PROVE tasks[a][r] = "none"
  BY <1>a, <1>g, <1>h DEF TaskInv
<1>i. ASSUME NEW r \in Servers, tasks[a][r] \in NonTerminal
      PROVE  lost \/ (faults > 0 /\ run[a].cancel)
  BY <1>a, <1>g, <1>h, <1>i DEF TaskInv, NonTerminal, Terminal, InFlight
<1>1. GuiInv'
  <2>1. gui.phase = "creating" => gui.job \in Jobs /\ gui.job # a
    BY <1>a, <1>g DEF GuiInv
  <2>2. gui.phase = "idle" => gui = Idle
    BY <1>g DEF GuiInv
  <2> QED
    BY <1>a, <1>f, <1>g, <2>1, <2>2 DEF GuiInv, Idle
<1>2. QuietInv'
  BY <1>a DEF QuietInv
<1>3. ASSUME NEW k \in Jobs PROVE JobInv(k)'
  <2>1. CASE k = a
    BY <1>a, <1>d, <1>e, <1>f, <2>1 DEF JobInv, Live, Settled, JobVerdicts
  <2>2. CASE k # a
    BY <1>a, <1>f, <1>g, <2>2 DEF JobInv, Live, Settled
  <2> QED
    BY <2>1, <2>2
<1>4. ASSUME NEW k \in Jobs, NEW r \in Servers PROVE TaskInv(k, r)'
  <2>1. CASE k = a
    BY <1>a, <1>f, <1>g, <1>h, <2>1 DEF TaskInv, NonTerminal, Terminal, InFlight
  <2>2. CASE k # a
    BY <1>a, <1>f, <1>g, <2>2 DEF TaskInv
  <2> QED
    BY <2>1, <2>2
<1>5. SweepInv'
  <2>1. mode # "sweep" => sweep = NoSweep
    BY <1>g DEF SweepInv
  <2> QED
    BY <1>a, <2>1 DEF SweepInv, NoSweep
<1>6. ASSUME NEW k \in Jobs PROVE CountInv(k)'
  <2>1. CASE k = a
    BY <1>f, <2>1 DEF CountInv
  <2>2. CASE k # a
    BY <1>a, <1>f, <1>g, <2>2, CountFrame
  <2> QED
    BY <2>1, <2>2
<1>7. ClosedAfterTasks'
  BY <1>a, <1>f, <1>g, <1>i, <1>d, <1>e DEF ClosedAfterTasks, Settled, SomeIn, JobVerdicts
<1>8. VerdictNeverFlatters'
  <2>1. ASSUME verdict \in {"completed", "completed_with_errors"}
        PROVE  lost \/ ~SomeIn(a, NonTerminal)
    BY <1>d, <1>i, <2>1 DEF SomeIn
  <2>2. DoneAs(a, "completed") => SomeIn(a, {"completed"})
    BY DEF DoneAs, SomeIn
  <2>3. DoneAs(a, "failed") <=> SomeIn(a, {"failed"})
    BY <1>a, <1>h DEF DoneAs, SomeIn
  <2>4. /\ verdict = "completed" => ~SomeIn(a, {"failed"})
        /\ verdict = "completed_with_errors" =>
             SomeIn(a, {"completed"}) /\ SomeIn(a, {"failed"})
    BY <1>a, <1>d, <1>g, <2>2, <2>3 DEF CountInv
  <2>5. QED
    BY <1>a, <1>e, <1>f, <1>g, <2>1, <2>4 DEF VerdictNeverFlatters, SomeIn
<1>9. (lost => faults > 0)'
  BY <1>a, <1>g
<1>10. QED
  BY <1>1, <1>2, <1>3, <1>4, <1>5, <1>6, <1>7, <1>8, <1>9 DEF IInv

LEMMA SettleRaisesSafe ==
  ASSUME NEW a \in Jobs, IInv, TypeOK', SettleRaises(a)
  PROVE  IInv'
<1> USE DEF Idle, NoSweep, NoRun, Live, Settled, SomeIn, NonTerminal, Terminal, InFlight,
            JobVerdicts, Unsettled, TypeOK, JobRow, RunLocals,
            SettleRaises, Gathered
<1>1. GuiInv'
  BY DEF IInv, GuiInv
<1>2. QuietInv'
  BY DEF IInv, QuietInv
<1>3. \A k \in Jobs : JobInv(k)'
  BY DEF IInv, JobInv
<1>4. \A k \in Jobs, r \in Servers : TaskInv(k, r)'
  BY DEF IInv, TaskInv
<1>5. SweepInv'
  BY DEF IInv, SweepInv
<1>6. \A k \in Jobs : CountInv(k)'
  BY DEF IInv, CountInv, DoneAs
<1>7. ClosedAfterTasks'
  BY DEF IInv, ClosedAfterTasks
<1>8. VerdictNeverFlatters'
  BY DEF IInv, VerdictNeverFlatters
<1>9. (lost => faults > 0)'
  BY DEF IInv
<1>10. QED
  BY <1>1, <1>2, <1>3, <1>4, <1>5, <1>6, <1>7, <1>8, <1>9 DEF IInv

LEMMA SettleLostSafe ==
  ASSUME NEW a \in Jobs, IInv, TypeOK', SettleLost(a)
  PROVE  IInv'
<1> USE DEF Idle, NoSweep, NoRun, Live, Settled, SomeIn, NonTerminal, Terminal, InFlight,
            JobVerdicts, Unsettled, TypeOK, JobRow, RunLocals,
            SettleLost, Gathered
<1>1. GuiInv'
  BY DEF IInv, GuiInv
<1>2. QuietInv'
  BY DEF IInv, QuietInv
<1>3. \A k \in Jobs : JobInv(k)'
  BY DEF IInv, JobInv
<1>4. \A k \in Jobs, r \in Servers : TaskInv(k, r)'
  BY DEF IInv, TaskInv
<1>5. SweepInv'
  BY DEF IInv, SweepInv
<1>6. \A k \in Jobs : CountInv(k)'
  BY DEF IInv, CountInv, DoneAs
<1>7. ClosedAfterTasks'
  BY DEF IInv, ClosedAfterTasks
<1>8. VerdictNeverFlatters'
  BY DEF IInv, VerdictNeverFlatters
<1>9. (lost => faults > 0)'
  BY DEF IInv
<1>10. QED
  BY <1>1, <1>2, <1>3, <1>4, <1>5, <1>6, <1>7, <1>8, <1>9 DEF IInv

LEMMA EndJobSafe ==
  ASSUME NEW a \in Jobs, IInv, TypeOK', EndJob(a)
  PROVE  IInv'
<1> USE DEF Idle, NoSweep, NoRun, Live, Settled, SomeIn, NonTerminal, Terminal, InFlight,
            JobVerdicts, Unsettled, TypeOK, JobRow, RunLocals,
            EndJob
<1>1. GuiInv'
  BY DEF IInv, GuiInv
<1>2. QuietInv'
  BY DEF IInv, QuietInv
<1>3. \A k \in Jobs : JobInv(k)'
  BY DEF IInv, JobInv
<1>4. \A k \in Jobs, r \in Servers : TaskInv(k, r)'
  BY DEF IInv, TaskInv
<1>5. SweepInv'
  BY DEF IInv, SweepInv
<1>6. \A k \in Jobs : CountInv(k)'
  BY DEF IInv, CountInv, DoneAs
<1>7. ClosedAfterTasks'
  BY DEF IInv, ClosedAfterTasks
<1>8. VerdictNeverFlatters'
  BY DEF IInv, VerdictNeverFlatters
<1>9. (lost => faults > 0)'
  BY DEF IInv
<1>10. QED
  BY <1>1, <1>2, <1>3, <1>4, <1>5, <1>6, <1>7, <1>8, <1>9 DEF IInv

LEMMA SkipCancelledSafe ==
  ASSUME NEW a \in Jobs, NEW b \in Servers, IInv, TypeOK', SkipCancelled(a, b)
  PROVE  IInv'
<1> USE DEF Idle, NoSweep, NoRun, Live, Settled, SomeIn, NonTerminal, Terminal, InFlight,
            JobVerdicts, Unsettled, TypeOK, JobRow, RunLocals,
            SkipCancelled, AtCancelCheck
<1>1. GuiInv'
  BY DEF IInv, GuiInv
<1>2. QuietInv'
  BY DEF IInv, QuietInv
<1>3. \A k \in Jobs : JobInv(k)'
  BY DEF IInv, JobInv
<1>4. \A k \in Jobs, r \in Servers : TaskInv(k, r)'
  BY DEF IInv, TaskInv, GuiInv
<1>5. SweepInv'
  BY DEF IInv, SweepInv
<1>6. \A k \in Jobs : CountInv(k)'
  BY DEF IInv, CountInv, DoneAs
<1>7. ClosedAfterTasks'
  BY DEF IInv, ClosedAfterTasks
<1>8. VerdictNeverFlatters'
  BY DEF IInv, VerdictNeverFlatters, TaskInv
<1>9. (lost => faults > 0)'
  BY DEF IInv
<1>10. QED
  BY <1>1, <1>2, <1>3, <1>4, <1>5, <1>6, <1>7, <1>8, <1>9 DEF IInv

LEMMA MarkCancelledRaisesSafe ==
  ASSUME NEW a \in Jobs, NEW b \in Servers, IInv, TypeOK', MarkCancelledRaises(a, b)
  PROVE  IInv'
<1> USE DEF Idle, NoSweep, NoRun, Live, Settled, SomeIn, NonTerminal, Terminal, InFlight,
            JobVerdicts, Unsettled, TypeOK, JobRow, RunLocals,
            MarkCancelledRaises, AtCancelCheck
<1>1. GuiInv'
  BY DEF IInv, GuiInv
<1>2. QuietInv'
  BY DEF IInv, QuietInv
<1>3. \A k \in Jobs : JobInv(k)'
  BY DEF IInv, JobInv
<1>4. \A k \in Jobs, r \in Servers : TaskInv(k, r)'
  BY DEF IInv, TaskInv
<1>5. SweepInv'
  BY DEF IInv, SweepInv
<1>6. \A k \in Jobs : CountInv(k)'
  BY DEF IInv, CountInv, DoneAs, TaskInv
<1>7. ClosedAfterTasks'
  BY DEF IInv, ClosedAfterTasks
<1>8. VerdictNeverFlatters'
  BY DEF IInv, VerdictNeverFlatters
<1>9. (lost => faults > 0)'
  BY DEF IInv
<1>10. QED
  BY <1>1, <1>2, <1>3, <1>4, <1>5, <1>6, <1>7, <1>8, <1>9 DEF IInv

LEMMA WaitForSlotSafe ==
  ASSUME NEW a \in Jobs, NEW b \in Servers, IInv, TypeOK', WaitForSlot(a, b)
  PROVE  IInv'
<1> USE DEF Idle, NoSweep, NoRun, Live, Settled, SomeIn, NonTerminal, Terminal, InFlight,
            JobVerdicts, Unsettled, TypeOK, JobRow, RunLocals,
            WaitForSlot
<1>1. GuiInv'
  BY DEF IInv, GuiInv
<1>2. QuietInv'
  BY DEF IInv, QuietInv
<1>3. \A k \in Jobs : JobInv(k)'
  BY DEF IInv, JobInv
<1>4. \A k \in Jobs, r \in Servers : TaskInv(k, r)'
  BY DEF IInv, TaskInv
<1>5. SweepInv'
  BY DEF IInv, SweepInv
<1>6. \A k \in Jobs : CountInv(k)'
  BY DEF IInv, CountInv, DoneAs
<1>7. ClosedAfterTasks'
  BY DEF IInv, ClosedAfterTasks
<1>8. VerdictNeverFlatters'
  BY DEF IInv, VerdictNeverFlatters
<1>9. (lost => faults > 0)'
  BY DEF IInv
<1>10. QED
  BY <1>1, <1>2, <1>3, <1>4, <1>5, <1>6, <1>7, <1>8, <1>9 DEF IInv

LEMMA EnterTaskSafe ==
  ASSUME NEW a \in Jobs, NEW b \in Servers, IInv, TypeOK', EnterTask(a, b)
  PROVE  IInv'
<1> USE DEF Idle, NoSweep, NoRun, Live, Settled, SomeIn, NonTerminal, Terminal, InFlight,
            JobVerdicts, Unsettled, TypeOK, JobRow, RunLocals,
            EnterTask, AtCancelCheck
<1>1. GuiInv'
  BY DEF IInv, GuiInv
<1>2. QuietInv'
  BY DEF IInv, QuietInv
<1>3. \A k \in Jobs : JobInv(k)'
  BY DEF IInv, JobInv
<1>4. \A k \in Jobs, r \in Servers : TaskInv(k, r)'
  BY DEF IInv, TaskInv
<1>5. SweepInv'
  BY DEF IInv, SweepInv
<1>6. \A k \in Jobs : CountInv(k)'
  BY DEF IInv, CountInv, DoneAs
<1>7. ClosedAfterTasks'
  BY DEF IInv, ClosedAfterTasks
<1>8. VerdictNeverFlatters'
  BY DEF IInv, VerdictNeverFlatters
<1>9. (lost => faults > 0)'
  BY DEF IInv
<1>10. QED
  BY <1>1, <1>2, <1>3, <1>4, <1>5, <1>6, <1>7, <1>8, <1>9 DEF IInv

LEMMA FailTaskSafe ==
  ASSUME NEW a \in Jobs, NEW b \in Servers, IInv, TypeOK', FailTask(a, b)
  PROVE  IInv'
<1> USE DEF Idle, NoSweep, NoRun, Live, Settled, SomeIn, NonTerminal, Terminal, InFlight,
            JobVerdicts, Unsettled, TypeOK, JobRow, RunLocals,
            FailTask
<1>1. GuiInv'
  BY DEF IInv, GuiInv
<1>2. QuietInv'
  BY DEF IInv, QuietInv
<1>3. \A k \in Jobs : JobInv(k)'
  BY DEF IInv, JobInv, TaskInv
<1>4. \A k \in Jobs, r \in Servers : TaskInv(k, r)'
  BY DEF IInv, TaskInv, GuiInv
<1>5. SweepInv'
  BY DEF IInv, SweepInv
<1>6. ASSUME NEW k \in Jobs PROVE CountInv(k)'
  <2>1. CASE k # a
    BY <2>1, CountFrame DEF IInv
  <2>2. CASE k = a
    <3>1. run[a].pc = "gather" /\ tasks[a][b] # "completed"
      BY DEF IInv, TaskInv
    <3>2. DoneAs(a, "failed")' /\ run'[a].fail # 0 /\ run'[a].succ = run[a].succ
      BY DEF IInv, DoneAs
    <3>3. DoneAs(a, "completed") => DoneAs(a, "completed")'
      BY <3>1 DEF IInv, DoneAs
    <3>4. QED
      BY <2>2, <3>1, <3>2, <3>3 DEF IInv, CountInv
  <2>3. QED
    BY <2>1, <2>2
<1>7. ClosedAfterTasks'
  BY DEF IInv, ClosedAfterTasks
<1>8. VerdictNeverFlatters'
  BY DEF IInv, VerdictNeverFlatters, TaskInv
<1>9. (lost => faults > 0)'
  BY DEF IInv
<1>10. QED
  BY <1>1, <1>2, <1>3, <1>4, <1>5, <1>6, <1>7, <1>8, <1>9 DEF IInv

LEMMA WriteCompletedSafe ==
  ASSUME NEW a \in Jobs, NEW b \in Servers, IInv, TypeOK', WriteCompleted(a, b)
  PROVE  IInv'
<1> USE DEF Idle, NoSweep, NoRun, Live, Settled, SomeIn, NonTerminal, Terminal, InFlight,
            JobVerdicts, Unsettled, TypeOK, JobRow, RunLocals,
            WriteCompleted
<1>1. GuiInv'
  BY DEF IInv, GuiInv
<1>2. QuietInv'
  BY DEF IInv, QuietInv
<1>3. \A k \in Jobs : JobInv(k)'
  BY DEF IInv, JobInv, TaskInv
<1>4. \A k \in Jobs, r \in Servers : TaskInv(k, r)'
  BY DEF IInv, TaskInv, GuiInv
<1>5. SweepInv'
  BY DEF IInv, SweepInv
<1>6. ASSUME NEW k \in Jobs PROVE CountInv(k)'
  <2>1. CASE k # a
    BY <2>1, CountFrame DEF IInv
  <2>2. CASE k = a
    <3>1. run[a].pc = "gather" /\ coro[a][b] = "running"
      BY DEF IInv, TaskInv
    <3>2. \A st : DoneAs(a, st)' <=> DoneAs(a, st)
      BY <3>1 DEF IInv, DoneAs
    <3>3. QED
      BY <2>2, <3>1, <3>2 DEF IInv, CountInv
  <2>3. QED
    BY <2>1, <2>2
<1>7. ClosedAfterTasks'
  BY DEF IInv, ClosedAfterTasks
<1>8. VerdictNeverFlatters'
  BY DEF IInv, VerdictNeverFlatters, TaskInv
<1>9. (lost => faults > 0)'
  BY DEF IInv
<1>10. QED
  BY <1>1, <1>2, <1>3, <1>4, <1>5, <1>6, <1>7, <1>8, <1>9 DEF IInv

LEMMA RefreshServerSafe ==
  ASSUME NEW a \in Jobs, NEW b \in Servers, IInv, TypeOK', RefreshServer(a, b)
  PROVE  IInv'
<1> USE DEF Idle, NoSweep, NoRun, Live, Settled, SomeIn, NonTerminal, Terminal, InFlight,
            JobVerdicts, Unsettled, TypeOK, JobRow, RunLocals,
            RefreshServer
<1>1. GuiInv'
  BY DEF IInv, GuiInv
<1>2. QuietInv'
  BY DEF IInv, QuietInv
<1>3. \A k \in Jobs : JobInv(k)'
  BY DEF IInv, JobInv
<1>4. \A k \in Jobs, r \in Servers : TaskInv(k, r)'
  BY DEF IInv, TaskInv
<1>5. SweepInv'
  BY DEF IInv, SweepInv
<1>6. \A k \in Jobs : CountInv(k)'
  BY DEF IInv, CountInv, DoneAs, TaskInv
<1>7. ClosedAfterTasks'
  BY DEF IInv, ClosedAfterTasks
<1>8. VerdictNeverFlatters'
  BY DEF IInv, VerdictNeverFlatters
<1>9. (lost => faults > 0)'
  BY DEF IInv
<1>10. QED
  BY <1>1, <1>2, <1>3, <1>4, <1>5, <1>6, <1>7, <1>8, <1>9 DEF IInv

LEMMA RefreshRaisesSafe ==
  ASSUME NEW a \in Jobs, NEW b \in Servers, IInv, TypeOK', RefreshRaises(a, b)
  PROVE  IInv'
<1> USE DEF Idle, NoSweep, NoRun, Live, Settled, SomeIn, NonTerminal, Terminal, InFlight,
            JobVerdicts, Unsettled, TypeOK, JobRow, RunLocals,
            RefreshRaises
<1>1. GuiInv'
  BY DEF IInv, GuiInv
<1>2. QuietInv'
  BY DEF IInv, QuietInv
<1>3. \A k \in Jobs : JobInv(k)'
  BY DEF IInv, JobInv, TaskInv
<1>4. \A k \in Jobs, r \in Servers : TaskInv(k, r)'
  BY DEF IInv, TaskInv
<1>5. SweepInv'
  BY DEF IInv, SweepInv
<1>6. ASSUME NEW k \in Jobs PROVE CountInv(k)'
  <2>1. CASE k # a
    BY <2>1, CountFrame DEF IInv
  <2>2. CASE k = a
    <3>1. run[a].pc = "gather" /\ coro[a][b] = "refreshing"
      BY DEF IInv, TaskInv
    <3>2. DoneAs(a, "failed")' /\ run'[a].fail # 0 /\ run'[a].succ = run[a].succ
      BY DEF IInv, DoneAs
    <3>3. DoneAs(a, "completed") => DoneAs(a, "completed")'
      BY <3>1 DEF IInv, DoneAs
    <3>4. QED
      BY <2>2, <3>1, <3>2, <3>3 DEF IInv, CountInv
  <2>3. QED
    BY <2>1, <2>2
<1>7. ClosedAfterTasks'
  BY DEF IInv, ClosedAfterTasks
<1>8. VerdictNeverFlatters'
  <2>1. jobs[a].state = "running"
    BY DEF IInv, TaskInv, JobInv
  <2>2. \A k \in Jobs : jobs'[k] = jobs[k] /\ (k # a => tasks'[k] = tasks[k])
    OBVIOUS
  <2>3. QED
    BY <2>1, <2>2 DEF IInv, VerdictNeverFlatters
<1>9. (lost => faults > 0)'
  BY DEF IInv
<1>10. QED
  BY <1>1, <1>2, <1>3, <1>4, <1>5, <1>6, <1>7, <1>8, <1>9 DEF IInv

LEMMA FailureLostSafe ==
  ASSUME NEW a \in Jobs, NEW b \in Servers, IInv, TypeOK', FailureLost(a, b)
  PROVE  IInv'
<1> USE DEF Idle, NoSweep, NoRun, Live, Settled, SomeIn, NonTerminal, Terminal, InFlight,
            JobVerdicts, Unsettled, TypeOK, JobRow, RunLocals,
            FailureLost
<1>1. GuiInv'
  BY DEF IInv, GuiInv
<1>2. QuietInv'
  BY DEF IInv, QuietInv
<1>3. \A k \in Jobs : JobInv(k)'
  BY DEF IInv, JobInv
<1>4. \A k \in Jobs, r \in Servers : TaskInv(k, r)'
  BY DEF IInv, TaskInv
<1>5. SweepInv'
  BY DEF IInv, SweepInv
<1>6. ASSUME NEW k \in Jobs PROVE CountInv(k)'
  <2>1. CASE k # a
    BY <2>1, CountFrame DEF IInv
  <2>2. CASE k = a
    <3>1. run[a].pc = "gather" /\ tasks[a][b] # "failed" /\ coro[a][b] # "done"
      BY DEF IInv, TaskInv
    <3>2. DoneAs(a, "failed")' <=> DoneAs(a, "failed")
      BY <3>1 DEF IInv, DoneAs
    <3>3. DoneAs(a, "completed") => DoneAs(a, "completed")'
      BY <3>1 DEF IInv, DoneAs
    <3>4. QED
      BY <2>2, <3>1, <3>2, <3>3 DEF IInv, CountInv
  <2>3. QED
    BY <2>1, <2>2
<1>7. ClosedAfterTasks'
  BY DEF IInv, ClosedAfterTasks
<1>8. VerdictNeverFlatters'
  BY DEF IInv, VerdictNeverFlatters
<1>9. (lost => faults > 0)'
  BY DEF IInv
<1>10. QED
  BY <1>1, <1>2, <1>3, <1>4, <1>5, <1>6, <1>7, <1>8, <1>9 DEF IInv

LEMMA DrainTaskSafe ==
  ASSUME NEW a \in Jobs, NEW b \in Servers, IInv, TypeOK', DrainTask(a, b)
  PROVE  IInv'
<1> USE DEF Idle, NoSweep, NoRun, Live, Settled, SomeIn, NonTerminal, Terminal, InFlight,
            JobVerdicts, Unsettled, TypeOK, JobRow, RunLocals,
            DrainTask
<1>1. GuiInv'
  BY DEF IInv, GuiInv
<1>2. QuietInv'
  BY DEF IInv, QuietInv
<1>3. \A k \in Jobs : JobInv(k)'
  BY DEF IInv, JobInv, TaskInv
<1>4. \A k \in Jobs, r \in Servers : TaskInv(k, r)'
  BY DEF IInv, TaskInv, GuiInv
<1>5. SweepInv'
  BY DEF IInv, SweepInv
<1>6. ASSUME NEW k \in Jobs PROVE CountInv(k)'
  <2>1. CASE k # a
    BY <2>1, CountFrame DEF IInv
  <2>2. CASE k = a
    <3>1. run[a].pc = "gather" /\ tasks[a][b] # "completed"
      BY DEF IInv, TaskInv
    <3>2. DoneAs(a, "failed")' /\ run'[a].fail # 0 /\ run'[a].succ = run[a].succ
      BY DEF IInv, DoneAs
    <3>3. DoneAs(a, "completed") => DoneAs(a, "completed")'
      BY <3>1 DEF IInv, DoneAs
    <3>4. QED
      BY <2>2, <3>1, <3>2, <3>3 DEF IInv, CountInv
  <2>3. QED
    BY <2>1, <2>2
<1>7. ClosedAfterTasks'
  BY DEF IInv, ClosedAfterTasks
<1>8. VerdictNeverFlatters'
  BY DEF IInv, VerdictNeverFlatters, TaskInv
<1>9. (lost => faults > 0)'
  BY DEF IInv
<1>10. QED
  BY <1>1, <1>2, <1>3, <1>4, <1>5, <1>6, <1>7, <1>8, <1>9 DEF IInv

LEMMA SweepTaskSafe ==
  ASSUME NEW a \in Jobs, NEW b \in Servers, IInv, TypeOK', SweepTask(a, b)
  PROVE  IInv'
<1> USE DEF Idle, NoSweep, NoRun, Live, Settled, SomeIn, NonTerminal, Terminal, InFlight,
            JobVerdicts, Unsettled, TypeOK, JobRow, RunLocals,
            SweepTask
<1>1. GuiInv'
  BY DEF IInv, GuiInv
<1>2. QuietInv'
  BY DEF IInv, QuietInv
<1>3. ASSUME NEW k \in Jobs PROVE JobInv(k)'
  <2>1. tasks[a][b] \in NonTerminal
    BY DEF IInv, SweepInv, InState
  <2>2. jobs[a].state # "none"
    BY <2>1 DEF IInv, JobInv
  <2>3. QED
    BY <2>2 DEF IInv, JobInv
<1>4. \A k \in Jobs, r \in Servers : TaskInv(k, r)'
  BY DEF IInv, TaskInv, QuietInv
<1>5. SweepInv'
  BY DEF IInv, SweepInv, InState
<1>6. \A k \in Jobs : CountInv(k)'
  BY DEF IInv, CountInv, QuietInv
<1>7. ClosedAfterTasks'
  BY DEF IInv, ClosedAfterTasks
<1>8. VerdictNeverFlatters'
  BY DEF IInv, VerdictNeverFlatters, SweepInv, InState
<1>9. (lost => faults > 0)'
  BY DEF IInv
<1>10. QED
  BY <1>1, <1>2, <1>3, <1>4, <1>5, <1>6, <1>7, <1>8, <1>9 DEF IInv

LEMMA ProgressSafe ==
  ASSUME NEW a \in Jobs, NEW b \in Servers, NEW state \in PluginStates, IInv, TypeOK', Progress(a, b, state)
  PROVE  IInv'
<1> USE DEF Idle, NoSweep, NoRun, Live, Settled, SomeIn, NonTerminal, Terminal, InFlight,
            JobVerdicts, Unsettled, TypeOK, JobRow, RunLocals,
            Progress
<1>1. GuiInv'
  BY DEF IInv, GuiInv
<1>2. QuietInv'
  BY DEF IInv, QuietInv
<1>3. \A k \in Jobs : JobInv(k)'
  BY DEF IInv, JobInv, TaskInv
<1>4. \A k \in Jobs, r \in Servers : TaskInv(k, r)'
  BY PluginAssumption DEF IInv, TaskInv, GuiInv
<1>5. SweepInv'
  BY DEF IInv, SweepInv
<1>6. ASSUME NEW k \in Jobs PROVE CountInv(k)'
  <2>1. CASE k # a
    BY <2>1, CountFrame DEF IInv
  <2>2. CASE k = a
    <3>1. run[a].pc = "gather" /\ coro[a][b] = "running"
      BY DEF IInv, TaskInv
    <3>2. \A st : DoneAs(a, st)' <=> DoneAs(a, st)
      BY <3>1 DEF IInv, DoneAs
    <3>3. QED
      BY <2>2, <3>1, <3>2 DEF IInv, CountInv
  <2>3. QED
    BY <2>1, <2>2
<1>7. ClosedAfterTasks'
  BY DEF IInv, ClosedAfterTasks, TaskInv
<1>8. VerdictNeverFlatters'
  BY DEF IInv, VerdictNeverFlatters, TaskInv
<1>9. (lost => faults > 0)'
  BY DEF IInv
<1>10. QED
  BY <1>1, <1>2, <1>3, <1>4, <1>5, <1>6, <1>7, <1>8, <1>9 DEF IInv

LEMMA ShutdownSafe ==
  ASSUME IInv, TypeOK', Shutdown
  PROVE  IInv'
<1> USE DEF Idle, NoSweep, NoRun, Live, Settled, SomeIn, NonTerminal, Terminal, InFlight,
            JobVerdicts, Unsettled, TypeOK, JobRow, RunLocals,
            Shutdown
<1>1. GuiInv'
  BY DEF IInv, GuiInv
<1>2. QuietInv'
  BY DEF IInv, QuietInv
<1>3. \A k \in Jobs : JobInv(k)'
  BY DEF IInv, JobInv
<1>4. \A k \in Jobs, r \in Servers : TaskInv(k, r)'
  BY DEF IInv, TaskInv
<1>5. SweepInv'
  BY DEF IInv, SweepInv
<1>6. \A k \in Jobs : CountInv(k)'
  BY DEF IInv, CountInv, DoneAs
<1>7. ClosedAfterTasks'
  BY DEF IInv, ClosedAfterTasks
<1>8. VerdictNeverFlatters'
  BY DEF IInv, VerdictNeverFlatters
<1>9. (lost => faults > 0)'
  BY DEF IInv
<1>10. QED
  BY <1>1, <1>2, <1>3, <1>4, <1>5, <1>6, <1>7, <1>8, <1>9 DEF IInv

LEMMA ExitSafe ==
  ASSUME IInv, TypeOK', Exit \/ Crash
  PROVE  IInv'
<1> USE DEF Idle, NoSweep, NoRun, Live, Settled, SomeIn, NonTerminal, Terminal, InFlight,
            JobVerdicts, Unsettled, TypeOK, JobRow, RunLocals,
            Exit, Crash, Forget
<1>1. GuiInv'
  BY DEF IInv, GuiInv
<1>2. QuietInv'
  BY DEF IInv, QuietInv
<1>3. \A k \in Jobs : JobInv(k)'
  BY DEF IInv, JobInv
<1>4. \A k \in Jobs, r \in Servers : TaskInv(k, r)'
  BY DEF IInv, TaskInv
<1>5. SweepInv'
  BY DEF IInv, SweepInv
<1>6. \A k \in Jobs : CountInv(k)'
  BY DEF IInv, CountInv
<1>7. ClosedAfterTasks'
  BY DEF IInv, ClosedAfterTasks
<1>8. VerdictNeverFlatters'
  BY DEF IInv, VerdictNeverFlatters
<1>9. (lost => faults > 0)'
  BY DEF IInv
<1>10. QED
  BY <1>1, <1>2, <1>3, <1>4, <1>5, <1>6, <1>7, <1>8, <1>9 DEF IInv

LEMMA LaunchSafe ==
  ASSUME IInv, TypeOK', Launch
  PROVE  IInv'
<1> USE DEF Idle, NoSweep, NoRun, Live, Settled, SomeIn, NonTerminal, Terminal, InFlight,
            JobVerdicts, Unsettled, TypeOK, JobRow, RunLocals,
            Launch
<1>1. GuiInv'
  BY DEF IInv, GuiInv
<1>2. QuietInv'
  BY DEF IInv, QuietInv
<1>3. \A k \in Jobs : JobInv(k)'
  BY DEF IInv, JobInv
<1>4. \A k \in Jobs, r \in Servers : TaskInv(k, r)'
  BY DEF IInv, TaskInv
<1>5. SweepInv'
  <2>1. ASSUME faults = 0, NEW k \in Jobs, SomeIn(k, NonTerminal)
        PROVE  jobs[k].state \in Unsettled
    <3>1. ~Settled(k)
      BY <2>1 DEF IInv, ClosedAfterTasks
    <3>2. jobs[k].state # "none"
      BY <2>1 DEF IInv, JobInv
    <3>3. QED
      BY <3>1, <3>2 DEF IInv
  <2>2. QED
    BY <2>1 DEF IInv, SweepInv, InState
<1>6. \A k \in Jobs : CountInv(k)'
  BY DEF IInv, CountInv, DoneAs
<1>7. ClosedAfterTasks'
  BY DEF IInv, ClosedAfterTasks
<1>8. VerdictNeverFlatters'
  BY DEF IInv, VerdictNeverFlatters
<1>9. (lost => faults > 0)'
  BY DEF IInv
<1>10. QED
  BY <1>1, <1>2, <1>3, <1>4, <1>5, <1>6, <1>7, <1>8, <1>9 DEF IInv

LEMMA SweepJobSafe ==
  ASSUME NEW a \in Jobs, IInv, TypeOK', SweepJob(a)
  PROVE  IInv'
<1> DEFINE verdict == VerdictFromRows(a)
<1>1. ~SomeIn(a, NonTerminal)
  BY DEF SweepJob, IInv, SweepInv, InState, SomeIn
<1>2. /\ verdict \in JobVerdicts
      /\ verdict = "completed" => ~SomeIn(a, {"failed"})
      /\ verdict = "completed_with_errors" =>
           SomeIn(a, {"completed"}) /\ SomeIn(a, {"failed"})
  BY <1>1 DEF VerdictFromRows, JobVerdicts
<1>3. /\ mode = "sweep" /\ jobs'[a].state = verdict
      /\ \A k \in Jobs : k # a => jobs'[k] = jobs[k]
      /\ sweep'.todo = sweep.todo /\ sweep'.jobs = sweep.jobs \ {a}
      /\ UNCHANGED <<tasks, mode, gui, run, coro, cancelRef, cancelPosted, current,
                     faults, lost>>
  BY DEF SweepJob, IInv, TypeOK, JobRow
<1>4. gui = Idle /\ \A k \in Jobs : run[k] = NoRun /\ \A s \in Servers : coro[k][s] = "idle"
  BY <1>3 DEF IInv, QuietInv
<1> HIDE DEF verdict
<1>5. GuiInv' /\ QuietInv'
  BY <1>3, <1>4 DEF GuiInv, QuietInv, Idle
<1>6. ASSUME NEW k \in Jobs PROVE JobInv(k)' /\ CountInv(k)'
  <2>1. jobs'[a].state # "none"
    BY <1>2, <1>3 DEF JobVerdicts
  <2>2. QED
    BY <1>3, <1>4, <2>1 DEF IInv, JobInv, CountInv, NoRun, Live
<1>7. ASSUME NEW k \in Jobs, NEW r \in Servers PROVE TaskInv(k, r)'
  BY <1>3, <1>4 DEF IInv, TaskInv, Idle
<1>8. SweepInv'
  <2>1. \A k \in Jobs : sweep'.todo[k] = InState(k, NonTerminal)'
    BY <1>3 DEF IInv, SweepInv, InState
  <2>2. faults' = 0 => \A k \in sweep'.jobs : jobs'[k].state \in Unsettled
    BY <1>3 DEF IInv, TypeOK, SweepInv
  <2>3. QED
    BY <1>3, <2>1, <2>2 DEF SweepInv
<1>9. ClosedAfterTasks'
  BY <1>1, <1>3 DEF IInv, ClosedAfterTasks, Settled, SomeIn
<1>10. VerdictNeverFlatters'
  <2>1. \A k \in Jobs, S \in SUBSET TaskStates : SomeIn(k, S)' <=> SomeIn(k, S)
    BY <1>3 DEF SomeIn
  <2>2. \A k \in Jobs : SomeIn(k, NonTerminal \cup {"failed"}) <=>
                          SomeIn(k, NonTerminal) \/ SomeIn(k, {"failed"})
    BY DEF SomeIn
  <2>3. QED
    BY <1>1, <1>2, <1>3, <2>2 DEF IInv, VerdictNeverFlatters, SomeIn
<1>11. (lost => faults > 0)'
  BY <1>3 DEF IInv
<1>12. QED
  BY <1>5, <1>6, <1>7, <1>8, <1>9, <1>10, <1>11 DEF IInv

LEMMA SweepOrphansSafe ==
  ASSUME IInv, TypeOK', SweepOrphans
  PROVE  IInv'
<1> USE DEF Idle, NoSweep, NoRun, Live, Settled, SomeIn, NonTerminal, Terminal, InFlight,
            JobVerdicts, Unsettled, TypeOK, JobRow, RunLocals,
            SweepOrphans, Swept, JobsFailedFrom
<1>1. GuiInv'
  BY DEF IInv, GuiInv
<1>2. QuietInv'
  BY DEF IInv, QuietInv
<1>3. \A k \in Jobs : JobInv(k)'
  BY DEF IInv, JobInv, QuietInv
<1>4. \A k \in Jobs, r \in Servers : TaskInv(k, r)'
  BY DEF IInv, TaskInv
<1>5. SweepInv'
  BY DEF IInv, SweepInv
<1>6. \A k \in Jobs : CountInv(k)'
  BY DEF IInv, CountInv, DoneAs
<1>7. ClosedAfterTasks'
  BY DEF IInv, ClosedAfterTasks, SweepInv, InState
<1>8. VerdictNeverFlatters'
  BY DEF IInv, VerdictNeverFlatters
<1>9. (lost => faults > 0)'
  BY DEF IInv
<1>10. QED
  BY <1>1, <1>2, <1>3, <1>4, <1>5, <1>6, <1>7, <1>8, <1>9 DEF IInv

LEMMA InitSafe == Init => IInv
<1> SUFFICES ASSUME Init PROVE IInv
  OBVIOUS
<1>1. TypeOK
  BY InitType
<1>2. QED
  BY <1>1 DEF Init, IInv, GuiInv, QuietInv, JobInv, TaskInv, SweepInv, CountInv, DoneAs,
              ClosedAfterTasks, VerdictNeverFlatters, NoRow, Idle, NoRun, NoSweep, Live,
              Settled, SomeIn, NonTerminal, InFlight, JobVerdicts

LEMMA NextSafe == IInv /\ [Next]_vars => IInv'
<1> SUFFICES ASSUME IInv, [Next]_vars PROVE IInv'
  OBVIOUS
<1>1. TypeOK'
  BY NextType DEF IInv
<1>2. CASE UNCHANGED vars
  BY <1>2 DEF vars, IInv, TypeOK, GuiInv, QuietInv, JobInv, TaskInv, SweepInv, CountInv,
              DoneAs, ClosedAfterTasks, VerdictNeverFlatters, Live, Settled, SomeIn, InState
<1>3. CASE MainThread
  BY <1>1, <1>3, BeginJobSafe, CreateTaskSafe, SkipMissingServerSafe, SubmitJobSafe,
     StartJobRaisesSafe, CancelSafe DEF MainThread
<1>4. ASSUME NEW a \in Jobs, JobStep(a) PROVE IInv'
  BY <1>1, <1>4, RunJobSafe, DeliverCancelSafe, SettleJobSafe, SettleRaisesSafe,
     SettleLostSafe, EndJobSafe DEF JobStep
<1>5. ASSUME NEW a \in Jobs, NEW b \in Servers, TaskStep(a, b) PROVE IInv'
  BY <1>1, <1>5, SkipCancelledSafe, MarkCancelledRaisesSafe, WaitForSlotSafe,
     EnterTaskSafe, ProgressSafe, FailTaskSafe, FailureLostSafe, WriteCompletedSafe,
     RefreshServerSafe, RefreshRaisesSafe DEF TaskStep, AtGate, AfterVerdict
<1>6. CASE Process
  BY <1>1, <1>6, ShutdownSafe, DrainTaskSafe, ExitSafe, LaunchSafe, SweepTaskSafe,
     SweepJobSafe, SweepOrphansSafe DEF Process, Sweeping
<1>7. QED
  BY <1>2, <1>3, <1>4, <1>5, <1>6 DEF Next

\* The inductive invariant holds of every reachable state.
THEOREM Safety == Spec => []IInv
<1>1. QED
  BY InitSafe, NextSafe, PTL DEF Spec

\* No crash, quit, sweep or failed write leaves a job row 'running' in an
\* application that is up without the coroutine that will close it.
THEOREM NoJobIsStranded == Spec => []NoStrandedJob
<1>1. IInv => NoStrandedJob
  BY DEF IInv, JobInv, NoStrandedJob
<1>2. QED
  BY <1>1, Safety, PTL

\* The same of an unfinished task row, as long as no row write has failed.
THEOREM NoTaskIsStranded == Spec => []NoStrandedTask
<1>1. ASSUME IInv, faults = 0, mode = "up", NEW j \in Jobs, SomeIn(j, NonTerminal)
      PROVE  Live(j) \/ gui.job = j
  <2>1. jobs[j].state \in Unsettled
    BY <1>1 DEF IInv, TypeOK, JobRow, JobInv, ClosedAfterTasks, Settled, SomeIn,
                NonTerminal, InFlight
  <2>2. QED
    BY <1>1, <2>1 DEF IInv, JobInv, Unsettled
<1>2. IInv => NoStrandedTask
  BY <1>1 DEF NoStrandedTask
<1>3. QED
  BY <1>2, Safety, PTL

\* A job row carries a verdict only once all its task rows do.
THEOREM JobsCloseAfterTheirTasks == Spec => []ClosedAfterTasks
<1>1. IInv => ClosedAfterTasks
  BY DEF IInv
<1>2. QED
  BY <1>1, Safety, PTL

\* Neither path that computes a verdict makes it better than the task rows,
\* even when row writes fail.
THEOREM VerdictsNeverFlatter == Spec => []VerdictNeverFlatters
<1>1. IInv => VerdictNeverFlatters
  BY DEF IInv
<1>2. QED
  BY <1>1, Safety, PTL

-----------------------------------------------------------------------------
(* What a step may never do.                                               *)

\* The steps ResultsAreFinal and CancelledTaskNeverStarts allow.
KeepsVerdict(j) == faults' = 0 /\ Settled(j) => jobs'[j] = jobs[j]

KeepsResult(j, s) ==
  faults' = 0 /\ tasks[j][s] \in Terminal => tasks'[j][s] = tasks[j][s]

HonoursCancel(j, s) ==
  run[j].cancel /\ coro[j][s] \in {"spawned", "waiting"} =>
    coro'[j][s] # "running" /\ tasks'[j][s] \in {"queued", "failed"}

\* What a step does to the semaphore of a job.
SlotStep(j) ==
  \/ Holding(j)' \subseteq Holding(j) /\ jobs'[j].conc = jobs[j].conc
  \/ Holding(j)' = {}
  \/ \E s \in Servers : /\ SlotFree(j) /\ jobs'[j].conc = jobs[j].conc
                        /\ Holding(j)' = Holding(j) \cup {s}

\* No action rewrites a verdict while the writes succeed.
LEMMA VerdictStep ==
  ASSUME IInv, TypeOK', Next, NEW j \in Jobs
  PROVE  KeepsVerdict(j)
<1>a. \A a \in Jobs : run[a].pc = "gather" => ~Settled(a)
  BY DEF IInv, JobInv, Live, Settled, JobVerdicts
<1> USE DEF IInv, TypeOK, JobRow, RunLocals, GuiInv, QuietInv, JobInv, TaskInv, SweepInv, Live,
            Idle, NoSweep, NoRun, Settled, JobVerdicts, Unsettled, Terminal, NonTerminal, InFlight,
            InState, KeepsVerdict
<1>1. ASSUME NEW a \in Jobs, NEW ids \in SUBSET Servers,
             NEW request \in ConcurrencyRequests, BeginJob(a, ids, request) PROVE KeepsVerdict(j)
  BY <1>1 DEF BeginJob
<1>2. ASSUME NEW b \in Servers, CreateTask(b) PROVE KeepsVerdict(j)
  BY <1>2 DEF CreateTask
<1>3. ASSUME NEW b \in Servers, SkipMissingServer(b) PROVE KeepsVerdict(j)
  BY <1>3 DEF SkipMissingServer
<1>4. CASE SubmitJob
  BY <1>4 DEF SubmitJob
<1>5. CASE StartJobRaises
  BY <1>5 DEF StartJobRaises
<1>6. CASE Cancel
  BY <1>6 DEF Cancel
<1>7. ASSUME NEW a \in Jobs, RunJob(a) PROVE KeepsVerdict(j)
  BY <1>7 DEF RunJob
<1>8. ASSUME NEW a \in Jobs, DeliverCancel(a) PROVE KeepsVerdict(j)
  BY <1>8 DEF DeliverCancel
<1>9. ASSUME NEW a \in Jobs, SettleJob(a) PROVE KeepsVerdict(j)
  <2>1. ~Settled(a) /\ tasks' = tasks /\ (j # a => jobs'[j] = jobs[j])
    BY <1>9, <1>a DEF SettleJob, Gathered, IInv, TypeOK
  <2>2. QED
    BY <2>1 DEF KeepsVerdict
<1>10. ASSUME NEW a \in Jobs, SettleRaises(a) PROVE KeepsVerdict(j)
  BY <1>10 DEF SettleRaises
<1>11. ASSUME NEW a \in Jobs, SettleLost(a) PROVE KeepsVerdict(j)
  BY <1>11 DEF SettleLost
<1>12. ASSUME NEW a \in Jobs, EndJob(a) PROVE KeepsVerdict(j)
  BY <1>12 DEF EndJob
<1>13. ASSUME NEW a \in Jobs, NEW b \in Servers, SkipCancelled(a, b) PROVE KeepsVerdict(j)
  BY <1>13 DEF SkipCancelled, AtCancelCheck
<1>14. ASSUME NEW a \in Jobs, NEW b \in Servers, MarkCancelledRaises(a, b) PROVE KeepsVerdict(j)
  BY <1>14 DEF MarkCancelledRaises, AtCancelCheck
<1>15. ASSUME NEW a \in Jobs, NEW b \in Servers, WaitForSlot(a, b) PROVE KeepsVerdict(j)
  BY <1>15 DEF WaitForSlot
<1>16. ASSUME NEW a \in Jobs, NEW b \in Servers, EnterTask(a, b) PROVE KeepsVerdict(j)
  BY <1>16 DEF EnterTask, AtCancelCheck
<1>17. ASSUME NEW a \in Jobs, NEW b \in Servers, NEW state \in PluginStates,
             Progress(a, b, state) PROVE KeepsVerdict(j)
  BY <1>17 DEF Progress
<1>18. ASSUME NEW a \in Jobs, NEW b \in Servers, FailTask(a, b) PROVE KeepsVerdict(j)
  BY <1>18 DEF FailTask
<1>19. ASSUME NEW a \in Jobs, NEW b \in Servers, FailureLost(a, b) PROVE KeepsVerdict(j)
  BY <1>19 DEF FailureLost
<1>20. ASSUME NEW a \in Jobs, NEW b \in Servers, WriteCompleted(a, b) PROVE KeepsVerdict(j)
  BY <1>20 DEF WriteCompleted
<1>21. ASSUME NEW a \in Jobs, NEW b \in Servers, RefreshServer(a, b) PROVE KeepsVerdict(j)
  BY <1>21 DEF RefreshServer
<1>22. ASSUME NEW a \in Jobs, NEW b \in Servers, RefreshRaises(a, b) PROVE KeepsVerdict(j)
  BY <1>22 DEF RefreshRaises
<1>23. ASSUME NEW a \in Jobs, NEW b \in Servers, DrainTask(a, b) PROVE KeepsVerdict(j)
  BY <1>23 DEF DrainTask
<1>24. CASE Shutdown
  BY <1>24 DEF Shutdown
<1>25. CASE Exit \/ Crash
  BY <1>25 DEF Exit, Crash, Forget
<1>26. CASE Launch
  BY <1>26 DEF Launch
<1>27. ASSUME NEW a \in Jobs, NEW b \in Servers, SweepTask(a, b) PROVE KeepsVerdict(j)
  BY <1>27 DEF SweepTask
<1>28. ASSUME NEW a \in Jobs, SweepJob(a) PROVE KeepsVerdict(j)
  <2>1. faults = 0 => ~Settled(a)
    BY <1>28 DEF SweepJob
  <2>2. faults' = faults /\ (j # a => jobs'[j] = jobs[j])
    BY <1>28 DEF SweepJob
  <2>3. QED
    BY <2>1, <2>2
<1>29. CASE SweepOrphans
  BY <1>29 DEF SweepOrphans, Swept, JobsFailedFrom
<1>30. QED
  BY <1>1, <1>2, <1>3, <1>4, <1>5, <1>6, <1>7, <1>8, <1>9, <1>10, <1>11, <1>12,
     <1>13, <1>14, <1>15, <1>16, <1>17, <1>18, <1>19, <1>20, <1>21, <1>22,
     <1>23, <1>24, <1>25, <1>26, <1>27, <1>28, <1>29
     DEF Next, MainThread, JobStep, TaskStep, AtGate, AfterVerdict, Process, Sweeping

\* Nor the result of a task.
LEMMA ResultStep ==
  ASSUME IInv, TypeOK', Next, NEW j \in Jobs, NEW s \in Servers
  PROVE  KeepsResult(j, s)
<1>a. \A a \in Jobs, b \in Servers : coro[a][b] = "running" => tasks[a][b] \notin Terminal
  BY DEF IInv, TaskInv, NonTerminal, InFlight, Terminal
<1>b. \A a \in Jobs : \A b \in sweep.todo[a] : mode = "sweep" => tasks[a][b] \notin Terminal
  BY DEF IInv, SweepInv, InState, NonTerminal, InFlight, Terminal
<1> USE DEF IInv, TypeOK, JobRow, RunLocals, GuiInv, QuietInv, JobInv, TaskInv, SweepInv, Live,
            Idle, NoSweep, NoRun, Settled, JobVerdicts, Unsettled, Terminal, NonTerminal, InFlight,
            InState, KeepsResult
<1>1. ASSUME NEW a \in Jobs, NEW ids \in SUBSET Servers,
             NEW request \in ConcurrencyRequests, BeginJob(a, ids, request) PROVE KeepsResult(j, s)
  BY <1>1 DEF BeginJob
<1>2. ASSUME NEW b \in Servers, CreateTask(b) PROVE KeepsResult(j, s)
  BY <1>2 DEF CreateTask
<1>3. ASSUME NEW b \in Servers, SkipMissingServer(b) PROVE KeepsResult(j, s)
  BY <1>3 DEF SkipMissingServer
<1>4. CASE SubmitJob
  BY <1>4 DEF SubmitJob
<1>5. CASE StartJobRaises
  BY <1>5 DEF StartJobRaises
<1>6. CASE Cancel
  BY <1>6 DEF Cancel
<1>7. ASSUME NEW a \in Jobs, RunJob(a) PROVE KeepsResult(j, s)
  BY <1>7 DEF RunJob
<1>8. ASSUME NEW a \in Jobs, DeliverCancel(a) PROVE KeepsResult(j, s)
  BY <1>8 DEF DeliverCancel
<1>9. ASSUME NEW a \in Jobs, SettleJob(a) PROVE KeepsResult(j, s)
  BY <1>9 DEF SettleJob
<1>10. ASSUME NEW a \in Jobs, SettleRaises(a) PROVE KeepsResult(j, s)
  BY <1>10 DEF SettleRaises
<1>11. ASSUME NEW a \in Jobs, SettleLost(a) PROVE KeepsResult(j, s)
  BY <1>11 DEF SettleLost
<1>12. ASSUME NEW a \in Jobs, EndJob(a) PROVE KeepsResult(j, s)
  BY <1>12 DEF EndJob
<1>13. ASSUME NEW a \in Jobs, NEW b \in Servers, SkipCancelled(a, b) PROVE KeepsResult(j, s)
  BY <1>13 DEF SkipCancelled, AtCancelCheck
<1>14. ASSUME NEW a \in Jobs, NEW b \in Servers, MarkCancelledRaises(a, b) PROVE KeepsResult(j, s)
  BY <1>14 DEF MarkCancelledRaises, AtCancelCheck
<1>15. ASSUME NEW a \in Jobs, NEW b \in Servers, WaitForSlot(a, b) PROVE KeepsResult(j, s)
  BY <1>15 DEF WaitForSlot
<1>16. ASSUME NEW a \in Jobs, NEW b \in Servers, EnterTask(a, b) PROVE KeepsResult(j, s)
  BY <1>16 DEF EnterTask, AtCancelCheck
<1>17. ASSUME NEW a \in Jobs, NEW b \in Servers, NEW state \in PluginStates, Progress(a, b, state)
      PROVE  KeepsResult(j, s)
  <2>1. a = j /\ b = s => tasks[j][s] \notin Terminal
    BY <1>17, <1>a DEF Progress
  <2>2. jobs' = jobs /\ (~(a = j /\ b = s) => tasks'[j][s] = tasks[j][s])
    BY <1>17 DEF Progress, IInv, TypeOK
  <2>3. QED
    BY <2>1, <2>2 DEF KeepsResult
<1>18. ASSUME NEW a \in Jobs, NEW b \in Servers, FailTask(a, b)
      PROVE  KeepsResult(j, s)
  <2>1. a = j /\ b = s => tasks[j][s] \notin Terminal
    BY <1>18, <1>a DEF FailTask
  <2>2. jobs' = jobs /\ (~(a = j /\ b = s) => tasks'[j][s] = tasks[j][s])
    BY <1>18 DEF FailTask, IInv, TypeOK
  <2>3. QED
    BY <2>1, <2>2 DEF KeepsResult
<1>19. ASSUME NEW a \in Jobs, NEW b \in Servers, FailureLost(a, b) PROVE KeepsResult(j, s)
  BY <1>19 DEF FailureLost
<1>20. ASSUME NEW a \in Jobs, NEW b \in Servers, WriteCompleted(a, b)
      PROVE  KeepsResult(j, s)
  <2>1. a = j /\ b = s => tasks[j][s] \notin Terminal
    BY <1>20, <1>a DEF WriteCompleted
  <2>2. jobs' = jobs /\ (~(a = j /\ b = s) => tasks'[j][s] = tasks[j][s])
    BY <1>20 DEF WriteCompleted, IInv, TypeOK
  <2>3. QED
    BY <2>1, <2>2 DEF KeepsResult
<1>21. ASSUME NEW a \in Jobs, NEW b \in Servers, RefreshServer(a, b) PROVE KeepsResult(j, s)
  BY <1>21 DEF RefreshServer
<1>22. ASSUME NEW a \in Jobs, NEW b \in Servers, RefreshRaises(a, b) PROVE KeepsResult(j, s)
  BY <1>22 DEF RefreshRaises
<1>23. ASSUME NEW a \in Jobs, NEW b \in Servers, DrainTask(a, b)
      PROVE  KeepsResult(j, s)
  <2>1. a = j /\ b = s => tasks[j][s] \notin Terminal
    BY <1>23, <1>a DEF DrainTask
  <2>2. jobs' = jobs /\ (~(a = j /\ b = s) => tasks'[j][s] = tasks[j][s])
    BY <1>23 DEF DrainTask, IInv, TypeOK
  <2>3. QED
    BY <2>1, <2>2 DEF KeepsResult
<1>24. CASE Shutdown
  BY <1>24 DEF Shutdown
<1>25. CASE Exit \/ Crash
  BY <1>25 DEF Exit, Crash, Forget
<1>26. CASE Launch
  BY <1>26 DEF Launch
<1>27. ASSUME NEW a \in Jobs, NEW b \in Servers, SweepTask(a, b)
      PROVE  KeepsResult(j, s)
  <2>1. a = j /\ b = s => tasks[j][s] \notin Terminal
    BY <1>27, <1>b DEF SweepTask
  <2>2. jobs' = jobs /\ (~(a = j /\ b = s) => tasks'[j][s] = tasks[j][s])
    BY <1>27 DEF SweepTask, IInv, TypeOK
  <2>3. QED
    BY <2>1, <2>2 DEF KeepsResult
<1>28. ASSUME NEW a \in Jobs, SweepJob(a) PROVE KeepsResult(j, s)
  BY <1>28 DEF SweepJob
<1>29. CASE SweepOrphans
  BY <1>29 DEF SweepOrphans, Swept, JobsFailedFrom
<1>30. QED
  BY <1>1, <1>2, <1>3, <1>4, <1>5, <1>6, <1>7, <1>8, <1>9, <1>10, <1>11, <1>12,
     <1>13, <1>14, <1>15, <1>16, <1>17, <1>18, <1>19, <1>20, <1>21, <1>22,
     <1>23, <1>24, <1>25, <1>26, <1>27, <1>28, <1>29
     DEF Next, MainThread, JobStep, TaskStep, AtGate, AfterVerdict, Process, Sweeping

\* No action starts a task whose coroutine has still to read the cancel event.
LEMMA CancelStep ==
  ASSUME IInv, TypeOK', Next, NEW j \in Jobs, NEW s \in Servers
  PROVE  HonoursCancel(j, s)
<1> USE DEF IInv, TypeOK, JobRow, RunLocals, GuiInv, QuietInv, JobInv, TaskInv, SweepInv, Live,
            Idle, NoSweep, NoRun, Settled, JobVerdicts, Unsettled, Terminal, NonTerminal, InFlight,
            InState, HonoursCancel
<1>1. ASSUME NEW a \in Jobs, NEW ids \in SUBSET Servers,
             NEW request \in ConcurrencyRequests, BeginJob(a, ids, request) PROVE HonoursCancel(j, s)
  BY <1>1 DEF BeginJob
<1>2. ASSUME NEW b \in Servers, CreateTask(b) PROVE HonoursCancel(j, s)
  BY <1>2 DEF CreateTask
<1>3. ASSUME NEW b \in Servers, SkipMissingServer(b) PROVE HonoursCancel(j, s)
  BY <1>3 DEF SkipMissingServer
<1>4. CASE SubmitJob
  BY <1>4 DEF SubmitJob
<1>5. CASE StartJobRaises
  BY <1>5 DEF StartJobRaises
<1>6. CASE Cancel
  BY <1>6 DEF Cancel
<1>7. ASSUME NEW a \in Jobs, RunJob(a) PROVE HonoursCancel(j, s)
  BY <1>7 DEF RunJob
<1>8. ASSUME NEW a \in Jobs, DeliverCancel(a) PROVE HonoursCancel(j, s)
  BY <1>8 DEF DeliverCancel
<1>9. ASSUME NEW a \in Jobs, SettleJob(a) PROVE HonoursCancel(j, s)
  BY <1>9 DEF SettleJob
<1>10. ASSUME NEW a \in Jobs, SettleRaises(a) PROVE HonoursCancel(j, s)
  BY <1>10 DEF SettleRaises
<1>11. ASSUME NEW a \in Jobs, SettleLost(a) PROVE HonoursCancel(j, s)
  BY <1>11 DEF SettleLost
<1>12. ASSUME NEW a \in Jobs, EndJob(a) PROVE HonoursCancel(j, s)
  BY <1>12 DEF EndJob
<1>13. ASSUME NEW a \in Jobs, NEW b \in Servers, SkipCancelled(a, b) PROVE HonoursCancel(j, s)
  BY <1>13 DEF SkipCancelled, AtCancelCheck
<1>14. ASSUME NEW a \in Jobs, NEW b \in Servers, MarkCancelledRaises(a, b) PROVE HonoursCancel(j, s)
  BY <1>14 DEF MarkCancelledRaises, AtCancelCheck
<1>15. ASSUME NEW a \in Jobs, NEW b \in Servers, WaitForSlot(a, b) PROVE HonoursCancel(j, s)
  BY <1>15 DEF WaitForSlot
<1>16. ASSUME NEW a \in Jobs, NEW b \in Servers, EnterTask(a, b) PROVE HonoursCancel(j, s)
  BY <1>16 DEF EnterTask, AtCancelCheck
<1>17. ASSUME NEW a \in Jobs, NEW b \in Servers, NEW state \in PluginStates,
             Progress(a, b, state) PROVE HonoursCancel(j, s)
  BY <1>17, PluginAssumption DEF Progress
<1>18. ASSUME NEW a \in Jobs, NEW b \in Servers, FailTask(a, b) PROVE HonoursCancel(j, s)
  BY <1>18 DEF FailTask
<1>19. ASSUME NEW a \in Jobs, NEW b \in Servers, FailureLost(a, b) PROVE HonoursCancel(j, s)
  BY <1>19 DEF FailureLost
<1>20. ASSUME NEW a \in Jobs, NEW b \in Servers, WriteCompleted(a, b) PROVE HonoursCancel(j, s)
  BY <1>20 DEF WriteCompleted
<1>21. ASSUME NEW a \in Jobs, NEW b \in Servers, RefreshServer(a, b) PROVE HonoursCancel(j, s)
  BY <1>21 DEF RefreshServer
<1>22. ASSUME NEW a \in Jobs, NEW b \in Servers, RefreshRaises(a, b) PROVE HonoursCancel(j, s)
  BY <1>22 DEF RefreshRaises
<1>23. ASSUME NEW a \in Jobs, NEW b \in Servers, DrainTask(a, b) PROVE HonoursCancel(j, s)
  BY <1>23 DEF DrainTask
<1>24. CASE Shutdown
  BY <1>24 DEF Shutdown
<1>25. CASE Exit \/ Crash
  BY <1>25 DEF Exit, Crash, Forget
<1>26. CASE Launch
  BY <1>26 DEF Launch
<1>27. ASSUME NEW a \in Jobs, NEW b \in Servers, SweepTask(a, b) PROVE HonoursCancel(j, s)
  BY <1>27 DEF SweepTask
<1>28. ASSUME NEW a \in Jobs, SweepJob(a) PROVE HonoursCancel(j, s)
  BY <1>28 DEF SweepJob
<1>29. CASE SweepOrphans
  BY <1>29 DEF SweepOrphans, Swept, JobsFailedFrom
<1>30. QED
  BY <1>1, <1>2, <1>3, <1>4, <1>5, <1>6, <1>7, <1>8, <1>9, <1>10, <1>11, <1>12,
     <1>13, <1>14, <1>15, <1>16, <1>17, <1>18, <1>19, <1>20, <1>21, <1>22,
     <1>23, <1>24, <1>25, <1>26, <1>27, <1>28, <1>29
     DEF Next, MainThread, JobStep, TaskStep, AtGate, AfterVerdict, Process, Sweeping

\* An action takes at most one slot, and only a free one.
LEMMA SemaphoreStep ==
  ASSUME IInv, TypeOK', Next, NEW j \in Jobs
  PROVE  SlotStep(j)
<1> USE DEF IInv, TypeOK, JobRow, RunLocals, GuiInv, QuietInv, JobInv, TaskInv, SweepInv, Live,
            Idle, NoSweep, NoRun, Settled, JobVerdicts, Unsettled, Terminal, NonTerminal, InFlight,
            InState, Holding, SlotStep
<1>1. ASSUME NEW a \in Jobs, NEW ids \in SUBSET Servers,
             NEW request \in ConcurrencyRequests, BeginJob(a, ids, request) PROVE SlotStep(j)
  BY <1>1 DEF BeginJob
<1>2. ASSUME NEW b \in Servers, CreateTask(b) PROVE SlotStep(j)
  BY <1>2 DEF CreateTask
<1>3. ASSUME NEW b \in Servers, SkipMissingServer(b) PROVE SlotStep(j)
  BY <1>3 DEF SkipMissingServer
<1>4. CASE SubmitJob
  BY <1>4 DEF SubmitJob
<1>5. CASE StartJobRaises
  BY <1>5 DEF StartJobRaises
<1>6. CASE Cancel
  BY <1>6 DEF Cancel
<1>7. ASSUME NEW a \in Jobs, RunJob(a) PROVE SlotStep(j)
  BY <1>7 DEF RunJob
<1>8. ASSUME NEW a \in Jobs, DeliverCancel(a) PROVE SlotStep(j)
  BY <1>8 DEF DeliverCancel
<1>9. ASSUME NEW a \in Jobs, SettleJob(a) PROVE SlotStep(j)
  BY <1>9 DEF SettleJob
<1>10. ASSUME NEW a \in Jobs, SettleRaises(a) PROVE SlotStep(j)
  BY <1>10 DEF SettleRaises
<1>11. ASSUME NEW a \in Jobs, SettleLost(a) PROVE SlotStep(j)
  BY <1>11 DEF SettleLost
<1>12. ASSUME NEW a \in Jobs, EndJob(a) PROVE SlotStep(j)
  BY <1>12 DEF EndJob
<1>13. ASSUME NEW a \in Jobs, NEW b \in Servers, SkipCancelled(a, b) PROVE SlotStep(j)
  BY <1>13 DEF SkipCancelled, AtCancelCheck
<1>14. ASSUME NEW a \in Jobs, NEW b \in Servers, MarkCancelledRaises(a, b) PROVE SlotStep(j)
  BY <1>14 DEF MarkCancelledRaises, AtCancelCheck
<1>15. ASSUME NEW a \in Jobs, NEW b \in Servers, WaitForSlot(a, b) PROVE SlotStep(j)
  BY <1>15 DEF WaitForSlot
<1>16. ASSUME NEW a \in Jobs, NEW b \in Servers, EnterTask(a, b) PROVE SlotStep(j)
  <2>1. SlotFree(a) /\ jobs' = jobs /\ coro' = [coro EXCEPT ![a][b] = "running"]
    BY <1>16 DEF EnterTask
  <2>2. CASE j = a
    <3>1. Holding(j)' = Holding(j) \cup {b}
      BY <2>1, <2>2
    <3> HIDE DEF Holding
    <3>2. QED
      BY <2>1, <2>2, <3>1
  <2>3. CASE j # a
    BY <2>1, <2>3
  <2>4. QED
    BY <2>2, <2>3
<1>17. ASSUME NEW a \in Jobs, NEW b \in Servers, NEW state \in PluginStates,
             Progress(a, b, state) PROVE SlotStep(j)
  BY <1>17 DEF Progress
<1>18. ASSUME NEW a \in Jobs, NEW b \in Servers, FailTask(a, b) PROVE SlotStep(j)
  BY <1>18 DEF FailTask
<1>19. ASSUME NEW a \in Jobs, NEW b \in Servers, FailureLost(a, b) PROVE SlotStep(j)
  BY <1>19 DEF FailureLost
<1>20. ASSUME NEW a \in Jobs, NEW b \in Servers, WriteCompleted(a, b) PROVE SlotStep(j)
  BY <1>20 DEF WriteCompleted
<1>21. ASSUME NEW a \in Jobs, NEW b \in Servers, RefreshServer(a, b) PROVE SlotStep(j)
  BY <1>21 DEF RefreshServer
<1>22. ASSUME NEW a \in Jobs, NEW b \in Servers, RefreshRaises(a, b) PROVE SlotStep(j)
  BY <1>22 DEF RefreshRaises
<1>23. ASSUME NEW a \in Jobs, NEW b \in Servers, DrainTask(a, b) PROVE SlotStep(j)
  BY <1>23 DEF DrainTask
<1>24. CASE Shutdown
  BY <1>24 DEF Shutdown
<1>25. CASE Exit \/ Crash
  BY <1>25 DEF Exit, Crash, Forget
<1>26. CASE Launch
  BY <1>26 DEF Launch
<1>27. ASSUME NEW a \in Jobs, NEW b \in Servers, SweepTask(a, b) PROVE SlotStep(j)
  BY <1>27 DEF SweepTask
<1>28. ASSUME NEW a \in Jobs, SweepJob(a) PROVE SlotStep(j)
  BY <1>28 DEF SweepJob
<1>29. CASE SweepOrphans
  BY <1>29 DEF SweepOrphans, Swept, JobsFailedFrom
<1>30. QED
  BY <1>1, <1>2, <1>3, <1>4, <1>5, <1>6, <1>7, <1>8, <1>9, <1>10, <1>11, <1>12,
     <1>13, <1>14, <1>15, <1>16, <1>17, <1>18, <1>19, <1>20, <1>21, <1>22,
     <1>23, <1>24, <1>25, <1>26, <1>27, <1>28, <1>29
     DEF Next, MainThread, JobStep, TaskStep, AtGate, AfterVerdict, Process, Sweeping

\* A finished task keeps its result and a closed job its verdict and counters,
\* across cancels, crashes and relaunches, as long as no row write fails.
THEOREM ResultsStayFinal == Spec => ResultsAreFinal
<1> DEFINE B == faults' = 0 =>
                  \A j \in Jobs :
                    /\ Settled(j) => jobs'[j] = jobs[j]
                    /\ \A s \in Servers :
                         tasks[j][s] \in Terminal => tasks'[j][s] = tasks[j][s]
<1>1. ASSUME IInv, TypeOK', Next PROVE B
  BY <1>1, VerdictStep, ResultStep DEF KeepsVerdict, KeepsResult
<1>2. IInv /\ TypeOK' /\ [Next]_vars => [B]_vars
  BY <1>1
<1>3. [][B]_vars => ResultsAreFinal
  BY DEF ResultsAreFinal
<1>4. QED
  BY <1>2, <1>3, Safety, TypeCorrect, PTL DEF Spec

\* A task the cancel event finds outside the semaphore is never flashed.
THEOREM CancelIsHonoured == Spec => CancelledTaskNeverStarts
<1> DEFINE B == \A j \in Jobs, s \in Servers :
                  run[j].cancel /\ coro[j][s] \in {"spawned", "waiting"} =>
                    coro'[j][s] # "running" /\ tasks'[j][s] \in {"queued", "failed"}
<1>1. ASSUME IInv, TypeOK', Next PROVE B
  BY <1>1, CancelStep DEF HonoursCancel
<1>2. IInv /\ TypeOK' /\ [Next]_vars => [B]_vars
  BY <1>1
<1>3. [][B]_vars => CancelledTaskNeverStarts
  BY DEF CancelledTaskNeverStarts
<1>4. QED
  BY <1>2, <1>3, Safety, TypeCorrect, PTL DEF Spec

\* The semaphore: a job never has more tasks inside _run_task than its width.
THEOREM SemaphoreHolds == Spec => []ConcurrencyBounded
<1>1. Init => ConcurrencyBounded
  <2>1. Init => \A j \in Jobs : Holding(j) = {} /\ jobs[j].conc = 1
    BY DEF Init, Holding, NoRow
  <2>2. QED
    BY <2>1, FS_EmptySet DEF ConcurrencyBounded
<1>2. ASSUME IInv, TypeOK', Next, ConcurrencyBounded PROVE ConcurrencyBounded'
  <2> SUFFICES ASSUME NEW j \in Jobs PROVE Cardinality(Holding(j)') <= jobs'[j].conc
    BY DEF ConcurrencyBounded
  <2>1. /\ IsFiniteSet(Holding(j)) /\ Cardinality(Holding(j)) \in Nat
        /\ jobs[j].conc \in Nat /\ jobs'[j].conc \in Nat \ {0}
    <3>1. jobs[j] \in JobRow /\ jobs'[j] \in JobRow
      BY <1>2 DEF IInv, TypeOK
    <3>2. QED
      BY <3>1, FiniteParts DEF Holding, JobRow, MaxConcurrency
  <2>2. CASE Holding(j)' \subseteq Holding(j) /\ jobs'[j].conc = jobs[j].conc
    <3>1. Cardinality(Holding(j)') <= Cardinality(Holding(j)) /\ Cardinality(Holding(j)') \in Nat
      BY <2>1, <2>2, FS_Subset, FS_CardinalityType
    <3>2. QED
      BY <1>2, <2>1, <2>2, <3>1 DEF ConcurrencyBounded
  <2>3. CASE Holding(j)' = {}
    BY <2>1, <2>3, FS_EmptySet
  <2>4. ASSUME NEW s \in Servers, SlotFree(j), jobs'[j].conc = jobs[j].conc,
               Holding(j)' = Holding(j) \cup {s}
        PROVE  Cardinality(Holding(j)') <= jobs'[j].conc
    <3>1. Cardinality(Holding(j)') \in {Cardinality(Holding(j)), Cardinality(Holding(j)) + 1}
      BY <2>1, <2>4, FS_AddElement
    <3>2. QED
      BY <2>1, <2>4, <3>1 DEF SlotFree
  <2>5. QED
    BY <1>2, <2>2, <2>3, <2>4, SemaphoreStep DEF SlotStep
<1>3. ConcurrencyBounded /\ UNCHANGED vars => ConcurrencyBounded'
  BY DEF ConcurrencyBounded, Holding, vars
<1>4. IInv /\ TypeOK' /\ ConcurrencyBounded /\ [Next]_vars => ConcurrencyBounded'
  BY <1>2, <1>3
<1>5. QED
  BY <1>1, <1>4, Safety, TypeCorrect, PTL DEF Spec

\* After the sweep of a launch no job row is unsettled and no task row unfinished,
\* however many statements raised before.
THEOREM LaunchesCloseAll == Spec => LaunchClosesAll
<1> DEFINE B == mode = "sweep" /\ mode' = "up" =>
                  \A j \in Jobs :
                    /\ jobs'[j].state \notin Unsettled
                    /\ \A s \in Servers : tasks'[j][s] \notin NonTerminal
<1>1. ASSUME IInv, Next, mode = "sweep", mode' = "up", NEW j \in Jobs
      PROVE  /\ jobs'[j].state \notin Unsettled
             /\ \A s \in Servers : tasks'[j][s] \notin NonTerminal
  <2>1. SweepOrphans
    BY <1>1 DEF Next, MainThread, JobStep, TaskStep, AtGate, AfterVerdict, Process, Sweeping,
       BeginJob, CreateTask, SkipMissingServer, SubmitJob, StartJobRaises, Cancel, RunJob,
       DeliverCancel, SettleJob, SettleRaises, SettleLost, EndJob, Gathered, SkipCancelled,
       MarkCancelledRaises, WaitForSlot, EnterTask, AtCancelCheck, Progress, FailTask,
       FailureLost, WriteCompleted, RefreshServer, RefreshRaises, Shutdown, DrainTask, Exit,
       Crash, Launch, SweepTask, SweepJob
  <2>2. jobs'[j].state \notin Unsettled
    <3>1. jobs[j] \in JobRow
      BY <1>1 DEF IInv, TypeOK
    <3>2. QED
      BY <2>1, <3>1 DEF SweepOrphans, Swept, JobsFailedFrom, JobRow, Unsettled
  <2>3. InState(j, NonTerminal) = {}
    BY <1>1, <2>1 DEF IInv, SweepInv, SweepOrphans, NoSweep
  <2>4. QED
    BY <2>1, <2>2, <2>3 DEF SweepOrphans, InState
<1>2. IInv /\ [Next]_vars => [B]_vars
  BY <1>1
<1>3. [][B]_vars => LaunchClosesAll
  BY DEF LaunchClosesAll
<1>4. QED
  BY <1>2, <1>3, Safety, PTL DEF Spec

====
