----------------------- MODULE UpdateControllerProofs -----------------------
(***************************************************************************)
(* What the Updates page adds to UpdateJobs, and what both tables promise  *)
(* to whoever reads them.  A step of the page is a step of the jobs, so    *)
(* the invariant of UpdateJobsProofs holds here too; UiInv adds what ties  *)
(* the flag, the signals and the Cancel clicks of the page to the jobs.    *)
(* The second half maps the tables to JobLedger and shows that every step, *)
(* crashes, quits and sweeps included, is one of the ledger or none.       *)
(***************************************************************************)
EXTENDS UpdateController, UpdateJobsProofs

-----------------------------------------------------------------------------
(* The page.                                                               *)

\* The flag is set before a job can end and cleared after the only job has ended: of
\* a job being created, a live job and an end not handled yet there is one at a time.
FlagInv ==
  /\ uiRunning \in BOOLEAN /\ inbox \subseteq Jobs
  /\ gui.phase = "creating" => ~uiRunning
  /\ ~uiRunning => inbox = {} /\ \A j \in Jobs : ~Live(j)
  /\ inbox # {} => \A j \in Jobs : ~Live(j)
  /\ \A j, k \in inbox : j = k
  /\ \A j \in Jobs : Live(j) => uiJob = j

\* An event that was set, or will be, is that of a job the operator was shown; the
\* event of a job that is over reaches no live one, as no job is live twice.
ClickInv ==
  /\ cancelRef # NoJob => run[cancelRef].pc \notin {"idle", "submitted"}
  /\ \A j \in cancelPosted : run[j].pc # "idle" /\ (Live(j) => j \in asked)
  /\ \A j \in Jobs : Live(j) /\ run[j].cancel => j \in asked

UiInv == FlagInv /\ ClickInv

\* Every step of the page is a step of the jobs, or none.
LEMMA UiStepIsJobStep == [UiNext]_allVars => [Next]_vars
<1>1. ASSUME NEW j \in Jobs, NEW ids \in SUBSET Servers, NEW request \in ConcurrencyRequests,
             UiStart(j, ids, request)
      PROVE  Next
  BY <1>1 DEF UiStart, Next, MainThread
<1>2. UiStarting => Next
  BY DEF UiStarting, Next, MainThread
<1>3. UiStarted => Next
  BY DEF UiStarted, Next, MainThread
<1>4. UiCancel => Next \/ UNCHANGED vars
  BY DEF UiCancel, Next, MainThread
<1>5. ASSUME NEW j \in Jobs, UiJobEnds(j) \/ UiHandlesEnd(j) PROVE Next \/ UNCHANGED vars
  BY <1>5 DEF UiJobEnds, UiHandlesEnd, Next, JobStep
<1>6. EngineStep => Next
  BY DEF EngineStep, Next, JobStep
<1>7. UiProcess => Next
  BY DEF UiProcess, Next
<1>8. UNCHANGED allVars => UNCHANGED vars
  BY DEF allVars
<1> QED
  BY <1>1, <1>2, <1>3, <1>4, <1>5, <1>6, <1>7, <1>8 DEF UiNext

LEMMA UiIsJobs == UiSpec => Spec
<1>1. UiInit => Init
  BY DEF UiInit
<1> QED
  BY <1>1, UiStepIsJobStep, PTL DEF UiSpec, Spec

\* What the page needs to know of the jobs.
LEMMA Runs ==
  ASSUME IInv
  PROVE  /\ run \in [Jobs -> RunLocals] /\ cancelRef \in Jobs \cup {NoJob}
         /\ cancelPosted \subseteq Jobs /\ NoJob \notin Jobs
         /\ \A j \in Jobs : run[j].pc \in {"idle", "submitted", "gather", "closing", "done"}
BY JobsAssumption DEF IInv, TypeOK, RunLocals

\* A step that neither starts, ends nor cancels a job leaves the page's invariant.
LEMMA UiFrame ==
  ASSUME UiInv, UNCHANGED uiVars, gui'.phase = "creating" => gui.phase = "creating",
         \A j \in Jobs : run'[j].pc = run[j].pc /\ run'[j].cancel = run[j].cancel,
         cancelRef' = cancelRef, cancelRef \in Jobs \cup {NoJob},
         cancelPosted' = cancelPosted, cancelPosted \subseteq Jobs
  PROVE  UiInv'
<1>1. uiRunning' = uiRunning /\ uiJob' = uiJob /\ inbox' = inbox /\ asked' = asked
  BY DEF uiVars
<1>2. \A j \in Jobs : Live(j)' <=> Live(j)
  BY DEF Live
<1>3. FlagInv'
  BY <1>1, <1>2 DEF UiInv, FlagInv
<1>4. ClickInv'
  BY <1>1, <1>2 DEF UiInv, ClickInv
<1> QED
  BY <1>3, <1>4 DEF UiInv

LEMMA UiStartKeeps ==
  ASSUME IInv, UiInv, NEW a \in Jobs, NEW ids \in SUBSET Servers,
         NEW request \in ConcurrencyRequests, UiStart(a, ids, request)
  PROVE  UiInv'
<1>1. /\ ~uiRunning /\ UNCHANGED <<uiRunning, uiJob, inbox, asked, run, cancelRef, cancelPosted>>
  BY DEF UiStart, BeginJob, uiVars
<1> QED
  BY <1>1 DEF UiInv, FlagInv, ClickInv, Live

LEMMA UiStartingKeeps == ASSUME IInv, UiInv, UiStarting PROVE UiInv'
<1>1. gui \in [phase : {"idle", "creating"}, job : Jobs \cup {NoJob}, todo : SUBSET Servers]
  BY DEF IInv, TypeOK
<1>2. /\ UNCHANGED uiVars
      /\ gui'.phase = "creating" => gui.phase = "creating"
      /\ run' = run /\ cancelRef' = cancelRef /\ cancelPosted' = cancelPosted
  BY <1>1 DEF UiStarting, StartJobRaises, CreateTask, SkipMissingServer, Idle
<1> QED
  BY <1>2, Runs, UiFrame

LEMMA UiStartedKeeps == ASSUME IInv, UiInv, UiStarted PROVE UiInv'
<1> DEFINE a == gui.job
<1>1. /\ gui.phase = "creating" /\ gui' = Idle /\ uiRunning' = TRUE /\ uiJob' = a
      /\ inbox' = inbox /\ asked' = asked /\ cancelRef' = cancelRef
      /\ cancelPosted' = cancelPosted
      /\ run' = [run EXCEPT ![a] = [NoRun EXCEPT !.pc = "submitted"]]
  BY DEF UiStarted, SubmitJob
<1>2. a \in Jobs /\ run[a].pc = "idle"
  BY <1>1 DEF IInv, GuiInv
<1> HIDE DEF a
<1>3. /\ run'[a].pc = "submitted" /\ run'[a].cancel = FALSE
      /\ \A j \in Jobs : j # a => run'[j] = run[j]
  BY <1>1, <1>2, Runs DEF NoRun
<1>4. /\ inbox = {} /\ \A j \in Jobs : ~Live(j)
      /\ cancelRef # a /\ a \notin cancelPosted
  BY <1>1, <1>2, JobsAssumption DEF UiInv, FlagInv, ClickInv
<1>5. \A j \in Jobs : Live(j)' => j = a
  BY <1>3, <1>4 DEF Live
<1>6. FlagInv'
  BY <1>1, <1>4, <1>5 DEF FlagInv, Idle
<1>7. ClickInv'
  BY <1>1, <1>3, <1>4, <1>5, Runs DEF UiInv, ClickInv
<1> QED
  BY <1>6, <1>7 DEF UiInv

LEMMA UiCancelKeeps == ASSUME IInv, UiInv, UiCancel PROVE UiInv'
<1>1. /\ cancelPosted' \subseteq (cancelPosted \cup {cancelRef}) \ {NoJob}
      /\ cancelRef' = cancelRef /\ run' = run /\ gui' = gui
      /\ asked' = asked \cup {uiJob} /\ uiRunning' = uiRunning /\ uiJob' = uiJob
      /\ inbox' = inbox
  BY Runs DEF UiCancel, Cancel, vars
<1>2. FlagInv'
  BY <1>1 DEF UiInv, FlagInv, Live
<1>3. ASSUME NEW j \in cancelPosted' PROVE run[j].pc # "idle" /\ (Live(j) => j \in asked')
  <2>1. CASE j \in cancelPosted
    BY <1>1, <2>1 DEF UiInv, ClickInv
  <2>2. CASE j = cancelRef /\ j # NoJob
    <3>1. run[j].pc # "idle" /\ (Live(j) => uiJob = j)
      BY <2>2, Runs DEF UiInv, ClickInv, FlagInv
    <3> QED
      BY <1>1, <3>1
  <2> QED
    BY <1>1, <2>1, <2>2
<1>4. ClickInv'
  BY <1>1, <1>3 DEF UiInv, ClickInv, Live
<1> QED
  BY <1>2, <1>4 DEF UiInv

\* A job that stops being live, with the signal or without it.
LEMMA EndKeeps ==
  ASSUME IInv, UiInv, NEW a \in Jobs, run[a].pc = "gather",
         run' = [run EXCEPT ![a].pc = "closing"],
         UNCHANGED <<gui, cancelRef, cancelPosted, uiRunning, uiJob, asked>>,
         inbox' \in {inbox, inbox \cup {a}}
  PROVE  UiInv'
<1>1. /\ run'[a].pc = "closing" /\ \A j \in Jobs : j # a => run'[j] = run[j]
      /\ \A j \in Jobs : run'[j].cancel = run[j].cancel
  BY Runs DEF RunLocals
<1>2. Live(a) /\ uiJob = a /\ uiRunning /\ inbox = {} /\ \A j \in Jobs : Live(j) => j = a
  BY DEF UiInv, FlagInv, Live
<1>3. \A j \in Jobs : ~Live(j)'
  BY <1>1, <1>2 DEF Live
<1>4. FlagInv'
  BY <1>2, <1>3 DEF UiInv, FlagInv
<1>5. ClickInv'
  BY <1>1, <1>3, Runs DEF UiInv, ClickInv
<1> QED
  BY <1>4, <1>5 DEF UiInv

LEMMA UiJobEndsKeeps == ASSUME IInv, UiInv, NEW a \in Jobs, UiJobEnds(a) PROVE UiInv'
<1>1. /\ run[a].pc = "gather" /\ run' = [run EXCEPT ![a].pc = "closing"]
      /\ UNCHANGED <<gui, cancelRef, cancelPosted, uiRunning, uiJob, asked>>
      /\ inbox' = inbox \cup {a}
  BY DEF UiJobEnds, SettleJob, SettleRaises, Gathered
<1> QED
  BY <1>1, EndKeeps

LEMMA UiHandlesEndKeeps == ASSUME IInv, UiInv, NEW a \in Jobs, UiHandlesEnd(a) PROVE UiInv'
<1>1. /\ a \in inbox /\ inbox' = inbox \ {a} /\ uiRunning' = FALSE /\ gui.phase = "idle"
      /\ UNCHANGED <<run, gui, cancelRef, cancelPosted, uiJob, asked>>
  BY DEF UiHandlesEnd, vars
<1>2. inbox' = {} /\ \A j \in Jobs : ~Live(j)
  BY <1>1 DEF UiInv, FlagInv
<1> QED
  BY <1>1, <1>2 DEF UiInv, FlagInv, ClickInv, Live

LEMMA EngineStepKeeps == ASSUME IInv, UiInv, EngineStep PROVE UiInv'
<1>0. uiRunning' = uiRunning /\ uiJob' = uiJob /\ inbox' = inbox /\ asked' = asked
  BY DEF EngineStep, uiVars
<1>1. ASSUME NEW a \in Jobs, RunJob(a) PROVE UiInv'
  <2>1. /\ run[a].pc = "submitted" /\ run'[a].pc = "gather" /\ run'[a].cancel = run[a].cancel
        /\ \A j \in Jobs : j # a => run'[j] = run[j]
        /\ cancelRef' = a /\ gui' = gui /\ cancelPosted' = cancelPosted
    BY <1>1, Runs DEF RunJob, RunLocals
  <2>2. \A j \in Jobs : Live(j)' <=> Live(j)
    BY <2>1 DEF Live
  <2>3. FlagInv'
    BY <1>0, <2>1, <2>2 DEF UiInv, FlagInv
  <2>4. ClickInv'
    BY <1>0, <2>1, <2>2, Runs DEF UiInv, ClickInv
  <2> QED
    BY <2>3, <2>4 DEF UiInv
<1>2. ASSUME NEW a \in Jobs, DeliverCancel(a) PROVE UiInv'
  <2>1. /\ a \in cancelPosted /\ cancelPosted' = cancelPosted \ {a}
        /\ cancelRef' = cancelRef /\ gui' = gui
        /\ \A j \in Jobs : run'[j].pc = run[j].pc /\ (j # a => run'[j] = run[j])
    BY <1>2, Runs DEF DeliverCancel, RunLocals
  <2>2. \A j \in Jobs : Live(j)' <=> Live(j)
    BY <2>1 DEF Live
  <2>3. FlagInv'
    BY <1>0, <2>1, <2>2 DEF UiInv, FlagInv
  <2>4. ClickInv'
    BY <1>0, <2>1, <2>2, Runs DEF UiInv, ClickInv
  <2> QED
    BY <2>3, <2>4 DEF UiInv
<1>3. ASSUME NEW a \in Jobs, SettleLost(a) PROVE UiInv'
  <2>1. /\ run[a].pc = "gather" /\ run' = [run EXCEPT ![a].pc = "closing"]
        /\ UNCHANGED <<gui, cancelRef, cancelPosted, uiRunning, uiJob, asked>>
        /\ inbox' = inbox
    BY <1>0, <1>3 DEF SettleLost, Gathered
  <2> QED
    BY <2>1, EndKeeps
<1>4. ASSUME NEW a \in Jobs, EndJob(a) PROVE UiInv'
  <2>1. /\ run[a].pc = "closing" /\ run'[a].pc = "done"
        /\ \A j \in Jobs : (j # a => run'[j] = run[j]) /\ run'[j].cancel = run[j].cancel
        /\ cancelRef' \in {NoJob, cancelRef} /\ (cancelRef = a => cancelRef' = NoJob)
        /\ gui' = gui /\ cancelPosted' = cancelPosted
    BY <1>4, Runs DEF EndJob, RunLocals
  <2>2. \A j \in Jobs : Live(j)' <=> Live(j)
    BY <2>1 DEF Live
  <2>3. FlagInv'
    BY <1>0, <2>1, <2>2 DEF UiInv, FlagInv
  <2>4. ClickInv'
    BY <1>0, <2>1, <2>2, Runs DEF UiInv, ClickInv
  <2> QED
    BY <2>3, <2>4 DEF UiInv
<1>5. ASSUME NEW a \in Jobs, NEW b \in Servers, TaskStep(a, b) PROVE UiInv'
  <2>1. /\ \A j \in Jobs : run'[j].pc = run[j].pc /\ run'[j].cancel = run[j].cancel
        /\ gui' = gui /\ cancelRef' = cancelRef /\ cancelPosted' = cancelPosted
    BY <1>5, Runs
    DEF TaskStep, AtGate, AfterVerdict, SkipCancelled, MarkCancelledRaises, WaitForSlot,
        EnterTask, Progress, FailTask, FailureLost, WriteCompleted, RefreshServer,
        RefreshRaises, RunLocals
  <2> QED
    BY <1>0, <2>1, Runs, UiFrame DEF uiVars
<1> QED
  BY <1>1, <1>2, <1>3, <1>4, <1>5 DEF EngineStep

LEMMA UiProcessKeeps == ASSUME IInv, UiInv, UiProcess PROVE UiInv'
<1>1. CASE Exit \/ Crash
  <2>1. /\ uiRunning' = FALSE /\ inbox' = {} /\ asked' = {} /\ gui' = Idle
        /\ cancelRef' = NoJob /\ cancelPosted' = {} /\ \A j \in Jobs : run'[j] = NoRun
    BY <1>1 DEF UiProcess, Exit, Crash, Forget
  <2>2. gui'.phase # "creating" /\ \A j \in Jobs : ~Live(j)'
    BY <2>1 DEF Live, NoRun, Idle
  <2>3. FlagInv'
    BY <2>1, <2>2 DEF FlagInv
  <2>4. ClickInv'
    BY <2>1, <2>2 DEF ClickInv
  <2> QED
    BY <2>3, <2>4 DEF UiInv
<1>2. CASE Shutdown \/ Launch \/ Sweeping
  <2>1. /\ UNCHANGED uiVars /\ run' = run /\ gui' = gui
        /\ cancelRef' = cancelRef /\ cancelPosted' = cancelPosted
    BY <1>2 DEF UiProcess, Shutdown, Launch, Sweeping, SweepTask, SweepJob, SweepOrphans
  <2> QED
    BY <2>1, Runs, UiFrame
<1>3. ASSUME NEW a \in Jobs, NEW b \in Servers, DrainTask(a, b) PROVE UiInv'
  <2>1. /\ \A j \in Jobs : run'[j].pc = run[j].pc /\ run'[j].cancel = run[j].cancel
        /\ gui' = gui /\ cancelRef' = cancelRef /\ cancelPosted' = cancelPosted
        /\ mode' = "stopping"
    BY <1>3, Runs DEF DrainTask, RunLocals
  <2>2. UNCHANGED uiVars
    BY <2>1 DEF UiProcess
  <2> QED
    BY <2>1, <2>2, Runs, UiFrame
<1> QED
  BY <1>1, <1>2, <1>3 DEF UiProcess, Process

LEMMA UiKeeps == IInv /\ UiInv /\ [UiNext]_allVars => UiInv'
<1> SUFFICES ASSUME IInv, UiInv, [UiNext]_allVars PROVE UiInv'
  OBVIOUS
<1>1. CASE UNCHANGED allVars
  BY <1>1, Runs, UiFrame DEF allVars, vars
<1> QED
  BY <1>1, UiStartKeeps, UiStartingKeeps, UiStartedKeeps, UiCancelKeeps, UiJobEndsKeeps,
     UiHandlesEndKeeps, EngineStepKeeps, UiProcessKeeps
  DEF UiNext

LEMMA PageInvariant == UiSpec => [](IInv /\ UiInv)
<1>1. UiInit => UiInv
  <2> SUFFICES ASSUME UiInit PROVE UiInv
    OBVIOUS
  <2>1. /\ uiRunning = FALSE /\ inbox = {} /\ cancelRef = NoJob /\ cancelPosted = {}
        /\ gui.phase # "creating" /\ \A j \in Jobs : ~Live(j)
    BY DEF UiInit, Init, Live, NoRun, Idle
  <2>2. FlagInv
    BY <2>1 DEF FlagInv
  <2>3. ClickInv
    BY <2>1 DEF ClickInv
  <2> QED
    BY <2>2, <2>3 DEF UiInv
<1> QED
  BY <1>1, UiKeeps, UiIsJobs, Safety, PTL DEF UiSpec

\* The flag is cleared by a signal from another thread, later than the job ends, and
\* set after its submission: still, while Start is offered no job is live, for any
\* number of jobs, any interleaving and any row writes that raise.
THEOREM StartIsOfferedWhenIdle == UiSpec => []StartOfferedOnlyWhenIdle
<1>1. UiInv => StartOfferedOnlyWhenIdle
  BY DEF UiInv, FlagInv, StartOfferedOnlyWhenIdle
<1> QED
  BY <1>1, PageInvariant, PTL

\* A click on Cancel goes to the loop as a callback and may be run after its job has
\* ended and another has begun: no job is cancelled but one shown when it was clicked.
THEOREM CancelHits == UiSpec => []CancelHitsItsJob
<1>1. UiInv => CancelHitsItsJob
  BY DEF UiInv, ClickInv, CancelHitsItsJob
<1> QED
  BY <1>1, PageInvariant, PTL

-----------------------------------------------------------------------------
(* The ledger.  A row is read through JobAs and TaskAs; what a step of the  *)
(* jobs does to the rows, read so, is a step of JobLedger or nothing.       *)

\* The rows of a behaviour in which no write has raised so far.
Clean == IInv /\ faults = 0

LEMMA RowsRead ==
  /\ \A j \in Jobs : ledgerJobs[j] = JobAs(jobs[j].state)
  /\ \A j \in Jobs, s \in Servers : ledgerTasks[j][s] = TaskAs(tasks[j][s])
BY DEF ledgerJobs, ledgerTasks

\* "open" is read of an unfinished task only, and a result only of itself.
LEMMA TaskReadings ==
  ASSUME NEW state
  PROVE  /\ TaskAs(state) = "open" <=> state \in NonTerminal \cup {"open"}
         /\ TaskAs(state) = "failed" <=> state = "failed"
         /\ TaskAs(state) = "completed" <=> state = "completed"
         /\ TaskAs("none") = "absent" /\ TaskAs("queued") = "open"
<1>1. "none" \notin NonTerminal /\ "queued" \in NonTerminal
  BY DEF NonTerminal, InFlight
<1> QED
  BY <1>1 DEF TaskAs, NonTerminal, InFlight

LEMMA JobReadings ==
  /\ JobAs("none") = "absent"
  /\ \A state \in Unsettled : JobAs(state) = "open"
  /\ \A state \in JobVerdicts : JobAs(state) = state
BY DEF JobAs, Unsettled, JobVerdicts

LEMMA SameRows == rows' = rows => UNCHANGED Ledger!ledger
BY DEF rows, ledgerJobs, ledgerTasks, Ledger!ledger

\* A step that only moves an open job or an open task leaves the ledger alone.
LEMMA SameReadings ==
  ASSUME \A j \in Jobs : JobAs(jobs[j].state)' = JobAs(jobs[j].state),
         \A j \in Jobs, s \in Servers : TaskAs(tasks[j][s])' = TaskAs(tasks[j][s])
  PROVE  UNCHANGED Ledger!ledger
<1>1. ledgerJobs' = ledgerJobs
  BY DEF ledgerJobs
<1>2. ledgerTasks' = ledgerTasks
  BY DEF ledgerTasks
<1> QED
  BY <1>1, <1>2 DEF Ledger!ledger

\* What one task row reads after it was written.
LEMMA TaskWritten ==
  ASSUME TypeOK, NEW a \in Jobs, NEW b \in Servers, NEW state,
         tasks' = [tasks EXCEPT ![a][b] = state]
  PROVE  ledgerTasks' = [ledgerTasks EXCEPT ![a][b] = TaskAs(state)]
<1>1. \A j \in Jobs, s \in Servers :
        tasks'[j][s] = IF j = a /\ s = b THEN state ELSE tasks[j][s]
  BY DEF TypeOK
<1>2. ASSUME NEW j \in Jobs, NEW s \in Servers
      PROVE  ledgerTasks'[j][s] = IF j = a /\ s = b THEN TaskAs(state) ELSE ledgerTasks[j][s]
  BY <1>1 DEF ledgerTasks, TaskAs
<1>3. /\ ledgerTasks' = [j \in Jobs |-> ledgerTasks'[j]]
      /\ \A j \in Jobs :
           /\ ledgerTasks[j] = [s \in Servers |-> ledgerTasks[j][s]]
           /\ ledgerTasks'[j] = [s \in Servers |-> ledgerTasks'[j][s]]
  BY DEF ledgerTasks
<1>4. ledgerTasks'[a] = [ledgerTasks[a] EXCEPT ![b] = TaskAs(state)]
  BY <1>2, <1>3
<1>5. \A j \in Jobs : j # a => ledgerTasks'[j] = ledgerTasks[j]
  BY <1>2, <1>3
<1> DEFINE row == [ledgerTasks[a] EXCEPT ![b] = TaskAs(state)]
<1>6. DOMAIN ledgerTasks = Jobs
  BY DEF ledgerTasks
<1> HIDE DEF row
<1>7. ledgerTasks' = [ledgerTasks EXCEPT ![a] = row]
  BY <1>3, <1>4, <1>5, <1>6 DEF row
<1> QED
  BY <1>7 DEF row

LEMMA FinishStep ==
  ASSUME Clean, NEW a \in Jobs, NEW b \in Servers, NEW result \in {"completed", "failed"},
         jobs[a].state \in Unsettled, tasks[a][b] \in NonTerminal,
         tasks' = [tasks EXCEPT ![a][b] = result], jobs' = jobs
  PROVE  Ledger!Next
<1>0. TypeOK /\ TaskAs(result) = result
  BY TaskReadings DEF Clean, IInv
<1>1. ledgerTasks' = [ledgerTasks EXCEPT ![a][b] = result]
  BY <1>0, TaskWritten
<1>2. ledgerJobs' = ledgerJobs
  BY DEF ledgerJobs
<1>3. ledgerJobs[a] = "open" /\ ledgerTasks[a][b] = "open"
  BY RowsRead, JobReadings, TaskReadings
<1>4. Ledger!Finish(a, b)
  BY <1>1, <1>2, <1>3 DEF Ledger!Finish
<1> QED
  BY <1>4 DEF Ledger!Next

\* The invariant after the step is what makes the verdict fit.
LEMMA VerdictFits ==
  ASSUME Clean', NEW j \in Jobs, jobs'[j].state \in JobVerdicts, tasks' = tasks
  PROVE  Ledger!Fits(j, jobs'[j].state)
<1>1. tasks \in [Jobs -> [Servers -> TaskStates]] /\ ~lost'
  BY DEF Clean, IInv, TypeOK
<1>2. ~SomeIn(j, NonTerminal)
  BY DEF Clean, IInv, ClosedAfterTasks, Settled, SomeIn
<1>3. \A s \in Servers : tasks[j][s] # "open"
  BY <1>1 DEF TaskStates, NonTerminal, InFlight, Terminal
<1>4. ~Ledger!Has(j, "open")
  BY <1>2, <1>3, RowsRead, TaskReadings DEF Ledger!Has, SomeIn
<1>5. /\ jobs'[j].state = "completed" => ~SomeIn(j, {"failed"})
      /\ jobs'[j].state = "completed_with_errors" =>
           SomeIn(j, {"completed"}) /\ SomeIn(j, {"failed"})
  BY <1>1 DEF Clean, IInv, VerdictNeverFlatters, SomeIn
<1>6. /\ Ledger!Has(j, "failed") <=> SomeIn(j, {"failed"})
      /\ Ledger!Has(j, "completed") <=> SomeIn(j, {"completed"})
  BY RowsRead, TaskReadings DEF Ledger!Has, SomeIn
<1> QED
  BY <1>4, <1>5, <1>6 DEF Ledger!Fits

LEMMA CloseStep ==
  ASSUME Clean, Clean', NEW S \in SUBSET Jobs, tasks' = tasks,
         \A j \in S : jobs[j].state \in Unsettled /\ jobs'[j].state \in JobVerdicts,
         \A j \in Jobs \ S : jobs'[j].state = jobs[j].state
  PROVE  Ledger!Next
<1> DEFINE verdict == [j \in S |-> jobs'[j].state]
<1>1. verdict \in [S -> Ledger!Verdicts]
  BY DEF Ledger!Verdicts, JobVerdicts
<1>2. \A j \in S : ledgerJobs[j] = "open"
  BY RowsRead, JobReadings
<1>3. \A j \in S : Ledger!Fits(j, verdict[j])
  BY VerdictFits
<1>4. \A j \in Jobs : JobAs(jobs[j].state)' = IF j \in S THEN verdict[j] ELSE ledgerJobs[j]
  <2>1. ASSUME NEW j \in S PROVE JobAs(jobs[j].state)' = jobs'[j].state
    BY <2>1 DEF JobAs, JobVerdicts, Unsettled
  <2>2. ASSUME NEW j \in Jobs \ S PROVE JobAs(jobs[j].state)' = ledgerJobs[j]
    BY <2>2, RowsRead DEF JobAs
  <2> QED
    BY <2>1, <2>2
<1>5. ledgerJobs' = [j \in Jobs |-> IF j \in S THEN verdict[j] ELSE ledgerJobs[j]]
  BY <1>4 DEF ledgerJobs
<1>6. ledgerTasks' = ledgerTasks
  BY DEF ledgerTasks
<1> HIDE DEF verdict
<1>7. Ledger!Close(S)
  BY <1>1, <1>2, <1>3, <1>5, <1>6 DEF Ledger!Close
<1> QED
  BY <1>7 DEF Ledger!Next

LEMMA CloseOneStep ==
  ASSUME Clean, Clean', NEW a \in Jobs, tasks' = tasks,
         jobs[a].state \in Unsettled, jobs'[a].state \in JobVerdicts,
         \A j \in Jobs : j # a => jobs'[j] = jobs[j]
  PROVE  Ledger!Next
<1>1. /\ {a} \in SUBSET Jobs
      /\ \A j \in {a} : jobs[j].state \in Unsettled /\ jobs'[j].state \in JobVerdicts
      /\ \A j \in Jobs \ {a} : jobs'[j].state = jobs[j].state
  OBVIOUS
<1> QED
  BY <1>1, CloseStep

\* A task whose coroutine is under way is one of a job the table calls running.
LEMMA UnderWay ==
  ASSUME Clean, NEW a \in Jobs, NEW b \in Servers, coro[a][b] \notin {"idle", "done"}
  PROVE  jobs[a].state \in Unsettled
<1>1. TaskInv(a, b) /\ JobInv(a)
  BY DEF Clean, IInv
<1> QED
  BY <1>1 DEF TaskInv, JobInv, Live, Unsettled

LEMMA MainThreadLedger ==
  ASSUME Clean, Clean', MainThread
  PROVE  Ledger!Next \/ UNCHANGED Ledger!ledger
<1> DEFINE L == Ledger!Next \/ UNCHANGED Ledger!ledger
<1> HIDE DEF L
<1>0. /\ jobs \in [Jobs -> JobRow] /\ tasks \in [Jobs -> [Servers -> TaskStates]]
      /\ GuiInv
  BY DEF Clean, IInv, TypeOK
<1>1. ASSUME NEW j \in Jobs, NEW ids \in SUBSET Servers,
             NEW request \in ConcurrencyRequests, BeginJob(j, ids, request)
      PROVE  L
  <2>1. jobs[j].state = "none" /\ jobs'[j].state = "pending" /\ tasks' = tasks
    BY <1>0, <1>1 DEF BeginJob, NoRow
  <2>2. \A k \in Jobs : k # j => jobs'[k] = jobs[k]
    BY <1>0, <1>1 DEF BeginJob
  <2>3. ledgerJobs[j] = "absent" /\ JobAs(jobs[j].state)' = "open"
    BY <2>1, RowsRead, JobReadings DEF JobAs, Unsettled
  <2>4. \A k \in Jobs : k # j => JobAs(jobs[k].state)' = ledgerJobs[k]
    BY <2>2, RowsRead DEF JobAs
  <2>5. ledgerJobs' = [ledgerJobs EXCEPT ![j] = "open"]
    BY <2>3, <2>4 DEF ledgerJobs
  <2>6. ledgerTasks' = ledgerTasks
    BY <2>1 DEF ledgerTasks
  <2>7. Ledger!Open(j)
    BY <2>3, <2>5, <2>6 DEF Ledger!Open
  <2> QED
    BY <2>7 DEF L, Ledger!Next
<1>2. ASSUME NEW s \in Servers, CreateTask(s) PROVE L
  <2>1. /\ gui.phase = "creating" /\ jobs' = jobs
        /\ tasks' = [tasks EXCEPT ![gui.job][s] = "queued"]
    <3>1. gui \in [phase : {"idle", "creating"}, job : Jobs \cup {NoJob}, todo : SUBSET Servers]
      BY DEF Clean, IInv, TypeOK
    <3> QED
      BY <1>0, <1>2, <3>1 DEF CreateTask, GuiInv, Idle
  <2>2. gui.job \in Jobs /\ jobs[gui.job].state \in Unsettled
    BY <1>0, <2>1 DEF GuiInv, Unsettled
  <2>3. tasks[gui.job][s] \in {"none", "queued"}
    BY <2>1, <2>2 DEF Clean, IInv, TaskInv
  <2>4. CASE tasks[gui.job][s] = "queued"
    <3>1. tasks' = tasks
      BY <1>0, <2>1, <2>2, <2>4
    <3> QED
      BY <2>1, <3>1, SameRows DEF rows, L
  <2>5. CASE tasks[gui.job][s] = "none"
    <3>1. TypeOK /\ TaskAs("queued") = "open" /\ TaskAs("none") = "absent"
      BY TaskReadings DEF Clean, IInv
    <3>2. ledgerTasks' = [ledgerTasks EXCEPT ![gui.job][s] = TaskAs("queued")]
      BY <2>1, <2>2, <3>1, TaskWritten
    <3>3. ledgerJobs' = ledgerJobs
      BY <2>1 DEF ledgerJobs
    <3>4. ledgerJobs[gui.job] = "open" /\ ledgerTasks[gui.job][s] = "absent"
      BY <2>2, <2>5, <3>1, RowsRead, JobReadings
    <3>5. Ledger!AddTask(gui.job, s)
      BY <3>1, <3>2, <3>3, <3>4 DEF Ledger!AddTask
    <3> QED
      BY <2>2, <3>5 DEF Ledger!Next, L
  <2> QED
    BY <2>3, <2>4, <2>5
<1>3. CASE SubmitJob
  <2> DEFINE a == gui.job
  <2>1. /\ gui.phase = "creating" /\ tasks' = tasks
        /\ jobs' = [jobs EXCEPT ![a] = [@ EXCEPT !.state = "running",
                                                 !.total = Cardinality(TasksOf(a))]]
    BY <1>3 DEF SubmitJob
  <2>2. a \in Jobs /\ jobs[a].state \in Unsettled
    BY <1>0, <2>1 DEF GuiInv, Unsettled
  <2> HIDE DEF a
  <2>3. /\ jobs'[a].state = "running"
        /\ \A k \in Jobs : k # a => jobs'[k] = jobs[k]
    BY <1>0, <2>1, <2>2 DEF JobRow
  <2>4. \A k \in Jobs : JobAs(jobs[k].state)' = JobAs(jobs[k].state)
    BY <2>2, <2>3 DEF JobAs, Unsettled
  <2>5. \A k \in Jobs, s \in Servers : TaskAs(tasks[k][s])' = TaskAs(tasks[k][s])
    BY <2>1 DEF TaskAs
  <2> QED
    BY <2>4, <2>5, SameReadings DEF L
<1>4. ASSUME NEW s \in Servers, SkipMissingServer(s) PROVE L
  BY <1>4, SameRows DEF SkipMissingServer, rows, L
<1>5. CASE StartJobRaises \/ Cancel
  BY <1>5, SameRows DEF StartJobRaises, Cancel, rows, L
<1> QED
  BY <1>1, <1>2, <1>3, <1>4, <1>5 DEF MainThread, L

LEMMA JobStepLedger ==
  ASSUME Clean, Clean', NEW a \in Jobs, JobStep(a)
  PROVE  Ledger!Next \/ UNCHANGED Ledger!ledger
<1>0. /\ jobs \in [Jobs -> JobRow] /\ run \in [Jobs -> RunLocals] /\ faults \in Nat
      /\ JobInv(a)
  BY DEF Clean, IInv, TypeOK
<1>1. CASE SettleJob(a)
  <2> DEFINE verdict == FinalState(run[a].cancel, run[a].succ, run[a].fail)
  <2>1. /\ run[a].pc = "gather" /\ tasks' = tasks
        /\ jobs' = [jobs EXCEPT ![a] =
             [@ EXCEPT !.state = verdict, !.succ = run[a].succ, !.fail = run[a].fail]]
    BY <1>1 DEF SettleJob, Gathered
  <2>2. verdict \in JobVerdicts
    BY <1>0 DEF FinalState, JobVerdicts, RunLocals
  <2> HIDE DEF verdict
  <2>3. jobs'[a].state \in JobVerdicts /\ \A k \in Jobs : k # a => jobs'[k] = jobs[k]
    BY <1>0, <2>1, <2>2 DEF JobRow
  <2>4. jobs[a].state \in Unsettled
    BY <1>0, <2>1 DEF JobInv, Live, Unsettled
  <2> QED
    BY <2>1, <2>3, <2>4, CloseOneStep
<1>2. ~SettleRaises(a) /\ ~SettleLost(a)
  BY <1>0 DEF Clean, SettleRaises, SettleLost
<1>3. CASE RunJob(a) \/ DeliverCancel(a) \/ EndJob(a)
  BY <1>3, SameRows DEF RunJob, DeliverCancel, EndJob, rows
<1> QED
  BY <1>1, <1>2, <1>3 DEF JobStep

LEMMA TaskStepLedger ==
  ASSUME Clean, Clean', NEW a \in Jobs, NEW b \in Servers, TaskStep(a, b)
  PROVE  Ledger!Next \/ UNCHANGED Ledger!ledger
<1>0. TaskInv(a, b) /\ TypeOK /\ faults = 0 /\ faults' = 0
  BY DEF Clean, IInv
<1>1. CASE SkipCancelled(a, b)
  <2>1. /\ jobs' = jobs /\ tasks' = [tasks EXCEPT ![a][b] = "failed"]
        /\ coro[a][b] \in {"spawned", "waiting"}
    BY <1>1 DEF SkipCancelled, AtCancelCheck
  <2>2. tasks[a][b] \in NonTerminal /\ jobs[a].state \in Unsettled
    BY <1>0, <2>1, UnderWay DEF TaskInv, NonTerminal
  <2> QED
    BY <2>1, <2>2, FinishStep
<1>2. CASE FailTask(a, b) \/ WriteCompleted(a, b)
  <2>1. /\ jobs' = jobs /\ coro[a][b] = "running"
        /\ \/ tasks' = [tasks EXCEPT ![a][b] = "failed"]
           \/ tasks' = [tasks EXCEPT ![a][b] = "completed"]
    BY <1>2 DEF FailTask, WriteCompleted
  <2>2. tasks[a][b] \in NonTerminal /\ jobs[a].state \in Unsettled
    BY <1>0, <2>1, UnderWay DEF TaskInv
  <2>3. CASE tasks' = [tasks EXCEPT ![a][b] = "failed"]
    BY <2>1, <2>2, <2>3, FinishStep
  <2>4. CASE tasks' = [tasks EXCEPT ![a][b] = "completed"]
    BY <2>1, <2>2, <2>4, FinishStep
  <2> QED
    BY <2>1, <2>3, <2>4
<1>3. ASSUME NEW state \in PluginStates, Progress(a, b, state)
      PROVE  UNCHANGED Ledger!ledger
  <2>1. /\ jobs' = jobs /\ tasks[a][b] \in NonTerminal /\ state \in NonTerminal
        /\ tasks' = [tasks EXCEPT ![a][b] = state]
    BY <1>0, <1>3, PluginAssumption DEF Progress, TaskInv, NonTerminal
  <2>2. \A j \in Jobs, s \in Servers :
          tasks'[j][s] = IF j = a /\ s = b THEN state ELSE tasks[j][s]
    BY <1>0, <2>1 DEF TypeOK
  <2>3. \A st \in NonTerminal : TaskAs(st) = "open"
    BY TaskReadings
  <2>4. \A j \in Jobs, s \in Servers : TaskAs(tasks'[j][s]) = TaskAs(tasks[j][s])
    BY <2>1, <2>2, <2>3
  <2>5. \A j \in Jobs, s \in Servers : TaskAs(tasks[j][s])' = TaskAs(tasks[j][s])
    BY <2>4 DEF TaskAs
  <2>6. \A j \in Jobs : JobAs(jobs[j].state)' = JobAs(jobs[j].state)
    BY <2>1 DEF JobAs
  <2> QED
    BY <2>5, <2>6, SameReadings
<1>4. ~MarkCancelledRaises(a, b) /\ ~RefreshRaises(a, b) /\ ~FailureLost(a, b)
  BY <1>0 DEF MarkCancelledRaises, RefreshRaises, FailureLost
<1>5. CASE WaitForSlot(a, b) \/ EnterTask(a, b) \/ RefreshServer(a, b)
  BY <1>5, SameRows DEF WaitForSlot, EnterTask, RefreshServer, rows
<1> QED
  BY <1>1, <1>2, <1>3, <1>4, <1>5 DEF TaskStep, AtGate, AfterVerdict

LEMMA ProcessLedger ==
  ASSUME Clean, Clean', Process
  PROVE  Ledger!Next \/ UNCHANGED Ledger!ledger
<1> DEFINE L == Ledger!Next \/ UNCHANGED Ledger!ledger
<1> HIDE DEF L
<1>0. /\ jobs \in [Jobs -> JobRow] /\ tasks \in [Jobs -> [Servers -> TaskStates]]
      /\ sweep.jobs \subseteq Jobs /\ SweepInv /\ ClosedAfterTasks /\ faults = 0
      /\ \A j \in Jobs : JobInv(j)
      /\ \A j \in Jobs, s \in Servers : TaskInv(j, s)
  BY DEF Clean, IInv, TypeOK
<1>1. ASSUME NEW j \in Jobs, NEW s \in Servers, DrainTask(j, s) PROVE L
  <2>1. /\ jobs' = jobs /\ tasks' = [tasks EXCEPT ![j][s] = "failed"]
        /\ coro[j][s] = "running"
    BY <1>1 DEF DrainTask
  <2>2. tasks[j][s] \in NonTerminal /\ jobs[j].state \in Unsettled
    BY <1>0, <2>1, UnderWay DEF TaskInv
  <2> QED
    BY <2>1, <2>2, FinishStep DEF L
<1>2. ASSUME NEW j \in Jobs, NEW s \in Servers, SweepTask(j, s) PROVE L
  <2>1. /\ jobs' = jobs /\ tasks' = [tasks EXCEPT ![j][s] = "failed"]
        /\ tasks[j][s] \in NonTerminal
    BY <1>0, <1>2 DEF SweepTask, SweepInv, InState
  <2>2. jobs[j].state \notin JobVerdicts /\ jobs[j].state # "none"
    BY <1>0, <2>1 DEF ClosedAfterTasks, Settled, SomeIn, JobInv, NonTerminal, InFlight
  <2>3. jobs[j].state \in Unsettled
    BY <1>0, <2>2 DEF JobRow
  <2> QED
    BY <2>1, <2>3, FinishStep DEF L
<1>3. ASSUME NEW j \in Jobs, SweepJob(j) PROVE L
  <2>1. /\ mode = "sweep" /\ sweep.todo[j] = {} /\ j \in sweep.jobs /\ tasks' = tasks
        /\ jobs' = [jobs EXCEPT ![j] =
             [@ EXCEPT !.state = VerdictFromRows(j),
                       !.total = Cardinality(TasksOf(j)),
                       !.succ = Cardinality(InState(j, {"completed"})),
                       !.fail = Cardinality(InState(j, {"failed"}))]]
    BY <1>3 DEF SweepJob
  <2>2. ~SomeIn(j, NonTerminal) /\ jobs[j].state \in Unsettled
    BY <1>0, <2>1 DEF SweepInv, InState, SomeIn
  <2>3. VerdictFromRows(j) \in JobVerdicts
    BY <2>2 DEF VerdictFromRows, JobVerdicts
  <2>4. jobs'[j].state \in JobVerdicts /\ \A k \in Jobs : k # j => jobs'[k] = jobs[k]
    BY <1>0, <2>1, <2>3 DEF JobRow
  <2> QED
    BY <2>1, <2>2, <2>4, CloseOneStep DEF L
<1>4. CASE SweepOrphans
  <2> DEFINE S == {j \in Jobs : jobs[j].state \in Unsettled}
  <2>1. tasks' = tasks /\ jobs' = Swept
    BY <1>4 DEF SweepOrphans
  <2>2. /\ \A j \in S : jobs[j].state \in Unsettled /\ jobs'[j].state = "failed"
        /\ \A j \in Jobs \ S : jobs'[j] = jobs[j]
    BY <1>0, <2>1 DEF Swept, JobsFailedFrom, JobRow
  <2>3. "failed" \in JobVerdicts
    BY DEF JobVerdicts
  <2> HIDE DEF S
  <2>4. S \in SUBSET Jobs
    BY DEF S
  <2> QED
    BY <2>1, <2>2, <2>3, <2>4, CloseStep DEF L
<1>5. CASE Shutdown \/ Exit \/ Crash \/ Launch
  BY <1>5, SameRows DEF Shutdown, Exit, Crash, Launch, rows, L
<1> QED
  BY <1>1, <1>2, <1>3, <1>4, <1>5 DEF Process, Sweeping, L

\* As long as no row write raises, whoever reads the tables sees the ledger: a job is
\* closed once, after its tasks, with a verdict that fits them, and a task gets one
\* result, whatever the coroutines, the main thread, a crash and the sweep of the next
\* launch did in between.  The hypothesis is needed: RefreshRaises rewrites a result.
THEOREM LedgerIsKept == UiSpec /\ [](faults = 0) => KeepsLedger
<1>1. Init => Ledger!Init
  <2> SUFFICES ASSUME Init PROVE Ledger!Init
    OBVIOUS
  <2>1. \A j \in Jobs : JobAs(jobs[j].state) = "absent"
    BY JobReadings DEF Init, NoRow
  <2>2. \A j \in Jobs, s \in Servers : TaskAs(tasks[j][s]) = "absent"
    BY TaskReadings DEF Init
  <2>3. ledgerJobs = [j \in Jobs |-> "absent"]
    BY <2>1 DEF ledgerJobs
  <2>4. ledgerTasks = [j \in Jobs |-> [s \in Servers |-> "absent"]]
    BY <2>2 DEF ledgerTasks
  <2> QED
    BY <2>3, <2>4 DEF Ledger!Init
<1>2. Clean /\ Clean' /\ [Next]_vars => [Ledger!Next]_(Ledger!ledger)
  <2>1. Clean /\ Clean' /\ Next => Ledger!Next \/ UNCHANGED Ledger!ledger
    BY MainThreadLedger, JobStepLedger, TaskStepLedger, ProcessLedger DEF Next
  <2>2. UNCHANGED vars => UNCHANGED Ledger!ledger
    BY SameRows DEF vars, rows
  <2> QED
    BY <2>1, <2>2
<1>3. IInv /\ faults = 0 => Clean
  BY DEF Clean
<1> QED
  BY <1>1, <1>2, <1>3, UiIsJobs, Safety, PTL DEF KeepsLedger, Ledger!Spec, Spec

=============================================================================
