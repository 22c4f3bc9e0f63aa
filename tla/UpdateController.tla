-------------------------- MODULE UpdateController --------------------------
(***************************************************************************)
(* UpdateJobs driven by its only caller in the application, the Updates    *)
(* page's UpdateController (ui/bridge/controllers.py), which lives on the  *)
(* main thread: a click on Start is refused while _running is set, and     *)
(* _running is cleared by a Qt signal that the engine thread emits when a  *)
(* job has ended and that the main thread handles some time later.         *)
(***************************************************************************)
EXTENDS UpdateJobs

CONSTANT
  MaxTasks   \* bound: task rows that may exist when a job is started

VARIABLES
  uiRunning,   \* self._running
  uiJob,       \* self._current_job_id
  inbox,       \* queued _jobDoneFromEngine and _errorFromEngine signals
  asked        \* history: jobs shown as running when Cancel was clicked

uiVars == <<uiRunning, uiJob, inbox, asked>>
allVars == <<vars, uiVars>>

UiInit ==
  /\ Init
  /\ uiRunning = FALSE /\ uiJob = NoJob /\ inbox = {} /\ asked = {}

\* AUTOINCREMENT: the table hands out the next id, whoever asks.
WithinBounds(j, ids) ==
  /\ jobs[j].state = "none" /\ j = CHOOSE k \in Jobs : jobs[k].state = "none"
  /\ Cardinality({p \in Jobs \X Servers : tasks[p[1]][p[2]] # "none"}) + Cardinality(ids)
       <= MaxTasks

\* Mutation: Start is accepted while a job runs.
UiStartUnguarded(j, ids, request) ==
  /\ WithinBounds(j, ids)
  /\ BeginJob(j, ids, request)
  /\ UNCHANGED uiVars

\* start: the check comes first, the flag is set when start_job has returned.
UiStart(j, ids, request) ==
  /\ ~uiRunning
  /\ WithinBounds(j, ids)
  /\ BeginJob(j, ids, request)
  /\ UNCHANGED uiVars

UiStarting ==
  /\ StartJobRaises \/ \E s \in Servers : CreateTask(s) \/ SkipMissingServer(s)
  /\ UNCHANGED uiVars

UiStarted ==
  /\ SubmitJob
  /\ uiRunning' = TRUE /\ uiJob' = gui.job
  /\ UNCHANGED <<inbox, asked>>

\* The button is there while a job is shown as running, event or no event.
UiCancel ==
  /\ uiRunning /\ mode = "up" /\ gui.phase = "idle"
  /\ Cancel \/ (cancelRef = NoJob /\ UNCHANGED vars)
  /\ asked' = asked \cup {uiJob}
  /\ UNCHANGED <<uiRunning, uiJob, inbox>>

\* Mutation: a cancelled job ends without on_job_done.
UiJobEndsSilently(j) ==
  /\ SettleJob(j) \/ SettleRaises(j)
  /\ inbox' = IF run[j].cancel THEN inbox ELSE inbox \cup {j}
  /\ UNCHANGED <<uiRunning, uiJob, asked>>

\* on_job_done or on_error: a queued connection to the main thread.
UiJobEnds(j) ==
  /\ SettleJob(j) \/ SettleRaises(j)
  /\ inbox' = inbox \cup {j}
  /\ UNCHANGED <<uiRunning, uiJob, asked>>

\* _on_job_done_main, _on_error_main.
UiHandlesEnd(j) ==
  /\ mode = "up" /\ gui.phase = "idle" /\ j \in inbox
  /\ inbox' = inbox \ {j}
  /\ uiRunning' = FALSE
  /\ UNCHANGED <<vars, uiJob, asked>>

EngineStep ==
  /\ \/ \E j \in Jobs : RunJob(j) \/ DeliverCancel(j) \/ SettleLost(j) \/ EndJob(j)
     \/ \E j \in Jobs, s \in Servers : TaskStep(j, s)
  /\ UNCHANGED uiVars

\* The controller dies with the process and is built anew, not running.
UiProcess ==
  /\ Process
  /\ IF mode' = "down"
       THEN uiRunning' = FALSE /\ uiJob' = NoJob /\ inbox' = {} /\ asked' = {}
       ELSE UNCHANGED uiVars

UiNext ==
  \/ \E j \in Jobs, ids \in SUBSET Servers, request \in ConcurrencyRequests :
        UiStart(j, ids, request)
  \/ UiStarting
  \/ UiStarted
  \/ UiCancel
  \/ \E j \in Jobs : UiJobEnds(j) \/ UiHandlesEnd(j)
  \/ EngineStep
  \/ UiProcess

\* The loop runs what is ready, a plugin call ends because each poll has a
\* deadline and each request a timeout, start_job and the sweep are straight-line
\* code, the drain of a shutdown is bounded and Qt delivers what is queued.  The
\* operator owes nothing: nobody has to start, cancel, quit or relaunch.
UiFairness ==
  /\ WF_allVars(UiStarting)
  /\ WF_allVars(UiStarted)
  /\ \A j \in Jobs :
       /\ WF_allVars(RunJob(j) /\ UNCHANGED uiVars)
       /\ WF_allVars(DeliverCancel(j) /\ UNCHANGED uiVars)
       /\ WF_allVars(EndJob(j) /\ UNCHANGED uiVars)
       /\ WF_allVars(UiJobEnds(j))
       /\ WF_allVars(UiHandlesEnd(j))
       /\ \A s \in Servers :
            /\ WF_allVars(AtGate(j, s) /\ UNCHANGED uiVars)
            /\ WF_allVars((FailTask(j, s) \/ WriteCompleted(j, s)) /\ UNCHANGED uiVars)
            /\ WF_allVars(AfterVerdict(j, s) /\ UNCHANGED uiVars)
  /\ WF_allVars(UiProcess /\ Sweeping)
  /\ WF_allVars(UiProcess /\ Exit)

UiSpec == UiInit /\ [][UiNext]_allVars /\ UiFairness

-----------------------------------------------------------------------------
\* When the page offers Start, no flash is under way: the flag is not cleared
\* early and not set late, although it is written on another thread than the
\* one the job runs on.
StartOfferedOnlyWhenIdle ==
  mode = "up" /\ ~uiRunning => \A j \in Jobs : ~Live(j)

\* No live job is cancelled but one the operator saw running when they clicked:
\* a click delivered after its job has ended does not reach the next job.
CancelHitsItsJob ==
  \A j \in Jobs : Live(j) /\ run[j].cancel => j \in asked

\* Every job row that is opened is closed, unless the process is down.
JobSettles ==
  \A j \in Jobs :
    jobs[j].state \in Unsettled ~> Settled(j) \/ mode = "down"

\* The page does not stay busy: whatever happens to the job, the flag clears.
PageBecomesFree == uiRunning ~> ~uiRunning

\* The tables as their readers see them: an unsettled job and an unfinished task
\* are open, whatever they are doing.
JobAs(state) ==
  CASE state = "none"      -> "absent"
    [] state \in Unsettled -> "open"
    [] OTHER               -> state

TaskAs(state) ==
  CASE state = "none"        -> "absent"
    [] state \in NonTerminal -> "open"
    [] OTHER                 -> state

ledgerJobs  == [j \in Jobs |-> JobAs(jobs[j].state)]
ledgerTasks == [j \in Jobs |-> [s \in Servers |-> TaskAs(tasks[j][s])]]

Ledger == INSTANCE JobLedger WITH job <- ledgerJobs, task <- ledgerTasks

\* The tables keep the promise of the abstract ledger through every crash,
\* quit and sweep, as long as no row write raises.
KeepsLedger == Ledger!Spec

=============================================================================
