------------------------- MODULE ProvisioningProofs -------------------------
(***************************************************************************)
(* The safety of bulk OS installs, proved from one inductive invariant.    *)
(* Part of it holds however jobs are started: the row of a job agrees with *)
(* its coroutine, the row of a task with the coroutine that installs it,   *)
(* and a host is reached only through a task with a disk.  The rest needs  *)
(* the Provision page to be the only one who starts jobs, and is stated    *)
(* under OnePage.                                                          *)
(***************************************************************************)
EXTENDS Provisioning, FiniteSetTheorems, TLAPS

-----------------------------------------------------------------------------
(* The inductive invariant, by what each part relates.                     *)

Running == mode \in {"up", "quitting"}

\* start_job on the main thread: its row is still 'pending', nothing runs for it, and
\* the servers it has not come to have no task.
GuiInv ==
  /\ gui.job = NoJob => gui = Idle
  /\ gui.job # NoJob =>
       /\ Running
       /\ jobs[gui.job].state = "pending" /\ run[gui.job].pc = "idle"
       /\ \A s \in gui.todo : tasks[gui.job][s] = NoTask

\* Between two launches nothing is left of the memory of the first.
QuietInv ==
  ~Running =>
    /\ gui = Idle /\ cancelRef = NoJob /\ posted = {} /\ configs = {} /\ page = Shown
    /\ \A j \in Jobs : run[j] = NoRun /\ \A s \in Servers : coro[j][s] = "idle"

\* The row of a job against its coroutine.
JobInv(j) ==
  /\ jobs[j].state = "none" =>
       run[j].pc = "idle" /\ \A s \in Servers : tasks[j][s] = NoTask
  /\ Live(j) => jobs[j].state = "running"
  /\ run[j].pc = "done" => Settled(j)
  /\ Running /\ jobs[j].state = "running" => Live(j)
  /\ Running /\ jobs[j].state = "pending" => gui.job = j

\* The row of a task against its coroutine.
TaskInv(j, s) ==
  /\ run[j].pc \in {"idle", "submitted"} => coro[j][s] = "idle"
  /\ gui.job = j \/ run[j].pc = "submitted" => tasks[j][s].state \in {"none", "queued"}
  /\ run[j].pc \in {"gather", "done"} /\ coro[j][s] = "idle" => tasks[j][s].state = "none"
  /\ coro[j][s] \in {"spawned", "waiting"} => tasks[j][s].state = "queued"
  /\ coro[j][s] \in InSlot => tasks[j][s].state \in NonTerminal /\ tasks[j][s].disk
  /\ coro[j][s] = "done" => tasks[j][s].state \in Terminal
  /\ coro[j][s] \notin {"idle", "done"} => run[j].pc = "gather"
  /\ mode # "down" /\ run[j].pc = "idle" /\ gui.job # j => tasks[j][s].state \notin NonTerminal

WidthKept(j) == Cardinality(Holding(j)) <= jobs[j].width

\* The page starts a job only when it has seen the last one end: of a job being
\* created, a live one and an end not yet seen there is one at a time.
PageInv ==
  /\ gui.job # NoJob => ~page.running
  /\ ~page.running => page.inbox = {} /\ \A j \in Jobs : ~Live(j)
  /\ page.inbox # {} => \A j \in Jobs : ~Live(j)
  /\ \A j, k \in page.inbox : j = k
  /\ \A j, k \in Jobs : Live(j) /\ Live(k) => j = k

\* self._cancel_event is the event of the job that is installing.
EventInv == cancelRef # NoJob => run[cancelRef].pc = "gather"

IInv ==
  /\ TypeOK
  /\ GuiInv
  /\ QuietInv
  /\ \A j \in Jobs : JobInv(j)
  /\ \A j \in Jobs, s \in Servers : TaskInv(j, s)
  /\ ConfigsOnlyWhileInstalling
  /\ TouchedOnlyWithDisk
  /\ \A j \in Jobs : WidthKept(j)
  /\ OnePage => PageInv /\ EventInv /\ CancelBelongsToJob

-----------------------------------------------------------------------------
(* Types.                                                                  *)

JobRow  == [state : {"none", "pending", "running"} \cup Verdicts,
            width : 1 .. MaxWidth, succ : Nat, fail : Nat]
TaskRow == [state : TaskStates, disk : BOOLEAN]
RunRow  == [pc : {"idle", "submitted", "gather", "done"},
            cancel : BOOLEAN, succ : Nat, fail : Nat]
Steady  == {"idle", "spawned", "waiting", "done"} \cup InSlot
BmcRow  == [media : {"empty", "iso"}, host : {"disk", "installer"}]

LEMMA Types ==
  TypeOK <=>
    /\ jobs \in [Jobs -> JobRow] /\ tasks \in [Jobs -> [Servers -> TaskRow]]
    /\ mode \in {"down", "jobs", "up", "quitting"}
    /\ gui \in [job : Jobs \cup {NoJob}, todo : SUBSET Servers]
    /\ run \in [Jobs -> RunRow] /\ coro \in [Jobs -> [Servers -> Steady]]
    /\ cancelRef \in Jobs \cup {NoJob} /\ posted \subseteq Jobs /\ configs \subseteq Pairs
    /\ page \in [running : BOOLEAN, inbox : SUBSET Jobs]
    /\ bmc \in [Servers -> BmcRow]
BY DEF TypeOK, JobRow, TaskRow, RunRow, Steady, BmcRow

\* Whatever width was asked for, start_job (provisioning_orchestrator.py:217) stores one
\* between 1 and 32.
LEMMA ClampBounds == ASSUME NEW n \in Int PROVE Clamp(n) \in 1 .. MaxWidth
BY DEF Clamp, MaxWidth

\* gather's verdict is one of the four, and 'cancelled' only for a cancelled job.
LEMMA Verdict ==
  ASSUME NEW c \in BOOLEAN, NEW a \in Nat, NEW b \in Nat
  PROVE  FinalState(c, a, b) \in Verdicts /\ (FinalState(c, a, b) = "cancelled" <=> c)
<1>1. CASE c
  BY <1>1 DEF FinalState, Verdicts
<1>2. CASE ~c /\ b > 0 /\ a = 0
  BY <1>2 DEF FinalState, Verdicts
<1>3. CASE ~c /\ b > 0 /\ a # 0
  BY <1>3 DEF FinalState, Verdicts
<1>4. CASE ~c /\ ~(b > 0)
  BY <1>4 DEF FinalState, Verdicts
<1> QED
  BY <1>1, <1>2, <1>3, <1>4

\* What a call does to a BMC: the named server's only, and only for a coroutine that
\* is in its slot.
LEMMA EffectLocal ==
  ASSUME TypeOK, NEW j \in Jobs, NEW s \in Servers
  PROVE  /\ Effect(j, s) \in [Servers -> BmcRow]
         /\ \A b \in Servers : b # s => Effect(j, s)[b] = bmc[b]
         /\ coro[j][s] \notin InSlot => Effect(j, s) = bmc
<1>1. bmc \in [Servers -> BmcRow]
  BY Types
<1>2. CASE coro[j][s] = "mounting"
  BY <1>1, <1>2 DEF Effect, Mounted, BmcRow, InSlot
<1>3. CASE coro[j][s] = "cycling"
  BY <1>1, <1>3 DEF Effect, Cycled, BmcRow, InSlot
<1>4. CASE coro[j][s] = "ejecting"
  BY <1>1, <1>4 DEF Effect, Ejected, BmcRow, InSlot
<1>5. CASE coro[j][s] \notin {"mounting", "cycling", "ejecting"}
  BY <1>1, <1>5 DEF Effect
<1> QED
  BY <1>2, <1>3, <1>4, <1>5

WithState(j, s, state) == [tasks EXCEPT ![j][s].state = state]
WithCoro(j, s, pc)     == [coro EXCEPT ![j][s] = pc]

\* A task row written, the others left.
LEMMA RowWritten ==
  ASSUME TypeOK, NEW j \in Jobs, NEW s \in Servers, NEW state \in TaskStates,
         tasks' = WithState(j, s, state)
  PROVE  /\ tasks' \in [Jobs -> [Servers -> TaskRow]]
         /\ tasks'[j][s].state = state /\ tasks'[j][s].disk = tasks[j][s].disk
         /\ \A k \in Jobs, r \in Servers :
              (k # j \/ r # s) => tasks'[k][r] = tasks[k][r]
<1>1. tasks \in [Jobs -> [Servers -> TaskRow]] /\ tasks[j][s] \in TaskRow
  BY Types
<1> DEFINE new == [tasks[j][s] EXCEPT !.state = state]
<1>2. new \in TaskRow /\ new.state = state /\ new.disk = tasks[j][s].disk
  BY <1>1 DEF TaskRow
<1>3. tasks' = [tasks EXCEPT ![j][s] = new]
  BY DEF WithState
<1> HIDE DEF new
<1> QED
  BY <1>1, <1>2, <1>3

\* The end of a task keeps the domains, whatever the result.
LEMMA EndTaskTypes ==
  ASSUME TypeOK, NEW j \in Jobs, NEW s \in Servers, NEW result \in Terminal,
         EndTask(j, s, result), bmc' \in {bmc, Effect(j, s)}
  PROVE  TypeOK'
<1>1. tasks' \in [Jobs -> [Servers -> TaskRow]]
  <2>1. tasks' = WithState(j, s, result) /\ result \in TaskStates
    BY DEF EndTask, TaskStates, WithState
  <2> QED
    BY <2>1, RowWritten
<1>2. run' \in [Jobs -> RunRow]
  <2>1. run \in [Jobs -> RunRow]
    BY Types
  <2>2. CASE result = "completed"
    <3>1. run' = [run EXCEPT ![j].succ = @ + 1]
      BY <2>2 DEF EndTask
    <3> QED
      BY <2>1, <3>1 DEF RunRow
  <2>3. CASE result # "completed"
    <3>1. run' = [run EXCEPT ![j].fail = @ + 1]
      BY <2>3 DEF EndTask
    <3> QED
      BY <2>1, <3>1 DEF RunRow
  <2> QED
    BY <2>2, <2>3
<1>3. coro' \in [Jobs -> [Servers -> Steady]]
  BY Types DEF EndTask, Steady
<1>4. configs' \subseteq Pairs
  BY Types DEF EndTask
<1>5. UNCHANGED <<jobs, mode, gui, cancelRef, posted, page>>
  BY DEF EndTask
<1>6. /\ jobs \in [Jobs -> JobRow] /\ mode \in {"down", "jobs", "up", "quitting"}
      /\ gui \in [job : Jobs \cup {NoJob}, todo : SUBSET Servers]
      /\ cancelRef \in Jobs \cup {NoJob} /\ posted \subseteq Jobs
      /\ page \in [running : BOOLEAN, inbox : SUBSET Jobs]
  BY Types
<1>7. bmc' \in [Servers -> BmcRow]
  BY EffectLocal, Types
<1> QED
  BY <1>1, <1>2, <1>3, <1>4, <1>5, <1>6, <1>7
  DEF TypeOK, JobRow, TaskRow, RunRow, Steady, BmcRow

LEMMA AdvanceTypes ==
  ASSUME TypeOK, NEW j \in Jobs, NEW s \in Servers, NEW from, NEW to \in InSlot,
         NEW state \in Steps, Advance(j, s, from, to, state)
  PROVE  TypeOK'
<1>1. tasks' \in [Jobs -> [Servers -> TaskRow]]
  <2>1. tasks' = WithState(j, s, state) /\ state \in TaskStates
    BY DEF Advance, TaskStates, NonTerminal, WithState
  <2> QED
    BY <2>1, RowWritten
<1>2. coro' \in [Jobs -> [Servers -> Steady]]
  BY Types DEF Advance, Steady
<1>3. bmc' \in [Servers -> BmcRow]
  BY EffectLocal DEF Advance
<1>4. UNCHANGED <<jobs, mode, gui, run, cancelRef, posted, configs, page>>
  BY DEF Advance
<1> QED
  BY <1>1, <1>2, <1>3, <1>4 DEF TypeOK, TaskRow, Steady, BmcRow

LEMMA CoroWritten ==
  ASSUME TypeOK, NEW j \in Jobs, NEW s \in Servers, NEW pc \in Steady,
         coro' = WithCoro(j, s, pc)
  PROVE  /\ coro' \in [Jobs -> [Servers -> Steady]] /\ coro'[j][s] = pc
         /\ \A k \in Jobs, r \in Servers :
              (k # j \/ r # s) => coro'[k][r] = coro[k][r]
<1>1. coro \in [Jobs -> [Servers -> Steady]]
  BY Types
<1> QED
  BY <1>1 DEF WithCoro

\* The single fields that the steps of a job and the sweep write.
LEMMA RowEdits ==
  ASSUME TypeOK, NEW j \in Jobs
  PROVE  /\ [jobs[j] EXCEPT !.state = "running"] \in JobRow
         /\ [jobs[j] EXCEPT !.state = "failed"] \in JobRow
         /\ [run[j] EXCEPT !.pc = "gather"] \in RunRow
         /\ [run[j] EXCEPT !.pc = "done"] \in RunRow
         /\ [run[j] EXCEPT !.cancel = TRUE] \in RunRow
<1>1. jobs[j] \in JobRow /\ run[j] \in RunRow
  BY Types
<1>2. /\ [jobs[j] EXCEPT !.state = "running"] \in JobRow
      /\ [jobs[j] EXCEPT !.state = "failed"] \in JobRow
  BY <1>1 DEF JobRow, Verdicts
<1>3. /\ [run[j] EXCEPT !.pc = "gather"] \in RunRow
      /\ [run[j] EXCEPT !.pc = "done"] \in RunRow
      /\ [run[j] EXCEPT !.cancel = TRUE] \in RunRow
  BY <1>1 DEF RunRow
<1> QED
  BY <1>2, <1>3

LEMMA MainThreadTypes == ASSUME TypeOK, MainThread PROVE TypeOK'
<1>1. ASSUME NEW j \in Jobs, NEW ids \in SUBSET Servers, NEW width \in Widths,
             BeginJob(j, ids, width)
      PROVE  TypeOK'
  <2>1. Clamp(width) \in 1 .. MaxWidth
    BY ClampBounds, WidthsAssumption
  <2>2. [NoRow EXCEPT !.state = "pending", !.width = Clamp(width)] \in JobRow
    BY <2>1 DEF NoRow, JobRow
  <2>3. jobs' \in [Jobs -> JobRow]
    BY <1>1, <2>2, Types DEF BeginJob
  <2>4. gui' \in [job : Jobs \cup {NoJob}, todo : SUBSET Servers]
    BY <1>1 DEF BeginJob
  <2> QED
    BY <1>1, <2>3, <2>4 DEF BeginJob, TypeOK, JobRow
<1>2. ASSUME NEW s \in Servers, CreateTask(s) PROVE TypeOK'
  <2>1. gui' \in [job : Jobs \cup {NoJob}, todo : SUBSET Servers]
    BY <1>2, Types DEF CreateTask
  <2>2. \A disk \in BOOLEAN : [state |-> "queued", disk |-> disk] \in TaskRow
    BY DEF TaskRow, TaskStates, NonTerminal
  <2>3. tasks' \in [Jobs -> [Servers -> TaskRow]]
    <3>1. tasks \in [Jobs -> [Servers -> TaskRow]]
      BY Types
    <3>2. ASSUME NEW row \in TaskRow, tasks' = [tasks EXCEPT ![gui.job][s] = row]
          PROVE  tasks' \in [Jobs -> [Servers -> TaskRow]]
      BY <3>1, <3>2
    <3>3. \/ \E row \in TaskRow : tasks' = [tasks EXCEPT ![gui.job][s] = row]
          \/ UNCHANGED tasks
      BY <1>2, <2>2 DEF CreateTask
    <3> QED
      BY <3>1, <3>2, <3>3
  <2> QED
    BY <1>2, <2>1, <2>3 DEF CreateTask, TypeOK, TaskRow
<1>3. CASE SubmitJob
  <2>1. jobs' \in [Jobs -> JobRow]
    <3>1. \A j \in Jobs : [jobs[j] EXCEPT !.state = "running"] \in JobRow
      BY RowEdits
    <3>2. jobs' = [jobs EXCEPT ![gui.job] = [@ EXCEPT !.state = "running"]]
      BY <1>3 DEF SubmitJob
    <3> QED
      BY <3>1, <3>2, Types
  <2>2. [NoRun EXCEPT !.pc = "submitted"] \in RunRow
    BY DEF NoRun, RunRow
  <2>3. run' \in [Jobs -> RunRow]
    BY <1>3, <2>2, Types DEF SubmitJob
  <2>4. /\ page' \in [running : BOOLEAN, inbox : SUBSET Jobs]
        /\ gui' \in [job : Jobs \cup {NoJob}, todo : SUBSET Servers]
    BY <1>3, Types DEF SubmitJob, Idle
  <2> QED
    BY <1>3, <2>1, <2>3, <2>4 DEF SubmitJob, TypeOK, JobRow, RunRow
<1>4. CASE Cancel
  BY <1>4 DEF Cancel, TypeOK
<1>5. ASSUME NEW j \in Jobs, HandleEnd(j) PROVE TypeOK'
  BY <1>5 DEF HandleEnd, TypeOK
<1> QED
  BY <1>1, <1>2, <1>3, <1>4, <1>5 DEF MainThread

LEMMA JobStepTypes == ASSUME TypeOK, NEW j \in Jobs, JobStep(j) PROVE TypeOK'
<1>1. CASE RunJob(j)
  <2>1. run' \in [Jobs -> RunRow]
    <3>1. [run[j] EXCEPT !.pc = "gather"] \in RunRow
      BY RowEdits
    <3>2. run' = [run EXCEPT ![j] = [@ EXCEPT !.pc = "gather"]]
      BY <1>1 DEF RunJob
    <3> QED
      BY <3>1, <3>2, Types
  <2>2. coro' \in [Jobs -> [Servers -> Steady]]
    BY <1>1, Types DEF RunJob, Steady
  <2> QED
    BY <1>1, <2>1, <2>2 DEF RunJob, TypeOK, RunRow, Steady
<1>2. CASE DeliverCancel(j)
  <2>1. run' \in [Jobs -> RunRow]
    <3>1. [run[j] EXCEPT !.cancel = TRUE] \in RunRow
      BY RowEdits
    <3>2. run' = [run EXCEPT ![j] = [@ EXCEPT !.cancel = TRUE]]
      BY <1>2 DEF DeliverCancel
    <3> QED
      BY <3>1, <3>2, Types
  <2> QED
    BY <1>2, <2>1 DEF DeliverCancel, TypeOK, RunRow
<1>3. CASE SettleJob(j)
  <2>1. run' \in [Jobs -> RunRow]
    <3>1. [run[j] EXCEPT !.pc = "done"] \in RunRow
      BY RowEdits
    <3>2. run' = [run EXCEPT ![j] = [@ EXCEPT !.pc = "done"]]
      BY <1>3 DEF SettleJob
    <3> QED
      BY <3>1, <3>2, Types
  <2>2. FinalState(run[j].cancel, run[j].succ, run[j].fail) \in Verdicts
        /\ run[j].succ \in Nat /\ run[j].fail \in Nat
    <3>1. run[j] \in RunRow
      BY Types
    <3> QED
      BY <3>1, Verdict DEF RunRow
  <2>3. jobs' \in [Jobs -> JobRow]
    <3> DEFINE row == [jobs[j] EXCEPT
                !.state = FinalState(run[j].cancel, run[j].succ, run[j].fail),
                !.succ = run[j].succ, !.fail = run[j].fail]
    <3>1. jobs[j] \in JobRow
      BY Types
    <3>2. row \in JobRow
      BY <2>2, <3>1 DEF JobRow
    <3>3. jobs' = [jobs EXCEPT ![j] = row]
      BY <1>3 DEF SettleJob
    <3> HIDE DEF row
    <3> QED
      BY <3>2, <3>3, Types
  <2>4. page' \in [running : BOOLEAN, inbox : SUBSET Jobs]
    BY <1>3, Types DEF SettleJob
  <2> QED
    BY <1>3, <2>1, <2>3, <2>4 DEF SettleJob, TypeOK, RunRow, JobRow
<1> QED
  BY <1>1, <1>2, <1>3 DEF JobStep

LEMMA TaskStepTypes ==
  ASSUME TypeOK, NEW j \in Jobs, NEW s \in Servers,
         Gate(j, s) \/ Call(j, s) \/ Wait(j, s) \/ Act(j, s)
  PROVE  TypeOK'
<1>1. CASE Gate(j, s)
  <2>1. CASE SkipCancelled(j, s) \/ Refuse(j, s)
    BY <2>1, EndTaskTypes DEF SkipCancelled, Refuse, Terminal
  <2>2. CASE WaitForSlot(j, s)
    <3>1. coro' = WithCoro(j, s, "waiting") /\ "waiting" \in Steady
      BY <2>2 DEF WaitForSlot, Steady, WithCoro
    <3>2. coro' \in [Jobs -> [Servers -> Steady]]
      BY <3>1, CoroWritten
    <3> QED
      BY <2>2, <3>2 DEF WaitForSlot, TypeOK, Steady
  <2>3. CASE Prepare(j, s)
    <3>1. tasks' \in [Jobs -> [Servers -> TaskRow]]
      <4>1. tasks' = WithState(j, s, "mounting_iso") /\ "mounting_iso" \in TaskStates
        BY <2>3 DEF Prepare, TaskStates, NonTerminal, Steps, WithState
      <4> QED
        BY <4>1, RowWritten
    <3>2. coro' \in [Jobs -> [Servers -> Steady]]
      <4>1. coro' = WithCoro(j, s, "mounting") /\ "mounting" \in Steady
        BY <2>3 DEF Prepare, Steady, InSlot, WithCoro
      <4> QED
        BY <4>1, CoroWritten
    <3>3. configs' \subseteq Pairs
      BY <2>3, Types DEF Prepare, Pairs
    <3> QED
      BY <2>3, <3>1, <3>2, <3>3 DEF Prepare, TypeOK, TaskRow, Steady
  <2> QED
    BY <1>1, <2>1, <2>2, <2>3 DEF Gate
<1>2. CASE Call(j, s)
  <2>1. CASE MountIso(j, s) \/ SetBootOnce(j, s) \/ PowerCycle(j, s)
    BY <2>1, AdvanceTypes DEF MountIso, SetBootOnce, PowerCycle, InSlot, Steps
  <2>2. CASE EjectIso(j, s) \/ PluginFails(j, s)
    BY <2>2, EndTaskTypes DEF EjectIso, PluginFails, Terminal
  <2> QED
    BY <1>2, <2>1, <2>2 DEF Call
<1>3. CASE Wait(j, s)
  <2>1. CASE PollAgain(j, s) \/ PortSilent(j, s) \/ PortAnswers(j, s) \/ Verify(j, s)
    BY <2>1, AdvanceTypes DEF PollAgain, PortSilent, PortAnswers, Verify, InSlot, Steps
  <2>2. CASE CancelInstall(j, s) \/ NoAnswer(j, s)
    BY <2>2, EndTaskTypes DEF CancelInstall, NoAnswer, Terminal
  <2> QED
    BY <1>3, <2>1, <2>2 DEF Wait
<1>4. CASE Act(j, s)
  BY <1>4, EffectLocal DEF Act, TypeOK, BmcRow
<1> QED
  BY <1>1, <1>2, <1>3, <1>4

LEMMA ProcessTypes ==
  ASSUME TypeOK, Process \/ \E s \in Servers : InstallerEnds(s) PROVE TypeOK'
<1>1. CASE Stop
  <2>1. /\ run' \in [Jobs -> RunRow] /\ coro' \in [Jobs -> [Servers -> Steady]]
        /\ gui' \in [job : Jobs \cup {NoJob}, todo : SUBSET Servers]
        /\ page' \in [running : BOOLEAN, inbox : SUBSET Jobs]
    BY <1>1 DEF Stop, NoRun, RunRow, Steady, Idle, Shown
  <2> QED
    BY <1>1, <2>1 DEF Stop, TypeOK, RunRow, Steady
<1>2. CASE SweepTasks
  <2>1. ASSUME NEW j \in Jobs, NEW s \in Servers
        PROVE  [tasks[j][s] EXCEPT !.state = "failed"] \in TaskRow
    <3>1. tasks[j][s] \in TaskRow
      BY Types
    <3> QED
      BY <3>1 DEF TaskRow, TaskStates, Terminal
  <2>2. tasks' \in [Jobs -> [Servers -> TaskRow]]
    BY <1>2, <2>1, Types DEF SweepTasks
  <2> QED
    BY <1>2, <2>2 DEF SweepTasks, TypeOK, TaskRow
<1>3. CASE SweepJobs
  <2>1. \A j \in Jobs : [jobs[j] EXCEPT !.state = "failed"] \in JobRow
    BY RowEdits
  <2>2. jobs' \in [Jobs -> JobRow]
    BY <1>3, <2>1, Types DEF SweepJobs
  <2> QED
    BY <1>3, <2>2 DEF SweepJobs, TypeOK, JobRow
<1>4. ASSUME NEW j \in Jobs, NEW s \in Servers, QuitTask(j, s) PROVE TypeOK'
  <2>1. tasks' \in [Jobs -> [Servers -> TaskRow]]
    <3>1. tasks' = WithState(j, s, "cancelled") /\ "cancelled" \in TaskStates
      BY <1>4 DEF QuitTask, TaskStates, Terminal, WithState
    <3> QED
      BY <3>1, RowWritten
  <2>2. coro' \in [Jobs -> [Servers -> Steady]]
    <3>1. coro' = WithCoro(j, s, "done") /\ "done" \in Steady
      BY <1>4 DEF QuitTask, Steady, WithCoro
    <3> QED
      BY <3>1, CoroWritten
  <2> QED
    BY <1>4, <2>1, <2>2 DEF QuitTask, TypeOK, TaskRow, Steady
<1>5. ASSUME NEW s \in Servers, InstallerEnds(s) PROVE TypeOK'
  <2>1. bmc' \in [Servers -> BmcRow]
    <3>1. [bmc[s] EXCEPT !.host = "disk"] \in BmcRow
      <4>1. bmc[s] \in BmcRow
        BY Types
      <4> QED
        BY <4>1 DEF BmcRow
    <3>2. bmc' = [bmc EXCEPT ![s] = [@ EXCEPT !.host = "disk"]]
      BY <1>5 DEF InstallerEnds
    <3> QED
      BY <3>1, <3>2, Types
  <2> QED
    BY <1>5, <2>1 DEF InstallerEnds, TypeOK, BmcRow
<1> QED
  BY <1>1, <1>2, <1>3, <1>4, <1>5 DEF Process

LEMMA NextTypes == TypeOK /\ [Next]_vars => TypeOK'
<1>1. TypeOK /\ UNCHANGED vars => TypeOK'
  BY DEF vars, TypeOK
<1> QED
  BY <1>1, MainThreadTypes, JobStepTypes, TaskStepTypes, ProcessTypes DEF Next

-----------------------------------------------------------------------------
(* IInv is inductive: what recurs in its parts, then one lemma per action. *)

\* A job with no new host in its slots keeps to its width.
LEMMA WidthFrame ==
  ASSUME TypeOK, NEW k \in Jobs, WidthKept(k), TypeOK',
         Holding(k)' \subseteq Holding(k), jobs'[k].width = jobs[k].width
  PROVE  WidthKept(k)'
<1>1. IsFiniteSet(Holding(k))
  <2>1. Holding(k) \subseteq Servers
    BY DEF Holding
  <2> QED
    BY <2>1, ServersAssumption, FS_Subset
<1>2. /\ Cardinality(Holding(k)') <= Cardinality(Holding(k))
      /\ Cardinality(Holding(k)') \in Nat /\ Cardinality(Holding(k)) \in Nat
  BY <1>1, FS_Subset, FS_CardinalityType
<1>3. jobs[k].width \in Nat
  <2>1. jobs[k] \in JobRow
    BY Types
  <2> QED
    BY <2>1 DEF JobRow
<1> QED
  BY <1>2, <1>3 DEF WidthKept

LEMMA WidthOfNone ==
  ASSUME TypeOK', NEW k \in Jobs, Holding(k)' = {}
  PROVE  WidthKept(k)'
<1>1. jobs'[k].width \in 1 .. MaxWidth
  BY DEF TypeOK
<1>2. jobs'[k].width >= 0
  BY <1>1 DEF MaxWidth
<1>3. Cardinality({}) = 0
  BY FS_EmptySet
<1> QED
  BY <1>2, <1>3 DEF WidthKept

\* A host that was touched stays accounted for while tasks keep their disks.
LEMMA TouchedFrame ==
  ASSUME TouchedOnlyWithDisk, bmc' = bmc,
         \A k \in Jobs, r \in Servers : tasks[k][r].disk => tasks'[k][r].disk
  PROVE  TouchedOnlyWithDisk'
BY DEF TouchedOnlyWithDisk

LEMMA EndTaskRows ==
  ASSUME TypeOK, NEW j \in Jobs, NEW s \in Servers, NEW result \in Terminal,
         EndTask(j, s, result)
  PROVE  /\ tasks'[j][s].state = result /\ tasks'[j][s].disk = tasks[j][s].disk
         /\ \A k \in Jobs, r \in Servers : (k # j \/ r # s) => tasks'[k][r] = tasks[k][r]
         /\ coro'[j][s] = "done"
         /\ \A k \in Jobs, r \in Servers : (k # j \/ r # s) => coro'[k][r] = coro[k][r]
<1>1. /\ tasks' = WithState(j, s, result) /\ result \in TaskStates
      /\ coro' = WithCoro(j, s, "done") /\ "done" \in Steady
  BY DEF EndTask, TaskStates, Steady, WithState, WithCoro
<1>2. /\ tasks'[j][s].state = result /\ tasks'[j][s].disk = tasks[j][s].disk
      /\ \A k \in Jobs, r \in Servers : (k # j \/ r # s) => tasks'[k][r] = tasks[k][r]
  BY <1>1, RowWritten
<1>3. /\ coro'[j][s] = "done"
      /\ \A k \in Jobs, r \in Servers : (k # j \/ r # s) => coro'[k][r] = coro[k][r]
  BY <1>1, CoroWritten
<1> QED
  BY <1>2, <1>3

\* The end of a task, at the gate or in the slot.
LEMMA EndTaskKeeps ==
  ASSUME IInv, TypeOK', NEW j \in Jobs, NEW s \in Servers, NEW result \in Terminal,
         EndTask(j, s, result), bmc' \in {bmc, Effect(j, s)}, mode = "up", coro[j][s] \notin {"idle", "done"},
         OnePage /\ result = "cancelled" => run[j].cancel
  PROVE  IInv'
<1>0. TypeOK
  BY DEF IInv
<1>1. TypeOK /\ run[j].pc = "gather" /\ TaskInv(j, s) /\ run \in [Jobs -> RunRow]
  BY <1>0, Types DEF IInv, TaskInv
<1>2. /\ tasks'[j][s].state = result /\ tasks'[j][s].disk = tasks[j][s].disk
      /\ \A k \in Jobs, r \in Servers : (k # j \/ r # s) => tasks'[k][r] = tasks[k][r]
  BY <1>0, EndTaskRows
<1>3. /\ coro'[j][s] = "done"
      /\ \A k \in Jobs, r \in Servers : (k # j \/ r # s) => coro'[k][r] = coro[k][r]
  BY <1>0, EndTaskRows
<1>4. \A k \in Jobs : run'[k].pc = run[k].pc /\ run'[k].cancel = run[k].cancel
  BY <1>1 DEF EndTask, RunRow
<1>5. /\ jobs' = jobs /\ mode' = mode /\ gui' = gui /\ cancelRef' = cancelRef
      /\ posted' = posted /\ page' = page /\ configs' = configs \ {<<j, s>>}
  BY DEF EndTask
<1>6. gui.job # j
  BY <1>1, JobsAssumption DEF IInv, GuiInv
<1>7. GuiInv'
  BY <1>2, <1>4, <1>5, <1>6 DEF IInv, GuiInv, Running, TypeOK
<1>8. QuietInv'
  BY <1>5 DEF QuietInv, Running
<1>9. ASSUME NEW k \in Jobs PROVE JobInv(k)'
  <2>1. JobInv(k) /\ JobInv(j)
    BY DEF IInv
  <2> QED
    BY <1>1, <1>2, <1>4, <1>5, <2>1 DEF JobInv, Live, Settled, Running
<1>10. ASSUME NEW k \in Jobs, NEW r \in Servers PROVE TaskInv(k, r)'
  <2>1. CASE k = j /\ r = s
    BY <1>1, <1>2, <1>3, <1>4, <1>5, <1>6, <2>1 DEF TaskInv, InSlot
  <2>2. CASE k # j \/ r # s
    <3>1. /\ TaskInv(k, r) /\ tasks'[k][r] = tasks[k][r] /\ coro'[k][r] = coro[k][r]
          /\ run'[k].pc = run[k].pc
      BY <1>2, <1>3, <1>4, <2>2 DEF IInv
    <3> QED
      BY <1>5, <3>1 DEF TaskInv
  <2> QED
    BY <2>1, <2>2
<1>11. ConfigsOnlyWhileInstalling'
  BY <1>3, <1>5, Types DEF IInv, ConfigsOnlyWhileInstalling, Pairs
<1>12. TouchedOnlyWithDisk'
  <2>1. \A k \in Jobs, r \in Servers : tasks[k][r].disk => tasks'[k][r].disk
    BY <1>2
  <2>2. CASE bmc' = bmc
    BY <2>1, <2>2, TouchedFrame DEF IInv
  <2>3. CASE bmc' = Effect(j, s) /\ bmc' # bmc
    <3>1. (\A b \in Servers : b # s => bmc'[b] = bmc[b]) /\ tasks'[j][s].disk
      BY <1>0, <1>1, <1>2, <2>3, EffectLocal DEF TaskInv
    <3> QED
      BY <2>1, <3>1 DEF IInv, TouchedOnlyWithDisk
  <2> QED
    BY <2>2, <2>3
<1>13. ASSUME NEW k \in Jobs PROVE WidthKept(k)'
  <2>1. Holding(k)' \subseteq Holding(k)
    BY <1>3 DEF Holding, InSlot
  <2> QED
    BY <1>1, <1>5, <2>1, WidthFrame DEF IInv
<1>14. ASSUME OnePage PROVE PageInv' /\ EventInv' /\ CancelBelongsToJob'
  <2>1. PageInv /\ EventInv /\ CancelBelongsToJob /\ cancelRef \in Jobs \cup {NoJob}
    BY <1>14, Types DEF IInv
  <2>2. PageInv'
    BY <1>4, <1>5, <2>1 DEF PageInv, Live
  <2>3. EventInv'
    BY <1>4, <1>5, <2>1 DEF EventInv
  <2>4. CancelBelongsToJob'
    <3>1. result = "cancelled" => run[j].cancel
      BY <1>14
    <3>2. ASSUME NEW k \in Jobs, run'[k].pc # "idle", NEW r \in Servers,
                 tasks'[k][r].state = "cancelled"
          PROVE  run'[k].cancel /\ (run'[k].pc = "done" => jobs'[k].state = "cancelled")
      <4>1. CASE k = j /\ r = s
        BY <1>1, <1>2, <1>4, <3>1, <3>2, <4>1
      <4>2. CASE k # j \/ r # s
        BY <1>2, <1>4, <1>5, <2>1, <3>2, <4>2 DEF CancelBelongsToJob
      <4> QED
        BY <4>1, <4>2
    <3> QED
      BY <3>2 DEF CancelBelongsToJob
  <2> QED
    BY <2>2, <2>3, <2>4
<1> QED
  BY <1>7, <1>8, <1>9, <1>10, <1>11, <1>12, <1>13, <1>14 DEF IInv

\* The next await of an installing task.
LEMMA AdvanceKeeps ==
  ASSUME IInv, TypeOK', NEW j \in Jobs, NEW s \in Servers, NEW from \in InSlot,
         NEW to \in InSlot, NEW state \in Steps, Advance(j, s, from, to, state)
  PROVE  IInv'
<1>1. /\ TypeOK /\ run[j].pc = "gather" /\ TaskInv(j, s) /\ tasks[j][s].disk
      /\ coro[j][s] = from /\ mode = "up"
  BY DEF IInv, TaskInv, Advance, InSlot
<1>2. /\ tasks'[j][s].state = state /\ tasks'[j][s].disk = tasks[j][s].disk
      /\ \A k \in Jobs, r \in Servers : (k # j \/ r # s) => tasks'[k][r] = tasks[k][r]
  <2>1. tasks' = WithState(j, s, state) /\ state \in TaskStates
    BY DEF Advance, WithState, TaskStates, NonTerminal
  <2> QED
    BY <1>1, <2>1, RowWritten
<1>3. /\ coro'[j][s] = to
      /\ \A k \in Jobs, r \in Servers : (k # j \/ r # s) => coro'[k][r] = coro[k][r]
  <2>1. coro' = WithCoro(j, s, to) /\ to \in Steady
    BY DEF Advance, WithCoro, Steady
  <2> QED
    BY <1>1, <2>1, CoroWritten
<1>4. \A b \in Servers : b # s => bmc'[b] = bmc[b]
  BY <1>1, EffectLocal DEF Advance
<1>5. /\ jobs' = jobs /\ mode' = mode /\ gui' = gui /\ cancelRef' = cancelRef /\ run' = run
      /\ posted' = posted /\ page' = page /\ configs' = configs
  BY DEF Advance
<1>6. gui.job # j
  BY <1>1, JobsAssumption DEF IInv, GuiInv
<1>7. GuiInv'
  BY <1>2, <1>5, <1>6 DEF IInv, GuiInv, Running, TypeOK
<1>8. QuietInv'
  BY <1>1, <1>5 DEF QuietInv, Running
<1>9. ASSUME NEW k \in Jobs PROVE JobInv(k)'
  <2>1. JobInv(k) /\ JobInv(j)
    BY DEF IInv
  <2> QED
    BY <1>1, <1>2, <1>5, <2>1 DEF JobInv, Live, Settled, Running
<1>10. ASSUME NEW k \in Jobs, NEW r \in Servers PROVE TaskInv(k, r)'
  <2>1. CASE k = j /\ r = s
    BY <1>1, <1>2, <1>3, <1>5, <1>6, <2>1 DEF TaskInv, InSlot, NonTerminal
  <2>2. CASE k # j \/ r # s
    <3>1. TaskInv(k, r) /\ tasks'[k][r] = tasks[k][r] /\ coro'[k][r] = coro[k][r]
      BY <1>2, <1>3, <2>2 DEF IInv
    <3> QED
      BY <1>5, <3>1 DEF TaskInv
  <2> QED
    BY <2>1, <2>2
<1>11. ConfigsOnlyWhileInstalling'
  BY <1>3, <1>5, Types DEF IInv, ConfigsOnlyWhileInstalling, Pairs
<1>12. TouchedOnlyWithDisk'
  BY <1>1, <1>2, <1>4 DEF IInv, TouchedOnlyWithDisk
<1>13. ASSUME NEW k \in Jobs PROVE WidthKept(k)'
  <2>1. Holding(k)' \subseteq Holding(k)
    BY <1>1, <1>3 DEF Holding
  <2> QED
    BY <1>1, <1>5, <2>1, WidthFrame DEF IInv
<1>14. ASSUME OnePage PROVE PageInv' /\ EventInv' /\ CancelBelongsToJob'
  <2>1. PageInv /\ EventInv /\ CancelBelongsToJob
    BY <1>14 DEF IInv
  <2>2. PageInv' /\ EventInv'
    BY <1>5, <2>1 DEF PageInv, EventInv, Live
  <2>3. state # "cancelled"
    BY DEF Steps
  <2>4. CancelBelongsToJob'
    BY <1>2, <1>5, <2>1, <2>3 DEF CancelBelongsToJob
  <2> QED
    BY <2>2, <2>4
<1> QED
  BY <1>7, <1>8, <1>9, <1>10, <1>11, <1>12, <1>13, <1>14 DEF IInv

LEMMA BeginJobKeeps ==
  ASSUME IInv, TypeOK', NEW j \in Jobs, NEW ids \in SUBSET Servers, NEW width \in Widths,
         BeginJob(j, ids, width)
  PROVE  IInv'
<1>1. /\ TypeOK /\ mode = "up" /\ gui = Idle /\ jobs[j].state = "none"
      /\ OnePage => ~page.running
      /\ UNCHANGED <<tasks, mode, run, coro, cancelRef, posted, configs, page, bmc>>
  BY DEF IInv, BeginJob
<1>2. /\ jobs'[j].state = "pending" /\ \A k \in Jobs : k # j => jobs'[k] = jobs[k]
      /\ gui'.job = j /\ gui'.todo = ids /\ gui.job = NoJob
  BY <1>1, Types DEF BeginJob, NoRow, Idle, JobRow
<1>3. run[j].pc = "idle" /\ \A s \in Servers : tasks[j][s] = NoTask /\ coro[j][s] = "idle"
  BY <1>1 DEF IInv, JobInv, TaskInv
<1>4. GuiInv'
  BY <1>1, <1>2, <1>3, JobsAssumption DEF GuiInv, Running
<1>5. QuietInv'
  BY <1>1 DEF QuietInv, Running
<1>6. ASSUME NEW k \in Jobs PROVE JobInv(k)'
  <2>1. CASE k = j
    BY <1>1, <1>2, <1>3, <2>1 DEF JobInv, Live
  <2>2. CASE k # j
    <3>1. JobInv(k) /\ gui.job # k
      BY <1>2, JobsAssumption DEF IInv
    <3> QED
      BY <1>1, <1>2, <2>2, <3>1 DEF JobInv, Live, Settled, Running
  <2> QED
    BY <2>1, <2>2
<1>7. ASSUME NEW k \in Jobs, NEW r \in Servers PROVE TaskInv(k, r)'
  <2>1. TaskInv(k, r) /\ gui.job # k
    BY <1>2, JobsAssumption DEF IInv
  <2>2. CASE k = j
    BY <1>1, <1>2, <1>3, <2>1, <2>2 DEF TaskInv, NoTask
  <2>3. CASE k # j
    BY <1>1, <1>2, <2>1, <2>3 DEF TaskInv
  <2> QED
    BY <2>2, <2>3
<1>8. ConfigsOnlyWhileInstalling' /\ TouchedOnlyWithDisk'
  BY <1>1 DEF IInv, ConfigsOnlyWhileInstalling, TouchedOnlyWithDisk
<1>9. ASSUME NEW k \in Jobs PROVE WidthKept(k)'
  <2>1. CASE k = j
    <3>1. Holding(j)' = {}
      BY <1>1, <1>3 DEF Holding, InSlot
    <3> QED
      BY <2>1, <3>1, WidthOfNone
  <2>2. CASE k # j
    BY <1>1, <1>2, <2>2 DEF IInv, WidthKept, Holding
  <2> QED
    BY <2>1, <2>2
<1>10. ASSUME OnePage PROVE PageInv' /\ EventInv' /\ CancelBelongsToJob'
  <2>1. PageInv /\ EventInv /\ CancelBelongsToJob /\ ~page.running
    BY <1>1, <1>10 DEF IInv
  <2>2. PageInv' /\ EventInv'
    BY <1>1, <1>2, <2>1 DEF PageInv, EventInv, Live
  <2>3. CancelBelongsToJob'
    BY <1>1, <1>2, <1>3, <2>1 DEF CancelBelongsToJob
  <2> QED
    BY <2>2, <2>3
<1> QED
  BY <1>4, <1>5, <1>6, <1>7, <1>8, <1>9, <1>10 DEF IInv

LEMMA CreateTaskKeeps ==
  ASSUME IInv, TypeOK', NEW b \in Servers, CreateTask(b) PROVE IInv'
<1>1. /\ TypeOK /\ mode = "up" /\ b \in gui.todo
      /\ UNCHANGED <<jobs, mode, run, coro, cancelRef, posted, configs, page, bmc>>
  BY DEF IInv, CreateTask
<1> DEFINE j == gui.job
<1>2. /\ j \in Jobs /\ jobs[j].state = "pending" /\ run[j].pc = "idle"
      /\ \A s \in gui.todo : tasks[j][s] = NoTask
  BY <1>1, Types DEF IInv, GuiInv, Idle
<1>3. gui'.job = j /\ gui'.todo = gui.todo \ {b}
  BY <1>1, Types DEF CreateTask
<1>4. /\ \A k \in Jobs, r \in Servers : k # j \/ r # b => tasks'[k][r] = tasks[k][r]
      /\ tasks'[j][b].state \in {"none", "queued"}
  <2>1. tasks \in [Jobs -> [Servers -> TaskRow]] /\ tasks[j][b].state = "none"
    BY <1>1, <1>2, Types DEF NoTask
  <2>2. CASE UNCHANGED tasks
    BY <2>1, <2>2
  <2>3. ASSUME NEW d \in BOOLEAN, NEW row, row = [state |-> "queued", disk |-> d],
               tasks' = [tasks EXCEPT ![j][b] = row]
        PROVE  /\ \A k \in Jobs, r \in Servers : k # j \/ r # b => tasks'[k][r] = tasks[k][r]
               /\ tasks'[j][b].state \in {"none", "queued"}
    BY <1>2, <2>1, <2>3
  <2> QED
    BY <2>2, <2>3 DEF CreateTask
<1> HIDE DEF j
<1>5. gui.job = j /\ \A r \in Servers : coro[j][r] = "idle"
  BY <1>2 DEF IInv, TaskInv, j
<1>6. GuiInv'
  BY <1>1, <1>2, <1>3, <1>4, JobsAssumption, Types DEF GuiInv, Running
<1>7. QuietInv'
  BY <1>1 DEF QuietInv, Running
<1>8. ASSUME NEW k \in Jobs PROVE JobInv(k)'
  BY <1>1, <1>2, <1>3, <1>4, <1>5 DEF IInv, JobInv, Live, Settled, Running
<1>9. ASSUME NEW k \in Jobs, NEW r \in Servers PROVE TaskInv(k, r)'
  <2>1. TaskInv(k, r)
    BY DEF IInv
  <2>2. CASE k = j /\ r = b
    BY <1>1, <1>2, <1>3, <1>4, <1>5, <2>1, <2>2 DEF TaskInv, InSlot
  <2>3. CASE k # j \/ r # b
    BY <1>1, <1>3, <1>4, <1>5, <2>1, <2>3 DEF TaskInv
  <2> QED
    BY <2>2, <2>3
<1>10. ConfigsOnlyWhileInstalling'
  BY <1>1 DEF IInv, ConfigsOnlyWhileInstalling
<1>11. TouchedOnlyWithDisk'
  <2>1. tasks[j][b].disk = FALSE
    BY <1>1, <1>2 DEF NoTask
  <2>2. \A k \in Jobs, r \in Servers : tasks[k][r].disk => tasks'[k][r].disk
    BY <1>4, <2>1
  <2> QED
    BY <1>1, <2>2, TouchedFrame DEF IInv
<1>12. \A k \in Jobs : WidthKept(k)'
  BY <1>1 DEF IInv, WidthKept, Holding
<1>13. ASSUME OnePage PROVE PageInv' /\ EventInv' /\ CancelBelongsToJob'
  <2>1. PageInv /\ EventInv /\ CancelBelongsToJob
    BY <1>13 DEF IInv
  <2>2. PageInv' /\ EventInv'
    BY <1>1, <1>3, <1>5, <2>1 DEF PageInv, EventInv, Live
  <2>3. CancelBelongsToJob'
    BY <1>1, <1>2, <1>4, <2>1 DEF CancelBelongsToJob
  <2> QED
    BY <2>2, <2>3
<1> QED
  BY <1>6, <1>7, <1>8, <1>9, <1>10, <1>11, <1>12, <1>13 DEF IInv

LEMMA SubmitJobKeeps == ASSUME IInv, TypeOK', SubmitJob PROVE IInv'
<1>1. /\ TypeOK /\ mode = "up" /\ gui.job # NoJob /\ gui' = Idle
      /\ UNCHANGED <<tasks, mode, coro, cancelRef, posted, configs, bmc>>
  BY DEF IInv, SubmitJob
<1> DEFINE j == gui.job
<1>2. j \in Jobs /\ jobs[j].state = "pending" /\ run[j].pc = "idle"
  BY <1>1, Types DEF IInv, GuiInv
<1>3. /\ run'[j].pc = "submitted" /\ jobs'[j].state = "running" /\ jobs'[j].width = jobs[j].width
      /\ \A k \in Jobs : k # j => jobs'[k] = jobs[k] /\ run'[k] = run[k]
      /\ page'.running = TRUE /\ page'.inbox = page.inbox
  BY <1>1, <1>2, Types DEF SubmitJob, NoRun, JobRow
<1> HIDE DEF j
<1>4. gui.job = j /\ gui'.job = NoJob /\ NoJob \notin Jobs
  BY <1>1, JobsAssumption DEF j, Idle
<1>5. GuiInv' /\ QuietInv'
  BY <1>1, <1>4 DEF GuiInv, QuietInv, Running
<1>6. ASSUME NEW k \in Jobs PROVE JobInv(k)'
  <2>1. JobInv(k)
    BY DEF IInv
  <2>2. CASE k = j
    BY <1>1, <1>2, <1>3, <2>2 DEF JobInv, Live
  <2>3. CASE k # j
    BY <1>1, <1>3, <1>4, <2>1, <2>3 DEF JobInv, Live, Settled, Running
  <2> QED
    BY <2>2, <2>3
<1>7. ASSUME NEW k \in Jobs, NEW r \in Servers PROVE TaskInv(k, r)'
  <2>1. TaskInv(k, r)
    BY DEF IInv
  <2>2. CASE k = j
    BY <1>1, <1>2, <1>3, <1>4, <2>1, <2>2 DEF TaskInv, InSlot
  <2>3. CASE k # j
    BY <1>1, <1>3, <1>4, <2>1, <2>3 DEF TaskInv
  <2> QED
    BY <2>2, <2>3
<1>8. ConfigsOnlyWhileInstalling' /\ TouchedOnlyWithDisk'
  BY <1>1 DEF IInv, ConfigsOnlyWhileInstalling, TouchedOnlyWithDisk
<1>9. \A k \in Jobs : WidthKept(k)'
  BY <1>1, <1>3 DEF IInv, WidthKept, Holding
<1>10. ASSUME OnePage PROVE PageInv' /\ EventInv' /\ CancelBelongsToJob'
  <2>1. PageInv /\ EventInv /\ CancelBelongsToJob /\ TypeOK
    BY <1>10 DEF IInv
  <2>2. page.inbox = {} /\ \A k \in Jobs : ~Live(k)
    BY <1>1, <2>1 DEF PageInv
  <2>3. PageInv'
    BY <1>3, <1>4, <2>2 DEF PageInv, Live
  <2>4. EventInv'
    BY <1>1, <1>2, <1>3, <2>1, Types DEF EventInv
  <2>5. \A r \in Servers : tasks[j][r].state # "cancelled"
    BY <1>2, <1>4 DEF IInv, TaskInv
  <2>6. CancelBelongsToJob'
    BY <1>1, <1>3, <2>1, <2>5 DEF CancelBelongsToJob
  <2> QED
    BY <2>3, <2>4, <2>6
<1> QED
  BY <1>5, <1>6, <1>7, <1>8, <1>9, <1>10 DEF IInv

\* Cancel and the end the page has not seen yet touch no row and no coroutine.
LEMMA PageKeeps ==
  ASSUME IInv, TypeOK', Cancel \/ \E j \in Jobs : HandleEnd(j) PROVE IInv'
<1>1. /\ mode = "up" /\ gui = Idle
      /\ UNCHANGED <<jobs, tasks, mode, gui, run, coro, cancelRef, configs, bmc>>
  BY DEF Cancel, HandleEnd
<1>2. GuiInv' /\ QuietInv'
  BY <1>1 DEF IInv, GuiInv, QuietInv, Running
<1>3. \A k \in Jobs : JobInv(k)'
  BY <1>1 DEF IInv, JobInv, Live, Settled, Running
<1>4. \A k \in Jobs, r \in Servers : TaskInv(k, r)'
  BY <1>1 DEF IInv, TaskInv
<1>5. ConfigsOnlyWhileInstalling' /\ TouchedOnlyWithDisk' /\ \A k \in Jobs : WidthKept(k)'
  BY <1>1 DEF IInv, ConfigsOnlyWhileInstalling, TouchedOnlyWithDisk, WidthKept, Holding
<1>6. ASSUME OnePage PROVE PageInv' /\ EventInv' /\ CancelBelongsToJob'
  <2>1. PageInv /\ EventInv /\ CancelBelongsToJob
    BY <1>6 DEF IInv
  <2>2. EventInv' /\ CancelBelongsToJob'
    BY <1>1, <2>1 DEF EventInv, CancelBelongsToJob
  <2>3. PageInv'
    <3>1. CASE Cancel
      BY <2>1, <3>1 DEF PageInv, Live, Cancel
    <3>2. ASSUME NEW j \in Jobs, HandleEnd(j) PROVE PageInv'
      <4>1. page'.running = FALSE /\ page'.inbox = {} /\ \A k \in Jobs : ~Live(k)
        BY <2>1, <3>2 DEF HandleEnd, PageInv
      <4> QED
        BY <1>1, <4>1 DEF PageInv, Live
    <3> QED
      BY <3>1, <3>2
  <2> QED
    BY <2>2, <2>3
<1> QED
  BY <1>2, <1>3, <1>4, <1>5, <1>6 DEF IInv

LEMMA RunJobKeeps == ASSUME IInv, TypeOK', NEW j \in Jobs, RunJob(j) PROVE IInv'
<1>1. /\ TypeOK /\ mode = "up" /\ run[j].pc = "submitted" /\ cancelRef' = j
      /\ UNCHANGED <<jobs, tasks, mode, gui, posted, configs, page, bmc>>
  BY DEF IInv, RunJob
<1>2. /\ run'[j].pc = "gather" /\ run'[j].cancel = run[j].cancel
      /\ \A k \in Jobs : k # j => run'[k] = run[k]
  BY <1>1, Types DEF RunJob, RunRow
<1>3. /\ \A k \in Jobs : k # j => coro'[k] = coro[k]
      /\ \A r \in Servers :
           coro'[j][r] = IF tasks[j][r].state # "none" THEN "spawned" ELSE "idle"
  BY <1>1, Types DEF RunJob
<1>4. /\ \A r \in Servers : coro[j][r] = "idle" /\ tasks[j][r].state \in {"none", "queued"}
      /\ JobInv(j) /\ gui.job # j
  BY <1>1, JobsAssumption DEF IInv, TaskInv, GuiInv
<1>5. GuiInv' /\ QuietInv'
  BY <1>1, <1>2, <1>4, Types DEF IInv, GuiInv, QuietInv, Running
<1>6. ASSUME NEW k \in Jobs PROVE JobInv(k)'
  <2>1. JobInv(k)
    BY DEF IInv
  <2> QED
    BY <1>1, <1>2, <2>1 DEF JobInv, Live, Settled, Running
<1>7. ASSUME NEW k \in Jobs, NEW r \in Servers PROVE TaskInv(k, r)'
  <2>1. TaskInv(k, r)
    BY DEF IInv
  <2>2. CASE k = j
    BY <1>1, <1>2, <1>3, <1>4, <2>1, <2>2 DEF TaskInv, InSlot
  <2>3. CASE k # j
    BY <1>1, <1>2, <1>3, <2>1, <2>3 DEF TaskInv
  <2> QED
    BY <2>2, <2>3
<1>8. ConfigsOnlyWhileInstalling'
  <2>1. \A p \in configs : p[1] \in Jobs /\ p[2] \in Servers /\ coro[p[1]][p[2]] \in InSlot
    BY <1>1, Types DEF IInv, ConfigsOnlyWhileInstalling, Pairs
  <2>2. \A p \in configs : p[1] # j
    BY <1>4, <2>1 DEF InSlot
  <2> QED
    BY <1>1, <1>3, <2>1, <2>2 DEF ConfigsOnlyWhileInstalling
<1>9. TouchedOnlyWithDisk'
  BY <1>1 DEF IInv, TouchedOnlyWithDisk
<1>10. ASSUME NEW k \in Jobs PROVE WidthKept(k)'
  <2>1. CASE k = j
    <3>1. Holding(j)' = {}
      BY <1>3 DEF Holding, InSlot
    <3> QED
      BY <2>1, <3>1, WidthOfNone
  <2>2. CASE k # j
    BY <1>1, <1>3, <2>2 DEF IInv, WidthKept, Holding
  <2> QED
    BY <2>1, <2>2
<1>11. ASSUME OnePage PROVE PageInv' /\ EventInv' /\ CancelBelongsToJob'
  <2>1. PageInv /\ EventInv /\ CancelBelongsToJob
    BY <1>11 DEF IInv
  <2>2. \A k \in Jobs : Live(k)' <=> Live(k)
    BY <1>1, <1>2 DEF Live
  <2>3. PageInv'
    BY <1>1, <2>1, <2>2 DEF PageInv
  <2>4. EventInv'
    BY <1>1, <1>2 DEF EventInv
  <2>5. CancelBelongsToJob'
    BY <1>1, <1>2, <1>4, <2>1 DEF CancelBelongsToJob
  <2> QED
    BY <2>3, <2>4, <2>5
<1> QED
  BY <1>5, <1>6, <1>7, <1>8, <1>9, <1>10, <1>11 DEF IInv

LEMMA DeliverCancelKeeps == ASSUME IInv, TypeOK', NEW j \in Jobs, DeliverCancel(j) PROVE IInv'
<1>1. /\ TypeOK /\ mode = "up"
      /\ UNCHANGED <<jobs, tasks, mode, gui, coro, cancelRef, configs, page, bmc>>
  BY DEF IInv, DeliverCancel
<1>2. \A k \in Jobs : run'[k].pc = run[k].pc /\ (run[k].cancel => run'[k].cancel)
  BY <1>1, Types DEF DeliverCancel, RunRow
<1>3. GuiInv' /\ QuietInv'
  BY <1>1, <1>2, Types DEF IInv, GuiInv, QuietInv, Running
<1>4. ASSUME NEW k \in Jobs PROVE JobInv(k)'
  <2>1. JobInv(k) /\ run'[k].pc = run[k].pc
    BY <1>2 DEF IInv
  <2> QED
    BY <1>1, <2>1 DEF JobInv, Live, Settled, Running
<1>5. ASSUME NEW k \in Jobs, NEW r \in Servers PROVE TaskInv(k, r)'
  <2>1. TaskInv(k, r) /\ run'[k].pc = run[k].pc
    BY <1>2 DEF IInv
  <2> QED
    BY <1>1, <2>1 DEF TaskInv
<1>6. ConfigsOnlyWhileInstalling' /\ TouchedOnlyWithDisk' /\ \A k \in Jobs : WidthKept(k)'
  BY <1>1 DEF IInv, ConfigsOnlyWhileInstalling, TouchedOnlyWithDisk, WidthKept, Holding
<1>7. ASSUME OnePage PROVE PageInv' /\ EventInv' /\ CancelBelongsToJob'
  <2>1. PageInv /\ EventInv /\ CancelBelongsToJob /\ cancelRef \in Jobs \cup {NoJob}
    BY <1>1, <1>7, Types DEF IInv
  <2>2. \A k \in Jobs : Live(k)' <=> Live(k)
    BY <1>2 DEF Live
  <2>3. PageInv' /\ EventInv'
    BY <1>1, <1>2, <2>1, <2>2 DEF PageInv, EventInv
  <2>4. CancelBelongsToJob'
    BY <1>1, <1>2, <2>1 DEF CancelBelongsToJob
  <2> QED
    BY <2>3, <2>4
<1> QED
  BY <1>3, <1>4, <1>5, <1>6, <1>7 DEF IInv

LEMMA SettleJobKeeps == ASSUME IInv, TypeOK', NEW j \in Jobs, SettleJob(j) PROVE IInv'
<1>1. /\ TypeOK /\ mode = "up" /\ run[j].pc = "gather"
      /\ \A s \in Servers : coro[j][s] \in {"idle", "done"}
      /\ cancelRef' = NoJob
      /\ UNCHANGED <<tasks, mode, gui, coro, posted, configs, bmc>>
  BY DEF IInv, SettleJob
<1>2. /\ run'[j].pc = "done" /\ run'[j].cancel = run[j].cancel
      /\ \A k \in Jobs : k # j => run'[k] = run[k]
  BY <1>1, Types DEF SettleJob, RunRow
<1>3. /\ jobs'[j].state = FinalState(run[j].cancel, run[j].succ, run[j].fail)
      /\ jobs'[j].width = jobs[j].width
      /\ \A k \in Jobs : k # j => jobs'[k] = jobs[k]
  BY <1>1, Types DEF SettleJob, JobRow
<1>4. page'.running = page.running /\ page'.inbox = page.inbox \cup {j}
  BY <1>1, Types DEF SettleJob
<1>5. jobs'[j].state \in Verdicts /\ (run[j].cancel => jobs'[j].state = "cancelled")
  <2>1. run[j] \in RunRow
    BY <1>1, Types
  <2> QED
    BY <1>3, <2>1, Verdict DEF RunRow
<1>6. gui.job # j /\ JobInv(j)
  BY <1>1, JobsAssumption DEF IInv, GuiInv
<1>7. GuiInv' /\ QuietInv'
  BY <1>1, <1>2, <1>3, <1>6, Types DEF IInv, GuiInv, QuietInv, Running
<1>8. ASSUME NEW k \in Jobs PROVE JobInv(k)'
  <2>1. JobInv(k)
    BY DEF IInv
  <2>2. CASE k = j
    BY <1>1, <1>2, <1>5, <2>2 DEF JobInv, Live, Settled, Running, Verdicts
  <2>3. CASE k # j
    BY <1>1, <1>2, <1>3, <2>1, <2>3 DEF JobInv, Live, Settled, Running
  <2> QED
    BY <2>2, <2>3
<1>9. ASSUME NEW k \in Jobs, NEW r \in Servers PROVE TaskInv(k, r)'
  <2>1. TaskInv(k, r)
    BY DEF IInv
  <2>2. CASE k = j
    BY <1>1, <1>2, <1>6, <2>1, <2>2 DEF TaskInv, InSlot
  <2>3. CASE k # j
    BY <1>1, <1>2, <2>1, <2>3 DEF TaskInv
  <2> QED
    BY <2>2, <2>3
<1>10. ConfigsOnlyWhileInstalling' /\ TouchedOnlyWithDisk'
  BY <1>1 DEF IInv, ConfigsOnlyWhileInstalling, TouchedOnlyWithDisk
<1>11. \A k \in Jobs : WidthKept(k)'
  BY <1>1, <1>3 DEF IInv, WidthKept, Holding
<1>12. ASSUME OnePage PROVE PageInv' /\ EventInv' /\ CancelBelongsToJob'
  <2>1. PageInv /\ CancelBelongsToJob
    BY <1>12 DEF IInv
  <2>2. page.running /\ page.inbox = {} /\ \A k \in Jobs : Live(k) => k = j
    BY <1>1, <2>1 DEF PageInv, Live
  <2>3. \A k \in Jobs : ~Live(k)'
    BY <1>2, <2>2 DEF Live
  <2>4. PageInv'
    BY <1>1, <1>4, <2>1, <2>2, <2>3 DEF PageInv
  <2>5. EventInv'
    BY <1>1 DEF EventInv
  <2>6. CancelBelongsToJob'
    BY <1>1, <1>2, <1>3, <1>5, <2>1 DEF CancelBelongsToJob
  <2> QED
    BY <2>4, <2>5, <2>6
<1> QED
  BY <1>7, <1>8, <1>9, <1>10, <1>11, <1>12 DEF IInv

LEMMA WaitForSlotKeeps ==
  ASSUME IInv, TypeOK', NEW j \in Jobs, NEW s \in Servers, WaitForSlot(j, s) PROVE IInv'
<1>1. /\ TypeOK /\ coro[j][s] \in {"spawned", "waiting"} /\ run[j].pc = "gather"
      /\ UNCHANGED <<jobs, tasks, mode, gui, run, cancelRef, posted, configs, page, bmc>>
  BY DEF IInv, WaitForSlot, AtGate
<1>2. /\ coro'[j][s] = "waiting" /\ mode = "up"
      /\ \A k \in Jobs, r \in Servers : (k # j \/ r # s) => coro'[k][r] = coro[k][r]
  <2>1. coro' = WithCoro(j, s, "waiting") /\ "waiting" \in Steady /\ mode = "up"
    BY DEF WaitForSlot, AtGate, Steady, WithCoro
  <2> QED
    BY <1>1, <2>1, CoroWritten
<1>3. GuiInv' /\ QuietInv'
  BY <1>1, <1>2 DEF IInv, GuiInv, QuietInv, Running
<1>4. \A k \in Jobs : JobInv(k)'
  BY <1>1 DEF IInv, JobInv, Live, Settled, Running
<1>5. ASSUME NEW k \in Jobs, NEW r \in Servers PROVE TaskInv(k, r)'
  <2>1. TaskInv(k, r)
    BY DEF IInv
  <2>2. CASE k = j /\ r = s
    BY <1>1, <1>2, <2>1, <2>2 DEF TaskInv, InSlot
  <2>3. CASE k # j \/ r # s
    BY <1>1, <1>2, <2>1, <2>3 DEF TaskInv
  <2> QED
    BY <2>2, <2>3
<1>6. ConfigsOnlyWhileInstalling'
  BY <1>1, <1>2, Types DEF IInv, ConfigsOnlyWhileInstalling, Pairs, InSlot
<1>7. TouchedOnlyWithDisk'
  BY <1>1 DEF IInv, TouchedOnlyWithDisk
<1>8. ASSUME NEW k \in Jobs PROVE WidthKept(k)'
  <2>1. Holding(k)' \subseteq Holding(k)
    BY <1>2 DEF Holding, InSlot
  <2> QED
    BY <1>1, <2>1, WidthFrame DEF IInv
<1>9. OnePage => PageInv' /\ EventInv' /\ CancelBelongsToJob'
  BY <1>1 DEF IInv, PageInv, EventInv, CancelBelongsToJob, Live
<1> QED
  BY <1>3, <1>4, <1>5, <1>6, <1>7, <1>8, <1>9 DEF IInv

\* The one step that takes a slot.
LEMMA PrepareKeeps ==
  ASSUME IInv, TypeOK', NEW j \in Jobs, NEW s \in Servers, Prepare(j, s) PROVE IInv'
<1>0. TypeOK
  BY DEF IInv
<1>1. /\ mode = "up" /\ coro[j][s] \in {"spawned", "waiting"} /\ run[j].pc = "gather"
      /\ SlotFree(j) /\ tasks[j][s].disk /\ configs' = configs \cup {<<j, s>>}
      /\ UNCHANGED <<jobs, mode, gui, run, cancelRef, posted, page, bmc>>
  BY DEF Prepare, AtGate
<1>2. /\ tasks'[j][s].state = "mounting_iso" /\ tasks'[j][s].disk = tasks[j][s].disk
      /\ \A k \in Jobs, r \in Servers : (k # j \/ r # s) => tasks'[k][r] = tasks[k][r]
  <2>1. tasks' = WithState(j, s, "mounting_iso") /\ "mounting_iso" \in TaskStates
    BY DEF Prepare, WithState, TaskStates, NonTerminal, Steps
  <2> QED
    BY <1>0, <2>1, RowWritten
<1>3. /\ coro'[j][s] = "mounting"
      /\ \A k \in Jobs, r \in Servers : (k # j \/ r # s) => coro'[k][r] = coro[k][r]
  <2>1. coro' = WithCoro(j, s, "mounting") /\ "mounting" \in Steady
    BY DEF Prepare, WithCoro, Steady, InSlot
  <2> QED
    BY <1>0, <2>1, CoroWritten
<1>4. gui.job # j /\ JobInv(j)
  BY <1>1, JobsAssumption DEF IInv, GuiInv
<1>5. GuiInv' /\ QuietInv'
  BY <1>0, <1>1, <1>2, <1>4, Types DEF IInv, GuiInv, QuietInv, Running
<1>6. ASSUME NEW k \in Jobs PROVE JobInv(k)'
  <2>1. JobInv(k)
    BY DEF IInv
  <2> QED
    BY <1>1, <1>2, <1>4, <2>1 DEF JobInv, Live, Settled, Running
<1>7. ASSUME NEW k \in Jobs, NEW r \in Servers PROVE TaskInv(k, r)'
  <2>1. TaskInv(k, r)
    BY DEF IInv
  <2>2. CASE k = j /\ r = s
    BY <1>1, <1>2, <1>3, <1>4, <2>1, <2>2 DEF TaskInv, InSlot, NonTerminal, Steps
  <2>3. CASE k # j \/ r # s
    BY <1>1, <1>2, <1>3, <2>1, <2>3 DEF TaskInv
  <2> QED
    BY <2>2, <2>3
<1>8. ConfigsOnlyWhileInstalling'
  <2>1. ASSUME NEW p \in configs' PROVE coro'[p[1]][p[2]] \in InSlot
    <3>1. CASE p = <<j, s>>
      BY <1>3, <3>1 DEF InSlot
    <3>2. CASE p # <<j, s>>
      <4>1. p \in configs /\ p \in Jobs \X Servers
        BY <1>0, <1>1, <3>2, Types DEF Pairs
      <4>2. p[1] \in Jobs /\ p[2] \in Servers /\ (p[1] # j \/ p[2] # s)
        BY <3>2, <4>1
      <4> QED
        BY <1>3, <4>1, <4>2 DEF IInv, ConfigsOnlyWhileInstalling
    <3> QED
      BY <3>1, <3>2
  <2> QED
    BY <2>1 DEF ConfigsOnlyWhileInstalling
<1>9. TouchedOnlyWithDisk'
  <2>1. \A k \in Jobs, r \in Servers : tasks[k][r].disk => tasks'[k][r].disk
    BY <1>2
  <2> QED
    BY <1>1, <2>1, TouchedFrame DEF IInv
<1>10. ASSUME NEW k \in Jobs PROVE WidthKept(k)'
  <2>1. CASE k = j
    <3>1. Holding(j)' = Holding(j) \cup {s} /\ s \notin Holding(j)
      BY <1>1, <1>3 DEF Holding, InSlot
    <3>2. IsFiniteSet(Holding(j))
      <4>1. Holding(j) \subseteq Servers
        BY DEF Holding
      <4> QED
        BY <4>1, ServersAssumption, FS_Subset
    <3>3. /\ Cardinality(Holding(j)') = Cardinality(Holding(j)) + 1
          /\ Cardinality(Holding(j)) \in Nat
      BY <3>1, <3>2, FS_AddElement, FS_CardinalityType
    <3>4. jobs'[j].width = jobs[j].width /\ jobs[j].width \in Nat
      <4>1. jobs[j] \in JobRow
        BY <1>0, Types
      <4> QED
        BY <1>1, <4>1 DEF JobRow
    <3> QED
      BY <1>1, <2>1, <3>3, <3>4 DEF WidthKept, SlotFree
  <2>2. CASE k # j
    <3>1. Holding(k)' \subseteq Holding(k)
      BY <1>3, <2>2 DEF Holding
    <3> QED
      BY <1>0, <1>1, <3>1, WidthFrame DEF IInv
  <2> QED
    BY <2>1, <2>2
<1>11. ASSUME OnePage PROVE PageInv' /\ EventInv' /\ CancelBelongsToJob'
  <2>1. PageInv /\ EventInv /\ CancelBelongsToJob
    BY <1>11 DEF IInv
  <2>2. PageInv' /\ EventInv'
    BY <1>1, <2>1 DEF PageInv, EventInv, Live
  <2>3. CancelBelongsToJob'
    BY <1>1, <1>2, <2>1 DEF CancelBelongsToJob
  <2> QED
    BY <2>2, <2>3
<1> QED
  BY <1>5, <1>6, <1>7, <1>8, <1>9, <1>10, <1>11 DEF IInv

\* The outside world changes no row and no coroutine: the BMC, acting for a task in
\* its slot, and a host whose installer is through.
LEMMA OutsideKeeps ==
  ASSUME IInv, TypeOK', UNCHANGED <<jobs, tasks, mode, gui, run, coro, cancelRef, posted, configs, page>>,
         TouchedOnlyWithDisk'
  PROVE  IInv'
<1>1. GuiInv' /\ QuietInv'
  BY DEF IInv, GuiInv, QuietInv, Running
<1>2. \A k \in Jobs : JobInv(k)'
  BY DEF IInv, JobInv, Live, Settled, Running
<1>3. \A k \in Jobs, r \in Servers : TaskInv(k, r)'
  BY DEF IInv, TaskInv
<1>4. ConfigsOnlyWhileInstalling' /\ \A k \in Jobs : WidthKept(k)'
  BY DEF IInv, ConfigsOnlyWhileInstalling, WidthKept, Holding
<1>5. OnePage => PageInv' /\ EventInv' /\ CancelBelongsToJob'
  BY DEF IInv, PageInv, EventInv, CancelBelongsToJob, Live
<1> QED
  BY <1>1, <1>2, <1>3, <1>4, <1>5 DEF IInv

LEMMA ActKeeps ==
  ASSUME IInv, TypeOK', NEW j \in Jobs, NEW s \in Servers, Act(j, s) PROVE IInv'
<1>1. /\ TypeOK /\ bmc' = Effect(j, s)
      /\ UNCHANGED <<jobs, tasks, mode, gui, run, coro, cancelRef, posted, configs, page>>
  BY DEF IInv, Act
<1>2. /\ \A b \in Servers : b # s => bmc'[b] = bmc[b]
      /\ bmc' = bmc \/ tasks[j][s].disk
  BY <1>1, EffectLocal DEF IInv, TaskInv
<1>3. TouchedOnlyWithDisk'
  BY <1>1, <1>2 DEF IInv, TouchedOnlyWithDisk
<1> QED
  BY <1>1, <1>3, OutsideKeeps

LEMMA InstallerEndsKeeps ==
  ASSUME IInv, TypeOK', NEW s \in Servers, InstallerEnds(s) PROVE IInv'
<1>1. /\ TypeOK /\ bmc[s].host = "installer" /\ bmc' = [bmc EXCEPT ![s].host = "disk"]
      /\ UNCHANGED <<jobs, tasks, mode, gui, run, coro, cancelRef, posted, configs, page>>
  BY DEF IInv, InstallerEnds
<1>2. /\ \A b \in Servers : b # s => bmc'[b] = bmc[b]
      /\ bmc[s] # [media |-> "empty", host |-> "disk"]
  BY <1>1, Types
<1>3. TouchedOnlyWithDisk'
  BY <1>1, <1>2 DEF IInv, TouchedOnlyWithDisk
<1> QED
  BY <1>1, <1>3, OutsideKeeps

LEMMA StopKeeps == ASSUME IInv, TypeOK', Stop PROVE IInv'
<1>1. /\ mode' = "down" /\ gui' = Idle /\ cancelRef' = NoJob /\ posted' = {} /\ configs' = {}
      /\ page' = Shown /\ jobs' = jobs /\ tasks' = tasks /\ bmc' = bmc /\ TypeOK
      /\ \A k \in Jobs : run'[k] = NoRun /\ \A r \in Servers : coro'[k][r] = "idle"
  BY DEF IInv, Stop
<1>2. GuiInv' /\ QuietInv'
  BY <1>1 DEF GuiInv, QuietInv, Running, Idle
<1>3. \A k \in Jobs : JobInv(k)'
  BY <1>1 DEF IInv, JobInv, Live, Settled, Running, NoRun
<1>4. ASSUME NEW k \in Jobs, NEW r \in Servers PROVE TaskInv(k, r)'
  <2>1. gui'.job # k
    BY <1>1, JobsAssumption DEF Idle
  <2> QED
    BY <1>1, <2>1 DEF TaskInv, InSlot, NoRun
<1>5. ConfigsOnlyWhileInstalling' /\ TouchedOnlyWithDisk'
  BY <1>1 DEF IInv, ConfigsOnlyWhileInstalling, TouchedOnlyWithDisk
<1>6. ASSUME NEW k \in Jobs PROVE WidthKept(k)'
  <2>1. Holding(k)' = {}
    BY <1>1 DEF Holding, InSlot
  <2> QED
    BY <2>1, WidthOfNone
<1>7. PageInv'
  BY <1>1 DEF PageInv, Shown, Idle, Live, NoRun
<1>8. EventInv' /\ CancelBelongsToJob'
  BY <1>1 DEF EventInv, CancelBelongsToJob
<1> QED
  BY <1>2, <1>3, <1>4, <1>5, <1>6, <1>7, <1>8 DEF IInv

LEMMA SweepTasksKeeps == ASSUME IInv, TypeOK', SweepTasks PROVE IInv'
<1>1. /\ mode = "down" /\ mode' = "jobs" /\ TypeOK
      /\ UNCHANGED <<jobs, gui, run, coro, cancelRef, posted, configs, page, bmc>>
  BY DEF IInv, SweepTasks
<1>2. /\ gui = Idle /\ cancelRef = NoJob
      /\ \A k \in Jobs : run[k] = NoRun /\ \A r \in Servers : coro[k][r] = "idle"
  BY <1>1 DEF IInv, QuietInv, Running
<1>3. ASSUME NEW k \in Jobs, NEW r \in Servers
      PROVE  /\ tasks'[k][r].state \notin NonTerminal
             /\ tasks'[k][r].disk = tasks[k][r].disk
             /\ tasks[k][r] = NoTask => tasks'[k][r] = NoTask
  <2>1. tasks'[k][r] = IF tasks[k][r].state \in NonTerminal
                         THEN [tasks[k][r] EXCEPT !.state = "failed"] ELSE tasks[k][r]
    BY DEF SweepTasks, Stranded
  <2>2. tasks[k][r] \in TaskRow
    BY <1>1, Types
  <2>3. NoTask.state \notin NonTerminal /\ "failed" \notin NonTerminal
    BY DEF NoTask, NonTerminal, Steps
  <2> QED
    BY <2>1, <2>2, <2>3 DEF TaskRow
<1>4. GuiInv' /\ QuietInv'
  BY <1>1 DEF IInv, GuiInv, QuietInv, Running
<1>5. \A k \in Jobs : JobInv(k)'
  BY <1>1, <1>3 DEF IInv, JobInv, Live, Settled, Running
<1>6. ASSUME NEW k \in Jobs, NEW r \in Servers PROVE TaskInv(k, r)'
  <2>1. gui'.job # k /\ run'[k].pc = "idle" /\ coro'[k][r] = "idle"
    BY <1>1, <1>2, JobsAssumption DEF Idle, NoRun
  <2> QED
    BY <1>3, <2>1 DEF TaskInv, InSlot
<1>7. ConfigsOnlyWhileInstalling' /\ \A k \in Jobs : WidthKept(k)'
  BY <1>1 DEF IInv, ConfigsOnlyWhileInstalling, WidthKept, Holding
<1>8. TouchedOnlyWithDisk'
  <2>1. \A k \in Jobs, r \in Servers : tasks[k][r].disk => tasks'[k][r].disk
    BY <1>3
  <2> QED
    BY <1>1, <2>1, TouchedFrame DEF IInv
<1>9. OnePage => PageInv' /\ EventInv' /\ CancelBelongsToJob'
  BY <1>1 DEF IInv, PageInv, EventInv, CancelBelongsToJob, Live
<1> QED
  BY <1>4, <1>5, <1>6, <1>7, <1>8, <1>9 DEF IInv

LEMMA SweepJobsKeeps == ASSUME IInv, TypeOK', SweepJobs PROVE IInv'
<1>1. /\ mode = "jobs" /\ mode' = "up" /\ TypeOK
      /\ UNCHANGED <<tasks, gui, run, coro, cancelRef, posted, configs, page, bmc>>
  BY DEF IInv, SweepJobs
<1>2. /\ gui = Idle /\ cancelRef = NoJob /\ gui.job = NoJob /\ page = Shown
      /\ \A k \in Jobs : run[k] = NoRun /\ \A r \in Servers : coro[k][r] = "idle"
  BY <1>1 DEF IInv, QuietInv, Running, Idle
<1>3. ASSUME NEW k \in Jobs
      PROVE  /\ jobs'[k].state \notin {"pending", "running"} /\ jobs'[k].width = jobs[k].width
             /\ jobs'[k].state = "none" => jobs[k].state = "none"
  <2>1. jobs'[k] = IF jobs[k].state \in {"pending", "running"}
                     THEN [jobs[k] EXCEPT !.state = "failed"] ELSE jobs[k]
    BY DEF SweepJobs
  <2>2. jobs[k] \in JobRow
    BY <1>1, Types
  <2> QED
    BY <2>1, <2>2 DEF JobRow
<1>4. GuiInv' /\ QuietInv'
  BY <1>1, <1>2 DEF IInv, GuiInv, QuietInv, Running
<1>5. \A k \in Jobs : JobInv(k)'
  BY <1>1, <1>2, <1>3 DEF IInv, JobInv, Live, Settled, Running, NoRun
<1>6. \A k \in Jobs, r \in Servers : TaskInv(k, r)'
  BY <1>1 DEF IInv, TaskInv
<1>7. ConfigsOnlyWhileInstalling' /\ TouchedOnlyWithDisk'
  BY <1>1 DEF IInv, ConfigsOnlyWhileInstalling, TouchedOnlyWithDisk
<1>8. \A k \in Jobs : WidthKept(k)'
  BY <1>1, <1>3 DEF IInv, WidthKept, Holding
<1>9. PageInv' /\ EventInv' /\ CancelBelongsToJob'
  BY <1>1, <1>2 DEF PageInv, EventInv, CancelBelongsToJob, Live, NoRun, Shown
<1> QED
  BY <1>4, <1>5, <1>6, <1>7, <1>8, <1>9 DEF IInv

LEMMA QuitTaskRows ==
  ASSUME TypeOK, NEW j \in Jobs, NEW s \in Servers, QuitTask(j, s)
  PROVE  /\ tasks'[j][s].state = "cancelled" /\ tasks'[j][s].disk = tasks[j][s].disk
         /\ \A k \in Jobs, r \in Servers : (k # j \/ r # s) => tasks'[k][r] = tasks[k][r]
         /\ coro'[j][s] = "done"
         /\ \A k \in Jobs, r \in Servers : (k # j \/ r # s) => coro'[k][r] = coro[k][r]
<1>1. /\ tasks' = WithState(j, s, "cancelled") /\ "cancelled" \in TaskStates
      /\ coro' = WithCoro(j, s, "done") /\ "done" \in Steady
  BY DEF QuitTask, TaskStates, Terminal, Steady, WithState, WithCoro
<1>2. /\ tasks'[j][s].state = "cancelled" /\ tasks'[j][s].disk = tasks[j][s].disk
      /\ \A k \in Jobs, r \in Servers : (k # j \/ r # s) => tasks'[k][r] = tasks[k][r]
  BY <1>1, RowWritten
<1>3. /\ coro'[j][s] = "done"
      /\ \A k \in Jobs, r \in Servers : (k # j \/ r # s) => coro'[k][r] = coro[k][r]
  BY <1>1, CoroWritten
<1> QED
  BY <1>2, <1>3

LEMMA QuitTaskKeeps ==
  ASSUME IInv, TypeOK', NEW j \in Jobs, NEW s \in Servers, QuitTask(j, s) PROVE IInv'
<1>0. TypeOK
  BY DEF IInv
<1>1. /\ mode \in {"up", "quitting"} /\ mode' = "quitting" /\ coro[j][s] \in InSlot
      /\ configs' = configs \ {<<j, s>>}
      /\ UNCHANGED <<jobs, gui, run, cancelRef, posted, page, bmc>>
  BY DEF QuitTask
<1>2. /\ tasks'[j][s].state = "cancelled" /\ tasks'[j][s].disk = tasks[j][s].disk
      /\ \A k \in Jobs, r \in Servers : (k # j \/ r # s) => tasks'[k][r] = tasks[k][r]
  BY <1>0, QuitTaskRows
<1>3. /\ coro'[j][s] = "done"
      /\ \A k \in Jobs, r \in Servers : (k # j \/ r # s) => coro'[k][r] = coro[k][r]
  BY <1>0, QuitTaskRows
<1>4. run[j].pc = "gather" /\ gui.job # j /\ JobInv(j)
  <2>1. run[j].pc = "gather"
    BY <1>1 DEF IInv, TaskInv, InSlot
  <2> QED
    BY <2>1, JobsAssumption DEF IInv, GuiInv
<1>5. GuiInv' /\ QuietInv'
  BY <1>0, <1>1, <1>2, <1>4, Types DEF IInv, GuiInv, QuietInv, Running
<1>6. ASSUME NEW k \in Jobs PROVE JobInv(k)'
  <2>1. JobInv(k)
    BY DEF IInv
  <2> QED
    BY <1>1, <1>2, <1>4, <2>1 DEF JobInv, Live, Settled, Running
<1>7. ASSUME NEW k \in Jobs, NEW r \in Servers PROVE TaskInv(k, r)'
  <2>1. TaskInv(k, r)
    BY DEF IInv
  <2>2. CASE k = j /\ r = s
    BY <1>1, <1>2, <1>3, <1>4, <2>1, <2>2 DEF TaskInv, InSlot, Terminal
  <2>3. CASE k # j \/ r # s
    BY <1>1, <1>2, <1>3, <2>1, <2>3 DEF TaskInv
  <2> QED
    BY <2>2, <2>3
<1>8. ConfigsOnlyWhileInstalling'
  BY <1>0, <1>1, <1>3, Types DEF IInv, ConfigsOnlyWhileInstalling, Pairs
<1>9. TouchedOnlyWithDisk'
  <2>1. \A k \in Jobs, r \in Servers : tasks[k][r].disk => tasks'[k][r].disk
    BY <1>2
  <2> QED
    BY <1>1, <2>1, TouchedFrame DEF IInv
<1>10. ASSUME NEW k \in Jobs PROVE WidthKept(k)'
  <2>1. Holding(k)' \subseteq Holding(k)
    BY <1>3 DEF Holding, InSlot
  <2> QED
    BY <1>0, <1>1, <2>1, WidthFrame DEF IInv
<1>11. OnePage => PageInv' /\ EventInv'
  BY <1>1 DEF IInv, PageInv, EventInv, Live
<1>12. CancelBelongsToJob'
  BY <1>1 DEF CancelBelongsToJob
<1> QED
  BY <1>5, <1>6, <1>7, <1>8, <1>9, <1>10, <1>11, <1>12 DEF IInv

LEMMA InitEstablishes == Init => IInv
<1> SUFFICES ASSUME Init PROVE IInv
  OBVIOUS
<1>1. TypeOK
  BY DEF Init, TypeOK, NoRow, NoTask, NoRun, Idle, Shown, TaskStates, MaxWidth
<1>2. /\ \A k \in Jobs : /\ jobs[k] = NoRow /\ run[k] = NoRun
                         /\ \A r \in Servers : tasks[k][r] = NoTask /\ coro[k][r] = "idle"
      /\ mode = "down" /\ gui = Idle /\ page = Shown
      /\ cancelRef = NoJob /\ posted = {} /\ configs = {}
  BY DEF Init
<1>3. GuiInv /\ QuietInv
  BY <1>2 DEF GuiInv, QuietInv, Idle
<1>4. \A k \in Jobs : JobInv(k)
  BY <1>2 DEF JobInv, Live, NoRow, NoRun, Running
<1>5. \A k \in Jobs, r \in Servers : TaskInv(k, r)
  BY <1>2 DEF TaskInv, NoTask, NoRun, InSlot
<1>6. ConfigsOnlyWhileInstalling /\ TouchedOnlyWithDisk
  BY DEF Init, ConfigsOnlyWhileInstalling, TouchedOnlyWithDisk
<1>7. ASSUME NEW k \in Jobs PROVE WidthKept(k)
  <2>1. Holding(k) = {}
    BY <1>2 DEF Holding, InSlot
  <2> QED
    BY <1>2, <2>1, FS_EmptySet DEF WidthKept, NoRow
<1>8. PageInv /\ EventInv /\ CancelBelongsToJob
  BY <1>2 DEF PageInv, EventInv, CancelBelongsToJob, Live, NoRun, Idle, Shown
<1> QED
  BY <1>1, <1>3, <1>4, <1>5, <1>6, <1>7, <1>8 DEF IInv

LEMMA GateKeeps ==
  ASSUME IInv, TypeOK', NEW j \in Jobs, NEW s \in Servers, Gate(j, s) PROVE IInv'
<1>1. CASE SkipCancelled(j, s)
  BY <1>1, EndTaskKeeps DEF SkipCancelled, AtGate, Terminal
<1>2. CASE Refuse(j, s)
  BY <1>2, EndTaskKeeps DEF Refuse, AtGate, Terminal
<1> QED
  BY <1>1, <1>2, WaitForSlotKeeps, PrepareKeeps DEF Gate

LEMMA CallKeeps ==
  ASSUME IInv, TypeOK', NEW j \in Jobs, NEW s \in Servers, Call(j, s) PROVE IInv'
<1>1. CASE MountIso(j, s) \/ SetBootOnce(j, s) \/ PowerCycle(j, s)
  BY <1>1, AdvanceKeeps DEF MountIso, SetBootOnce, PowerCycle, InSlot, Steps
<1>2. CASE EjectIso(j, s)
  BY <1>2, EndTaskKeeps DEF EjectIso, Terminal
<1>3. CASE PluginFails(j, s)
  BY <1>3, EndTaskKeeps DEF PluginFails, Terminal
<1> QED
  BY <1>1, <1>2, <1>3 DEF Call

\* The event that ends the wait is the shared one: with one job at a time it is the
\* job's own.
LEMMA WaitKeeps ==
  ASSUME IInv, TypeOK', NEW j \in Jobs, NEW s \in Servers, Wait(j, s) PROVE IInv'
<1>1. CASE PollAgain(j, s) \/ PortSilent(j, s) \/ PortAnswers(j, s) \/ Verify(j, s)
  BY <1>1, AdvanceKeeps DEF PollAgain, PortSilent, PortAnswers, Verify, InSlot, Steps
<1>2. CASE NoAnswer(j, s)
  BY <1>2, EndTaskKeeps DEF NoAnswer, Terminal
<1>3. CASE CancelInstall(j, s)
  <2>1. /\ mode = "up" /\ coro[j][s] \in {"cycling", "asleep"} /\ EndTask(j, s, "cancelled")
        /\ bmc' = Effect(j, s) /\ cancelRef # NoJob /\ run[cancelRef].cancel
    BY <1>3 DEF CancelInstall, SharedEventSet
  <2>2. ASSUME OnePage PROVE run[j].cancel
    <3>1. /\ run[j].pc = "gather" /\ run[cancelRef].pc = "gather" /\ cancelRef \in Jobs
          /\ PageInv
      BY <2>1, <2>2, Types DEF IInv, TaskInv, EventInv
    <3>2. cancelRef = j
      BY <3>1 DEF PageInv, Live
    <3> QED
      BY <2>1, <3>2
  <2>3. "cancelled" \in Terminal /\ coro[j][s] \notin {"idle", "done"}
    BY <2>1 DEF Terminal
  <2> QED
    BY <2>1, <2>2, <2>3, EndTaskKeeps
<1> QED
  BY <1>1, <1>2, <1>3 DEF Wait

LEMMA NextKeeps == IInv /\ [Next]_vars => IInv'
<1> SUFFICES ASSUME IInv, [Next]_vars PROVE IInv'
  OBVIOUS
<1>1. TypeOK'
  BY NextTypes DEF IInv
<1>2. CASE MainThread
  BY <1>1, <1>2, BeginJobKeeps, CreateTaskKeeps, SubmitJobKeeps, PageKeeps DEF MainThread
<1>3. ASSUME NEW j \in Jobs, JobStep(j) PROVE IInv'
  BY <1>1, <1>3, RunJobKeeps, DeliverCancelKeeps, SettleJobKeeps DEF JobStep
<1>4. ASSUME NEW j \in Jobs, NEW s \in Servers,
             Gate(j, s) \/ Call(j, s) \/ Wait(j, s) \/ Act(j, s)
      PROVE  IInv'
  BY <1>1, <1>4, GateKeeps, CallKeeps, WaitKeeps, ActKeeps
<1>5. CASE Process
  BY <1>1, <1>5, StopKeeps, SweepTasksKeeps, SweepJobsKeeps, QuitTaskKeeps DEF Process
<1>6. CASE UNCHANGED vars
  BY <1>1, <1>6, OutsideKeeps DEF vars, IInv, TouchedOnlyWithDisk
<1> QED
  BY <1>1, <1>2, <1>3, <1>4, <1>5, <1>6, InstallerEndsKeeps DEF Next

LEMMA Inductive == Spec => []IInv
BY InitEstablishes, NextKeeps, PTL DEF Spec

-----------------------------------------------------------------------------
(* The theorems.                                                           *)

\* The rows of both tables, the locals of the coroutines, the callback queue, the
\* page and the BMCs keep to their domains, for any jobs, servers and widths asked for.
THEOREM TypeCorrect == Spec => []TypeOK
<1>1. IInv => TypeOK
  BY DEF IInv
<1> QED
  BY <1>1, Inductive, PTL

\* A rendered config is in memory only for a task that holds a slot, whether the task
\* ended, failed, was cancelled or was caught by a quit (run_one's finally clause).
THEOREM ConfigsAreDropped == Spec => []ConfigsOnlyWhileInstalling
<1>1. IInv => ConfigsOnlyWhileInstalling
  BY DEF IInv
<1> QED
  BY <1>1, Inductive, PTL

\* Nothing is mounted on a server and no server boots an installer unless a task of
\* it was created with a resolved disk; the BMC may act before its answer or without one.
THEOREM OnlyResolvedDisksTouched == Spec => []TouchedOnlyWithDisk
<1>1. IInv => TouchedOnlyWithDisk
  BY DEF IInv
<1> QED
  BY <1>1, Inductive, PTL

\* Between a launch and its end, whatever crashed before: a job that says 'running'
\* has its coroutine and an unfinished task has a live job or is being created.
THEOREM NoneStranded == Spec => []NothingStranded
<1>1. IInv => NothingStranded
  <2> SUFFICES ASSUME IInv, mode = "up", NEW j \in Jobs
               PROVE  /\ jobs[j].state = "running" => Live(j)
                      /\ \A s \in Servers :
                           tasks[j][s].state \in NonTerminal => Live(j) \/ gui.job = j
    BY DEF NothingStranded
  <2>1. jobs[j].state = "running" => Live(j)
    BY DEF IInv, JobInv, Running
  <2>2. ASSUME NEW s \in Servers, tasks[j][s].state \in NonTerminal, ~Live(j), gui.job # j
        PROVE  FALSE
    <3>1. TaskInv(j, s) /\ run \in [Jobs -> RunRow]
      BY Types DEF IInv
    <3>2. run[j].pc = "done"
      BY <2>2, <3>1 DEF TaskInv, RunRow, Live
    <3>3. coro[j][s] \in {"idle", "done"}
      BY <3>1, <3>2 DEF TaskInv
    <3>4. tasks[j][s].state \in {"none"} \cup Terminal
      BY <3>1, <3>2, <3>3 DEF TaskInv
    <3> QED
      BY <2>2, <3>4 DEF NonTerminal, Terminal, Steps
  <2> QED
    BY <2>1, <2>2
<1> QED
  BY <1>1, Inductive, PTL

\* A job of any origin has at most its width of servers between mount and eject: the
\* first half of BatchBounded needs nobody's good manners.
THEOREM SlotsKeepWidth == Spec => []\A j \in Jobs : WidthKept(j)
<1>1. IInv => \A j \in Jobs : WidthKept(j)
  BY DEF IInv
<1> QED
  BY <1>1, Inductive, PTL

\* If jobs are started by the Provision page only, one job at most is being created,
\* running or waiting for the page to notice its end.
THEOREM OneJobAtATime == ASSUME OnePage PROVE Spec => []PageInv
<1>1. IInv => PageInv
  BY DEF IInv
<1> QED
  BY <1>1, Inductive, PTL

\* Then the inrush is bounded over all jobs together: at most one job has servers in
\* its slots, and at most its clamped width of them.
THEOREM BatchesBounded == ASSUME OnePage PROVE Spec => []BatchBounded
<1>1. IInv => BatchBounded
  <2> SUFFICES ASSUME IInv, NEW j \in Jobs
               PROVE  /\ Cardinality(Holding(j)) <= jobs[j].width
                      /\ Holding(j) # {} => \A k \in Jobs \ {j} : Holding(k) = {}
    BY DEF BatchBounded
  <2>1. Cardinality(Holding(j)) <= jobs[j].width
    BY DEF IInv, WidthKept
  <2>2. ASSUME NEW k \in Jobs \ {j}, Holding(j) # {}, Holding(k) # {} PROVE FALSE
    <3>1. run[j].pc = "gather" /\ run[k].pc = "gather"
      BY <2>2 DEF IInv, TaskInv, Holding, InSlot
    <3> QED
      BY <3>1 DEF IInv, PageInv, Live
  <2> QED
    BY <2>1, <2>2
<1> QED
  BY <1>1, Inductive, PTL

\* And then a Cancel ends the installs of its own job only, although the wait reads
\* self._cancel_event of whichever job came last, and the verdict says 'cancelled'.
THEOREM CancelsBelong == ASSUME OnePage PROVE Spec => []CancelBelongsToJob
<1>1. IInv => CancelBelongsToJob
  BY DEF IInv
<1> QED
  BY <1>1, Inductive, PTL

=============================================================================
