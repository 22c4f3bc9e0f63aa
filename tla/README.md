# ClusterOne in TLA+

ClusterOne is a desktop application (Python, PyQt6 and QML) with which an
operator discovers servers over Redfish, flashes their firmware in bulk,
installs operating systems on them and switches their power.  This directory
models the parts of it where several actors meet, and the recipes that decide
over a flashed bank or a wiped disk: the two orchestrators, their tables, the
page that drives them, the server rows everybody writes, the Redfish client
whose session requests share, the flash recipes of the vendor plugins, the
choice of the drive an install wipes, and what installs and power buttons do to
one BMC.  The properties are checked by TLC on small instances, and nearly
all the safety properties are proved for every instance with TLAPS.

## The system

Two threads run.  The Qt **main thread** has the pages (QML over the
controllers of `ui/bridge/controllers.py`), calls `start_job` and `cancel`, and
does the start-up sweeps and the shutdown (`app/container.py`).  The **engine
thread** (`core/engine/async_engine.py`) runs one asyncio loop with every
coroutine that talks to a BMC.  Worker threads import files.  They share Python
objects, one SQLite connection whose writers hold `Database.write_lock`, the
loop's callback queue (`call_soon`), and Qt signals queued for the main thread.
The process may be quit (a drain of two seconds) or die at any point; only the
tables, the files and the BMC survive.

| component | state | operations | what is hard | what makes it correct |
|---|---|---|---|---|
| Update orchestrator, `update_orchestrator.py` | the cancel event, one coroutine per job and per task, a semaphore per job | `start_job`, `cancel`, `_run_job`, `_run_task`, `_real_task`, `resume_interrupted` | cancel from another thread; rows written one by one; writes that raise; crashes; a file that changes between hash and upload | no stranded rows, closed after tasks, honest verdicts, final results, honoured cancels, bounded concurrency |
| Jobs repository, `jobs_repo.py` | `update_jobs`, `update_tasks` | create, update, `finalize_job_from_tasks`, `fail_non_terminal_jobs_except` | two ways of computing a verdict | neither flatters |
| Updates page, `UpdateController` | `_running`, the job id, queued signals | `start`, `cancel`, end of job | flag and job on different threads | Start is offered only when idle; the page becomes free |
| Provisioning orchestrator, `provisioning_orchestrator.py` | as for updates, and rendered answers by token | `preview`, `start_job`, `cancel`, `_real_task`, `resume_interrupted` | BMC calls that fail after taking effect; a wait of 30 minutes; secrets in memory | only resolved disks are wiped; cancels reach their own job; no secret outlives its task |
| Server rows, `servers_repo.py` | `servers`, by address | `upsert`, pin a vendor, cache drives, pin a certificate, remove | rows read, awaited on and written back; addresses that change machines | a pinned vendor goes when its machine is seen to go, and is never lost |
| Discovery, `discovery_service.py`, `scanner.py` | the scan's event and counters | `start`, `cancel`, `scan`, disk refresh | order of the writes of one scan; partial readings | as for the rows and the drive names |
| Power, `power_service.py` | counters of a batch | `apply`, `_apply_one`, `_verify_state` | the stale write-back; installs on the same host | a button does what it says |
| Redfish client, `redfish_client.py` | token, session URI, lock | login, re-login after 401, logout, retries | racing logins, concurrent 401s, logins that are refused or lost | one session for all, none lost but in the named ways, a retry is fresh, every request ends |
| Capability discoverer, `capability_discoverer.py` | none; the map it returns | the walk, the classification of firmware members | any GET may fail without stopping it | a lost member never promotes a rollback bank |
| Generic plugin, `generic_redfish/plugin.py` | the map, cached for 60 seconds | `update_bmc/bios/hgx`, `_poll_task`, reset, version rescue, `get_storage_inventory`, `mount_iso`, `set_boot_once`, `power_action` | BMCs that reboot, forget and refuse under a poll; stale and partial maps | no success without evidence; no restart without a mounted installer |
| HPE, Supermicro and Dell plugins | none | their own upload, state poll, install and restart sequence | states that belong to the upload before | the same |
| Firmware store, `firmware_service.py`, `firmware_repo.py` | files by hash and rows | import, delete | file and row are not one transaction | what is flashed is what was imported |
| Disk resolver, answer renderer | none | strategies, overrides, how the answers name the disk | names made from one reading, used after another | the drive resolved is the drive wiped |
| Registry, credential scopes, signed URLs, migrations | none, or one transaction | lookups | boundaries | the documented choice |
| Models, themes, reports, settings, activity, tools | presentation | | | nothing the rest depends on |

`PROJECT.json` lists every component with its status, and under `hazards` the
places where each of these bites.

## The modules

| module | what it models |
|---|---|
| `UpdateJobs` | the update orchestrator over its two tables, on two threads, with crashes, quits and launches |
| `UpdateController` | `UpdateJobs` driven by the Updates page; fairness; liveness; the refinement |
| `JobLedger` | abstract: what the two tables promise to whoever reads them |
| `Provisioning` | the provisioning orchestrator, its tables, the page's guard, and the BMC seen through its calls |
| `ServerRows` | the `servers` table and everybody who writes it |
| `RedfishSession` | one Redfish client, the requests that share its session and lock, and the BMC's session table |
| `CapabilityWalk` | operators: the discoverer's map as a function of the BMC's tree and of what a walk lost; the choices the plugins make from it |
| `FirmwareStore` | rows and files of the firmware repository, concurrent imports and deletions |
| `FlashFlow` | one server's flashes by four recipes, over `CapabilityWalk` and `FirmwareStore`, against a BMC that may refuse, lose or forget |
| `DiskChoice` | from a reading of the drives through the cached list and the operator's pick to the drive an installer wipes |
| `BmcActions` | an install's calls and the power buttons on one BMC, over `CapabilityWalk`, sharing the cached map |
| `UpdateJobsProofs`, `UpdateControllerProofs`, `ProvisioningProofs`, `ServerRowsProofs`, `RedfishSessionProofs`, `FlashProofs`, `DiskChoiceProofs`, `BmcActionsProofs` | the theorems about the module each is named after (`FlashProofs`: `FlashFlow`) |
| `MC...` | instances and symmetry for TLC; `UpdateController` and `RedfishSession` are checked directly |

**State and steps.**  A step is the code between two points where another
actor can see the difference: a committed row, an `await`, a
`call_soon_threadsafe`, a queued signal, a request a BMC acts on.  Code of the
engine thread between two awaits is one step unless it commits a row in the
middle that the main thread or a crash could observe apart from the rest.  A
repository method holds the write lock and commits, hence is one step.  A
coroutine is its program counter (`coro[j][s]`, `flash.pc`, `task.pc`) and its
locals.  An `asyncio.Event` belongs to the job that made it; `cancelRef` is the
attribute `self._cancel_event`, `cancelPosted` the `set()` calls that wait in
the loop's queue.  Ids are model values, handed out once, so that a job number
is never reused; texts, percentages and times are left out.

**Updates.**  The plugin call of a task is one nondeterministic outcome
(`Progress`, `FailTask`, `WriteCompleted`); what it does is `FlashFlow`.  A row
write may raise, up to `MaxWriteFaults` times; it is the statement that raises
and nothing is written (a `commit` that raises and leaves the statement pending
for somebody else's commit is not modelled).  A failure handler may raise as
well (`FailureLost`, `SettleLost`); `lost` records it, and the properties that
cannot hold then say so.  A graceful quit cancels the coroutines that run inside
`_run_task` (`DrainTask`) and gives up at any point (`Exit`); a crash is the same
without the drain.  The next launch lists the unfinished tasks, fails them one
by one, recounts the jobs it listed, and then fails what is left with one
statement; a crash may fall between any two of these, and none of them raises.  `resume_interrupted` also
has a branch for tasks that stored a task URI; no code stores one, so it is
unreachable and left out.

**Installs.**  A call to the BMC may act before its answer (`Act`), fail having
acted or not (`PluginFails`), or succeed.  The host is known only as far as the
code could tell: running from disk or running the installer.  The wait polls
port 22 of the BMC's own address, which may answer at any time: it reads the
cancel event before each poll (`PowerCycle`, `PollAgain`, `CancelInstall`), and
a cancel that is delivered while the poll is under way (`polling`) is seen only
if the port stays silent (`PortSilent`) and the wait comes round again.  `OnePage` says
whether jobs are started by the Provision page only, whose flag keeps them from
overlapping.

**Rows.**  A machine stands for its serial number, its certificate and its
disks.  A scan probes, upserts, caches drives and captures the certificate, in
that order and with anybody else in between; one scan of an address is under way
at a time, and the machine behind the address is exchanged between scans, not in
the middle of one.  Rows of different addresses share nothing, so one address is
enough.  A scan need not carry a serial number; `pickedFor`
records the serial number a row had when its vendor was pinned, `lapsed` whether
the row has been without one since.

**The client's session.**  The five request methods authenticate alike and are
one coroutine; a step reaches from one `await` that waits to the next.
`_login_lock` is a holder and a queue, since an `asyncio.Lock` wakes waiters in
turn.  The BMC may refuse a login, lose its answer, not know sessions, send no
`Location`, and end a session at any time; it answers 401 only to an unknown
token or a wrong password.  `strayed` holds the sessions the client was never
told how to delete, `dropped` those a forced re-login forgets when it acts on a
401 that an older token got.  The application gives each client to one
coroutine, so `dropped` stays empty there; the class promises more, and the
model takes it at its word.

**Flashes.**  A BMC is a `tree` (which push transport it advertises, which
inventory members and reset types it lists) and what an upload is doing to it:
one upload at a time (`work`, `load`), a task per upload, a version and a staged
image per bank, iLO's state, the host's power.  A name is the set of substrings
the code looks for (`Tokens`), since that is all that classification,
`_is_active_bank` and the HGX filter see of it; the pre-flight looks for others
and minds their case (`Spelled`).  A walk loses any subset of
`Lossy`, and `Walk` is a function of the tree and that subset.  Each request of
the recipe is a step that is answered, answered with an error (`Refused`,
`PollError`, or ignored where the code ignores it), or loses its connection
(`ConnectionDrops`), because the client wraps the first in `RedfishError` and
lets the second through, and the recipes catch one and not the other.  Supermicro's plugin inherits
`update_hgx` and overrides the `_poll_task` it calls, with fewer parameters:
its GPU flashes end there (`Watched`).  History
variables (`proof`, `touched`, `early`, `cycled`, `landed`) record why a flash
was called a success and what really happened.

**Drives.**  A drive's name is a tuple ordered as the code's strings are.  A
walk knows the listings it met but for any set of lost controllers and
listings; `Kept` deduplicates and names them in the order they are met.  The
code sorts the result and takes its first match; `Inventory` is the set of its
entries and `First` the one the order puts first.  `Resolve` has all the strategies;
`by_slot` compares the ends of labels, of which a number stands for the last
digits (`EndsWith`).  `LoneBayIsExact` and `InstallerHitsResolved` are about what
happens between two readings.  Assumed: two drives never report one serial number, and the device
names among the bays' names are genuine (`Kernel`).

**One BMC under an install and the power buttons.**  Both sides take the cached
map, walk when there is none, and the 60 seconds may be over at any point.
Slots hold nothing, somebody's medium, ours, or ours on its way in (which may
never arrive).  A restart spends the boot override.  The install's wait ends when
port 22 of the BMC's address answers, whatever the host runs (`HostAnswers`), so
that the eject may come while the installer runs.

## The runs

| run | question | bounds | answer |
|---|---|---|---|
| `update_jobs` | do rows, coroutines and each other ever disagree, and does a launch close what was left open? | 2 jobs, 2 servers, widths 0 and 2, up to 2 raising writes; `FewRows`, `WideAlone`, `FaultsAlone` | no; yes |
| `update_controller` | does the page offer Start only when idle, do cancels hit their job, do the tables implement `JobLedger`, does everything settle? | 2 jobs, 2 servers, width 0, no raising writes, `MaxTasks` 2 | yes |
| `provisioning` | batches, cancels, secrets, resolved disks, the sweep | 2 jobs, 2 servers, widths 0 and 2, one page; `FewRows`, `WideAlone`, `SmallPair` | hold |
| `provisioning_installer` | has a task that reports success waited for the installer? | as `provisioning`, width 2 | **no** |
| `server_rows` | does a pin fit its machine unless the row has lost its serial number, is it kept? | 1 address, 3 machines, scans with and without a serial number | yes |
| `stale_pick` | is a pin gone when the row has another machine's serial number? | 1 address, 2 machines, scans with and without a serial number | **no** |
| `redfish_session` | do racing logins share one session, is any lost unnamed, is everybody served? | 2 requests, 3 sessions | hold |
| `flash` | is a success a fact, are rollback banks safe, when is the host restarted, what is pushed, does a flash end? | 2 flashes, 3 images, 6 machines of 4 vendors, 5 banks, walks that lose the root, a page or the BMC's member, 1 importer, `MaxErrors` 2; `StoreNearFlash` | hold |
| `flash_drop` | is a connection lost during a poll tolerated? | as `flash` | **no** |
| `disk_choice` | do names tell drives apart, is a lone bay exact, does the installer find what was resolved? | 6 drives (3 in bays of one number, 1 listed twice, 2 without serial, 1 in slot 13, 1 ghost), 2 controllers, every reading, 10 strategies | yes |
| `disk_exact` | is the drive picked the drive wiped? | as `disk_choice` | **no** |
| `bmc_actions` | does an install's restart boot its installer, does its eject find its ISO, does a button do what it says? | 3 slots, 4 BMCs, walks that lose the root, the media, one slot or the reset types; `ForeignInFirst` | yes |

Two jobs are what it takes for one job's event, flag or end to reach another;
two servers let one task hold the slot while another waits, and give a job both
kinds of result; a width of 0 exercises the clamp (it becomes 1) and 2 lets both
in; two faults reach the handler of a handler.  The constraints cut what these
cases do not need: a third or fourth row repeats the first two
(`FewRows`: at most three), a job wide enough to run its servers side by side
meets no other job (`WideAlone`: jobs meet one task each, `SmallPair`), and a
second raising write falls in a job that is alone (`FaultsAlone`).  They bound
the instance and weaken no guard: the proofs have none of them.
`update_controller` has one width and no progress reports because liveness
allows no symmetry and its questions are about jobs, not about slots.  Three
machines let a row, the row somebody still holds and the address each belong to
a different one.  Two requests race for a login, wait for its lock and force
each other's re-login; three sessions leave one for each re-login and one that
is lost.

Two flashes let the state of one upload be read by the next, an upload replace
one that still runs, and a row's version refuse a flash.  The machines are the
four recipes, with and without multipart push, with and without GPU components;
a second flash meets a repository at rest, and under the first only the image it
flashes moves (`StoreNearFlash`).  `MaxErrors` stands for 60 consecutive poll
errors: the counter's reset, its last tolerated value and the one after it all
occur with 2.  Walks may lose the whole map, the second page and the preferred
member, which are the three ways a choice of bank can change.  Three drives
behind one bay number exercise all the ways a name is made unique.  One drive
(`Swappable`) may be pulled and put back.  In `bmc_actions` a second optical
slot lets the eject and the insert go to different places; one foreign medium
(`ForeignInFirst`) is enough to make them.  One power action at a time waits to
see its effect, which loses nothing: the wait changes only the cache.
Symmetry is used only for safety runs, over ids that are only compared.

The violated runs are disagreements between the code and its own words, each
quoted in `findings`:

- *provisioning_installer*: the port polled is the BMC's, so success may be
  reported, and the image ejected, while the installer runs.
- *flash_drop*: the poll's handler catches `RedfishError`; a dropped connection
  is an `aiohttp` exception, which ends the task while the BMC flashes on.
- *stale_pick*: an upsert without a serial number keeps the pick, as a test
  wants, and erases the serial number; the next machine's is then compared with
  nothing and inherits the pick.
- *disk_exact*: of two drives that share a bay number, the first one *read* gets
  the plain label; a refresh that lost it gives the label, hence the pick, to
  the other.

## What else reading the code showed

These have no run of their own.  The models contain the behaviour, and the
properties are stated so that they hold in spite of it.

- The wait for the host of an install reads `self._cancel_event`, not the
  snapshot its comment speaks of; only the page's running flag (`OnePage`) keeps
  one job's cancel from reaching another's installs.
- A Cancel between the return of `start_job` and the first step of `_run_job`
  finds no event and is dropped; `docs/USER_GUIDE.md:60` has "Cancel anytime".
- The sweep recounts jobs that still list an unfinished task: a job whose last
  task settled just before a crash is closed as failed with stale counters.
- Every scan's upsert writes NULL over the pinned certificate before the capture
  compares with it: the warning of `README.md:104` never comes.
- `_refresh_disks` stores by address what it read from whatever answered, without
  comparing serial numbers: drives read before a machine was replaced land in
  the row of the new one (`ReadDrives`, `Recable`, `Persist`, `SaveDrives`),
  against "or preview the wrong disks on the new box" (`servers_repo.py:59`).
- A login refused for its password is taken for one not yet tried
  (`redfish_client.py:497`): one request costs four failed authentications, where
  the comment above speaks of the lockout to avoid and
  `tests/unit/test_redfish_client_session.py:6` of three failures that lock.
- The firmware's hash is checked "BEFORE we send it to the BMC"
  (`update_orchestrator.py:453`), but the pre-flight's requests lie between it and
  the upload, which opens the file again: an image deleted and imported anew in
  between is pushed while it is being copied.  `PushesWhatWasHashed` leaves this
  out (`touched`).
- Supermicro's `_poll_task` (`supermicro/plugin.py:197`) has no `progress_band`,
  which the inherited `update_hgx` passes (`generic_redfish/plugin.py:400`): a
  `TypeError` fails a GPU flash after its upload, and the BMC installs it with
  nobody watching (`Watched`).
- `HGX_FW_BMC_0` is classified as a BMC, although `capability_discoverer.py:275`
  says that the host's classification "stays clean": when the host's own member
  could not be read, the host's image is aimed at the GPU baseboard.
- Flashes: Supermicro's 202 without a task is taken for success, and so is the
  BIOS task's silence after 30 minutes.  On HPE the polled state may still be
  that of the previous upload.  A failed upload after `ForceOff` leaves the host
  off.  A `.fwpkg` is refused on every HPE machine without multipart push, as
  nothing imports the signature file it needs.  After a flash that was only
  staged the row has the new version, so that a second flash is refused.  A lost
  connection in the read-back of the version fails a task whose flash succeeded.
- The docstring of `_select_hgx_target_group` promises all members when no key
  matches; the code takes the first.
- Drives: the page calls `start_job` without a preview, though its docstring
  demands one.  A drive that is listed twice counts twice for its bay, so that
  its label depends on what was lost.  A refresh stores a partial or an empty
  list where a scan stores only non-empty ones.  The answers' URL is signed for
  five minutes and handed to no installer yet (`provisioning_orchestrator.py:464`).
- Virtual media: the legacy path of `mount_iso` goes on although nobody
  confirmed the attachment; when a mount had to empty a slot, the eject at the
  end may go to that slot by the same cached map; no failure ejects, so that a
  failed install leaves its image mounted and perhaps its override armed.  A
  power button between the boot override and the restart spends the override
  (`moved`); `RestartBootsInstaller` is about the installs it does not hit
  (`calm`).  `EjectFindsIso` is about stale maps: a map that lost the slot of the
  ISO, not only its state, sends the eject elsewhere.
- Power: "off" falls back to `ForceOff` and "graceful_restart" to
  `ForceRestart`, "on" to `PowerCycle`, where the BMC lists nothing gentler.

## Fairness

`RedfishSession` assumes that the loop wakes the first waiter of a free lock and
that every exchange with the BMC ends, which the client's total timeout ensures;
neither requests nor `close` are assumed.
`UpdateController` assumes more (`UiFairness`), weakly and per task: the
loop runs what is ready; a plugin call ends, because every request has a timeout
and every poll a deadline; `start_job` and the sweep are straight-line code; the
drain is bounded; Qt delivers what is queued.  The operator owes nothing, and
neither does the machine: no start, cancel, quit, crash or launch is assumed.
`JobSettles` therefore allows for a process that is down and stays down.
`FlashFlow` is where "a plugin call ends" is earned: it assumes that a recipe
which can take a step takes one (its requests time out) and that a poll which
stays a poll reaches its ceiling (the clock advances); the BMC owes nothing, and
may answer "Running" for ever.
`Provisioning`, `ServerRows`, `DiskChoice` and `BmcActions` are safety only.

## What is proved

Every safety property of a passing run is a theorem (`NAME => []P` of the
module's specification, listed under `theorems`).  The proofs use nothing of the
instances: any finite sets of jobs, servers, requests, drives, slots, members and
images, any widths, plugin states and losses of a walk, any number of flashes
and of raising writes.  Almost none of the properties is inductive; each module
has one invariant `IInv` whose parts are named for what they relate, a lemma per
action (or group of actions) that it is kept, and the theorems on top.
Each `IInv` was model-checked on the instance of its run before it was proved.

**Updates** (`UpdateJobsProofs`): `TypeOK`, `NoStrandedJob`, `NoStrandedTask`,
`ClosedAfterTasks`, `VerdictNeverFlatters`, `ConcurrencyBounded`, and the action
properties `ResultsAreFinal`, `CancelledTaskNeverStarts` and `LaunchClosesAll`.  `IInv` ties the
three places a job lives in together: which program counters the process' mode
allows, that a submitted job has rows and a live job's unfinished rows have
coroutines that are not done, that the failure counter is zero exactly while no
finished task failed and the success counter only while none completed (a
verdict is computed from these), and that the sweep's list is exactly the rows
that need it.

**The page and the ledger** (`UpdateControllerProofs`): a step of the page is a
step of `UpdateJobs`, hence the invariant above holds.  `FlagInv`: of a job being
created, a live job and an end not yet handled there is at most one; `ClickInv`:
an event that is set, or on its way to be set, is that of a job the operator was
shown.  They give `StartOfferedOnlyWhenIdle` and `CancelHitsItsJob`.
`LedgerIsKept` is the refinement: `JobAs` and `TaskAs` map the rows to
`JobLedger`, and each action is shown to be a step of the ledger or to leave both
tables as the ledger sees them.  Its hypothesis `[](faults = 0)` is needed, not
convenient: when the refresh of the server's row raises after the task was
written as completed (`RefreshRaises`), the failure handler writes the result
again, and the ledger promises one result.

**Installs** (`ProvisioningProofs`): `TypeOK`, `ConfigsOnlyWhileInstalling`,
`TouchedOnlyWithDisk`, `NothingStranded` and that a job keeps to its width
(`SlotsKeepWidth`), whoever starts jobs.  `BatchBounded`, `CancelBelongsToJob` and
`OneJobAtATime` are proved under `OnePage`, the model's parameter for jobs that
the Provision page alone starts.  They need it: the wait for the host polls the
cancel event of whichever job came last, and nothing in the orchestrator keeps
two jobs apart.  `ui/bridge/controllers.py` is the only caller.

**Rows** (`ServerRowsProofs`): `TypeOK`, `PickKept` and `PickFitsRow`, none of which
assumes that serial numbers are reported.  `PickFitsRow` excepts the rows that
have been without a serial number since their vendor was pinned; `stale_pick`
shows that the exception is needed and what it costs.  The strengthening says
that a row with a pick that has not lapsed has a serial number, the one it was
pinned for.

**The client's session** (`RedfishSessionProofs`): `TypeOK`,
`SessionsAccountedFor` and, without a run, `RetryIsFresh`.  They rest on `OneLogin` (whoever has a
login under way holds the lock, and the client has no token until it ends, which
is what the second look at the token under the lock achieves) and on
`TokensKnown` (a new token is new to all).  `QueueHoldsWaiters` says that the
lock's queue lists exactly the requests that wait, each once.

**Flashes** (`FlashProofs`): `TypeOK`, `RollbackBanksUntouched`,
`RestartsOnlyWhenSafe`, `PushesWhatWasHashed` and `SuccessMeansInstalled`.
`BmcOK`: the upload under way has a running task and aims at no bank that is not
active; that every choice of a bank returns an active one rests on the order of
names being well-founded and on `CandidatesAssumption`: none of the exact names
the discoverer prefers is one of a rollback bank.  `FlashOK`: a flash aims at
active banks, or nowhere.  `HostOK`: a flash has no upload of its own before it
pushes, and one that waited for a task restarts the host only when that upload
is over.  `FileOK`: the file stays the one that was hashed until the upload has
read it, unless the repository was touched.  `DoneOK` relates every answer a
poll may still get to the upload it is about: while a flash polls, the upload
under way is its own and goes where it aimed, and once it is told that the
upload is done, none of its own is left that could end otherwise.
What a Dell BMC does with an image that is sent without targets is the model's
assumption (it picks its active banks), and `SuccessIsReal` assumes in addition
`OwnBanks`: that it has such banks besides those of the GPUs.  A Dell BMC
without any would report a success that installed nothing, and no code looks.

**Drives** (`DiskChoiceProofs`): `TypeOK`, `NamesAreUnique`, `LoneBayIsExact`,
`InstallerHitsResolved`.  Induction over the listings (by a least
counterexample) shows that after each one the names are told apart: a plain
label belongs to a bay that only one listing has, a labelled one is new, and a
free number exists because fewer entries than listings were kept (a pigeonhole).
Unique names have a first one in the code's order, so that every strategy takes
an entry of the inventory.  The invariant then follows the bay's number from the
pick through a second resolution to the answers: a name never changes its bay,
whatever was lost, which is all a name can promise (`ThisExactDrive` is false).
That no two drives report one serial number is assumed.

**One BMC** (`BmcActionsProofs`): `TypeOK`, `RestartBootsInstaller`,
`EjectFindsIso` and the action property `IntentKept`.  `MapOf`: a cached map lists
slots of this BMC and its reset types or none.  `MountInv`: the medium a mount
waits for is its own, a confirmed one is attached, and the override set after it
is unspent unless a power button was pressed.  `CleanMountInv`: after a mount that
found every slot empty, the only slot that can hold a medium is the first
optical one, and no map says otherwise.  The attempt showed when `EjectFindsIso`
really holds: *both* maps, the mount's and the eject's, must list every optical
slot; a map that lost a slot sends the eject to an empty one and the ISO stays.
It also split `IntentKept`: a BMC that lists `GracefulShutdown` and
`PushPowerButton` serves "off" gently and "force off" by pressing the button,
which may start a host that is off.

The assumptions are those named in the modules: finiteness, `None` and `NoJob`
being no machine, drive, name or job, widths being integers, plugin states being
states in flight, trees and targets being of the kinds the recipes know, and
those named above.

**Only model-checked**: liveness under fairness (`JobSettles`,
`PageBecomesFree`, `RequestEnds`, `FlashEnds`), which is out of the prover's
reach, and the four runs that expect a violation.  A least element, a kept list
and a free number are proved by well-foundedness and counting and not by the
library's induction rules, which take an operator.

## Not modelled, and what is left

Left of the plan: the batches of scans and power actions (their concurrency,
cancel and counters).

Left out for good: presentation (QML, themes, models, reports), the activity log
(which never raises), settings, the keyring and the lookup of credentials, the
static scores of the registry, HTTP and TLS themselves, the file server's
signatures and clock, migrations (one SQLite transaction each), the text of
answer files, the descriptive fields a discovery reads, the command-line tools,
the simulator and the tests.
