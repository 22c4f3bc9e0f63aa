----------------------------- MODULE FlashFlow -----------------------------
(***************************************************************************)
(* One server's flashes, from the moment a task takes its slot to the      *)
(* result it reports: _real_task of the update orchestrator                *)
(* (src/core/services/update_orchestrator.py) and the recipes of the       *)
(* generic, Dell, HPE and Supermicro plugins (src/plugins), against a BMC  *)
(* that may refuse, lose or forget, and a firmware repository that changes *)
(* underneath.                                                             *)
(*                                                                         *)
(* A step is a request to the BMC.  It is answered, answered with an error *)
(* (RedfishError), or loses its connection: the client wraps the error but *)
(* not the loss, which passes every `except RedfishError' and ends the     *)
(* task.                                                                   *)
(***************************************************************************)
EXTENDS CapabilityWalk, FirmwareStore

CONSTANTS
    Machines,    \* [vendor, tree]: what the flashes may be aimed at
    TargetOf,    \* TargetOf[i]: the component image i is for
    Spelled,     \* Spelled[l]: the substrings of l the pre-flight looks for, case kept
    NamedAfter,  \* NamedAfter[i]: the HGX member the file's name contains
    Bundles,     \* images whose file name says bundle or baseboard
    Packages,    \* images that are .fwpkg files
    Lossy,       \* resources a walk may fail to read
    None,        \* no image, no version
    Factory,     \* the version a bank has at first
    MaxErrors,   \* bound: consecutive poll errors that end a flash (60)
    MaxFlashes   \* bound: flashes of the server

ASSUME FlashAssumption ==
    /\ Machines \subseteq [vendor : {"generic", "dell", "hpe", "supermicro"}, tree : Trees]
    /\ {"BMC", "BIOS"} \subseteq Leaves
    /\ TargetOf \in [Images -> {"BMC", "BIOS", "HGX"}]
    /\ Spelled \in [Leaves -> SUBSET STRING]
    /\ NamedAfter \in [Images -> Leaves \cup {NoLeaf}]
    /\ None \notin Images \cup {Factory}
    /\ MaxErrors \in Nat \ {0} /\ MaxFlashes \in Nat

VARIABLES
    machine,   \* the server; never changes
    n,         \* flashes started
    flash,     \* the locals of _real_task and of the plugin's recipe
    bmc,       \* the BMC and its host
    known      \* versions in the server's row, by component

vars == <<machine, n, flash, bmc, known, storeVars>>

Flashes == 1..MaxFlashes
Versions == Images \cup {Factory}
vendor == machine.vendor
tree == machine.tree

-----------------------------------------------------------------------------
(* Program counters, by what an answer with an error does there.           *)

Ended == {"idle", "ok", "failed"}
\* RedfishError becomes Result(ok=False) or the exception of _real_task.
Refusing == {"preflight", "transport", "target", "push", "rescue", "hpeService", "hpePush"}
\* RedfishError is logged or ignored.
Tolerant == {"baseline", "apply", "readback", "hpeApply", "forceOff", "install",
             "powerOn", "biosPoll"}
Polling == {"poll", "hpePoll"}
Phases == Ended \cup {"hash", "map", "result"} \cup Refusing \cup Tolerant \cup Polling

NoFlash == [pc |-> "idle", image |-> None, now |-> FALSE, push |-> "none",
            aim |-> {}, base |-> None, errs |-> 0, proof |-> "", why |-> "",
            touched |-> FALSE, early |-> FALSE, cycled |-> FALSE]

\* `proof': what a flash takes for its success; `why': what it fails of.
\* touched, early and cycled are history: the repository changed after the file
\* was hashed; the host was restarted during the upload, or at all.
FlashTypes ==
    [pc : Phases, image : Images \cup {None}, now : BOOLEAN,
     push : {"multipart", "http", "none"}, aim : SUBSET Leaves,
     base : Versions \cup {None}, errs : 0..MaxErrors - 1,
     proof : {"", "task", "sync", "silent", "moved", "state", "unobserved"},
     why : {"", "refused", "drop", "lost", "ceiling", "unwatched", "quit"},
     touched : BOOLEAN, early : BOOLEAN, cycled : BOOLEAN]

NoLoad == [image |-> None, dest |-> {}, intact |-> TRUE]

\* `landed' is history: the banks that got the image of each flash.
BmcTypes ==
    [work : {0} \cup Flashes,
     load : [image : Images \cup {None}, dest : SUBSET Leaves, intact : BOOLEAN],
     task : [Flashes -> {"none", "Running", "Completed", "Exception"}],
     version : [Leaves -> Versions], staged : [Leaves -> Images \cup {None}],
     landed : [Flashes -> SUBSET Leaves],
     ilo : {"Idle", "Busy", "Complete", "Error"},
     biosTask : {"none", "Completed", "Exception"}, host : {"On", "Off"}]

Init ==
    /\ machine \in Machines
    /\ n = 0
    /\ flash = NoFlash
    /\ known = [c \in {"BMC", "BIOS"} |-> None]
    /\ bmc = [work |-> 0, load |-> NoLoad, landed |-> [k \in Flashes |-> {}],
              task |-> [k \in Flashes |-> "none"],
              version |-> [l \in Leaves |-> Factory], staged |-> [l \in Leaves |-> None],
              ilo |-> "Idle", biosTask |-> "none", host |-> "On"]
    /\ StoreInit

-----------------------------------------------------------------------------
(* The BMC: external.  It works on one upload at a time.  A BMC image is   *)
(* in its bank when the task completes, any other waits for the next start *)
(* of the host, which may reject it.                                       *)

\* A request without Targets: the BMC reads the component off the image.
Into(load) ==
    IF load.dest # {} THEN load.dest
    ELSE ActiveOf(IF TargetOf[load.image] = "BIOS" THEN "bios" ELSE "bmc",
                  {l \in tree.members : ~IsHgxMember(l)})

Write(bank, load) == [l \in Leaves |-> IF l \in Into(load) THEN load.image ELSE bank[l]]

\* Earlier work is replaced.
Uploaded(dest) ==
    [bmc EXCEPT !.task = [k \in Flashes |-> IF k = n THEN "Running"
                                            ELSE IF k = bmc.work THEN "Exception" ELSE @[k]],
                !.work = n,
                !.load = [image |-> flash.image, dest |-> dest,
                          intact |-> flash.push = "http" \/ blob[flash.image] = "intact"]]

\* Only iLO keeps a state of this kind.
Ilo(state) == IF vendor = "hpe" THEN state ELSE "Idle"

Finished(b) ==
    LET done == [b EXCEPT !.task[b.work] = "Completed", !.landed[b.work] = Into(b.load),
                          !.work = 0, !.load = NoLoad, !.ilo = Ilo("Complete")]
    IN  IF TargetOf[b.load.image] = "BMC" THEN [done EXCEPT !.version = Write(@, b.load)]
                                          ELSE [done EXCEPT !.staged = Write(@, b.load)]

\* The host starts; a staged image goes to its bank or is rejected.
Starts(b) ==
    LET waiting == {l \in Leaves : b.staged[l] # None}
        up == [b EXCEPT !.host = "On", !.staged = [l \in Leaves |-> None]]
    IN  IF waiting = {} THEN {up}
        ELSE {[up EXCEPT !.biosTask = "Exception"],
              [up EXCEPT !.biosTask = "Completed",
                         !.version = [l \in Leaves |-> IF l \in waiting THEN b.staged[l] ELSE @[l]]]}

BmcFinishes ==
    /\ bmc.work # 0 /\ bmc.load.intact
    /\ bmc' = Finished(bmc)
    /\ UNCHANGED <<machine, n, flash, known, storeVars>>

BmcFails ==
    /\ bmc.work # 0
    /\ bmc' = [bmc EXCEPT !.task[bmc.work] = "Exception", !.work = 0, !.load = NoLoad,
                          !.ilo = Ilo("Error")]
    /\ UNCHANGED <<machine, n, flash, known, storeVars>>

\* Until iLO looks at an upload its state is that of the one before.
IloPicksUp ==
    /\ vendor = "hpe" /\ bmc.work # 0 /\ bmc.ilo # "Busy"
    /\ bmc' = [bmc EXCEPT !.ilo = "Busy"]
    /\ UNCHANGED <<machine, n, flash, known, storeVars>>

\* Somebody restarts the host.
HostRestarts ==
    /\ bmc' \in Starts(bmc)
    /\ UNCHANGED <<machine, n, flash, known, storeVars>>

-----------------------------------------------------------------------------
(* The task.                                                               *)

Target == TargetOf[flash.image]
Class == IF Target = "BIOS" THEN "bios" ELSE "bmc"
Candidates == IF Target = "BIOS" THEN BiosCandidates ELSE BmcCandidates
Version == bmc.version[CHOOSE l \in flash.aim : TRUE]

Goto(pc) == flash' = [flash EXCEPT !.pc = pc]
Ends(pc, why) == [flash EXCEPT !.pc = pc, !.why = why, !.errs = 0, !.base = None, !.push = "none"]
Fails(why) == flash' = Ends("failed", why)
Quiet == UNCHANGED <<machine, n, bmc, known, storeVars>>

\* The task has its slot; the row of the image was read when the job started.
StartFlash(i, now) ==
    /\ flash.pc \in Ended
    /\ n < MaxFlashes
    /\ i \in rows
    /\ n' = n + 1
    /\ flash' = [NoFlash EXCEPT !.pc = "hash", !.image = i, !.now = now]
    /\ UNCHANGED <<machine, bmc, known, storeVars>>

\* validate: the row says the server has this version.
SameVersion == Target # "HGX" /\ known[Target] = flash.image

\* Mutation: the file is not read again.
VerifyNothing ==
    /\ flash.pc = "hash"
    /\ IF SameVersion THEN Fails("refused") ELSE Goto("preflight")
    /\ Quiet

\* _verify_firmware_sha, then validate.
VerifyFirmware ==
    /\ flash.pc = "hash"
    /\ IF blob[flash.image] # "intact" \/ SameVersion THEN Fails("refused")
       ELSE Goto("preflight")
    /\ Quiet

\* The pre-flight does not lower the names it looks into.
PreflightBios == {"BIOS", "UEFI"}
PreflightBmc == {"BMC", "iDRAC", "iLO", "XCC", "Manager"}
PreflightBanned == {"Backup", "Golden", "Staging", "Image2", "Image_2"}

\* What the plugin's recipe asks first.
Recipe ==
    IF Target = "HGX" \/ vendor \in {"generic", "dell"} THEN "map"
    ELSE IF vendor = "hpe" THEN "hpeService"
    ELSE IF Target = "BIOS" /\ flash.now THEN "forceOff" ELSE "push"

\* _preflight_bmc: a push URI is advertised and the first page of the inventory
\* has a target, or there is no inventory.  Supermicro's recipe names its bank.
Preflight ==
    /\ flash.pc = "preflight"
    /\ \/ Target = "HGX" \/ tree.members = {}
       \/ \E l \in tree.members \ LaterPage :
             /\ Spelled[l] \cap (IF Target = "BIOS" THEN PreflightBios ELSE PreflightBmc) # {}
             /\ Spelled[l] \cap PreflightBanned = {}
    /\ tree.push # "none"
    /\ flash' = IF vendor = "supermicro" /\ Target # "HGX"
                THEN [flash EXCEPT !.pc = Recipe, !.push = "multipart", !.aim = {Target}]
                ELSE [flash EXCEPT !.pc = Recipe]
    /\ Quiet

Aimed(push, leaf) ==
    IF leaf = NoLeaf THEN Fails("refused")
    ELSE flash' = [flash EXCEPT !.pc = "baseline", !.push = push, !.aim = {leaf}]

\* update_hgx: HGX members and multipart push, or nothing.
MapHgx(cap) ==
    IF cap.hgx = {} \/ cap.push # "multipart" THEN Fails("refused")
    ELSE flash' = [flash EXCEPT !.pc = "push", !.push = "multipart",
             !.aim = SelectHgxTargetGroup(cap.hgx, NamedAfter[flash.image],
                                          flash.image \in Bundles)]

\* _capability_map, _resolve_update_service, _resolve_firmware_target.
MapBmc(lost) ==
    /\ flash.pc = "map"
    /\ LET cap == Walk(tree, lost)
       IN  IF Target = "HGX" THEN MapHgx(cap)
           ELSE IF ~cap.walked THEN Goto("transport")
           ELSE Aimed(cap.push, IF Target = "BIOS" THEN cap.bios ELSE cap.bmc)
    /\ Quiet

\* Without a map: the service and the inventory are asked once more.
ResolveInline ==
    /\ \/ flash.pc = "transport" /\ flash' = [flash EXCEPT !.pc = "target", !.push = tree.push]
       \/ flash.pc = "target"
          /\ Aimed(flash.push, PickInline(Class, Candidates, tree.members \ LaterPage))
    /\ Quiet

\* _read_current_version before the flash; None if it cannot be had.
ReadBaseline ==
    /\ flash.pc = "baseline"
    /\ \E v \in {Version, None} : flash' = [flash EXCEPT !.pc = "push", !.base = v]
    /\ Quiet

-----------------------------------------------------------------------------
(* The push.  The BMC answers with a task, as done (200, 204), or with 202 *)
(* and no task.                                                            *)

Dest == IF vendor = "dell" /\ Target # "HGX" THEN {} ELSE flash.aim
Readable == flash.push = "http" \/ blob[flash.image] # "absent"

\* After the flash: the host's restart, the version, the result.
AfterFlash ==
    IF Target = "HGX" THEN "result"
    ELSE IF Target = "BMC" THEN "readback"
    ELSE IF vendor = "supermicro" THEN "install"
    ELSE IF flash.now THEN "apply" ELSE "readback"

\* Mutation: 202 without a task is taken for a synchronous flash.
AcceptedSilent(answer) == TRUE

\* Whether an answer without a task is taken for success.
Accepted(answer) ==
    \/ vendor = "supermicro" /\ Target # "HGX"
    \/ answer = "sync" /\ Target # "HGX"

\* Mutation: Supermicro's install does not wait for the upload's task.
AfterPushBlind(answer) ==
    IF answer = "task" /\ vendor # "supermicro" THEN "poll" ELSE AfterFlash

AfterPush(answer) == IF answer = "task" THEN "poll" ELSE AfterFlash

\* Supermicro's _poll_task has no progress_band, which update_hgx, inherited as it
\* is, passes: the call raises a TypeError after the upload.
Watched == ~(vendor = "supermicro" /\ Target = "HGX")

Push(answer) ==
    /\ flash.pc = "push"
    /\ Readable /\ flash.aim \subseteq tree.members
    /\ LET b == Uploaded(Dest)
       IN  IF answer = "sync" THEN b.load.intact /\ bmc' = Finished(b) ELSE bmc' = b
    /\ IF answer = "task" THEN IF Watched THEN Goto(AfterPush(answer)) ELSE Fails("unwatched")
       ELSE IF Accepted(answer)
       THEN flash' = [flash EXCEPT !.pc = AfterPush(answer), !.proof = answer]
       ELSE Fails("refused")
    /\ UNCHANGED <<machine, n, known, storeVars>>

\* The upload arrives, the answer does not.
PushLost ==
    /\ flash.pc \in {"push", "hpePush"}
    /\ Readable
    /\ bmc' = Uploaded(IF flash.pc = "push" THEN Dest ELSE {})
    /\ Fails(IF flash.pc = "push" THEN "drop" ELSE "refused")
    /\ UNCHANGED <<machine, n, known, storeVars>>

\* HPE: the generic recipe where multipart push is advertised; else _hpe_push, to
\* which a .fwpkg is useless without the signature file no import brings along.
HpeService ==
    /\ flash.pc = "hpeService"
    /\ IF tree.push = "multipart" THEN Goto("map")
       ELSE IF flash.image \in Packages \/ blob[flash.image] = "absent" THEN Fails("refused")
       ELSE flash' = [flash EXCEPT !.pc = "hpePush", !.push = "multipart"]
    /\ Quiet

HpePush ==
    /\ flash.pc = "hpePush"
    /\ Readable
    /\ bmc' = Uploaded({})
    /\ Goto("hpePoll")
    /\ UNCHANGED <<machine, n, known, storeVars>>

-----------------------------------------------------------------------------
(* The polls.                                                              *)

Rescuable == vendor # "supermicro" /\ Target # "HGX" /\ flash.base # None

\* _poll_task.  A failed task is rescued when its message says "unreachable".
PollTask ==
    /\ flash.pc = "poll"
    /\ \/ bmc.task[n] = "Running" /\ flash' = [flash EXCEPT !.errs = 0]
       \/ /\ bmc.task[n] = "Completed"
          /\ flash' = [flash EXCEPT !.pc = AfterFlash, !.proof = "task"]
       \/ bmc.task[n] = "Exception" /\ Fails("refused")
       \/ bmc.task[n] = "Exception" /\ Rescuable /\ Goto("rescue")
    /\ Quiet

\* Oem.Hpe.State, whichever upload it speaks of.
PollIlo ==
    /\ flash.pc = "hpePoll"
    /\ CASE bmc.ilo = "Complete" ->
              flash' = [flash EXCEPT !.proof = "state",
                          !.pc = IF Target = "BIOS" /\ flash.now THEN "hpeApply" ELSE "result"]
         [] bmc.ilo = "Error" -> Fails("refused")
         [] OTHER -> flash' = [flash EXCEPT !.errs = 0]
    /\ Quiet

\* Mutation: one error too many is put up with.
PollErrorOffByOne ==
    /\ flash.pc \in Polling
    /\ IF flash.errs < MaxErrors THEN flash' = [flash EXCEPT !.errs = @ + 1]
       ELSE IF flash.pc = "poll" /\ Rescuable THEN Goto("rescue")
       ELSE Fails("lost")
    /\ Quiet

\* An answer with an error, also for a task the BMC has forgotten.
PollError ==
    /\ flash.pc \in Polling
    /\ IF flash.errs + 1 < MaxErrors THEN flash' = [flash EXCEPT !.errs = @ + 1]
       ELSE IF flash.pc = "poll" /\ Rescuable THEN Goto("rescue")
       ELSE Fails("lost")
    /\ Quiet

\* Mutation: a task is polled for ever.
CeilingForIlo ==
    /\ flash.pc \in {"hpePoll", "biosPoll"}
    /\ IF flash.pc = "biosPoll"
       THEN flash' = [flash EXCEPT !.pc = "readback", !.proof = "unobserved"]
       ELSE Fails("ceiling")
    /\ Quiet

\* 30 minutes.  The BIOS task of a restart is given up for done.
Ceiling ==
    /\ flash.pc \in Polling \cup {"biosPoll"}
    /\ IF flash.pc = "biosPoll"
       THEN flash' = [flash EXCEPT !.pc = "readback", !.proof = "unobserved"]
       ELSE Fails("ceiling")
    /\ Quiet

\* The poll was lost: a version that moved is taken for success.
Rescue ==
    /\ flash.pc = "rescue"
    /\ IF Version # flash.base
       THEN flash' = [flash EXCEPT !.pc = AfterFlash, !.proof = "moved"]
       ELSE Fails("lost")
    /\ Quiet

-----------------------------------------------------------------------------
(* The host.  A request may act although its answer is an error or lost;   *)
(* the wait for a power state is bounded and decides nothing.              *)

AfterHost == CASE flash.pc = "apply" -> "readback" [] flash.pc = "hpeApply" -> "result"
               [] flash.pc = "forceOff" -> "push" [] flash.pc = "powerOn" -> "biosPoll"

HostCall(acts, dropped) ==
    /\ flash.pc \in {"apply", "hpeApply", "forceOff", "powerOn"}
    /\ IF ~acts THEN bmc' = bmc
       ELSE IF flash.pc = "forceOff" THEN bmc' = [bmc EXCEPT !.host = "Off"]
       ELSE bmc' \in Starts(bmc)
    /\ LET f == IF dropped THEN Ends("failed", "drop") ELSE [flash EXCEPT !.pc = AfterHost]
       IN  flash' = [f EXCEPT !.cycled = @ \/ acts, !.early = @ \/ (acts /\ bmc.work = n)]
    /\ UNCHANGED <<machine, n, known, storeVars>>

\* SmcUpdateService.Install: an error is logged.
Install ==
    /\ flash.pc = "install"
    /\ Goto(IF flash.now THEN "powerOn" ELSE "result")
    /\ Quiet

\* Any task with BIOS in its name.
PollBiosTask ==
    /\ flash.pc = "biosPoll"
    /\ \/ bmc.biosTask = "Completed" /\ Goto("readback")
       \/ bmc.biosTask = "Exception" /\ Fails("refused")
    /\ Quiet

\* The version is read for the log.
ReadBack ==
    /\ flash.pc = "readback"
    /\ Goto("result")
    /\ Quiet

\* Result(ok=True), and _refresh_server: the row gets the image's version.
Report ==
    /\ flash.pc = "result"
    /\ flash' = Ends("ok", "")
    /\ known' = IF Target = "HGX" THEN known ELSE [known EXCEPT ![Target] = flash.image]
    /\ UNCHANGED <<machine, n, bmc, storeVars>>

\* An answer with an error, or none for want of a file, where that ends the task.
Refused ==
    /\ flash.pc \in Refusing
    /\ Fails("refused")
    /\ Quiet

\* A lost connection ends the task wherever it is, except in the walk and in
\* HPE's own upload, which catch everything.
ConnectionDrops ==
    /\ flash.pc \in (Refusing \cup Tolerant \cup Polling) \ {"hpePush"}
    /\ Fails("drop")
    /\ Quiet

-----------------------------------------------------------------------------
FlashStep ==
    \/ VerifyFirmware \/ Preflight \/ ResolveInline \/ ReadBaseline
    \/ \E lost \in SUBSET Lossy : MapBmc(lost)
    \/ \E answer \in {"task", "sync", "silent"} : Push(answer)
    \/ PushLost \/ HpeService \/ HpePush
    \/ PollTask \/ PollIlo \/ PollError \/ Ceiling \/ Rescue
    \/ \E acts, dropped \in BOOLEAN : HostCall(acts, dropped)
    \/ Install \/ PollBiosTask \/ ReadBack \/ Report \/ Refused \/ ConnectionDrops

\* The operator imports and deletes images meanwhile.
StoreStep ==
    /\ StoreNext
    /\ flash' = [flash EXCEPT !.touched = @ \/ flash.pc \notin Ended \cup {"hash"}]
    /\ UNCHANGED <<machine, n, bmc, known>>

\* The application quits or crashes; the BMC goes on.
AppEnds ==
    /\ flash.pc \notin Ended
    /\ Fails("quit")
    /\ StoreCrash
    /\ UNCHANGED <<machine, n, bmc, known>>

Next ==
    \/ \E i \in Images, now \in BOOLEAN : StartFlash(i, now)
    \/ FlashStep
    \/ BmcFinishes \/ BmcFails \/ IloPicksUp \/ HostRestarts
    \/ StoreStep \/ AppEnds

\* Every request has a timeout and every poll a deadline; the BMC owes nothing.
Spec == Init /\ [][Next]_vars /\ WF_vars(FlashStep) /\ WF_vars(Ceiling)

-----------------------------------------------------------------------------
TypeOK ==
    /\ machine \in Machines
    /\ n \in 0..MaxFlashes
    /\ flash \in FlashTypes
    /\ bmc \in BmcTypes
    /\ known \in [{"BMC", "BIOS"} -> Images \cup {None}]
    /\ StoreTypeOK

\* A flash that reports success because the BMC said Completed, or answered that it
\* was done, has got its image into every bank it aimed at (or staged there): a
\* refused or replaced upload, a file that changed, an answer about another upload
\* or 202 without a task do not come out as success.  (What is reported after
\* Supermicro's 202, iLO's state, which may be the last upload's, a version that
\* moved or a restart nobody observed promises less.)
SuccessMeansInstalled ==
    flash.pc = "ok"
    /\ (flash.proof \in {"task", "sync"} \/ (flash.proof = "silent" /\ vendor # "supermicro")) =>
        bmc.landed[n] # {} /\ (flash.aim \subseteq bmc.landed[n] \/ vendor = "dell")

\* No bank that a name marks as backup, golden or second image is ever written,
\* whatever the walk could not read.
RollbackBanksUntouched ==
    \A l \in Leaves : Tokens[l] \cap BannedBankLeaves # {} =>
        bmc.version[l] = Factory /\ bmc.staged[l] = None

\* A flash restarts the host for BIOS images with "apply now" only, and never
\* while the BMC is still taking in the upload, as long as it waits on the
\* upload's own task.
RestartsOnlyWhenSafe ==
    /\ flash.cycled => Target = "BIOS" /\ flash.now
    /\ flash.early => flash.proof \in {"moved", "state", "silent", "unobserved"}

\* What reaches the BMC is what was imported, unless the repository changed between
\* the check and the upload: no image is pushed that an import never finished.
PushesWhatWasHashed ==
    bmc.work = n /\ n # 0 /\ ~bmc.load.intact => flash.touched

\* A BMC that answers with errors, reboots or goes silent for good ends no flash's
\* wait later than the deadline: no task keeps its slot for ever.
FlashEnds == flash.pc \notin Ended ~> flash.pc \in Ended

\* plugin.py:593 of a poll: "Transient: BMC may have briefly dropped its Redfish
\* service while mid-flash.  Tolerate but cap."
TransientTolerated ==
    [][flash.pc = "poll" /\ flash'.pc = "failed" => flash'.why # "drop"]_vars
=============================================================================
