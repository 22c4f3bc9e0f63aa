----------------------------- MODULE BmcActions -----------------------------
(***************************************************************************)
(* What an install and the power buttons do to one BMC and its host:       *)
(* mount_iso, set_boot_once, power_cycle, eject_iso, power_action and      *)
(* get_power_state of the generic plugin, HPE's mount_iso, and             *)
(* PowerService.  Both sides run at the same time and share the plugin's   *)
(* cached capability map, which lives 60 seconds, complete or not.         *)
(***************************************************************************)
EXTENDS CapabilityWalk

CONSTANTS
    Servers,      \* [vendor, tree]: what the BMC may be
    Optical,      \* slots whose MediaTypes have CD, DVD, ...
    SlotOrder,    \* the order of the map's slots
    LegacySlot,   \* what Managers[0]/VirtualMedia/CD is, NoLeaf if nothing
    Lossy         \* resources a walk may fail to read

ASSUME ActionsAssumption ==
    /\ Servers \subseteq [vendor : {"generic", "hpe"}, tree : Trees]
    /\ Optical \subseteq Slots /\ SlotOrder \in [Slots -> Nat]
    /\ LegacySlot \in Slots \cup {NoLeaf} /\ NoLeaf \notin Slots

VARIABLES
    server,   \* never changes
    cache,    \* _cap_cache of the server's address; NoMap when there is none
    bmc,      \* slots, boot override, host, the system on its disk
    task,     \* the install: _real_task from the mount on
    op        \* the power action whose effect _verify_state waits to see

vars == <<server, cache, bmc, task, op>>

tree == server.tree
Media == {"empty", "other", "attaching", "ours"}
TaskPhases == {"idle", "hpeEject", "mount", "preEject", "insert", "confirm", "boot",
               "cycle", "wait", "eject", "done", "failed"}
Actions == {"on", "off", "force_off", "restart", "graceful_restart", "cycle"}
NoAction == "none"

\* History: clean, the mount's map listed every optical slot, and all slots were empty
\* by that map and in fact; moved,
\* the power buttons did something since the override was set; calm, the install's
\* restart was the last thing to happen to the host and no foreign medium was in;
\* ejected, an eject by a map that lists every optical slot was answered.
NoTask == [pc |-> "idle", out |-> NoLeaf, in |-> NoLeaf, legacy |-> FALSE, clean |-> FALSE,
           moved |-> FALSE, calm |-> FALSE, ejected |-> FALSE]

Inserted(b) == [s \in Slots |-> b.slot[s] \in {"other", "ours"}]

Init ==
    /\ server \in Servers
    /\ cache = NoMap
    /\ bmc \in [slot : [Slots -> {"empty", "other"}], boot : {"none"},
                host : {"off", "os"}, disk : {"old"}]
    /\ task = NoTask
    /\ op = NoAction

\* _capability_map.  No map is NoMap, which lists nothing.
Maps == IF cache # NoMap THEN {cache}
        ELSE {Walk([tree EXCEPT !.inserted = Inserted(bmc)], lost) : lost \in SUBSET Lossy}

\* The 60 seconds are over.
CacheExpires ==
    /\ cache # NoMap
    /\ cache' = NoMap
    /\ UNCHANGED <<server, bmc, task, op>>

\* Mutation: any kind of medium will do.
SelectAny(cap, wanted) ==
    LET fit == {s \in cap.slots : (s \in cap.inserted) = wanted}
    IN  IF cap.slots = {} THEN NoLeaf
        ELSE FirstBy(SlotOrder, IF fit = {} THEN cap.slots ELSE fit)

\* Mutation: no slot will do if none is in the wanted state.
SelectStrict(cap, wanted) ==
    LET fit == {s \in cap.slots \cap Optical : (s \in cap.inserted) = wanted}
    IN  IF fit = {} THEN NoLeaf ELSE FirstBy(SlotOrder, fit)

\* _select_virtualmedia_slot: an optical slot in the wanted state as far as the
\* map knows, else any.
SelectSlot(cap, wanted) ==
    LET optical == cap.slots \cap Optical
        fit == {s \in optical : (s \in cap.inserted) = wanted}
    IN  IF optical = {} THEN NoLeaf
        ELSE FirstBy(SlotOrder, IF fit = {} THEN optical ELSE fit)

\* Without such a slot, Managers[0]/VirtualMedia/CD.
SlotFor(cap, wanted) ==
    IF SelectSlot(cap, wanted) = NoLeaf THEN LegacySlot ELSE SelectSlot(cap, wanted)

-----------------------------------------------------------------------------
(* The BMC and the host (external).                                        *)

\* The host starts from the medium of the override, which is then spent, or
\* from its disk.
Boots(b) ==
    LET media == {b.slot[s] : s \in Slots} \cap {"ours", "other"}
        up(h) == [b EXCEPT !.host = h, !.boot = "none"]
    IN  IF b.boot = "none" \/ media = {} THEN {up("os")}
        ELSE {up(IF m = "ours" THEN "installer" ELSE "foreign") : m \in media}

Forced == {"ForceRestart", "PowerCycle", "ForceReset"}

\* What a ResetType does, if the BMC takes it.
Reset(type, b) ==
    IF tree.resets # {} /\ type \notin tree.resets THEN {}
    ELSE CASE type \in {"On", "ForceOn"} -> IF b.host = "off" THEN Boots(b) ELSE {b}
           [] type = "ForceOff" -> {[b EXCEPT !.host = "off"]}
           [] type = "GracefulShutdown" -> {b, [b EXCEPT !.host = "off"]}
           [] type = "PushPowerButton" ->
                IF b.host = "off" THEN Boots(b) ELSE {b, [b EXCEPT !.host = "off"]}
           [] type \in Forced -> IF b.host = "off" THEN {b} ELSE Boots(b)
           [] OTHER -> IF b.host = "off" THEN {b} ELSE {b} \cup Boots(b)

\* An attachment comes about, or never does; an install ends with a start from disk.
BmcMoves ==
    /\ \/ \E s \in Slots : bmc.slot[s] = "attaching"
             /\ \E m \in {"ours", "empty"} : bmc' = [bmc EXCEPT !.slot[s] = m]
       \/ bmc.host = "installer" /\ bmc' = [bmc EXCEPT !.host = "os", !.disk = "new"]
    /\ UNCHANGED <<server, cache, task, op>>

-----------------------------------------------------------------------------
(* The install.  An answer that is an error or lost fails it; the request  *)
(* may have been carried out.                                              *)

Running == TaskPhases \ {"idle", "done", "failed"}
Goto(pc) == task' = [task EXCEPT !.pc = pc]
Fail == task' = [NoTask EXCEPT !.pc = "failed"]
UsesMap(cap) == cap \in Maps /\ cache' = cap
Aside == UNCHANGED <<server, op>>

StartInstall ==
    /\ task.pc \notin Running
    /\ task' = [NoTask EXCEPT !.pc = IF server.vendor = "hpe" THEN "hpeEject" ELSE "mount"]
    /\ UNCHANGED <<cache, bmc>> /\ Aside

InstallFails ==
    /\ task.pc \in Running
    /\ Fail
    /\ UNCHANGED <<cache, bmc>> /\ Aside

EjectMedia(s) == [bmc EXCEPT !.slot[s] = "empty"]

\* eject_iso, of HPE's mount or at the end of the install; its result is ignored.
EjectIso ==
    /\ task.pc \in {"hpeEject", "eject"}
    /\ \E cap \in Maps : UsesMap(cap) /\
        LET s == SlotFor(cap, TRUE)
            pc == IF task.pc = "eject" THEN "done" ELSE "mount"
        IN  \/ /\ s # NoLeaf
               /\ bmc' = EjectMedia(s)
               /\ task' = [task EXCEPT !.pc = pc, !.ejected =
                            task.pc = "eject" /\ Optical \subseteq cap.slots]
            \/ bmc' = bmc /\ Goto(pc)
    /\ Aside

\* mount_iso: one map for the eject and the insert.
BeginMount ==
    /\ task.pc = "mount"
    /\ \E cap \in Maps :
        /\ UsesMap(cap)
        /\ task' = [task EXCEPT !.pc = "preEject", !.out = SlotFor(cap, TRUE),
                                !.in = SlotFor(cap, FALSE),
                                !.legacy = SelectSlot(cap, FALSE) = NoLeaf,
                                !.clean = /\ Optical \subseteq cap.slots /\ cap.inserted = {}
                                          /\ \A s \in Slots : bmc.slot[s] = "empty"]
    /\ UNCHANGED bmc /\ Aside

\* Best effort.
PreEject ==
    /\ task.pc = "preEject"
    /\ Goto("insert")
    /\ bmc' \in {bmc} \cup (IF task.out = NoLeaf THEN {} ELSE {EjectMedia(task.out)})
    /\ UNCHANGED cache /\ Aside

\* InsertMedia: a slot that has media refuses.
Insert ==
    /\ task.pc = "insert"
    /\ task.in # NoLeaf
    /\ bmc.slot[task.in] = "empty"
    /\ bmc' = [bmc EXCEPT !.slot[task.in] = "attaching"]
    /\ Goto("confirm") \/ Fail
    /\ UNCHANGED cache /\ Aside

\* Mutation: an attachment nobody confirmed goes on by the map, too.
GivenUpOn(legacy) == "boot"

\* 60 seconds without Inserted: the legacy path goes on.
GivenUp(legacy) == IF legacy THEN "boot" ELSE "failed"

Attached == task' = [task EXCEPT !.pc = "boot", !.in = NoLeaf, !.out = NoLeaf]

\* _wait_for_media_inserted, which errors do not end.
Confirm ==
    /\ task.pc = "confirm"
    /\ \/ Inserted(bmc)[task.in] /\ Attached
       \/ IF GivenUp(task.legacy) = "boot" THEN Attached ELSE Fail
    /\ UNCHANGED <<cache, bmc>> /\ Aside

\* A system of the map or of a walk of its own.
SetBootOnce ==
    /\ task.pc = "boot"
    /\ tree.system
    /\ \E cap \in Maps : UsesMap(cap)
    /\ bmc' = [bmc EXCEPT !.boot = "once"]
    /\ \/ task' = [task EXCEPT !.pc = "cycle", !.moved = FALSE]
       \/ Fail
    /\ Aside

CyclePriority == <<"ForceRestart", "PowerCycle", "ForceReset", "GracefulRestart">>

PowerCycle ==
    /\ task.pc = "cycle"
    /\ tree.system
    /\ \E cap \in Maps :
        /\ UsesMap(cap)
        /\ LET type == ChooseResetType(cap.resets, CyclePriority, "ForceRestart")
           IN  /\ bmc' \in Reset(type, bmc)
               /\ \/ Fail
                  \/ task' = [task EXCEPT !.pc = "wait", !.calm =
                        /\ \A s \in Slots : bmc.slot[s] # "other"
                        /\ ~task.legacy /\ ~task.moved
                        /\ type \in Forced /\ bmc.host # "off"]
    /\ Aside

\* Port 22 of the BMC's address answers, whatever the host runs.
HostAnswers ==
    /\ task.pc = "wait"
    /\ Goto("eject")
    /\ UNCHANGED <<cache, bmc>> /\ Aside

-----------------------------------------------------------------------------
(* The power buttons.                                                      *)

Priority == [a \in Actions |->
    CASE a = "on" -> <<"On", "ForceOn", "PowerCycle">>
      [] a = "off" -> <<"GracefulShutdown", "ForceOff", "PushPowerButton">>
      [] a = "force_off" -> <<"ForceOff", "PushPowerButton">>
      [] a = "restart" -> <<"ForceRestart", "PowerCycle", "GracefulRestart">>
      [] a = "graceful_restart" -> <<"GracefulRestart", "ForceRestart">>
      [] a = "cycle" -> <<"PowerCycle", "ForceRestart">>]

\* The fallback of each is its first choice.
TypeFor(a, cap) == ChooseResetType(cap.resets, Priority[a], Priority[a][1])

\* power_action; an error or no answer may come after the fact.  Bound: one action
\* at a time is being verified; verifying changes nothing but the cache.
PowerAction(a) ==
    /\ op = NoAction
    /\ tree.system
    /\ \E cap \in Maps : UsesMap(cap) /\ bmc' \in Reset(TypeFor(a, cap), bmc)
    /\ op' \in {NoAction, a}
    /\ task' = IF task.pc \in Running
               THEN [task EXCEPT !.moved = @ \/ bmc' # bmc, !.calm = @ /\ bmc' = bmc]
               ELSE task
    /\ UNCHANGED server

\* _verify_state reads the power state a few times, by the map; what _apply_one then
\* writes to the server's row is in ServerRows.
VerifyState ==
    /\ op # NoAction
    /\ \E cap \in Maps : UsesMap(cap)
    /\ op' = NoAction
    /\ UNCHANGED <<server, bmc, task>>

Next ==
    \/ CacheExpires \/ BmcMoves
    \/ StartInstall \/ InstallFails \/ EjectIso \/ BeginMount \/ PreEject \/ Insert
    \/ Confirm \/ SetBootOnce \/ PowerCycle \/ HostAnswers
    \/ \E a \in Actions : PowerAction(a)
    \/ VerifyState

Spec == Init /\ [][Next]_vars

-----------------------------------------------------------------------------
Mountable == Optical \cup {LegacySlot, NoLeaf}

\* Types; only a slot for optical media is mounted to or emptied.
TypeOK ==
    /\ server \in Servers
    /\ bmc \in [slot : [Slots -> Media], boot : {"none", "once"},
                host : {"off", "os", "installer", "foreign"}, disk : {"old", "new"}]
    /\ task \in [pc : TaskPhases, out : Mountable, in : Mountable, legacy : BOOLEAN,
                 clean : BOOLEAN, moved : BOOLEAN, calm : BOOLEAN, ejected : BOOLEAN]
    /\ op \in Actions \cup {NoAction}

\* The install's restart brings up its installer and not the system on the disk,
\* whatever the map is missing or has outlived: the ISO is attached before the host
\* is restarted.  Not promised: on the legacy path, which goes on unconfirmed;
\* with somebody else's medium in another slot; when the power buttons
\* spend the override first.
RestartBootsInstaller ==
    task.pc = "wait" /\ task.calm => bmc.host = "installer" \/ bmc.disk = "new"

\* An eject that was answered took the install's ISO out, also when the map is from
\* before the mount and knows of none.  Not promised: when the mount had to
\* empty a slot first, an eject by the same map may go to that one; when a walk
\* lost a slot, the eject or the mount goes to another.
EjectFindsIso ==
    task.pc = "done" /\ task.ejected /\ task.clean /\ ~task.legacy =>
        \A s \in Slots : bmc.slot[s] # "ours"

\* "On" disturbs no running host and "off" starts none, whatever part of the map was
\* lost: only a BMC that offers nothing else for it than a power cycle or the
\* button is served with them.
OffersOnlyButton(types, button) == tree.resets \cap types = {} /\ button \in tree.resets
IntentKept ==
    [][op = NoAction =>
        /\ op' = "on" /\ ~OffersOnlyButton({"On", "ForceOn"}, "PowerCycle")
              => bmc.host = "off" \/ bmc' = bmc
        /\ op' = "off" /\ ~OffersOnlyButton({"GracefulShutdown", "ForceOff"}, "PushPowerButton")
              => bmc'.host \in {bmc.host, "off"}
        /\ op' = "force_off" /\ ~OffersOnlyButton({"ForceOff"}, "PushPowerButton")
              => bmc'.host \in {bmc.host, "off"}]_vars
=============================================================================
