-------------------------- MODULE BmcActionsProofs --------------------------
(***************************************************************************)
(* What BmcActions promises of a BMC under an install and the power        *)
(* buttons, proved from one inductive invariant: what a cached map may     *)
(* still say, which medium the mount has confirmed, whether the override   *)
(* is unspent, and, after a clean mount, where the only medium is.         *)
(***************************************************************************)
EXTENDS BmcActions, WellFoundedInduction, TLAPS

-----------------------------------------------------------------------------
(* The inductive invariant.                                                *)

\* A map lists slots of the BMC, and its reset types are those of the BMC or none.
MapOf(cap) ==
  /\ cap.inserted \subseteq cap.slots /\ cap.slots \subseteq Slots
  /\ cap.resets \in {{}, tree.resets}

\* From the answer to InsertMedia to the restart: the medium the mount waits for is
\* its own, a confirmed mount has one attached, and the override set after it is
\* unspent until the power buttons do something.
MountInv ==
  /\ task.pc = "confirm" => task.in \in Slots /\ bmc.slot[task.in] # "other"
  /\ task.pc \in {"boot", "cycle"} /\ ~task.legacy => \E s \in Slots : bmc.slot[s] = "ours"
  /\ task.pc = "cycle" /\ ~task.moved => bmc.boot = "once"
  /\ RestartBootsInstaller

Mounting == {"preEject", "insert", "confirm", "boot", "cycle", "wait", "eject"}
Usual == FirstBy(SlotOrder, Optical)

\* After a mount that found all slots empty, the only one that can hold a medium is
\* the first optical slot, and no map, old or new, knows of media elsewhere.
CleanMountInv ==
  /\ task.clean => task.pc \in Mounting \cup {"done"}
  /\ task.ejected => task.pc = "done"
  /\ task.clean /\ ~task.legacy /\ task.pc \in Mounting =>
       /\ Optical # {}
       /\ task.pc \in {"preEject", "insert", "confirm"} => task.in = Usual
       /\ \A s \in Slots \ {Usual} : bmc.slot[s] = "empty"
       /\ cache.inserted \subseteq {Usual}
  /\ task.clean /\ ~task.legacy /\ task.pc = "done" /\ task.ejected =>
       \A s \in Slots : bmc.slot[s] = "empty"

IInv ==
  /\ TypeOK
  /\ MapOf(cache)
  /\ MountInv
  /\ CleanMountInv

-----------------------------------------------------------------------------
(* The slot and the reset type that are chosen.                            *)

\* Every set of numbers has a least one.
LEMMA LeastExists ==
  ASSUME NEW S, S \subseteq Nat, S # {}
  PROVE  \E k \in S : \A m \in S : k <= m
<1> DEFINE R == {p \in Nat \X Nat : p[1] < p[2]}
<1>1. IsWellFoundedOn(R, Nat)
  BY NatLessThanWellFounded DEF OpToRel
<1>2. PICK k \in S : \A m \in S : ~(<<m, k>> \in R)
  BY <1>1, WFMin
<1>3. ASSUME NEW m \in S, m < k
      PROVE  <<m, k>> \in R
  BY <1>3
<1>4. \A m \in S : ~(m < k)
  BY <1>2, <1>3
<1> QED
  BY <1>4

LEMMA FirstByIn ==
  ASSUME NEW S, S \subseteq Slots, S # {}
  PROVE  FirstBy(SlotOrder, S) \in S
<1> DEFINE N == {SlotOrder[s] : s \in S}
<1>1. N \subseteq Nat /\ N # {}
  BY ActionsAssumption
<1>2. PICK k \in N : \A m \in N : k <= m
  BY <1>1, LeastExists
<1>3. PICK s \in S : SlotOrder[s] = k
  OBVIOUS
<1>4. \A m \in S : SlotOrder[s] <= SlotOrder[m]
  BY <1>2, <1>3
<1> QED
  BY <1>3, <1>4 DEF FirstBy

\* Only an optical slot is selected, or none when the map lists none.
LEMMA SelectIn ==
  ASSUME NEW cap, NEW wanted \in BOOLEAN
  PROVE  /\ SelectSlot(cap, wanted) \in Optical \cup {NoLeaf}
         /\ SelectSlot(cap, wanted) # NoLeaf => cap.slots \cap Optical # {}
         /\ SlotFor(cap, wanted) \in Mountable
         /\ cap.slots \cap Optical # {} => SelectSlot(cap, wanted) # NoLeaf
<1> DEFINE optical == cap.slots \cap Optical
           fit == {s \in optical : (s \in cap.inserted) = wanted}
           from == IF fit = {} THEN optical ELSE fit
<1>1. SelectSlot(cap, wanted) = IF optical = {} THEN NoLeaf ELSE FirstBy(SlotOrder, from)
  BY DEF SelectSlot
<1>2. optical # {} => from \subseteq Optical /\ from \subseteq Slots /\ from # {}
  BY ActionsAssumption
<1> HIDE DEF from
<1>3. optical # {} => FirstBy(SlotOrder, from) \in Optical
  BY <1>2, FirstByIn
<1>4. NoLeaf \notin Optical
  BY ActionsAssumption
<1> QED
  BY <1>1, <1>3, <1>4 DEF SlotFor, Mountable

\* A map that lists every optical slot and knows of media in the first one at most
\* leads to the first one, to empty it or, when it knows of none, to mount to it.
LEMMA SelectUsual ==
  ASSUME NEW cap, Optical \subseteq cap.slots, Optical # {}, cap.inserted \subseteq {Usual}
  PROVE  /\ Usual \in Optical
         /\ SlotFor(cap, TRUE) = Usual
         /\ cap.inserted = {} => SlotFor(cap, FALSE) = Usual
<1> DEFINE Fit(wanted) == {s \in Optical : (s \in cap.inserted) = wanted}
           From(wanted) == IF Fit(wanted) = {} THEN Optical ELSE Fit(wanted)
<1>0. Optical \subseteq Slots /\ NoLeaf \notin Optical
  BY ActionsAssumption
<1>1. Usual \in Optical
  BY <1>0, FirstByIn DEF Usual
<1>2. ASSUME NEW wanted \in BOOLEAN
      PROVE  SelectSlot(cap, wanted) = FirstBy(SlotOrder, From(wanted))
  <2>1. cap.slots \cap Optical = Optical
    OBVIOUS
  <2> QED
    BY <2>1 DEF SelectSlot
<1>3. FirstBy(SlotOrder, From(TRUE)) = Usual
  <2>1. CASE Fit(TRUE) = {}
    BY <2>1 DEF Usual
  <2>2. CASE Fit(TRUE) # {}
    <3>1. From(TRUE) = {Usual}
      BY <1>1, <2>2
    <3> HIDE DEF From
    <3>2. FirstBy(SlotOrder, {Usual}) \in {Usual}
      BY <1>0, <1>1, FirstByIn
    <3> QED
      BY <3>1, <3>2
  <2> QED
    BY <2>1, <2>2
<1>4. cap.inserted = {} => FirstBy(SlotOrder, From(FALSE)) = Usual
  <2> SUFFICES ASSUME cap.inserted = {} PROVE FirstBy(SlotOrder, From(FALSE)) = Usual
    OBVIOUS
  <2>1. From(FALSE) = Optical
    OBVIOUS
  <2> QED
    BY <2>1 DEF Usual
<1> HIDE DEF From
<1> QED
  BY <1>0, <1>1, <1>2, <1>3, <1>4 DEF SlotFor

\* The type is the first preference on offer, or the fallback when none is.
LEMMA ChooseTypeFirst ==
  ASSUME NEW allowed, NEW priority, NEW fallback, DOMAIN priority \subseteq Nat
  PROVE  LET type == ChooseResetType(allowed, priority, fallback)
         IN  \/ type = fallback /\ \A i \in DOMAIN priority : priority[i] \notin allowed
             \/ \E i \in DOMAIN priority :
                  /\ type = priority[i] /\ type \in allowed
                  /\ \A j \in DOMAIN priority : j < i => priority[j] \notin allowed
<1> DEFINE offered == {i \in DOMAIN priority : priority[i] \in allowed}
           first == CHOOSE i \in offered : \A j \in offered : i <= j
<1>1. CASE offered = {}
  BY <1>1 DEF ChooseResetType
<1>2. CASE offered # {}
  <2>1. offered \subseteq Nat
    OBVIOUS
  <2>2. \E i \in offered : \A j \in offered : i <= j
    BY <1>2, <2>1, LeastExists
  <2>3. first \in offered /\ \A j \in offered : first <= j
    BY <2>2
  <2>4. ChooseResetType(allowed, priority, fallback) = priority[first]
    BY <1>2 DEF ChooseResetType
  <2> HIDE DEF first
  <2>5. \A j \in DOMAIN priority : j < first => priority[j] \notin allowed
    BY <2>1, <2>3
  <2> QED
    BY <2>3, <2>4, <2>5
<1> QED
  BY <1>1, <1>2

-----------------------------------------------------------------------------
(* The map and the BMC.                                                    *)

MediaTypes == [Slots -> Media]
BmcStates == [slot : MediaTypes, boot : {"none", "once"},
              host : {"off", "os", "installer", "foreign"}, disk : {"old", "new"}]

\* A map is the cached one, or it says what the walk that made it saw.
LEMMA MapRead ==
  ASSUME TypeOK, MapOf(cache), NEW cap \in Maps
  PROVE  /\ MapOf(cap)
         /\ \/ cap = cache
            \/ cap.inserted \subseteq {s \in Slots : bmc.slot[s] \in {"other", "ours"}}
<1>1. CASE cache # NoMap
  BY <1>1 DEF Maps
<1>2. CASE cache = NoMap
  <2> DEFINE seen == [tree EXCEPT !.inserted = Inserted(bmc)]
  <2>1. PICK lost \in SUBSET Lossy : cap = Walk(seen, lost)
    BY <1>2 DEF Maps
  <2>2. tree \in Trees
    BY ActionsAssumption DEF TypeOK, tree
  <2>3. seen.inserted = Inserted(bmc) /\ seen.resets = tree.resets
    BY <2>2 DEF Trees
  <2> HIDE DEF seen
  <2>4. CASE "root" \in lost
    BY <2>1, <2>4 DEF Walk, NoMap, MapOf
  <2>5. CASE "root" \notin lost
    <3> DEFINE slots == WalkVirtualMedia(seen, lost)
    <3>1. /\ cap.slots = slots /\ cap.inserted = {s \in slots : seen.inserted[s]}
          /\ cap.resets = AllowedResetTypes(seen, lost)
      BY <2>1, <2>5 DEF Walk
    <3>2. slots \subseteq Slots
      BY DEF WalkVirtualMedia
    <3>3. cap.resets \in {{}, tree.resets}
      BY <2>3, <3>1 DEF AllowedResetTypes
    <3> HIDE DEF slots
    <3>4. cap.inserted \subseteq {s \in Slots : bmc.slot[s] \in {"other", "ours"}}
      BY <2>3, <3>1, <3>2 DEF Inserted
    <3> QED
      BY <3>1, <3>2, <3>3, <3>4 DEF MapOf
  <2> QED
    BY <2>4, <2>5
<1> QED
  BY <1>1, <1>2

LEMMA MapKept ==
  ASSUME TypeOK, MapOf(cache), NEW cap \in Maps, UsesMap(cap), server' = server
  PROVE  MapOf(cache)'
BY MapRead DEF UsesMap, MapOf, tree

\* A start changes neither the slots nor the disk, spends the override, and is one
\* from the install's ISO when the override is set and no other medium is in.
LEMMA BootsTo ==
  ASSUME NEW b \in BmcStates, NEW c \in Boots(b)
  PROVE  /\ c \in BmcStates /\ c.slot = b.slot /\ c.disk = b.disk
         /\ c.host # "off"
         /\ \A s \in Slots :
              b.boot = "once" /\ b.slot[s] = "ours" /\ (\A r \in Slots : b.slot[r] # "other")
                => c.host = "installer"
<1> DEFINE media == {b.slot[s] : s \in Slots} \cap {"ours", "other"}
<1>1. PICK h \in {"os", "installer", "foreign"} :
        /\ c = [b EXCEPT !.host = h, !.boot = "none"]
        /\ \/ h = "os" /\ (b.boot = "none" \/ media = {})
           \/ \E m \in media : h = IF m = "ours" THEN "installer" ELSE "foreign"
  <2>1. CASE b.boot = "none" \/ media = {}
    <3>1. c = [b EXCEPT !.host = "os", !.boot = "none"]
      BY <2>1 DEF Boots
    <3> QED
      BY <2>1, <3>1
  <2>2. CASE ~(b.boot = "none" \/ media = {})
    <3> DEFINE host(m) == IF m = "ours" THEN "installer" ELSE "foreign"
    <3>1. PICK m \in media : c = [b EXCEPT !.host = host(m), !.boot = "none"]
      BY <2>2 DEF Boots
    <3> HIDE DEF media
    <3> QED
      BY <3>1
  <2> QED
    BY <2>1, <2>2
<1>2. /\ c \in BmcStates /\ c.slot = b.slot /\ c.disk = b.disk /\ c.host = h
  BY <1>1 DEF BmcStates
<1>3. ASSUME NEW s \in Slots, b.boot = "once", b.slot[s] = "ours",
             \A r \in Slots : b.slot[r] # "other"
      PROVE  c.host = "installer"
  <2>1. media = {"ours"}
    BY <1>3
  <2> HIDE DEF media
  <2> QED
    BY <1>1, <1>2, <1>3, <2>1
<1> QED
  BY <1>1, <1>2, <1>3

LEMMA ResetTo ==
  ASSUME NEW b \in BmcStates, NEW type, NEW c \in Reset(type, b)
  PROVE  /\ c \in BmcStates /\ c.slot = b.slot /\ c.disk = b.disk
         /\ type \in {"On", "ForceOn"} => b.host = "off" \/ c = b
         /\ type \in {"ForceOff", "GracefulShutdown"} => c.host \in {b.host, "off"}
         /\ type \in Forced /\ b.host # "off" => c \in Boots(b)
         /\ tree.resets # {} => type \in tree.resets
<1> DEFINE off == [b EXCEPT !.host = "off"]
<1>1. off \in BmcStates /\ off.slot = b.slot /\ off.disk = b.disk /\ off.host = "off"
  BY DEF BmcStates
<1> HIDE DEF off
<1>2. tree.resets # {} => type \in tree.resets
  BY DEF Reset
<1>3. \/ c = b \/ c = off \/ c \in Boots(b)
  BY DEF Reset, off
<1>4. /\ type \in {"On", "ForceOn"} => b.host = "off" \/ c = b
      /\ type \in {"ForceOff", "GracefulShutdown"} => c \in {b, off}
      /\ type \in Forced /\ b.host # "off" => c \in Boots(b)
  BY DEF Reset, Forced, off
<1> QED
  BY <1>1, <1>2, <1>3, <1>4, BootsTo

-----------------------------------------------------------------------------
(* IInv is inductive: one lemma per action.                                *)

TaskRecords == [pc : TaskPhases, out : Mountable, in : Mountable, legacy : BOOLEAN,
                clean : BOOLEAN, moved : BOOLEAN, calm : BOOLEAN, ejected : BOOLEAN]

LEMMA Typed ==
  TypeOK <=> /\ server \in Servers /\ bmc \in BmcStates
             /\ task \in TaskRecords /\ op \in Actions \cup {NoAction}
BY DEF TypeOK, BmcStates, MediaTypes, TaskRecords

LEMMA GotoTo ==
  ASSUME task \in TaskRecords, NEW pc \in TaskPhases, Goto(pc)
  PROVE  /\ task' \in TaskRecords /\ task'.pc = pc
         /\ task'.in = task.in /\ task'.out = task.out /\ task'.legacy = task.legacy
         /\ task'.clean = task.clean /\ task'.moved = task.moved /\ task'.calm = task.calm
         /\ task'.ejected = task.ejected
BY DEF Goto, TaskRecords

\* An install that has not come to its mount, or is over without an eject, has nothing
\* to keep.
LEMMA NothingMounted ==
  ASSUME task'.pc \in {"idle", "hpeEject", "mount", "failed"}, task'.clean = FALSE,
         task'.ejected = FALSE
  PROVE  MountInv' /\ CleanMountInv'
<1>1. task'.pc \notin {"confirm", "boot", "cycle", "wait"}
  OBVIOUS
<1>2. MountInv'
  BY <1>1 DEF MountInv, RestartBootsInstaller
<1> QED
  BY <1>2 DEF CleanMountInv

LEMMA FailSafe ==
  ASSUME IInv, Fail, bmc' \in BmcStates, MapOf(cache)', server' = server, op' = op
  PROVE  IInv'
<1>1. /\ task' \in TaskRecords /\ task'.pc = "failed"
      /\ task'.clean = FALSE /\ task'.ejected = FALSE
  BY DEF Fail, NoTask, TaskRecords, TaskPhases, Mountable
<1>2. TypeOK'
  <2>1. TypeOK
    BY DEF IInv
  <2> QED
    BY <1>1, <2>1, Typed DEF TypeOK, BmcStates, MediaTypes, TaskRecords
<1> QED
  BY <1>1, <1>2, NothingMounted DEF IInv

\* Of any map the plugin may use during a clean mount.
LEMMA CleanMap ==
  ASSUME IInv, NEW cap \in Maps, task.clean, ~task.legacy, task.pc \in Mounting
  PROVE  cap.inserted \subseteq {Usual}
<1>1. \/ cap = cache
      \/ cap.inserted \subseteq {s \in Slots : bmc.slot[s] \in {"other", "ours"}}
  BY MapRead DEF IInv
<1>2. cache.inserted \subseteq {Usual} /\ \A s \in Slots \ {Usual} : bmc.slot[s] = "empty"
  BY DEF IInv, CleanMountInv
<1> QED
  BY <1>1, <1>2

\* A step that touches neither the install nor the BMC, but may walk.
LEMMA WalkSafe ==
  ASSUME IInv, UNCHANGED <<server, bmc, task>>, op' \in Actions \cup {NoAction},
         cache' = NoMap \/ \E cap \in Maps : UsesMap(cap)
  PROVE  IInv'
<1>1. TypeOK /\ MapOf(cache) /\ MountInv /\ CleanMountInv
  BY DEF IInv
<1>2. TypeOK'
  BY <1>1 DEF TypeOK
<1>3. MapOf(cache)'
  BY <1>1, MapKept DEF MapOf, NoMap
<1>4. MountInv'
  BY <1>1 DEF MountInv, RestartBootsInstaller
<1>5. task.clean /\ ~task.legacy /\ task.pc \in Mounting => cache'.inserted \subseteq {Usual}
  BY CleanMap DEF UsesMap, NoMap
<1>6. CleanMountInv'
  BY <1>1, <1>5 DEF CleanMountInv
<1> QED
  BY <1>2, <1>3, <1>4, <1>6 DEF IInv

LEMMA BmcMovesSafe == ASSUME IInv, BmcMoves PROVE IInv'
<1>1. TypeOK /\ MapOf(cache) /\ MountInv /\ CleanMountInv /\ bmc \in BmcStates
  BY Typed DEF IInv
<1>2. UNCHANGED <<server, cache, task, op>>
  BY DEF BmcMoves
<1>3. ASSUME NEW s \in Slots, NEW m \in {"ours", "empty"},
             bmc.slot[s] = "attaching", bmc' = [bmc EXCEPT !.slot[s] = m]
      PROVE  /\ bmc' \in BmcStates /\ bmc'.boot = bmc.boot /\ bmc'.host = bmc.host
             /\ bmc'.disk = bmc.disk /\ bmc'.slot[s] = m
             /\ \A r \in Slots : r # s => bmc'.slot[r] = bmc.slot[r]
  BY <1>1, <1>3 DEF BmcStates, MediaTypes, Media
<1>4. /\ bmc' \in BmcStates /\ bmc'.boot = bmc.boot
      /\ \A s \in Slots :
           \/ bmc'.slot[s] = bmc.slot[s]
           \/ bmc.slot[s] = "attaching" /\ bmc'.slot[s] \in {"ours", "empty"}
      /\ \/ bmc'.host = bmc.host /\ bmc'.disk = bmc.disk
         \/ bmc'.disk = "new"
  <2>1. CASE bmc' = [bmc EXCEPT !.host = "os", !.disk = "new"]
    BY <1>1, <2>1 DEF BmcStates
  <2>2. ASSUME NEW s \in Slots, NEW m \in {"ours", "empty"},
               bmc.slot[s] = "attaching", bmc' = [bmc EXCEPT !.slot[s] = m]
        PROVE  /\ bmc' \in BmcStates /\ bmc'.boot = bmc.boot
               /\ \A r \in Slots :
                    \/ bmc'.slot[r] = bmc.slot[r]
                    \/ bmc.slot[r] = "attaching" /\ bmc'.slot[r] \in {"ours", "empty"}
               /\ bmc'.host = bmc.host /\ bmc'.disk = bmc.disk
    BY <1>3, <2>2
  <2> QED
    BY <2>1, <2>2 DEF BmcMoves
<1>5. TypeOK'
  BY <1>1, <1>2, <1>4, Typed DEF TypeOK, BmcStates, MediaTypes
<1>6. MapOf(cache)'
  BY <1>1, <1>2 DEF MapOf, tree
<1>7. MountInv'
  <2>1. task.pc = "confirm" => task.in \in Slots /\ bmc'.slot[task.in] # "other"
    BY <1>1, <1>4 DEF MountInv
  <2>2. task.pc \in {"boot", "cycle"} /\ ~task.legacy => \E s \in Slots : bmc'.slot[s] = "ours"
    BY <1>1, <1>4 DEF MountInv
  <2>3. RestartBootsInstaller'
    BY <1>1, <1>2, <1>4 DEF MountInv, RestartBootsInstaller
  <2> QED
    BY <1>1, <1>2, <1>4, <2>1, <2>2, <2>3 DEF MountInv
<1>8. CleanMountInv'
  BY <1>1, <1>2, <1>4 DEF CleanMountInv
<1> QED
  BY <1>5, <1>6, <1>7, <1>8 DEF IInv

LEMMA StartInstallSafe == ASSUME IInv, StartInstall PROVE IInv'
<1>1. TypeOK /\ MapOf(cache) /\ UNCHANGED <<cache, bmc, server, op>>
  BY DEF IInv, StartInstall, Aside
<1>2. /\ task' \in TaskRecords /\ task'.pc \in {"hpeEject", "mount"}
      /\ task'.clean = FALSE /\ task'.ejected = FALSE
  BY DEF StartInstall, NoTask, TaskRecords, TaskPhases, Mountable
<1>3. TypeOK'
  BY <1>1, <1>2 DEF TypeOK, TaskRecords
<1>4. MapOf(cache)'
  BY <1>1 DEF MapOf, tree
<1> QED
  BY <1>2, <1>3, <1>4, NothingMounted DEF IInv

LEMMA InstallFailsSafe == ASSUME IInv, InstallFails PROVE IInv'
<1>1. UNCHANGED <<cache, bmc, server, op>> /\ Fail /\ bmc \in BmcStates
  BY Typed DEF IInv, InstallFails, Aside
<1>2. MapOf(cache)'
  BY <1>1 DEF IInv, MapOf, tree
<1> QED
  BY <1>1, <1>2, FailSafe

\* What emptying a slot leaves.
LEMMA Emptied ==
  ASSUME bmc \in BmcStates, NEW s \in Slots
  PROVE  /\ EjectMedia(s) \in BmcStates /\ EjectMedia(s).slot[s] = "empty"
         /\ \A r \in Slots : r # s => EjectMedia(s).slot[r] = bmc.slot[r]
BY DEF EjectMedia, BmcStates, MediaTypes, Media

LEMMA EjectIsoSafe == ASSUME IInv, EjectIso PROVE IInv'
<1>0. /\ TypeOK /\ MapOf(cache) /\ CleanMountInv /\ bmc \in BmcStates /\ task \in TaskRecords
      /\ task.pc \in {"hpeEject", "eject"} /\ UNCHANGED <<server, op>>
  BY Typed DEF IInv, EjectIso, Aside
<1>1. PICK cap \in Maps :
        /\ UsesMap(cap)
        /\ LET s == SlotFor(cap, TRUE)
               pc == IF task.pc = "eject" THEN "done" ELSE "mount"
           IN  \/ /\ s # NoLeaf
                  /\ bmc' = EjectMedia(s)
                  /\ task' = [task EXCEPT !.pc = pc, !.ejected =
                               task.pc = "eject" /\ Optical \subseteq cap.slots]
               \/ bmc' = bmc /\ Goto(pc)
  BY DEF EjectIso
<1> DEFINE s == SlotFor(cap, TRUE)
           pc == IF task.pc = "eject" THEN "done" ELSE "mount"
<1>2. MapOf(cache)' /\ MapOf(cap)
  BY <1>0, <1>1, MapKept, MapRead
<1>3. s # NoLeaf => s \in Slots
  <2>1. s \in Mountable
    BY SelectIn
  <2> QED
    BY <2>1, ActionsAssumption DEF Mountable
<1>4. pc \in TaskPhases /\ pc \in {"done", "mount"} /\ (pc = "mount" <=> task.pc = "hpeEject")
  BY <1>0 DEF TaskPhases
<1>5. \/ /\ s # NoLeaf /\ bmc' = EjectMedia(s)
         /\ task' = [task EXCEPT !.pc = pc, !.ejected =
                               task.pc = "eject" /\ Optical \subseteq cap.slots]
      \/ bmc' = bmc /\ Goto(pc)
  BY <1>1
<1> HIDE DEF s, pc
<1>6. bmc' \in BmcStates
  BY <1>0, <1>3, <1>5, Emptied
<1>7. /\ task' \in TaskRecords /\ task'.pc = pc
      /\ task'.clean = task.clean /\ task'.legacy = task.legacy
      /\ \/ task'.ejected = task.ejected
         \/ /\ s # NoLeaf /\ bmc' = EjectMedia(s)
            /\ task'.ejected = (task.pc = "eject" /\ Optical \subseteq cap.slots)
  <2>1. CASE bmc' = bmc /\ Goto(pc)
    BY <1>0, <1>4, <2>1, GotoTo
  <2>2. CASE /\ s # NoLeaf /\ bmc' = EjectMedia(s)
             /\ task' = [task EXCEPT !.pc = pc, !.ejected =
                               task.pc = "eject" /\ Optical \subseteq cap.slots]
    <3> DEFINE answered == task.pc = "eject" /\ Optical \subseteq cap.slots
    <3>1. answered \in BOOLEAN
      OBVIOUS
    <3>2. task' = [task EXCEPT !.pc = pc, !.ejected = answered]
      BY <2>2
    <3> HIDE DEF answered
    <3>3. /\ task' \in TaskRecords /\ task'.pc = pc /\ task'.ejected = answered
          /\ task'.clean = task.clean /\ task'.legacy = task.legacy
      BY <1>0, <1>4, <3>1, <3>2 DEF TaskRecords
    <3> QED
      BY <2>2, <3>3 DEF answered
  <2> QED
    BY <1>5, <2>1, <2>2
<1>8. TypeOK'
  BY <1>0, <1>6, <1>7 DEF TypeOK, BmcStates, MediaTypes, TaskRecords
<1>9. MountInv'
  BY <1>4, <1>7 DEF MountInv, RestartBootsInstaller
<1>10. CASE task.pc = "hpeEject"
  <2>1. task.clean = FALSE /\ task.ejected = FALSE
    BY <1>0, <1>10 DEF CleanMountInv, Mounting, TaskRecords
  <2> QED
    BY <1>2, <1>4, <1>7, <1>8, <1>9, <1>10, <2>1, NothingMounted DEF IInv
<1>11. CASE task.pc = "eject"
  <2>1. pc = "done" /\ ~task.ejected
    BY <1>0, <1>4, <1>11 DEF CleanMountInv
  <2>2. ASSUME task'.clean, ~task'.legacy, task'.ejected
        PROVE  \A r \in Slots : bmc'.slot[r] = "empty"
    <3>1. /\ task.clean /\ ~task.legacy /\ Optical \subseteq cap.slots
          /\ bmc' = EjectMedia(s) /\ s \in Slots
      BY <1>3, <1>7, <2>1, <2>2
    <3>2. /\ task.pc \in Mounting /\ \A r \in Slots \ {Usual} : bmc.slot[r] = "empty"
      BY <1>0, <1>11, <3>1 DEF CleanMountInv, Mounting
    <3>3. cap.inserted \subseteq {Usual}
      BY <3>1, <3>2, CleanMap
    <3>4. Optical # {} => s = Usual
      BY <3>1, <3>3, SelectUsual DEF s
    <3>5. Optical # {}
      BY <1>0, <3>1, <3>2 DEF CleanMountInv
    <3> QED
      BY <1>0, <3>1, <3>2, <3>4, <3>5, Emptied
  <2>3. CleanMountInv'
    BY <1>7, <2>1, <2>2 DEF CleanMountInv, Mounting
  <2> QED
    BY <1>2, <1>8, <1>9, <2>3 DEF IInv
<1> QED
  BY <1>0, <1>10, <1>11

LEMMA BeginMountSafe == ASSUME IInv, BeginMount PROVE IInv'
<1>0. /\ TypeOK /\ MapOf(cache) /\ MountInv /\ CleanMountInv /\ task \in TaskRecords
      /\ task.pc = "mount" /\ UNCHANGED <<server, op, bmc>> /\ ~task.ejected
  BY Typed DEF IInv, BeginMount, Aside, CleanMountInv
<1> DEFINE Clean(cap) == /\ Optical \subseteq cap.slots /\ cap.inserted = {}
                         /\ \A s \in Slots : bmc.slot[s] = "empty"
           Legacy(cap) == SelectSlot(cap, FALSE) = NoLeaf
<1>1. PICK cap \in Maps :
        /\ UsesMap(cap)
        /\ task' = [task EXCEPT !.pc = "preEject", !.out = SlotFor(cap, TRUE),
                                !.in = SlotFor(cap, FALSE), !.legacy = Legacy(cap),
                                !.clean = Clean(cap)]
  BY DEF BeginMount
<1>2. Clean(cap) \in BOOLEAN /\ Legacy(cap) \in BOOLEAN
  OBVIOUS
<1> HIDE DEF Clean, Legacy
<1>3. SlotFor(cap, TRUE) \in Mountable /\ SlotFor(cap, FALSE) \in Mountable
  BY SelectIn
<1>4. /\ task' \in TaskRecords /\ task'.pc = "preEject" /\ task'.in = SlotFor(cap, FALSE)
      /\ task'.legacy = Legacy(cap) /\ task'.clean = Clean(cap)
      /\ task'.ejected = task.ejected
  BY <1>0, <1>1, <1>2, <1>3 DEF TaskRecords, TaskPhases
<1>5. MapOf(cache)' /\ cache' = cap
  BY <1>0, <1>1, MapKept DEF UsesMap
<1>6. TypeOK'
  BY <1>0, <1>4 DEF TypeOK, TaskRecords
<1>7. MountInv'
  BY <1>4 DEF MountInv, RestartBootsInstaller
<1>8. ASSUME Clean(cap), ~Legacy(cap)
      PROVE  /\ Optical # {} /\ SlotFor(cap, FALSE) = Usual
             /\ \A s \in Slots : bmc.slot[s] = "empty"
             /\ cap.inserted = {}
  <2>1. Optical # {}
    BY <1>8, SelectIn DEF Legacy
  <2> QED
    BY <1>8, <2>1, SelectUsual DEF Clean
<1>9. CleanMountInv'
  BY <1>0, <1>4, <1>5, <1>8 DEF CleanMountInv, Mounting
<1> QED
  BY <1>5, <1>6, <1>7, <1>9 DEF IInv

\* What a step of the mount keeps of a clean mount: it changes the first slot only.
LEMMA CleanStep ==
  ASSUME IInv, task.pc \in Mounting, task'.pc \in Mounting,
         task'.clean = task.clean, task'.legacy = task.legacy, task'.ejected = task.ejected,
         task'.pc \in {"preEject", "insert", "confirm"} => task'.in = task.in,
         task'.pc \in {"preEject", "insert", "confirm"} =>
           task.pc \in {"preEject", "insert", "confirm"},
         cache' = cache \/ \E cap \in Maps : UsesMap(cap),
         \A s \in Slots : bmc'.slot[s] \in {bmc.slot[s], "empty"} \/ task.in = s,
         task.pc \in {"preEject", "insert", "confirm"} \/ bmc'.slot = bmc.slot
  PROVE  CleanMountInv'
<1>1. CleanMountInv
  BY DEF IInv
<1>2. ASSUME task.clean, ~task.legacy
      PROVE  /\ \A s \in Slots \ {Usual} : bmc'.slot[s] = "empty"
             /\ cache'.inserted \subseteq {Usual}
  <2>1. \A s \in Slots \ {Usual} : bmc'.slot[s] = "empty"
    BY <1>1, <1>2 DEF CleanMountInv
  <2>2. cache'.inserted \subseteq {Usual}
    BY <1>1, <1>2, CleanMap DEF CleanMountInv, UsesMap
  <2> QED
    BY <2>1, <2>2
<1> QED
  BY <1>1, <1>2 DEF CleanMountInv, Mounting

LEMMA PreEjectSafe == ASSUME IInv, PreEject PROVE IInv'
<1>0. /\ TypeOK /\ MapOf(cache) /\ task \in TaskRecords /\ bmc \in BmcStates
      /\ task.pc = "preEject" /\ UNCHANGED <<server, op, cache>> /\ Goto("insert")
      /\ bmc' = bmc \/ (task.out # NoLeaf /\ bmc' = EjectMedia(task.out))
  BY Typed DEF IInv, PreEject, Aside
<1>1. /\ task' \in TaskRecords /\ task'.pc = "insert" /\ task'.in = task.in
      /\ task'.legacy = task.legacy /\ task'.clean = task.clean
      /\ task'.ejected = task.ejected
  BY <1>0, GotoTo DEF TaskPhases
<1>2. task.out # NoLeaf => task.out \in Slots
  BY <1>0, ActionsAssumption DEF TaskRecords, Mountable
<1>3. bmc' \in BmcStates /\ \A s \in Slots : bmc'.slot[s] \in {bmc.slot[s], "empty"}
  BY <1>0, <1>2, Emptied
<1>4. TypeOK'
  BY <1>0, <1>1, <1>3 DEF TypeOK, BmcStates, MediaTypes, TaskRecords
<1>5. MapOf(cache)'
  BY <1>0 DEF MapOf, tree
<1>6. MountInv'
  BY <1>1 DEF MountInv, RestartBootsInstaller
<1>7. CleanMountInv'
  BY <1>0, <1>1, <1>3, CleanStep DEF Mounting
<1> QED
  BY <1>4, <1>5, <1>6, <1>7 DEF IInv

LEMMA InsertSafe == ASSUME IInv, Insert PROVE IInv'
<1>0. /\ TypeOK /\ MapOf(cache) /\ task \in TaskRecords /\ bmc \in BmcStates
      /\ task.pc = "insert" /\ UNCHANGED <<server, op, cache>> /\ task.in # NoLeaf
      /\ bmc' = [bmc EXCEPT !.slot[task.in] = "attaching"]
  BY Typed DEF IInv, Insert, Aside
<1>1. task.in \in Slots
  BY <1>0, ActionsAssumption DEF TaskRecords, Mountable
<1>2. /\ bmc' \in BmcStates /\ bmc'.slot[task.in] = "attaching"
      /\ \A s \in Slots : s # task.in => bmc'.slot[s] = bmc.slot[s]
  BY <1>0, <1>1 DEF BmcStates, MediaTypes, Media
<1>3. MapOf(cache)'
  BY <1>0 DEF MapOf, tree
<1>4. CASE Fail
  BY <1>0, <1>2, <1>3, <1>4, FailSafe
<1>5. CASE Goto("confirm")
  <2>1. /\ task' \in TaskRecords /\ task'.pc = "confirm" /\ task'.in = task.in
        /\ task'.legacy = task.legacy /\ task'.clean = task.clean
        /\ task'.ejected = task.ejected
    BY <1>0, <1>5, GotoTo DEF TaskPhases
  <2>2. TypeOK'
    BY <1>0, <1>2, <2>1 DEF TypeOK, BmcStates, MediaTypes, TaskRecords
  <2>3. MountInv'
    BY <1>1, <1>2, <2>1 DEF MountInv, RestartBootsInstaller
  <2>4. CleanMountInv'
    BY <1>0, <1>2, <2>1, CleanStep DEF Mounting
  <2> QED
    BY <1>3, <2>2, <2>3, <2>4 DEF IInv
<1> QED
  BY <1>4, <1>5 DEF Insert

LEMMA ConfirmSafe == ASSUME IInv, Confirm PROVE IInv'
<1>0. /\ TypeOK /\ MapOf(cache) /\ MountInv /\ task \in TaskRecords /\ bmc \in BmcStates
      /\ task.pc = "confirm" /\ UNCHANGED <<server, op, cache, bmc>>
  BY Typed DEF IInv, Confirm, Aside
<1>1. MapOf(cache)'
  BY <1>0 DEF MapOf, tree
<1>2. CASE Fail
  BY <1>0, <1>1, <1>2, FailSafe
<1>3. CASE Attached /\ (Inserted(bmc)[task.in] \/ GivenUp(task.legacy) = "boot")
  <2>1. /\ task' \in TaskRecords /\ task'.pc = "boot"
        /\ task'.legacy = task.legacy /\ task'.clean = task.clean
        /\ task'.ejected = task.ejected
    BY <1>0, <1>3 DEF Attached, TaskRecords, TaskPhases, Mountable
  <2>2. TypeOK'
    BY <1>0, <2>1 DEF TypeOK, TaskRecords
  <2>3. ~task.legacy => \E s \in Slots : bmc.slot[s] = "ours"
    <3> SUFFICES ASSUME ~task.legacy PROVE bmc.slot[task.in] = "ours" /\ task.in \in Slots
      OBVIOUS
    <3>1. Inserted(bmc)[task.in] /\ task.in \in Slots /\ bmc.slot[task.in] # "other"
      BY <1>0, <1>3 DEF GivenUp, MountInv
    <3> QED
      BY <3>1 DEF Inserted
  <2>4. MountInv'
    BY <1>0, <2>1, <2>3 DEF MountInv, RestartBootsInstaller
  <2>5. CleanMountInv'
    BY <1>0, <2>1, CleanStep DEF Mounting
  <2> QED
    BY <1>1, <2>2, <2>4, <2>5 DEF IInv
<1> QED
  BY <1>2, <1>3 DEF Confirm

LEMMA SetBootOnceSafe == ASSUME IInv, SetBootOnce PROVE IInv'
<1>0. /\ TypeOK /\ MapOf(cache) /\ MountInv /\ task \in TaskRecords /\ bmc \in BmcStates
      /\ task.pc = "boot" /\ UNCHANGED <<server, op>>
      /\ bmc' = [bmc EXCEPT !.boot = "once"]
  BY Typed DEF IInv, SetBootOnce, Aside
<1>1. PICK cap \in Maps : UsesMap(cap)
  BY DEF SetBootOnce
<1>2. MapOf(cache)'
  BY <1>0, <1>1, MapKept
<1>3. bmc' \in BmcStates /\ bmc'.boot = "once" /\ bmc'.slot = bmc.slot
  BY <1>0 DEF BmcStates
<1>4. CASE Fail
  BY <1>0, <1>2, <1>3, <1>4, FailSafe
<1>5. CASE task' = [task EXCEPT !.pc = "cycle", !.moved = FALSE]
  <2>1. /\ task' \in TaskRecords /\ task'.pc = "cycle"
        /\ task'.legacy = task.legacy /\ task'.clean = task.clean
        /\ task'.ejected = task.ejected
    BY <1>0, <1>5 DEF TaskRecords, TaskPhases
  <2>2. TypeOK'
    BY <1>0, <1>3, <2>1 DEF TypeOK, BmcStates, MediaTypes, TaskRecords
  <2>3. MountInv'
    BY <1>0, <1>3, <2>1 DEF MountInv, RestartBootsInstaller
  <2>4. CleanMountInv'
    BY <1>0, <1>1, <1>3, <2>1, CleanStep DEF Mounting
  <2> QED
    BY <1>2, <2>2, <2>3, <2>4 DEF IInv
<1> QED
  BY <1>4, <1>5 DEF SetBootOnce

LEMMA PowerCycleSafe == ASSUME IInv, PowerCycle PROVE IInv'
<1>0. /\ TypeOK /\ MapOf(cache) /\ MountInv /\ task \in TaskRecords /\ bmc \in BmcStates
      /\ task.pc = "cycle" /\ UNCHANGED <<server, op>>
  BY Typed DEF IInv, PowerCycle, Aside
<1> DEFINE Calm(type) == /\ \A s \in Slots : bmc.slot[s] # "other"
                         /\ ~task.legacy /\ ~task.moved
                         /\ type \in Forced /\ bmc.host # "off"
<1>1. PICK cap \in Maps :
        /\ UsesMap(cap)
        /\ LET type == ChooseResetType(cap.resets, CyclePriority, "ForceRestart")
           IN  /\ bmc' \in Reset(type, bmc)
               /\ Fail \/ task' = [task EXCEPT !.pc = "wait", !.calm = Calm(type)]
  BY DEF PowerCycle
<1> DEFINE type == ChooseResetType(cap.resets, CyclePriority, "ForceRestart")
           calm == Calm(type)
<1>2. bmc' \in Reset(type, bmc) /\ (Fail \/ task' = [task EXCEPT !.pc = "wait", !.calm = calm])
  BY <1>1
<1>3. calm \in BOOLEAN /\ (calm => Calm(type))
  OBVIOUS
<1> HIDE DEF type, calm
<1>4. MapOf(cache)'
  BY <1>0, <1>1, MapKept
<1>5. /\ bmc' \in BmcStates /\ bmc'.slot = bmc.slot
      /\ type \in Forced /\ bmc.host # "off" => bmc' \in Boots(bmc)
  BY <1>0, <1>2, ResetTo
<1>6. CASE Fail
  BY <1>0, <1>4, <1>5, <1>6, FailSafe
<1>7. CASE task' = [task EXCEPT !.pc = "wait", !.calm = calm]
  <2>1. /\ task' \in TaskRecords /\ task'.pc = "wait" /\ task'.calm = calm
        /\ task'.legacy = task.legacy /\ task'.clean = task.clean
        /\ task'.ejected = task.ejected
    BY <1>0, <1>3, <1>7 DEF TaskRecords, TaskPhases
  <2>2. TypeOK'
    BY <1>0, <1>5, <2>1 DEF TypeOK, BmcStates, MediaTypes, TaskRecords
  <2>3. calm => bmc'.host = "installer"
    <3> SUFFICES ASSUME calm PROVE bmc'.host = "installer"
      OBVIOUS
    <3>1. /\ bmc' \in Boots(bmc) /\ ~task.legacy /\ bmc.boot = "once"
          /\ \A s \in Slots : bmc.slot[s] # "other"
      BY <1>0, <1>3, <1>5 DEF MountInv
    <3>2. PICK s \in Slots : bmc.slot[s] = "ours"
      BY <1>0, <3>1 DEF MountInv
    <3> QED
      BY <1>0, <3>1, <3>2, BootsTo
  <2>4. MountInv'
    BY <2>1, <2>3 DEF MountInv, RestartBootsInstaller
  <2>5. CleanMountInv'
    BY <1>0, <1>1, <1>5, <2>1, CleanStep DEF Mounting
  <2> QED
    BY <1>4, <2>2, <2>4, <2>5 DEF IInv
<1> QED
  BY <1>2, <1>6, <1>7

LEMMA HostAnswersSafe == ASSUME IInv, HostAnswers PROVE IInv'
<1>0. /\ TypeOK /\ MapOf(cache) /\ task \in TaskRecords
      /\ task.pc = "wait" /\ UNCHANGED <<server, op, cache, bmc>> /\ Goto("eject")
  BY Typed DEF IInv, HostAnswers, Aside
<1>1. /\ task' \in TaskRecords /\ task'.pc = "eject"
      /\ task'.legacy = task.legacy /\ task'.clean = task.clean
      /\ task'.ejected = task.ejected
  BY <1>0, GotoTo DEF TaskPhases
<1>2. TypeOK'
  BY <1>0, <1>1 DEF TypeOK, TaskRecords
<1>3. MapOf(cache)'
  BY <1>0 DEF MapOf, tree
<1>4. MountInv'
  BY <1>1 DEF MountInv, RestartBootsInstaller
<1>5. CleanMountInv'
  BY <1>0, <1>1, CleanStep DEF Mounting
<1> QED
  BY <1>2, <1>3, <1>4, <1>5 DEF IInv

LEMMA PowerActionSafe == ASSUME IInv, NEW a \in Actions, PowerAction(a) PROVE IInv'
<1>0. /\ TypeOK /\ MapOf(cache) /\ MountInv /\ CleanMountInv
      /\ task \in TaskRecords /\ bmc \in BmcStates /\ server' = server
      /\ op' \in Actions \cup {NoAction}
  BY Typed DEF IInv, PowerAction
<1>1. PICK cap \in Maps : UsesMap(cap) /\ bmc' \in Reset(TypeFor(a, cap), bmc)
  BY DEF PowerAction
<1>2. MapOf(cache)'
  BY <1>0, <1>1, MapKept
<1>3. bmc' \in BmcStates /\ bmc'.slot = bmc.slot /\ bmc'.disk = bmc.disk
  BY <1>0, <1>1, ResetTo
<1> DEFINE moved == task.moved \/ bmc' # bmc
           calm == task.calm /\ bmc' = bmc
<1>4. /\ task' \in TaskRecords /\ task'.pc = task.pc /\ task'.in = task.in
      /\ task'.legacy = task.legacy /\ task'.clean = task.clean
      /\ task'.ejected = task.ejected
      /\ task.pc \in Running => task'.moved = moved /\ task'.calm = calm
  <2>1. CASE task.pc \in Running
    <3>1. task' = [task EXCEPT !.moved = moved, !.calm = calm]
      BY <2>1 DEF PowerAction
    <3>2. moved \in BOOLEAN /\ calm \in BOOLEAN
      BY <1>0 DEF TaskRecords
    <3> HIDE DEF moved, calm
    <3> QED
      BY <1>0, <3>1, <3>2 DEF TaskRecords
  <2>2. CASE task.pc \notin Running
    BY <1>0, <2>2 DEF PowerAction
  <2> QED
    BY <2>1, <2>2
<1>5. TypeOK'
  BY <1>0, <1>3, <1>4 DEF TypeOK, BmcStates, MediaTypes, TaskRecords
<1>6. MountInv'
  <2>1. {"confirm", "boot", "cycle", "wait"} \subseteq Running
    BY DEF Running, TaskPhases
  <2>2. RestartBootsInstaller'
    BY <1>0, <1>4, <2>1 DEF MountInv, RestartBootsInstaller
  <2>3. task.pc = "cycle" /\ ~task'.moved => bmc'.boot = "once"
    BY <1>0, <1>4, <2>1 DEF MountInv
  <2> QED
    BY <1>0, <1>3, <1>4, <2>2, <2>3 DEF MountInv
<1>7. CleanMountInv'
  <2>1. task.clean /\ ~task.legacy /\ task.pc \in Mounting => cache'.inserted \subseteq {Usual}
    BY <1>1, CleanMap DEF UsesMap
  <2> QED
    BY <1>0, <1>3, <1>4, <2>1 DEF CleanMountInv
<1> QED
  BY <1>2, <1>5, <1>6, <1>7 DEF IInv

LEMMA InitSafe == Init => IInv
<1> SUFFICES ASSUME Init PROVE IInv
  OBVIOUS
<1>1. TypeOK
  BY DEF Init, TypeOK, NoTask, TaskPhases, Mountable, Media
<1>2. MapOf(cache)
  BY DEF Init, MapOf, NoMap
<1>3. MountInv
  BY DEF Init, NoTask, MountInv, RestartBootsInstaller
<1>4. CleanMountInv
  BY DEF Init, NoTask, CleanMountInv
<1> QED
  BY <1>1, <1>2, <1>3, <1>4 DEF IInv

LEMMA NextSafe == IInv /\ [Next]_vars => IInv'
<1> SUFFICES ASSUME IInv, [Next]_vars PROVE IInv'
  OBVIOUS
<1>1. CASE CacheExpires \/ VerifyState
  <2>1. /\ UNCHANGED <<server, bmc, task>> /\ op' \in Actions \cup {NoAction}
        /\ cache' = NoMap \/ \E cap \in Maps : UsesMap(cap)
    BY <1>1 DEF CacheExpires, VerifyState, IInv, TypeOK
  <2> QED
    BY <2>1, WalkSafe
<1>2. CASE UNCHANGED vars
  <2>1. /\ TypeOK /\ MapOf(cache) /\ MountInv /\ CleanMountInv
        /\ UNCHANGED <<server, cache, bmc, task, op>>
    BY <1>2 DEF IInv, vars
  <2>2. TypeOK'
    BY <2>1 DEF TypeOK
  <2>3. MapOf(cache)'
    BY <2>1 DEF MapOf, tree
  <2>4. MountInv' /\ CleanMountInv'
    BY <2>1 DEF MountInv, RestartBootsInstaller, CleanMountInv
  <2> QED
    BY <2>2, <2>3, <2>4 DEF IInv
<1> QED
  BY <1>1, <1>2, BmcMovesSafe, StartInstallSafe, InstallFailsSafe, EjectIsoSafe,
     BeginMountSafe, PreEjectSafe, InsertSafe, ConfirmSafe, SetBootOnceSafe,
     PowerCycleSafe, HostAnswersSafe, PowerActionSafe
  DEF Next

LEMMA Safety == Spec => []IInv
BY InitSafe, NextSafe, PTL DEF Spec

-----------------------------------------------------------------------------
(* The theorems.                                                           *)

\* Types; whatever a map is missing, only an optical slot or the fixed one is mounted
\* to or emptied.
THEOREM TypeCorrect == Spec => []TypeOK
BY Safety, PTL DEF IInv

\* Whatever the maps are missing or have outlived, the restart of an install brings up
\* its installer, for any BMC, any slots and any interleaving with the power buttons.
THEOREM InstallerBoots == Spec => []RestartBootsInstaller
<1>1. IInv => RestartBootsInstaller
  BY DEF IInv, MountInv
<1> QED
  BY <1>1, Safety, PTL

\* The eject after an install empties the slot the mount filled, also when it goes by a
\* map from before the mount or from before the medium was attached, if both maps list
\* every optical slot.
THEOREM EjectWorks == Spec => []EjectFindsIso
<1>1. IInv => EjectFindsIso
  BY DEF IInv, CleanMountInv, EjectFindsIso
<1> QED
  BY <1>1, Safety, PTL

\* A reset type is chosen against the intent only if the BMC offers no better one.
LEMMA TypeForIntent ==
  ASSUME NEW cap, MapOf(cap)
  PROVE  /\ \/ TypeFor("on", cap) \in {"On", "ForceOn"}
            \/ OffersOnlyButton({"On", "ForceOn"}, "PowerCycle")
         /\ \/ TypeFor("off", cap) \in {"GracefulShutdown", "ForceOff"}
            \/ OffersOnlyButton({"GracefulShutdown", "ForceOff"}, "PushPowerButton")
         /\ \/ TypeFor("force_off", cap) = "ForceOff"
            \/ OffersOnlyButton({"ForceOff"}, "PushPowerButton")
<1>0. /\ Priority["on"] = <<"On", "ForceOn", "PowerCycle">>
      /\ Priority["off"] = <<"GracefulShutdown", "ForceOff", "PushPowerButton">>
      /\ Priority["force_off"] = <<"ForceOff", "PushPowerButton">>
  BY DEF Priority, Actions
<1>1. cap.resets = {} \/ cap.resets = tree.resets
  BY DEF MapOf
<1>2. ASSUME NEW x, NEW y, NEW z
      PROVE  LET type == ChooseResetType(cap.resets, <<x, y, z>>, x)
             IN  type \in {x, y} \/ OffersOnlyButton({x, y}, z)
  <2> DEFINE type == ChooseResetType(cap.resets, <<x, y, z>>, x)
  <2>1. DOMAIN <<x, y, z>> = {1, 2, 3}
    OBVIOUS
  <2>2. /\ <<x, y, z>>[1] = x /\ <<x, y, z>>[2] = y /\ <<x, y, z>>[3] = z
    OBVIOUS
  <2>3. \/ type = x \/ type = y
        \/ type = z /\ z \in cap.resets /\ x \notin cap.resets /\ y \notin cap.resets
    BY <2>1, <2>2, ChooseTypeFirst
  <2> QED
    BY <1>1, <2>3 DEF OffersOnlyButton
<1>3. ASSUME NEW x, NEW y
      PROVE  LET type == ChooseResetType(cap.resets, <<x, y>>, x)
             IN  type = x \/ OffersOnlyButton({x}, y)
  <2> DEFINE type == ChooseResetType(cap.resets, <<x, y>>, x)
  <2>1. DOMAIN <<x, y>> = {1, 2} /\ <<x, y>>[1] = x /\ <<x, y>>[2] = y
    OBVIOUS
  <2>2. \/ type = x
        \/ type = y /\ y \in cap.resets /\ x \notin cap.resets
    BY <2>1, ChooseTypeFirst
  <2> QED
    BY <1>1, <2>2 DEF OffersOnlyButton
<1>4. /\ TypeFor("on", cap) = ChooseResetType(cap.resets, <<"On", "ForceOn", "PowerCycle">>, "On")
      /\ TypeFor("off", cap) =
           ChooseResetType(cap.resets, <<"GracefulShutdown", "ForceOff", "PushPowerButton">>,
                           "GracefulShutdown")
      /\ TypeFor("force_off", cap) =
           ChooseResetType(cap.resets, <<"ForceOff", "PushPowerButton">>, "ForceOff")
  BY <1>0 DEF TypeFor
<1> QED
  BY <1>2, <1>3, <1>4

\* No walk that lost a part of the map, and no map that has outlived its BMC's state,
\* turns "on" into a restart or "off" into a start.
THEOREM IntentIsKept == Spec => IntentKept
<1> DEFINE B == op = NoAction =>
        /\ op' = "on" /\ ~OffersOnlyButton({"On", "ForceOn"}, "PowerCycle")
              => bmc.host = "off" \/ bmc' = bmc
        /\ op' = "off" /\ ~OffersOnlyButton({"GracefulShutdown", "ForceOff"}, "PushPowerButton")
              => bmc'.host \in {bmc.host, "off"}
        /\ op' = "force_off" /\ ~OffersOnlyButton({"ForceOff"}, "PushPowerButton")
              => bmc'.host \in {bmc.host, "off"}
<1>1. ASSUME IInv, Next, op = NoAction, op' # NoAction
      PROVE  PowerAction(op') /\ op' \in Actions
  <2>1. op' = op \/ \E a \in Actions : PowerAction(a) /\ op' \in {NoAction, a}
    BY <1>1 DEF Next, CacheExpires, BmcMoves, StartInstall, InstallFails, EjectIso, BeginMount,
                PreEject, Insert, Confirm, SetBootOnce, PowerCycle, HostAnswers, PowerAction,
                VerifyState, Aside
  <2> QED
    BY <1>1, <2>1
<1>2. ASSUME IInv, Next PROVE B
  <2> SUFFICES ASSUME op = NoAction, op' \in {"on", "off", "force_off"} PROVE B
    OBVIOUS
  <2>1. PowerAction(op')
    BY <1>1, <1>2 DEF NoAction
  <2>2. PICK cap \in Maps : bmc' \in Reset(TypeFor(op', cap), bmc)
    BY <2>1 DEF PowerAction
  <2>3. MapOf(cap) /\ bmc \in BmcStates
    BY <1>2, MapRead, Typed DEF IInv
  <2>4. CASE op' = "on"
    BY <2>2, <2>3, <2>4, TypeForIntent, ResetTo
  <2>5. CASE op' = "off"
    BY <2>2, <2>3, <2>5, TypeForIntent, ResetTo
  <2>6. CASE op' = "force_off"
    BY <2>2, <2>3, <2>6, TypeForIntent, ResetTo
  <2> QED
    BY <2>4, <2>5, <2>6
<1>3. IInv /\ [Next]_vars => [B]_vars
  BY <1>2
<1>4. [][B]_vars => IntentKept
  BY DEF IntentKept
<1> QED
  BY <1>3, <1>4, Safety, PTL DEF Spec

=============================================================================
