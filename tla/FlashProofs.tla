----------------------------- MODULE FlashProofs -----------------------------
(***************************************************************************)
(* Proofs about FlashFlow, for any BMC of the four recipes, any image, any *)
(* names and any walk: types, that no rollback bank is ever written, that  *)
(* the host is restarted only when it is safe, that what was hashed is     *)
(* what is pushed, and that a success the BMC vouched for is one.          *)
(***************************************************************************)
EXTENDS FlashFlow, WellFoundedInduction, TLAPS

-----------------------------------------------------------------------------
(* The choice of a bank.                                                   *)

\* Every set of numbers has a least one.
LEMMA LeastExists ==
  ASSUME NEW S, S \subseteq Nat, S # {}
  PROVE  \E k \in S : \A m \in S : k <= m
<1> DEFINE R == {p \in Nat \X Nat : p[1] < p[2]}
<1>1. IsWellFoundedOn(R, Nat)
  BY NatLessThanWellFounded DEF OpToRel
<1>2. PICK k \in S : \A m \in S : ~(<<m, k>> \in R)
  BY <1>1, WFMin
<1>3. ASSUME NEW m \in S, m < k
      PROVE  <<m, k>> \in R
  BY <1>3
<1>4. \A m \in S : ~(m < k)
  BY <1>2, <1>3
<1> QED
  BY <1>4

\* The first of a set by an order is one of the set.
LEMMA FirstByIn ==
  ASSUME NEW order \in [Leaves -> Nat], NEW S, S \subseteq Leaves, S # {}
  PROVE  FirstBy(order, S) \in S
<1> DEFINE N == {order[l] : l \in S}
<1>1. N \subseteq Nat /\ N # {}
  OBVIOUS
<1>2. PICK k \in N : \A m \in N : k <= m
  BY <1>1, LeastExists
<1>3. PICK l \in S : order[l] = k
  OBVIOUS
<1>4. \A m \in S : order[l] <= order[m]
  BY <1>2, <1>3
<1> QED
  BY <1>3, <1>4 DEF FirstBy

\* A preferred name of a set is one of the set.
LEMMA PreferredIn ==
  ASSUME NEW order \in [Leaves -> Nat], NEW S, S \subseteq Leaves, S # {},
         NEW C, DOMAIN C \subseteq Nat
  PROVE  Preferred(C, order, S) \in S
<1> DEFINE named == {i \in DOMAIN C : C[i] \in S}
<1>1. CASE named = {}
  BY <1>1, FirstByIn DEF Preferred
<1>2. CASE named # {}
  <2>1. named \subseteq Nat
    OBVIOUS
  <2>2. \E i \in named : \A j \in named : i <= j
    BY <1>2, <2>1, LeastExists
  <2>3. (CHOOSE i \in named : \A j \in named : i <= j) \in named
    BY <2>2
  <2> QED
    BY <1>2, <2>3 DEF Preferred
<1> QED
  BY <1>1, <1>2

LEMMA CandidateLists ==
  DOMAIN BiosCandidates \subseteq Nat /\ DOMAIN BmcCandidates \subseteq Nat
BY DEF BiosCandidates, BmcCandidates

Clean(S) == \A l \in S : l \in Leaves /\ IsActiveBank(l)

\* What a walk picks is no rollback bank.
LEMMA PickActiveClean ==
  ASSUME NEW class, NEW C \in {BiosCandidates, BmcCandidates}, NEW members \in SUBSET Leaves
  PROVE  PickActive(class, C, members) # NoLeaf => Clean({PickActive(class, C, members)})
<1> DEFINE active == ActiveOf(class, members)
<1>1. active \subseteq Leaves /\ Clean(active)
  BY DEF ActiveOf, Clean
<1>2. active # {} => Preferred(C, Lex, active) \in active
  BY <1>1, PreferredIn, CandidateLists, LeavesAssumption
<1> QED
  BY <1>1, <1>2 DEF PickActive, Clean

\* Nor is what is picked without a map.
LEMMA PickInlineClean ==
  ASSUME NEW class, NEW C \in {BiosCandidates, BmcCandidates}, NEW members \in SUBSET Leaves
  PROVE  PickInline(class, C, members) # NoLeaf => Clean({PickInline(class, C, members)})
<1> DEFINE exact == {C[i] : i \in DOMAIN C}
           tokens == IF class = "bios" THEN BiosTokens ELSE BmcTokens
           fit == {l \in members : l \in exact \/ (Tokens[l] \cap tokens # {} /\ IsActiveBank(l))}
<1>1. \A l \in members : l \in exact => IsActiveBank(l)
  BY CandidatesAssumption
<1>2. fit \subseteq Leaves /\ Clean(fit)
  BY <1>1 DEF Clean
<1>3. fit # {} => Preferred(C, Place, fit) \in fit
  BY <1>2, PreferredIn, CandidateLists, LeavesAssumption
<1>4. PickInline(class, C, members) = IF fit = {} THEN NoLeaf ELSE Preferred(C, Place, fit)
  BY DEF PickInline
<1> HIDE DEF fit
<1> QED
  BY <1>2, <1>3, <1>4 DEF Clean

\* Nor is a group of GPU components.
LEMMA HgxGroupClean ==
  ASSUME NEW hgx, Clean(hgx), hgx # {}, NEW named, NEW bundle
  PROVE  Clean(SelectHgxTargetGroup(hgx, named, bundle))
<1>1. hgx \subseteq Leaves
  BY DEF Clean
<1>2. FirstBy(Place, hgx) \in hgx
  BY <1>1, FirstByIn, LeavesAssumption
<1> QED
  BY <1>2 DEF SelectHgxTargetGroup, Clean

\* A walk, whatever it lost.
LEMMA WalkClean ==
  ASSUME NEW t \in Trees, NEW lost
  PROVE  LET cap == Walk(t, lost)
         IN  /\ cap.push \in {"multipart", "http", "none"}
             /\ cap.bios # NoLeaf => Clean({cap.bios})
             /\ cap.bmc # NoLeaf => Clean({cap.bmc})
             /\ Clean(cap.hgx)
<1> DEFINE us == "update" \notin lost
           members == IF us THEN WalkFirmwareInventory(t, lost) ELSE {}
<1>0. t.members \subseteq Leaves /\ t.push \in {"multipart", "http", "none"}
  BY DEF Trees
<1>1. members \in SUBSET Leaves
  BY <1>0 DEF WalkFirmwareInventory, Listed
<1>2. /\ PickActive("bios", BiosCandidates, members) # NoLeaf
            => Clean({PickActive("bios", BiosCandidates, members)})
      /\ PickActive("bmc", BmcCandidates, members) # NoLeaf
            => Clean({PickActive("bmc", BmcCandidates, members)})
  BY <1>1, PickActiveClean
<1>3. Clean(HgxMembers(members))
  BY <1>1 DEF HgxMembers, Clean
<1>4. CASE "root" \in lost
  BY <1>4 DEF Walk, NoMap, Clean
<1>5. CASE "root" \notin lost
  <2>1. /\ Walk(t, lost).push = IF us THEN t.push ELSE "none"
        /\ Walk(t, lost).bios = PickActive("bios", BiosCandidates, members)
        /\ Walk(t, lost).bmc = PickActive("bmc", BmcCandidates, members)
        /\ Walk(t, lost).hgx = HgxMembers(members)
    BY <1>5 DEF Walk
  <2> QED
    BY <1>0, <1>2, <1>3, <2>1
<1> QED
  BY <1>4, <1>5

-----------------------------------------------------------------------------
(* The invariant.                                                          *)

Untouched(b) ==
  \A l \in Leaves : ~IsActiveBank(l) => b.version[l] = Factory /\ b.staged[l] = None

\* The upload under way is of an image, aims at no rollback bank and has a task.
BmcOK(b) ==
  /\ b \in BmcTypes
  /\ b.work # 0 => b.load.image \in Images /\ b.task[b.work] = "Running"
  /\ Clean(b.load.dest)
  /\ Untouched(b)

FlashOK ==
  /\ flash \in FlashTypes
  /\ flash.pc # "idle" => flash.image \in Images /\ n \in Flashes
  /\ flash.pc = "baseline" => flash.aim # {}
  /\ Clean(flash.aim)

Unsure == {"moved", "state", "silent", "unobserved"}
Uploading == {"hash", "preflight", "map", "transport", "target", "baseline", "hpeService",
              "forceOff", "push", "hpePush"}
Restarting == {"forceOff", "apply", "hpeApply", "powerOn"}

\* Until it pushes, a flash has no upload under way; when it comes to restart the
\* host for an upload it saw completed, that upload is over.
HostOK ==
  /\ bmc.work <= n
  /\ flash.pc \in Uploading => bmc.work # n /\ ~flash.early
  /\ flash.pc \in {"poll", "hpePoll", "rescue", "install"} => ~flash.early
  /\ flash.pc \in Restarting \cup {"install", "biosPoll"} => Target = "BIOS"
  /\ flash.pc \in Restarting \cup {"biosPoll"} => flash.now
  /\ flash.pc \in {"install", "apply", "hpeApply", "powerOn"} /\ bmc.work = n
        => flash.proof \in Unsure
  /\ RestartsOnlyWhenSafe

\* While nothing happens to the repository, the file is the one that was hashed.
FileOK ==
  /\ flash.pc \notin Ended \cup {"hash"} /\ ~flash.touched => blob[flash.image] = "intact"
  /\ PushesWhatWasHashed

IInv ==
  /\ machine \in Machines /\ n \in 0..MaxFlashes
  /\ known \in [{"BMC", "BIOS"} -> Images \cup {None}]
  /\ StoreTypeOK
  /\ BmcOK(bmc) /\ FlashOK /\ HostOK /\ FileOK

USE DEF Flashes, Versions

\* The invariant implies the properties.
LEMMA IInvImplies ==
  IInv => TypeOK /\ RollbackBanksUntouched /\ RestartsOnlyWhenSafe /\ PushesWhatWasHashed
BY DEF IInv, TypeOK, BmcOK, FlashOK, HostOK, FileOK, RollbackBanksUntouched, Untouched,
       IsActiveBank

LEMMA InitIInv == Init => IInv
<1> SUFFICES ASSUME Init PROVE IInv
  OBVIOUS
<1>1. BmcOK(bmc)
  BY FlashAssumption DEF BmcOK, BmcTypes, Clean, Untouched, Init, NoLoad
<1>2. flash \in FlashTypes
  <2>1. NoFlash \in FlashTypes
    <3>1. 0 \in 0..MaxErrors - 1
      BY FlashAssumption
    <3> QED
      BY <3>1 DEF NoFlash, FlashTypes, Phases, Ended
  <2> QED
    BY <2>1 DEF Init
<1>3. flash.pc = "idle" /\ flash.aim = {} /\ ~flash.early /\ ~flash.cycled
      /\ n = 0 /\ bmc.work = 0
  BY DEF Init, NoFlash
<1>4. FlashOK
  BY <1>2, <1>3 DEF FlashOK, Clean
<1>5. HostOK /\ FileOK
  BY <1>3 DEF HostOK, FileOK, RestartsOnlyWhenSafe, PushesWhatWasHashed, Uploading,
              Restarting, Ended
<1>6. StoreTypeOK
  BY DEF Init, StoreInit, StoreTypeOK, Imports, NoImport
<1> QED
  BY <1>1, <1>3, <1>4, <1>5, <1>6, FlashAssumption DEF IInv, Init

-----------------------------------------------------------------------------
(* The BMC.                                                                *)

\* Where an upload goes: where it was aimed, or to what the image is for.
LEMMA IntoClean ==
  ASSUME machine \in Machines, NEW load, Clean(load.dest)
  PROVE  Clean(Into(load))
<1>1. tree.members \subseteq Leaves
  BY FlashAssumption DEF tree, Trees
<1> QED
  BY <1>1 DEF Into, ActiveOf, Clean

LEMMA FinishedOK ==
  ASSUME machine \in Machines, NEW b, BmcOK(b), b.work # 0
  PROVE  BmcOK(Finished(b)) /\ Finished(b).work = 0
<1> DEFINE into == Into(b.load)
           ver == Write(b.version, b.load)
           stg == Write(b.staged, b.load)
<1>1. Clean(into) /\ into \subseteq Leaves
  BY IntoClean DEF BmcOK, Clean
<1>2. /\ ver \in [Leaves -> Versions] /\ stg \in [Leaves -> Images \cup {None}]
      /\ \A l \in Leaves : ~IsActiveBank(l) => ver[l] = b.version[l] /\ stg[l] = b.staged[l]
  BY <1>1 DEF Write, BmcOK, BmcTypes, Clean
<1>3. Ilo("Complete") \in {"Idle", "Complete"}
  BY DEF Ilo
<1> DEFINE done == [b EXCEPT !.task[b.work] = "Completed", !.landed[b.work] = into,
                             !.work = 0, !.load = NoLoad, !.ilo = Ilo("Complete")]
<1>4. done \in BmcTypes /\ done.work = 0 /\ done.load = NoLoad
      /\ done.version = b.version /\ done.staged = b.staged
  BY <1>1, <1>3 DEF BmcOK, BmcTypes, NoLoad
<1>5. Finished(b) \in {[done EXCEPT !.version = ver], [done EXCEPT !.staged = stg]}
  BY <1>4 DEF Finished, BmcTypes
<1> HIDE DEF done, into, ver, stg
<1>6. [done EXCEPT !.version = ver] \in BmcTypes /\ [done EXCEPT !.staged = stg] \in BmcTypes
  BY <1>2, <1>4 DEF BmcTypes
<1>7. Untouched([done EXCEPT !.version = ver]) /\ Untouched([done EXCEPT !.staged = stg])
  BY <1>2, <1>4 DEF BmcTypes, BmcOK, Untouched
<1>8. Clean(NoLoad.dest)
  BY DEF NoLoad, Clean
<1>9. ASSUME NEW c \in {[done EXCEPT !.version = ver], [done EXCEPT !.staged = stg]}
      PROVE  c.work = 0 /\ c.load = NoLoad
  BY <1>4, <1>9 DEF BmcTypes
<1> QED
  BY <1>5, <1>6, <1>7, <1>8, <1>9 DEF BmcOK

LEMMA StartsOK ==
  ASSUME NEW b, BmcOK(b), NEW c \in Starts(b)
  PROVE  BmcOK(c) /\ c.work = b.work /\ c.load = b.load
<1> DEFINE none == [l \in Leaves |-> None]
           waiting == {l \in Leaves : b.staged[l] # None}
           ver == [l \in Leaves |-> IF l \in waiting THEN b.staged[l] ELSE b.version[l]]
           up == [b EXCEPT !.host = "On", !.staged = none]
<1>1. none \in [Leaves -> Images \cup {None}] /\ ver \in [Leaves -> Versions]
  BY DEF BmcOK, BmcTypes
<1>2. \A l \in Leaves : ~IsActiveBank(l) => ver[l] = Factory /\ none[l] = None
  BY DEF BmcOK, Untouched
<1>3. up \in BmcTypes /\ up.version = b.version /\ up.staged = none
      /\ up.work = b.work /\ up.load = b.load /\ up.task = b.task
  BY <1>1 DEF BmcOK, BmcTypes
<1>4. c \in {up, [up EXCEPT !.biosTask = "Exception"],
             [up EXCEPT !.biosTask = "Completed", !.version = ver]}
  BY <1>3 DEF Starts, BmcTypes
<1> HIDE DEF none, ver, up, waiting
<1>5. c \in BmcTypes /\ c.work = b.work /\ c.load = b.load /\ c.task = b.task
      /\ c.staged = none /\ c.version \in {b.version, ver}
  <2>1. CASE c = up
    BY <1>3, <2>1
  <2>2. CASE c = [up EXCEPT !.biosTask = "Exception"]
    BY <1>3, <2>2 DEF BmcTypes
  <2>3. CASE c = [up EXCEPT !.biosTask = "Completed", !.version = ver]
    BY <1>1, <1>3, <2>3 DEF BmcTypes
  <2> QED
    BY <1>4, <2>1, <2>2, <2>3
<1> QED
  BY <1>2, <1>5 DEF BmcOK, Untouched

LEMMA UploadedOK ==
  ASSUME IInv, flash.pc # "idle", NEW dest, Clean(dest)
  PROVE  LET b == Uploaded(dest)
         IN  /\ BmcOK(b) /\ b.work = n
             /\ b.load.intact = (flash.push = "http" \/ blob[flash.image] = "intact")
<1>1. dest \subseteq Leaves
  BY DEF Clean
<1>2. flash.image \in Images /\ n \in Flashes /\ n # 0
  BY DEF IInv, FlashOK
<1> DEFINE load == [image |-> flash.image, dest |-> dest,
                    intact |-> flash.push = "http" \/ blob[flash.image] = "intact"]
           task == [k \in Flashes |-> IF k = n THEN "Running"
                                      ELSE IF k = bmc.work THEN "Exception" ELSE bmc.task[k]]
<1>3. bmc \in BmcTypes /\ Untouched(bmc)
  BY DEF IInv, BmcOK
<1>4. Uploaded(dest) = [bmc EXCEPT !.task = task, !.work = n, !.load = load]
  BY <1>3 DEF Uploaded, BmcTypes
<1>5. load.image \in Images /\ load.dest = dest
      /\ load \in [image : Images \cup {None}, dest : SUBSET Leaves, intact : BOOLEAN]
      /\ load.intact = (flash.push = "http" \/ blob[flash.image] = "intact")
  BY <1>1, <1>2
<1>6. task \in [Flashes -> {"none", "Running", "Completed", "Exception"}] /\ task[n] = "Running"
  BY <1>2, <1>3 DEF BmcTypes
<1> HIDE DEF load, task
<1>7. /\ Uploaded(dest) \in BmcTypes /\ Uploaded(dest).work = n
      /\ Uploaded(dest).load = load /\ Uploaded(dest).task = task
      /\ Uploaded(dest).version = bmc.version /\ Uploaded(dest).staged = bmc.staged
  <2>1. /\ Uploaded(dest).work = n
        /\ Uploaded(dest).load = load /\ Uploaded(dest).task = task
        /\ Uploaded(dest).version = bmc.version /\ Uploaded(dest).staged = bmc.staged
    BY <1>3, <1>4 DEF BmcTypes
  <2>2. [bmc EXCEPT !.task = task, !.work = n, !.load = load] \in BmcTypes
    BY <1>2, <1>3, <1>5, <1>6 DEF BmcTypes
  <2> QED
    BY <1>4, <2>1, <2>2
<1> QED
  BY <1>2, <1>3, <1>5, <1>6, <1>7 DEF BmcOK, Untouched

-----------------------------------------------------------------------------
(* The steps of a flash that leave the BMC alone.                          *)

LEMMA QuietKeeps ==
  ASSUME IInv, Quiet, FlashOK', HostOK', FileOK'
  PROVE  IInv'
BY DEF IInv, Quiet, BmcOK, StoreTypeOK, storeVars, Untouched

\* A flash that ends, whatever its last request did to the BMC.
LEMMA EndedOK ==
  ASSUME IInv, flash.pc # "idle", NEW why, Fails(why), n' = n,
         why \in {"refused", "drop", "lost", "ceiling", "unwatched", "quit"},
         bmc' = bmc \/ (bmc'.work = n /\ (bmc'.load.intact \/ flash.touched))
  PROVE  FlashOK' /\ HostOK' /\ FileOK'
<1>1. flash' = [flash EXCEPT !.pc = "failed", !.why = why, !.errs = 0, !.base = None,
                             !.push = "none"]
  BY DEF Fails, Ends
<1>2. flash \in FlashTypes /\ 0 \in 0..MaxErrors - 1
  BY FlashAssumption DEF IInv, FlashOK
<1>3. /\ flash' \in FlashTypes /\ flash'.pc = "failed" /\ flash'.aim = flash.aim
      /\ flash'.image = flash.image /\ flash'.now = flash.now /\ flash'.early = flash.early
      /\ flash'.cycled = flash.cycled /\ flash'.proof = flash.proof
      /\ flash'.touched = flash.touched
  BY <1>1, <1>2 DEF FlashTypes, Phases, Ended
<1>4. FlashOK'
  BY <1>3 DEF IInv, FlashOK, Clean
<1>5. HostOK'
  BY <1>3 DEF IInv, HostOK, RestartsOnlyWhenSafe, Target, Uploading, Restarting, FlashOK
<1>6. FileOK'
  BY <1>3 DEF IInv, FileOK, PushesWhatWasHashed, Ended
<1> QED
  BY <1>4, <1>5, <1>6

\* The steps before the push.
Preparing ==
  \/ VerifyFirmware \/ Preflight \/ ResolveInline \/ ReadBaseline \/ HpeService
  \/ \E lost \in SUBSET Lossy : MapBmc(lost)

\* A step of the preparation that goes on.
LEMMA GoesOn ==
  ASSUME IInv, Quiet, flash.pc \in Uploading, blob[flash.image] = "intact" \/ flash.pc # "hash",
         NEW pc \in Uploading \ {"hash"}, pc = "forceOff" => Target = "BIOS" /\ flash.now,
         NEW push \in {"multipart", "http", "none"}, NEW aim, Clean(aim),
         pc = "baseline" => aim # {},
         NEW base \in Versions \cup {None},
         flash' = [flash EXCEPT !.pc = pc, !.push = push, !.aim = aim, !.base = base]
  PROVE  IInv'
<1>1. flash \in FlashTypes /\ aim \subseteq Leaves
  BY DEF IInv, FlashOK, Clean
<1>2. /\ flash' \in FlashTypes /\ flash'.pc = pc /\ flash'.aim = aim
      /\ flash'.image = flash.image /\ flash'.now = flash.now /\ flash'.early = flash.early
      /\ flash'.cycled = flash.cycled /\ flash'.proof = flash.proof
      /\ flash'.touched = flash.touched
  <2>1. pc \in Phases
    BY DEF Phases, Ended, Uploading, Refusing, Tolerant
  <2>2. flash' = [flash EXCEPT !.pc = pc, !.push = push, !.aim = aim, !.base = base]
    OBVIOUS
  <2> QED
    BY <1>1, <2>1, <2>2 DEF FlashTypes
<1>3. FlashOK'
  BY <1>2 DEF IInv, FlashOK, Clean, Quiet, Uploading
<1>4. HostOK'
  BY <1>2 DEF IInv, HostOK, RestartsOnlyWhenSafe, Target, Uploading, Restarting, FlashOK, Quiet
<1>5. FileOK'
  BY <1>2 DEF IInv, FileOK, PushesWhatWasHashed, Ended, Quiet, storeVars, Uploading
<1> QED
  BY <1>3, <1>4, <1>5, QuietKeeps

LEMMA FailingOK ==
  ASSUME IInv, Quiet, flash.pc # "idle", NEW why, Fails(why),
         why \in {"refused", "drop", "lost", "ceiling", "unwatched", "quit"}
  PROVE  IInv'
BY EndedOK, QuietKeeps DEF Quiet

\* The bank a flash is aimed at.
LEMMA AimedOK ==
  ASSUME IInv, Quiet, flash.pc \in {"map", "target"}, NEW push \in {"multipart", "http", "none"},
         NEW leaf, leaf # NoLeaf => Clean({leaf}), Aimed(push, leaf)
  PROVE  IInv'
<1>1. CASE leaf = NoLeaf
  BY <1>1, FailingOK DEF Aimed
<1>2. CASE leaf # NoLeaf
  <2>1. flash \in FlashTypes
    BY DEF IInv, FlashOK
  <2>2. flash' = [flash EXCEPT !.pc = "baseline", !.push = push, !.aim = {leaf},
                               !.base = flash.base]
    BY <1>2, <2>1 DEF Aimed, FlashTypes
  <2>3. flash.base \in Versions \cup {None}
    BY <2>1 DEF FlashTypes
  <2> QED
    BY <1>2, <2>2, <2>3, GoesOn DEF Uploading
<1> QED
  BY <1>1, <1>2

LEMMA PreparingOK ==
  ASSUME IInv, Preparing
  PROVE  IInv'
<1>0. flash \in FlashTypes /\ Clean(flash.aim) /\ machine \in Machines
      /\ (flash.pc # "idle" => flash.image \in Images)
  BY DEF IInv, FlashOK
<1>1. flash.push \in {"multipart", "http", "none"} /\ flash.base \in Versions \cup {None}
  BY <1>0 DEF FlashTypes
<1>2. tree \in Trees /\ tree.push \in {"multipart", "http", "none"}
      /\ tree.members \ LaterPage \in SUBSET Leaves
      /\ vendor \in {"generic", "dell", "hpe", "supermicro"}
  BY <1>0, FlashAssumption DEF tree, vendor, Trees
<1>3. flash.pc # "idle" => Target \in {"BMC", "BIOS", "HGX"}
  BY <1>0, FlashAssumption DEF Target
<1>4. ASSUME NEW pc, Goto(pc), Quiet, pc \in Uploading \ {"hash", "baseline"},
             flash.pc \in Uploading, blob[flash.image] = "intact" \/ flash.pc # "hash",
             pc = "forceOff" => Target = "BIOS" /\ flash.now
      PROVE  IInv'
  <2>1. flash' = [flash EXCEPT !.pc = pc, !.push = flash.push, !.aim = flash.aim,
                               !.base = flash.base]
    BY <1>0, <1>4 DEF Goto, FlashTypes
  <2> QED
    BY <1>0, <1>1, <1>4, <2>1, GoesOn
<1>5. CASE VerifyFirmware
  <2>1. Fails("refused") \/ (Goto("preflight") /\ blob[flash.image] = "intact")
    BY <1>5 DEF VerifyFirmware
  <2> QED
    BY <1>4, <1>5, <2>1, FailingOK DEF VerifyFirmware, Uploading
<1>6. CASE Preflight
  <2>0. flash.pc \in Uploading \ {"hash"} /\ Quiet
    BY <1>6 DEF Preflight, Uploading
  <2>1. Recipe \in Uploading \ {"hash", "baseline"}
        /\ (Recipe = "forceOff" => Target = "BIOS" /\ flash.now)
    BY DEF Recipe, Uploading
  <2>2. CASE vendor = "supermicro" /\ Target # "HGX"
    <3>1. Target \in {"BIOS", "BMC"}
      BY <1>3, <1>6, <2>2 DEF Preflight
    <3>2. Clean({Target})
      <4>1. "BIOS" = BiosCandidates[1] /\ 1 \in DOMAIN BiosCandidates
            /\ "BMC" = BmcCandidates[1] /\ 1 \in DOMAIN BmcCandidates
        BY DEF BiosCandidates, BmcCandidates
      <4>2. IsActiveBank("BIOS") /\ IsActiveBank("BMC")
        BY <4>1, FlashAssumption, CandidatesAssumption
      <4> QED
        BY <3>1, <4>2, FlashAssumption DEF Clean
    <3>3. flash' = [flash EXCEPT !.pc = Recipe, !.push = "multipart", !.aim = {Target},
                                 !.base = flash.base]
      BY <1>0, <1>6, <2>2 DEF Preflight, FlashTypes
    <3> QED
      BY <1>1, <2>0, <2>1, <3>2, <3>3, GoesOn
  <2>3. CASE ~(vendor = "supermicro" /\ Target # "HGX")
    <3>1. Goto(Recipe)
      BY <1>6, <2>3 DEF Preflight, Goto
    <3> QED
      BY <1>4, <1>6, <2>1, <3>1 DEF Preflight, Uploading
  <2> QED
    BY <2>2, <2>3
<1>7. CASE ResolveInline
  <2>1. CASE flash.pc = "transport" /\ flash' = [flash EXCEPT !.pc = "target", !.push = tree.push]
    <3>1. flash' = [flash EXCEPT !.pc = "target", !.push = tree.push, !.aim = flash.aim,
                                 !.base = flash.base]
      BY <1>0, <2>1 DEF FlashTypes
    <3> QED
      <4>1. flash.pc \in Uploading \ {"hash"} /\ "target" \in Uploading /\ Quiet
        BY <1>7, <2>1 DEF ResolveInline, Uploading
      <4> QED
        BY <1>0, <1>1, <1>2, <3>1, <4>1, GoesOn
  <2>2. CASE flash.pc = "target"
             /\ Aimed(flash.push, PickInline(Class, Candidates, tree.members \ LaterPage))
    <3>1. Candidates \in {BiosCandidates, BmcCandidates}
      BY DEF Candidates
    <3> QED
      BY <1>1, <1>2, <1>7, <2>2, <3>1, PickInlineClean, AimedOK DEF ResolveInline
  <2> QED
    BY <1>7, <2>1, <2>2 DEF ResolveInline
<1>8. CASE ReadBaseline
  <2>1. flash.aim # {} /\ flash.aim \subseteq Leaves
    BY <1>8 DEF ReadBaseline, IInv, FlashOK, Clean
  <2>2. (CHOOSE l \in flash.aim : TRUE) \in Leaves
    BY <2>1
  <2>3. Version \in Versions
    BY <2>2 DEF Version, IInv, BmcOK, BmcTypes
  <2>4. PICK v \in {Version, None} : flash' = [flash EXCEPT !.pc = "push", !.base = v]
    BY <1>8 DEF ReadBaseline
  <2>5. flash' = [flash EXCEPT !.pc = "push", !.push = flash.push, !.aim = flash.aim, !.base = v]
    BY <1>0, <2>4 DEF FlashTypes
  <2> QED
    BY <1>0, <1>1, <1>8, <2>3, <2>5, GoesOn DEF ReadBaseline, Uploading
<1>9. CASE HpeService
  <2>1. CASE flash' = [flash EXCEPT !.pc = "hpePush", !.push = "multipart"]
    <3>1. flash' = [flash EXCEPT !.pc = "hpePush", !.push = "multipart", !.aim = flash.aim,
                                 !.base = flash.base]
      BY <1>0, <2>1 DEF FlashTypes
    <3> QED
      BY <1>0, <1>1, <1>9, <3>1, GoesOn DEF HpeService, Uploading
  <2>2. CASE Goto("map") \/ Fails("refused")
    BY <1>4, <1>9, <2>2, FailingOK DEF HpeService, Uploading
  <2> QED
    BY <1>9, <2>1, <2>2 DEF HpeService
<1>10. ASSUME NEW lost, MapBmc(lost)
       PROVE  IInv'
  <2> DEFINE cap == Walk(tree, lost)
  <2>1. /\ cap.push \in {"multipart", "http", "none"}
        /\ cap.bios # NoLeaf => Clean({cap.bios})
        /\ cap.bmc # NoLeaf => Clean({cap.bmc})
        /\ Clean(cap.hgx)
    BY <1>2, WalkClean
  <2> HIDE DEF cap
  <2>2. CASE Target = "HGX"
    <3>1. MapHgx(cap)
      BY <1>10, <2>2 DEF MapBmc, cap
    <3>2. CASE cap.hgx = {} \/ cap.push # "multipart"
      BY <1>10, <3>1, <3>2, FailingOK DEF MapHgx, MapBmc
    <3>3. CASE cap.hgx # {} /\ cap.push = "multipart"
      <4> DEFINE aim == SelectHgxTargetGroup(cap.hgx, NamedAfter[flash.image],
                                             flash.image \in Bundles)
      <4>1. Clean(aim)
        BY <2>1, <3>3, HgxGroupClean
      <4>2. flash' = [flash EXCEPT !.pc = "push", !.push = "multipart", !.aim = aim]
        BY <3>1, <3>3 DEF MapHgx
      <4> HIDE DEF aim
      <4>3. flash' = [flash EXCEPT !.pc = "push", !.push = "multipart", !.aim = aim,
                                   !.base = flash.base]
        BY <1>0, <4>2 DEF FlashTypes
      <4> QED
        BY <1>1, <1>10, <4>1, <4>3, GoesOn DEF MapBmc, Uploading
    <3> QED
      BY <3>2, <3>3
  <2>3. CASE Target # "HGX" /\ ~cap.walked
    BY <1>4, <1>10, <2>3 DEF MapBmc, cap, Uploading
  <2>4. CASE Target # "HGX" /\ cap.walked
    <3>1. Aimed(cap.push, IF Target = "BIOS" THEN cap.bios ELSE cap.bmc)
      BY <1>10, <2>4 DEF MapBmc, cap
    <3> QED
      BY <1>10, <2>1, <3>1, AimedOK DEF MapBmc
  <2> QED
    BY <2>2, <2>3, <2>4
<1> QED
  BY <1>5, <1>6, <1>7, <1>8, <1>9, <1>10 DEF Preparing

-----------------------------------------------------------------------------
(* The push.                                                               *)

Pushing ==
  \/ \E answer \in {"task", "sync", "silent"} : Push(answer)
  \/ PushLost \/ HpePush

\* What AfterPush may lead to.
LEMMA AfterFlashOK ==
  \/ /\ AfterFlash \in {"result", "readback", "install", "apply"}
     /\ AfterFlash \in {"install", "apply"} => Target = "BIOS"
     /\ AfterFlash = "apply" => flash.now
  \/ Target \notin {"BMC", "BIOS", "HGX"}
BY DEF AfterFlash

LEMMA PushingOK ==
  ASSUME IInv, Pushing
  PROVE  IInv'
<1>0. /\ flash \in FlashTypes /\ Clean(flash.aim) /\ machine \in Machines
      /\ flash.pc \in {"push", "hpePush"} /\ ~flash.early /\ n \in Flashes
      /\ flash.image \in Images
  BY DEF Pushing, Push, PushLost, HpePush, IInv, FlashOK, HostOK, Uploading
<1>1. Target \in {"BMC", "BIOS", "HGX"}
  BY <1>0, FlashAssumption DEF Target
<1>2. Clean({})
  BY DEF Clean
<1>3. Clean(Dest)
  BY <1>0, <1>2 DEF Dest
<1>4. flash.touched \/ blob[flash.image] = "intact"
  BY <1>0 DEF IInv, FileOK, Ended
<1>5. \A dest \in {Dest, {}} :
         /\ BmcOK(Uploaded(dest)) /\ Uploaded(dest).work = n
         /\ Uploaded(dest).load.intact \/ flash.touched
  <2> SUFFICES ASSUME NEW dest \in {Dest, {}}
               PROVE  /\ BmcOK(Uploaded(dest)) /\ Uploaded(dest).work = n
                      /\ Uploaded(dest).load.intact \/ flash.touched
    OBVIOUS
  <2>1. Clean(dest)
    BY <1>2, <1>3
  <2> QED
    BY <1>0, <1>4, <2>1, UploadedOK
\* The shared part: the BMC has the upload, or is already done with it.
<1>6. ASSUME BmcOK(bmc'), UNCHANGED <<machine, n, known, storeVars>>,
             FlashOK', HostOK', FileOK'
      PROVE  IInv'
  BY <1>6 DEF IInv, StoreTypeOK, storeVars
<1>7. ASSUME NEW pc \in {"poll", "hpePoll", "result", "readback", "install", "apply"},
             NEW proof \in {flash.proof, "sync", "silent"},
             flash' = [flash EXCEPT !.pc = pc, !.proof = proof],
             pc \in {"install", "apply"} => Target = "BIOS",
             pc = "apply" => flash.now,
             BmcOK(bmc'),
             bmc'.work = 0 \/ (bmc'.work = n /\ (bmc'.load.intact \/ flash.touched)),
             pc \in {"poll", "hpePoll"} \/ proof = "silent" \/ bmc'.work = 0,
             UNCHANGED <<machine, n, known, storeVars>>
      PROVE  IInv'
  <2>1. pc \in Phases /\ proof \in {"", "task", "sync", "silent", "moved", "state", "unobserved"}
    BY <1>0, <1>7 DEF Phases, Ended, Refusing, Tolerant, Polling, FlashTypes
  <2>2. /\ flash' \in FlashTypes /\ flash'.pc = pc /\ flash'.aim = flash.aim
        /\ flash'.image = flash.image /\ flash'.now = flash.now /\ flash'.early = flash.early
        /\ flash'.cycled = flash.cycled /\ flash'.proof = proof
        /\ flash'.touched = flash.touched
    BY <1>0, <1>7, <2>1 DEF FlashTypes
  <2>3. FlashOK'
    BY <1>0, <1>7, <2>2 DEF FlashOK, Clean
  <2>4. n \in Nat /\ n # 0 /\ Target' = Target
    BY <1>0, <2>2, FlashAssumption DEF Target
  <2>5. HostOK'
    BY <1>0, <1>7, <2>2, <2>4
    DEF IInv, HostOK, RestartsOnlyWhenSafe, Uploading, Restarting, Unsure
  <2>6. FileOK'
    BY <1>0, <1>4, <1>7, <2>2, <2>4 DEF FileOK, PushesWhatWasHashed, Ended, storeVars
  <2> QED
    BY <1>6, <1>7, <2>3, <2>5, <2>6
<1>8. CASE \E answer \in {"task", "sync", "silent"} : Push(answer)
  <2>1. PICK answer \in {"task", "sync", "silent"} : Push(answer)
    BY <1>8
  <2> DEFINE b == Uploaded(Dest)
  <2>2. /\ BmcOK(b) /\ b.work = n /\ (b.load.intact \/ flash.touched) /\ n # 0
    BY <1>0, <1>5, FlashAssumption
  <2>3. BmcOK(Finished(b)) /\ Finished(b).work = 0
    BY <1>0, <2>2, FinishedOK
  <2>4. bmc' = IF answer = "sync" THEN Finished(b) ELSE b
    BY <2>1 DEF Push
  <2> HIDE DEF b
  <2>5. BmcOK(bmc') /\ (bmc'.work = 0 \/ (bmc'.work = n /\ (bmc'.load.intact \/ flash.touched)))
    BY <2>2, <2>3, <2>4
  <2>6. UNCHANGED <<machine, n, known, storeVars>>
    BY <2>1 DEF Push
  <2>7. CASE answer = "task" /\ Watched
    <3>1. flash' = [flash EXCEPT !.pc = "poll", !.proof = flash.proof]
      BY <1>0, <2>1, <2>7 DEF Push, Goto, AfterPush, FlashTypes
    <3> QED
      BY <1>7, <2>5, <2>6, <3>1
  <2>10. CASE answer = "task" /\ ~Watched
    <3>1. Fails("unwatched")
      BY <2>1, <2>10 DEF Push
    <3>2. bmc'.work = n /\ (bmc'.load.intact \/ flash.touched)
      BY <2>2, <2>4, <2>10
    <3> QED
      BY <1>0, <1>6, <2>5, <2>6, <3>1, <3>2, EndedOK
  <2>8. CASE answer # "task" /\ Accepted(answer)
    <3>1. flash' = [flash EXCEPT !.pc = AfterFlash, !.proof = answer]
      BY <2>1, <2>8 DEF Push, AfterPush
    <3>2. answer = "silent" \/ bmc'.work = 0
      BY <2>3, <2>4, <2>8
    <3> QED
      BY <1>1, <1>7, <2>1, <2>5, <2>6, <2>8, <3>1, <3>2, AfterFlashOK
  <2>9. CASE answer # "task" /\ ~Accepted(answer)
    <3>1. flash' = Ends("failed", "refused")
      BY <2>1, <2>9 DEF Push, Fails
    <3>2. CASE answer = "sync"
      <4>1. bmc'.work = 0
        BY <2>3, <2>4, <3>2
      <4>2. /\ flash' = [flash EXCEPT !.pc = "failed", !.why = "refused", !.errs = 0,
                                      !.base = None, !.push = "none"]
        BY <3>1 DEF Ends
      <4>3. /\ flash' \in FlashTypes /\ flash'.pc = "failed" /\ flash'.aim = flash.aim
            /\ flash'.image = flash.image /\ flash'.early = flash.early
            /\ flash'.now = flash.now /\ flash'.cycled = flash.cycled
            /\ flash'.proof = flash.proof
        <5>1. 0 \in 0..MaxErrors - 1 /\ "failed" \in Phases
          BY FlashAssumption DEF Phases, Ended
        <5> QED
          BY <1>0, <4>2, <5>1 DEF FlashTypes
      <4>4. FlashOK'
        BY <1>0, <2>6, <4>3 DEF FlashOK, Clean
      <4>5. HostOK' /\ FileOK'
        BY <1>0, <2>6, <4>1, <4>3, FlashAssumption
        DEF IInv, HostOK, RestartsOnlyWhenSafe, Uploading, Restarting, Target, FileOK,
            PushesWhatWasHashed, Ended
      <4> QED
        BY <1>6, <2>5, <2>6, <4>4, <4>5
    <3>3. CASE answer = "silent"
      <4>1. bmc'.work = n /\ (bmc'.load.intact \/ flash.touched)
        BY <2>2, <2>4, <3>3
      <4> QED
        BY <1>0, <1>6, <2>5, <2>6, <3>1, <4>1, EndedOK DEF Fails
    <3> QED
      BY <2>9, <3>2, <3>3
  <2> QED
    BY <2>7, <2>8, <2>9, <2>10
<1>9. CASE PushLost
  <2>1. PICK dest \in {Dest, {}} : bmc' = Uploaded(dest)
    BY <1>9 DEF PushLost
  <2>2. PICK why \in {"drop", "refused"} : Fails(why)
    BY <1>9 DEF PushLost
  <2>3. BmcOK(bmc') /\ bmc'.work = n /\ (bmc'.load.intact \/ flash.touched)
    BY <1>5, <2>1
  <2> QED
    BY <1>0, <1>6, <1>9, <2>2, <2>3, EndedOK DEF PushLost
<1>10. CASE HpePush
  <2>1. BmcOK(bmc') /\ bmc'.work = n /\ (bmc'.load.intact \/ flash.touched)
    BY <1>5, <1>10 DEF HpePush
  <2>2. flash' = [flash EXCEPT !.pc = "hpePoll", !.proof = flash.proof]
    BY <1>0, <1>10 DEF HpePush, Goto, FlashTypes
  <2> QED
    BY <1>7, <1>10, <2>1, <2>2 DEF HpePush
<1> QED
  BY <1>8, <1>9, <1>10 DEF Pushing

-----------------------------------------------------------------------------
(* The polls, and the steps after the flash that leave the BMC alone.      *)

Following ==
  \/ PollTask \/ PollIlo \/ PollError \/ Ceiling \/ Rescue
  \/ Install \/ PollBiosTask \/ ReadBack \/ Refused \/ ConnectionDrops

\* A poll that goes on, or a success that is followed up.
LEMMA FollowUp ==
  ASSUME IInv, Quiet,
         flash.pc \in Polling \cup {"rescue", "install", "biosPoll", "readback"},
         NEW pc \in Polling \cup {"rescue", "install", "biosPoll", "readback", "apply",
                                  "hpeApply", "powerOn", "result"},
         NEW proof \in {flash.proof, "task", "state", "moved", "unobserved"},
         NEW errs \in 0..MaxErrors - 1,
         flash' = [flash EXCEPT !.pc = pc, !.proof = proof, !.errs = errs],
         pc \in Restarting \cup {"install", "biosPoll"} => Target = "BIOS",
         pc \in Restarting \cup {"biosPoll"} => flash.now,
         pc \in Polling \cup {"rescue", "install"} \cup Restarting
            => flash.pc \in Polling \cup {"rescue", "install"},
         pc \in {"install", "apply", "hpeApply", "powerOn"} /\ bmc.work = n
            => proof \in Unsure,
         flash.early => proof \in Unsure
  PROVE  IInv'
<1>0. flash \in FlashTypes /\ flash.image \in Images /\ n \in Flashes /\ Clean(flash.aim)
  BY DEF IInv, FlashOK, Polling
<1>1. pc \in Phases /\ proof \in {"", "task", "sync", "silent", "moved", "state", "unobserved"}
  BY <1>0 DEF Phases, Ended, Refusing, Tolerant, Polling, FlashTypes
<1>2. /\ flash' \in FlashTypes /\ flash'.pc = pc /\ flash'.aim = flash.aim
      /\ flash'.image = flash.image /\ flash'.now = flash.now /\ flash'.early = flash.early
      /\ flash'.cycled = flash.cycled /\ flash'.proof = proof
      /\ flash'.touched = flash.touched
  BY <1>0, <1>1 DEF FlashTypes
<1>3. FlashOK'
  BY <1>0, <1>2 DEF FlashOK, Clean, Quiet, Polling
<1>4. Target' = Target
  BY <1>2 DEF Target
<1>5. HostOK'
  BY <1>0, <1>2, <1>4
  DEF IInv, HostOK, RestartsOnlyWhenSafe, Uploading, Restarting, Unsure, Polling, Quiet
<1>6. FileOK'
  BY <1>2 DEF IInv, FileOK, PushesWhatWasHashed, Ended, Quiet, storeVars, Polling
<1> QED
  BY <1>3, <1>5, <1>6, QuietKeeps

LEMMA FollowingOK ==
  ASSUME IInv, Following
  PROVE  IInv'
<1> USE DEF Polling, Restarting
<1>0. Quiet
  BY DEF Following, PollTask, PollIlo, PollError, Ceiling, Rescue, Install, PollBiosTask,
         ReadBack, Refused, ConnectionDrops
<1>1. flash \in FlashTypes /\ flash.errs \in 0..MaxErrors - 1 /\ 0 \in 0..MaxErrors - 1
  <2>1. flash \in FlashTypes
    BY DEF IInv, FlashOK
  <2>2. flash.errs \in 0..MaxErrors - 1
    BY <2>1 DEF FlashTypes
  <2>3. 0 \in 0..MaxErrors - 1
    BY FlashAssumption
  <2> QED
    BY <2>1, <2>2, <2>3
<1>2. flash.pc # "idle" => flash.image \in Images
  BY DEF IInv, FlashOK
<1>3. flash.pc # "idle" => Target \in {"BMC", "BIOS", "HGX"}
  BY <1>2, FlashAssumption DEF Target
<1>4. /\ flash.pc \in {"poll", "hpePoll", "rescue", "install"} => ~flash.early
      /\ flash.pc = "install" => Target = "BIOS" /\ (bmc.work = n => flash.proof \in Unsure)
      /\ flash.pc = "biosPoll" => Target = "BIOS" /\ flash.now
      /\ flash.early => flash.proof \in Unsure
  BY DEF IInv, HostOK, RestartsOnlyWhenSafe, Unsure
<1>5. flash = [flash EXCEPT !.pc = flash.pc, !.proof = flash.proof, !.errs = flash.errs]
  BY <1>1 DEF FlashTypes
<1>6. ASSUME NEW pc \in {"rescue", "powerOn", "result", "readback"}, Goto(pc),
             flash.pc \in Polling \cup {"install", "biosPoll", "readback"},
             pc = "rescue" => flash.pc = "poll",
             pc = "powerOn" => flash.pc = "install" /\ flash.now
      PROVE  IInv'
  <2>1. flash' = [flash EXCEPT !.pc = pc, !.proof = flash.proof, !.errs = flash.errs]
    BY <1>1, <1>6 DEF Goto, FlashTypes
  <2>2. /\ flash.pc \in Polling \cup {"rescue", "install", "biosPoll", "readback"}
        /\ pc \in Polling \cup {"rescue", "install", "biosPoll", "readback", "apply",
                              "hpeApply", "powerOn", "result"}
        /\ pc \in Restarting \cup {"install", "biosPoll"} => Target = "BIOS"
        /\ pc \in Restarting \cup {"biosPoll"} => flash.now
    BY <1>4, <1>6
  <2>3. /\ pc \in Polling \cup {"rescue", "install"} \cup Restarting
              => flash.pc \in Polling \cup {"rescue", "install"}
        /\ pc \in {"install", "apply", "hpeApply", "powerOn"} /\ bmc.work = n
              => flash.proof \in Unsure
    BY <1>4, <1>6
  <2> HIDE DEF Polling, Restarting
  <2> QED
    BY <1>0, <1>1, <1>4, <2>1, <2>2, <2>3, FollowUp
<1>7. CASE PollTask
  <2>1. CASE flash' = [flash EXCEPT !.errs = 0]
    <3>1. flash' = [flash EXCEPT !.pc = "poll", !.proof = flash.proof, !.errs = 0]
      BY <1>1, <1>7, <2>1 DEF PollTask, FlashTypes
    <3> QED
      BY <1>0, <1>1, <1>4, <1>7, <3>1, FollowUp DEF PollTask
  <2>2. CASE /\ bmc.task[n] = "Completed"
             /\ flash' = [flash EXCEPT !.pc = AfterFlash, !.proof = "task"]
    <3>1. flash' = [flash EXCEPT !.pc = AfterFlash, !.proof = "task", !.errs = flash.errs]
      BY <1>1, <2>2 DEF FlashTypes
    <3>2. bmc.work # n
      BY <1>7, <2>2, FlashAssumption DEF PollTask, IInv, BmcOK, FlashOK
    <3> QED
      BY <1>0, <1>1, <1>3, <1>4, <1>7, <3>1, <3>2, AfterFlashOK, FollowUp DEF PollTask
  <2>3. CASE Fails("refused")
    BY <1>0, <1>7, <2>3, FailingOK DEF PollTask
  <2>4. CASE Goto("rescue")
    BY <1>6, <1>7, <2>4 DEF PollTask
  <2> QED
    BY <1>7, <2>1, <2>2, <2>3, <2>4 DEF PollTask
<1>8. CASE PollIlo
  <2>1. CASE bmc.ilo = "Complete"
    <3> DEFINE pc == IF Target = "BIOS" /\ flash.now THEN "hpeApply" ELSE "result"
    <3>1. flash' = [flash EXCEPT !.proof = "state", !.pc = pc]
      BY <1>8, <2>1 DEF PollIlo
    <3> HIDE DEF pc
    <3>2. flash' = [flash EXCEPT !.pc = pc, !.proof = "state", !.errs = flash.errs]
      BY <1>1, <3>1 DEF FlashTypes
    <3>3. pc \in {"hpeApply", "result"} /\ (pc = "hpeApply" => Target = "BIOS" /\ flash.now)
      BY DEF pc
    <3> QED
      BY <1>0, <1>1, <1>4, <1>8, <3>2, <3>3, FollowUp DEF PollIlo, Unsure
  <2>2. CASE bmc.ilo = "Error"
    <3>1. Fails("refused")
      BY <1>8, <2>2 DEF PollIlo
    <3> QED
      BY <1>0, <1>8, <3>1, FailingOK DEF PollIlo
  <2>3. CASE bmc.ilo \notin {"Complete", "Error"}
    <3>1. flash' = [flash EXCEPT !.pc = "hpePoll", !.proof = flash.proof, !.errs = 0]
      <4>1. flash.pc = "hpePoll" /\ flash' = [flash EXCEPT !.errs = 0]
        BY <1>8, <2>3 DEF PollIlo
      <4> QED
        BY <1>1, <4>1 DEF FlashTypes
    <3> QED
      BY <1>0, <1>1, <1>4, <1>8, <3>1, FollowUp DEF PollIlo
  <2> QED
    BY <2>1, <2>2, <2>3
<1>9. CASE PollError
  <2>1. CASE flash.errs + 1 < MaxErrors
    <3>1. flash' = [flash EXCEPT !.errs = flash.errs + 1]
      BY <1>9, <2>1 DEF PollError
    <3>2. flash' = [flash EXCEPT !.pc = flash.pc, !.proof = flash.proof,
                                 !.errs = flash.errs + 1]
      BY <1>1, <3>1 DEF FlashTypes
    <3>3. flash.errs + 1 \in 0..MaxErrors - 1
      BY <1>1, <2>1, FlashAssumption
    <3> QED
      BY <1>0, <1>4, <1>9, <3>2, <3>3, FollowUp DEF PollError
  <2>2. CASE ~(flash.errs + 1 < MaxErrors)
    <3>1. (flash.pc = "poll" /\ Goto("rescue")) \/ (flash.pc # "idle" /\ Fails("lost"))
      BY <1>9, <2>2 DEF PollError
    <3> QED
      BY <1>0, <1>6, <3>1, FailingOK
  <2> QED
    BY <2>1, <2>2
<1>10. CASE Ceiling
  <2>1. CASE flash.pc = "biosPoll"
    <3>1. flash' = [flash EXCEPT !.pc = "readback", !.proof = "unobserved", !.errs = flash.errs]
      BY <1>1, <1>10, <2>1 DEF Ceiling, FlashTypes
    <3> QED
      BY <1>0, <1>1, <1>4, <2>1, <3>1, FollowUp DEF Unsure
  <2>2. CASE flash.pc # "biosPoll"
    BY <1>0, <1>10, <2>2, FailingOK DEF Ceiling
  <2> QED
    BY <2>1, <2>2
<1>11. CASE Rescue
  <2>1. CASE Version # flash.base
    <3>1. flash' = [flash EXCEPT !.pc = AfterFlash, !.proof = "moved", !.errs = flash.errs]
      BY <1>1, <1>11, <2>1 DEF Rescue, FlashTypes
    <3> QED
      BY <1>0, <1>1, <1>3, <1>4, <1>11, <3>1, AfterFlashOK, FollowUp DEF Rescue, Unsure
  <2>2. CASE Version = flash.base
    BY <1>0, <1>11, <2>2, FailingOK DEF Rescue
  <2> QED
    BY <2>1, <2>2
<1>12. CASE Install
  <2>1. \E pc \in {"powerOn", "result"} : Goto(pc) /\ (pc = "powerOn" => flash.now)
    BY <1>12 DEF Install
  <2> QED
    BY <1>6, <1>12, <2>1 DEF Install
<1>13. CASE PollBiosTask
  <2>1. CASE Goto("readback")
    BY <1>6, <1>13, <2>1 DEF PollBiosTask
  <2>2. CASE Fails("refused")
    BY <1>0, <1>13, <2>2, FailingOK DEF PollBiosTask
  <2> QED
    BY <1>13, <2>1, <2>2 DEF PollBiosTask
<1>14. CASE ReadBack
  BY <1>6, <1>14 DEF ReadBack
<1>15. CASE Refused \/ ConnectionDrops
  BY <1>0, <1>15, FailingOK DEF Refused, ConnectionDrops, Refusing, Tolerant
<1> QED
  BY <1>7, <1>8, <1>9, <1>10, <1>11, <1>12, <1>13, <1>14, <1>15 DEF Following

-----------------------------------------------------------------------------
(* The host, the BMC's own steps, and what goes on around a flash.         *)

LEMMA HostCallOK ==
  ASSUME IInv, NEW acts \in BOOLEAN, NEW dropped \in BOOLEAN, HostCall(acts, dropped)
  PROVE  IInv'
<1>0. /\ flash \in FlashTypes /\ Clean(flash.aim) /\ flash.image \in Images /\ n \in Flashes
      /\ BmcOK(bmc) /\ 0 \in 0..MaxErrors - 1
      /\ flash.pc \in Restarting /\ Target = "BIOS" /\ flash.now
  BY FlashAssumption DEF HostCall, Restarting, IInv, FlashOK, HostOK
<1>1. /\ flash.pc = "forceOff" => bmc.work # n
      /\ bmc.work <= n
      /\ flash.pc # "forceOff" /\ bmc.work = n => flash.proof \in Unsure
      /\ flash.early => flash.proof \in Unsure
      /\ flash.pc = "forceOff" => ~flash.early
  BY <1>0 DEF Restarting, IInv, HostOK, RestartsOnlyWhenSafe, Unsure, Uploading
<1>2. BmcOK(bmc') /\ bmc'.work = bmc.work /\ bmc'.load = bmc.load
  <2>1. CASE bmc' = bmc
    BY <1>0, <2>1
  <2>2. CASE bmc' = [bmc EXCEPT !.host = "Off"]
    BY <1>0, <2>2 DEF BmcOK, BmcTypes, Untouched
  <2>3. CASE bmc' \in Starts(bmc)
    BY <1>0, <2>3, StartsOK
  <2> QED
    BY <2>1, <2>2, <2>3 DEF HostCall
<1> DEFINE f == IF dropped THEN Ends("failed", "drop") ELSE [flash EXCEPT !.pc = AfterHost]
           cycled == f.cycled \/ acts
           early == f.early \/ (acts /\ bmc.work = n)
<1>3. /\ f \in FlashTypes /\ f.pc \in {"readback", "result", "push", "biosPoll", "failed"}
      /\ f.pc = "push" => flash.pc = "forceOff"
      /\ f.aim = flash.aim /\ f.image = flash.image /\ f.now = flash.now
      /\ f.early = flash.early /\ f.cycled = flash.cycled /\ f.proof = flash.proof
      /\ f.touched = flash.touched
  <2>1. /\ AfterHost \in {"readback", "result", "push", "biosPoll"}
        /\ AfterHost = "push" => flash.pc = "forceOff"
    BY <1>0 DEF AfterHost, Restarting
  <2>2. AfterHost \in Phases /\ "failed" \in Phases
    BY <2>1 DEF Phases, Ended, Tolerant, Refusing
  <2>3. CASE dropped
    BY <1>0, <2>2, <2>3 DEF Ends, FlashTypes
  <2>4. CASE ~dropped
    BY <1>0, <2>1, <2>2, <2>4 DEF FlashTypes
  <2> QED
    BY <2>3, <2>4
<1>4. /\ flash' \in FlashTypes /\ flash'.pc = f.pc /\ flash'.aim = flash.aim
      /\ flash'.image = flash.image /\ flash'.now = flash.now
      /\ flash'.early = (flash.early \/ (acts /\ bmc.work = n))
      /\ flash'.cycled = (flash.cycled \/ acts) /\ flash'.proof = flash.proof
      /\ flash'.touched = flash.touched
  <2>1. flash' = [f EXCEPT !.cycled = f.cycled \/ acts,
                           !.early = f.early \/ (acts /\ bmc.work = n)]
    BY DEF HostCall
  <2>2. cycled \in BOOLEAN /\ early \in BOOLEAN
    OBVIOUS
  <2> HIDE DEF f
  <2>3. flash' = [f EXCEPT !.cycled = cycled, !.early = early]
    BY <2>1
  <2>4. /\ flash'.early = (flash.early \/ (acts /\ bmc.work = n))
        /\ flash'.cycled = (flash.cycled \/ acts)
    BY <1>3, <2>1 DEF FlashTypes
  <2> HIDE DEF cycled, early
  <2>5. /\ flash' \in FlashTypes /\ flash'.pc = f.pc /\ flash'.aim = f.aim
        /\ flash'.image = f.image /\ flash'.now = f.now
        /\ flash'.proof = f.proof /\ flash'.touched = f.touched
    BY <1>3, <2>2, <2>3 DEF FlashTypes
  <2> QED
    BY <1>3, <2>4, <2>5
<1> HIDE DEF f, cycled, early
<1>5. UNCHANGED <<machine, n, known, storeVars>>
  BY DEF HostCall
<1>6. FlashOK'
  BY <1>0, <1>3, <1>4, <1>5 DEF FlashOK, Clean
<1>7. Target' = Target
  BY <1>4 DEF Target
<1>8. HostOK'
  BY <1>0, <1>1, <1>2, <1>3, <1>4, <1>5, <1>7
  DEF HostOK, RestartsOnlyWhenSafe, Uploading, Restarting, Unsure
<1>9. FileOK'
  BY <1>0, <1>2, <1>4, <1>5 DEF IInv, FileOK, PushesWhatWasHashed, Ended, storeVars, Restarting
<1> QED
  BY <1>2, <1>5, <1>6, <1>8, <1>9 DEF IInv, StoreTypeOK, storeVars

\* An upload that ends is no longer the flash's.
LEMMA BmcStepOK ==
  ASSUME IInv, BmcFinishes \/ BmcFails \/ IloPicksUp \/ HostRestarts
  PROVE  IInv'
<1>0. BmcOK(bmc) /\ machine \in Machines /\ bmc.work <= n /\ n \in Nat
      /\ UNCHANGED <<machine, n, flash, known, storeVars>>
  BY FlashAssumption DEF IInv, HostOK, BmcFinishes, BmcFails, IloPicksUp, HostRestarts
<1>1. BmcOK(bmc') /\ (bmc'.work = 0 \/ (bmc'.work = bmc.work /\ bmc'.load = bmc.load))
  <2>1. CASE BmcFinishes
    BY <1>0, <2>1, FinishedOK DEF BmcFinishes
  <2>2. CASE BmcFails
    <3>1. Ilo("Error") \in {"Idle", "Error"} /\ NoLoad.dest = {}
      BY DEF Ilo, NoLoad
    <3> DEFINE task == [bmc.task EXCEPT ![bmc.work] = "Exception"]
    <3>2. bmc' = [bmc EXCEPT !.task = task, !.work = 0, !.load = NoLoad, !.ilo = Ilo("Error")]
      BY <1>0, <2>2 DEF BmcFails, BmcOK, BmcTypes
    <3>3. task \in [Flashes -> {"none", "Running", "Completed", "Exception"}]
      BY <1>0 DEF BmcOK, BmcTypes
    <3> HIDE DEF task
    <3>4. bmc' \in BmcTypes /\ bmc'.work = 0 /\ bmc'.load = NoLoad
          /\ bmc'.version = bmc.version /\ bmc'.staged = bmc.staged
      BY <1>0, <3>1, <3>2, <3>3 DEF BmcOK, BmcTypes, NoLoad
    <3> QED
      BY <1>0, <3>1, <3>4 DEF BmcOK, Clean, Untouched
  <2>3. CASE IloPicksUp
    BY <1>0, <2>3 DEF IloPicksUp, BmcOK, BmcTypes, Untouched
  <2>4. CASE HostRestarts
    BY <1>0, <2>4, StartsOK DEF HostRestarts
  <2> QED
    BY <2>1, <2>2, <2>3, <2>4
<1>2. FlashOK'
  BY <1>0 DEF IInv, FlashOK, Clean
<1>3. bmc'.work <= n
  BY <1>0, <1>1
<1>4. HostOK'
  <2>1. flash.pc # "idle" => n # 0
    BY FlashAssumption DEF IInv, FlashOK
  <2>2. flash.pc \in Uploading \cup {"install", "apply", "hpeApply", "powerOn"} => n # 0
    BY <2>1 DEF Uploading
  <2> QED
    BY <1>0, <1>1, <1>3, <2>2 DEF IInv, HostOK, RestartsOnlyWhenSafe, Target
<1>5. FileOK'
  BY <1>0, <1>1 DEF IInv, FileOK, PushesWhatWasHashed, storeVars
<1> QED
  BY <1>0, <1>1, <1>2, <1>4, <1>5 DEF IInv, StoreTypeOK, storeVars

LEMMA StoreStepType ==
  ASSUME StoreTypeOK, StoreNext \/ StoreCrash
  PROVE  StoreTypeOK'
<1> USE DEF StoreTypeOK, Imports, NoImport
<1>1. ASSUME NEW w \in Importers, NEW i \in Images, ImportFile(w, i)
      PROVE  StoreTypeOK'
  BY <1>1 DEF ImportFile
<1>2. ASSUME NEW w \in Importers, CopyEnds(w)
      PROVE  StoreTypeOK'
  <2>1. importer[w] \in [pc : {"copying", "copied"}, image : Images]
    BY <1>2 DEF CopyEnds
  <2>2. [importer[w] EXCEPT !.pc = "copied"] \in [pc : {"copying", "copied"}, image : Images]
    BY <2>1
  <2> QED
    BY <1>2, <2>1, <2>2 DEF CopyEnds
<1>3. ASSUME NEW w \in Importers, AddRow(w)
      PROVE  StoreTypeOK'
  BY <1>3 DEF AddRow
<1>4. ASSUME NEW i \in Images, DeleteRow(i) \/ Unlink(i)
      PROVE  StoreTypeOK'
  BY <1>4 DEF DeleteRow, Unlink
<1>5. CASE StoreCrash
  BY <1>5 DEF StoreCrash
<1> QED
  BY <1>1, <1>2, <1>3, <1>4, <1>5 DEF StoreNext

\* Start, result, the repository, the end of the application.
Around ==
  \/ \E i \in Images, now \in BOOLEAN : StartFlash(i, now)
  \/ StoreStep \/ Report \/ AppEnds

LEMMA AroundOK ==
  ASSUME IInv, Around
  PROVE  IInv'
<1>0. flash \in FlashTypes /\ BmcOK(bmc) /\ n \in 0..MaxFlashes /\ StoreTypeOK
  BY DEF IInv, FlashOK
<1>1. ASSUME NEW i \in Images, NEW now \in BOOLEAN, StartFlash(i, now)
      PROVE  IInv'
  <2>1. /\ flash' = [NoFlash EXCEPT !.pc = "hash", !.image = i, !.now = now]
        /\ n' = n + 1 /\ n < MaxFlashes /\ UNCHANGED <<machine, bmc, known, storeVars>>
    BY <1>1 DEF StartFlash
  <2>2. n' \in Flashes /\ n' \in 0..MaxFlashes /\ bmc.work <= n /\ bmc.work # n'
        /\ bmc.work <= n' /\ bmc.work \in Nat
    BY <1>0, <2>1, FlashAssumption DEF IInv, HostOK, BmcOK, BmcTypes
  <2>3. 0 \in 0..MaxErrors - 1
    BY FlashAssumption
  <2>4. flash' \in FlashTypes /\ flash'.pc = "hash" /\ flash'.image = i /\ flash'.aim = {}
        /\ ~flash'.early /\ ~flash'.cycled
    BY <2>1, <2>3 DEF NoFlash, FlashTypes, Phases
  <2>5. FlashOK'
    BY <2>2, <2>4 DEF FlashOK, Clean
  <2>6. HostOK'
    BY <2>1, <2>2, <2>4 DEF HostOK, RestartsOnlyWhenSafe, Restarting, Uploading
  <2>7. FileOK'
    BY <2>1, <2>2, <2>4 DEF FileOK, PushesWhatWasHashed
  <2> QED
    BY <1>0, <2>1, <2>2, <2>5, <2>6, <2>7 DEF IInv, BmcOK, StoreTypeOK, storeVars, Untouched
<1>2. CASE StoreStep
  <2>1. /\ flash' = [flash EXCEPT !.touched = @ \/ flash.pc \notin Ended \cup {"hash"}]
        /\ UNCHANGED <<machine, n, bmc, known>> /\ StoreNext
    BY <1>2 DEF StoreStep
  <2>2. /\ flash' \in FlashTypes /\ flash'.pc = flash.pc /\ flash'.aim = flash.aim
        /\ flash'.image = flash.image /\ flash'.now = flash.now /\ flash'.early = flash.early
        /\ flash'.cycled = flash.cycled /\ flash'.proof = flash.proof
        /\ flash'.touched = (flash.touched \/ flash.pc \notin Ended \cup {"hash"})
    BY <1>0, <2>1 DEF FlashTypes
  <2>3. StoreTypeOK'
    BY <1>0, <2>1, StoreStepType
  <2>4. FlashOK'
    BY <2>1, <2>2 DEF IInv, FlashOK, Clean
  <2>5. HostOK'
    BY <2>1, <2>2 DEF IInv, HostOK, RestartsOnlyWhenSafe, Target
  <2>6. FileOK'
    BY <2>1, <2>2 DEF IInv, FileOK, PushesWhatWasHashed
  <2> QED
    BY <2>1, <2>3, <2>4, <2>5, <2>6 DEF IInv, BmcOK, Untouched
<1>3. CASE Report
  <2>1. /\ flash.pc = "result" /\ UNCHANGED <<machine, n, bmc, storeVars>>
        /\ flash' = [flash EXCEPT !.pc = "ok", !.why = "", !.errs = 0, !.base = None,
                                 !.push = "none"]
        /\ known' = IF Target = "HGX" THEN known ELSE [known EXCEPT ![Target] = flash.image]
    BY <1>3 DEF Report, Ends
  <2>2. flash.image \in Images /\ Target \in {"BMC", "BIOS", "HGX"} /\ 0 \in 0..MaxErrors - 1
    BY <2>1, FlashAssumption DEF IInv, FlashOK, Target
  <2>3. known' \in [{"BMC", "BIOS"} -> Images \cup {None}]
    BY <2>1, <2>2 DEF IInv
  <2>4. /\ flash' \in FlashTypes /\ flash'.pc = "ok" /\ flash'.aim = flash.aim
        /\ flash'.image = flash.image /\ flash'.now = flash.now /\ flash'.early = flash.early
        /\ flash'.cycled = flash.cycled /\ flash'.proof = flash.proof
        /\ flash'.touched = flash.touched
    BY <1>0, <2>1, <2>2 DEF FlashTypes, Phases, Ended
  <2>5. FlashOK'
    BY <2>1, <2>4 DEF IInv, FlashOK, Clean
  <2>6. HostOK' /\ FileOK'
    BY <2>1, <2>4 DEF IInv, HostOK, RestartsOnlyWhenSafe, Target, Uploading, Restarting,
                      FileOK, PushesWhatWasHashed, Ended
  <2> QED
    BY <2>1, <2>3, <2>5, <2>6 DEF IInv, BmcOK, StoreTypeOK, storeVars, Untouched
<1>4. CASE AppEnds
  <2>1. /\ flash.pc # "idle" /\ Fails("quit") /\ StoreCrash
        /\ UNCHANGED <<machine, n, bmc, known>>
    BY <1>4 DEF AppEnds, Ended
  <2>2. StoreTypeOK'
    BY <1>0, <2>1, StoreStepType
  <2>3. FlashOK' /\ HostOK' /\ FileOK'
    BY <2>1, EndedOK
  <2> QED
    BY <2>1, <2>2, <2>3 DEF IInv, BmcOK, Untouched
<1> QED
  BY <1>1, <1>2, <1>3, <1>4 DEF Around

-----------------------------------------------------------------------------
LEMMA NextIInv == IInv /\ [Next]_vars => IInv'
<1> SUFFICES ASSUME IInv, [Next]_vars PROVE IInv'
  OBVIOUS
<1>1. CASE FlashStep
  <2>1. CASE Preparing
    BY <2>1, PreparingOK
  <2>2. CASE Pushing
    BY <2>2, PushingOK
  <2>3. CASE Following
    BY <2>3, FollowingOK
  <2>4. CASE \E acts, dropped \in BOOLEAN : HostCall(acts, dropped)
    BY <2>4, HostCallOK
  <2>5. CASE Report
    BY <2>5, AroundOK DEF Around
  <2> QED
    BY <1>1, <2>1, <2>2, <2>3, <2>4, <2>5 DEF FlashStep, Preparing, Pushing, Following
<1>2. CASE BmcFinishes \/ BmcFails \/ IloPicksUp \/ HostRestarts
  BY <1>2, BmcStepOK
<1>3. CASE Around
  BY <1>3, AroundOK
<1>4. CASE UNCHANGED vars
  <2>1. UNCHANGED <<machine, n, flash, bmc, known, storeVars>>
    BY <1>4 DEF vars
  <2>2. FlashOK' /\ HostOK' /\ FileOK'
    BY <2>1 DEF IInv, FlashOK, Clean, HostOK, FileOK, RestartsOnlyWhenSafe,
                PushesWhatWasHashed, Target, storeVars
  <2> QED
    BY <2>1, <2>2, QuietKeeps DEF Quiet
<1> QED
  BY <1>1, <1>2, <1>3, <1>4 DEF Next, Around

LEMMA InvariantHolds == Spec => []IInv
BY InitIInv, NextIInv, PTL DEF Spec

-----------------------------------------------------------------------------
(* What a success is worth.                                                *)

\* Into the banks a flash aimed at; a Dell BMC is not told where.
Fits(banks) == banks # {} /\ (flash.aim \subseteq banks \/ vendor = "dell")

\* Until a flash has its answer it has no proof of anything.  While it polls, the
\* upload under way is its own and goes where it aimed; once it is told that this is
\* done, no upload of its own is left that could end otherwise.
NoAnswer == Uploading \cup {"idle", "poll", "hpePoll", "rescue"}

DoneOK ==
  /\ flash.pc \in {"forceOff", "push"} => flash.aim # {}
  /\ flash.pc \in NoAnswer => flash.proof = ""
  /\ flash.pc = "poll" =>
        /\ bmc.work = n => Fits(Into(bmc.load))
        /\ bmc.task[n] = "Completed" => Fits(bmc.landed[n])
  /\ flash.proof \in {"task", "sync"} => bmc.work # n /\ Fits(bmc.landed[n])
  /\ flash.proof = "silent" => vendor = "supermicro"

\* A request without Targets has somewhere to go: a Dell BMC has an active bank of
\* its own for the host's BIOS and for itself, besides those of the GPUs.
OwnBanks ==
  \A m \in Machines, class \in {"bios", "bmc"} :
    m.vendor = "dell" => ActiveOf(class, {l \in m.tree.members : ~IsHgxMember(l)}) # {}

\* DoneOK reads nothing but these.
LEMMA DoneKept ==
  ASSUME DoneOK, UNCHANGED <<machine, n>>,
         flash'.aim = flash.aim, flash'.proof = flash.proof,
         flash'.pc \in {"forceOff", "push"} => flash.pc \in {"forceOff", "push"},
         flash'.pc \in NoAnswer => flash.pc \in NoAnswer,
         flash'.pc = "poll" => flash.pc = "poll",
         bmc'.work = bmc.work, bmc'.load = bmc.load, bmc'.task = bmc.task,
         bmc'.landed = bmc.landed
  PROVE  DoneOK'
<1>1. vendor' = vendor /\ Into(bmc.load)' = Into(bmc.load)
  BY DEF vendor, tree, Into
<1>2. \A banks : Fits(banks)' = Fits(banks)
  BY <1>1 DEF Fits
<1> QED
  BY <1>1, <1>2 DEF DoneOK

\* A flash that fails or ends keeps its aim and its proof.
LEMMA DoneEnds ==
  ASSUME IInv, DoneOK, UNCHANGED <<machine, n, bmc>>, NEW pc \in {"ok", "failed"}, NEW why,
         flash' = Ends(pc, why)
  PROVE  DoneOK'
<1>1. flash'.pc = pc /\ flash'.aim = flash.aim /\ flash'.proof = flash.proof
  BY DEF Ends, IInv, FlashOK, FlashTypes
<1> QED
  BY <1>1, DoneKept DEF NoAnswer, Uploading

\* What the BMC does to its tasks and to what landed.
LEMMA FinishedFields ==
  ASSUME machine \in Machines, NEW b, BmcOK(b), b.work # 0
  PROVE  /\ Finished(b).landed = [b.landed EXCEPT ![b.work] = Into(b.load)]
         /\ Finished(b).task = [b.task EXCEPT ![b.work] = "Completed"]
BY DEF Finished, BmcOK, BmcTypes

LEMMA StartsFields ==
  ASSUME NEW b, BmcOK(b), NEW c \in Starts(b)
  PROVE  c.work = b.work /\ c.load = b.load /\ c.task = b.task /\ c.landed = b.landed
BY DEF Starts, BmcOK, BmcTypes

\* An upload fits its flash.
LEMMA UploadFits ==
  ASSUME IInv, DoneOK, OwnBanks, flash.pc = "push"
  PROVE  Fits(Into(Uploaded(Dest).load))
<1>1. machine \in Machines /\ bmc \in BmcTypes /\ flash.image \in Images /\ flash.aim # {}
  BY DEF IInv, BmcOK, FlashOK, DoneOK
<1>2. Uploaded(Dest).load.image = flash.image /\ Uploaded(Dest).load.dest = Dest
  BY <1>1 DEF Uploaded, BmcTypes
<1>3. CASE vendor = "dell" /\ Target # "HGX"
  <2>1. Uploaded(Dest).load.dest = {}
    BY <1>2, <1>3 DEF Dest
  <2>2. Into(Uploaded(Dest).load) # {}
    BY <1>1, <1>3, <2>1 DEF Into, OwnBanks, vendor, tree
  <2> QED
    BY <1>3, <2>2 DEF Fits
<1>4. CASE ~(vendor = "dell" /\ Target # "HGX")
  BY <1>1, <1>2, <1>4 DEF Dest, Into, Fits
<1> QED
  BY <1>3, <1>4

\* Before the push nothing is proved; the recipes that push have an aim.
LEMMA PreparingDone ==
  ASSUME IInv, DoneOK, Preparing
  PROVE  DoneOK'
<1>0. /\ flash \in FlashTypes /\ flash.pc \in Uploading \cup {"idle"} /\ Quiet
      /\ flash.pc # "idle"
  <2>1. flash.pc \in {"hash", "preflight", "transport", "target", "baseline", "hpeService",
                      "map"} /\ Quiet
    BY DEF Preparing, VerifyFirmware, Preflight, ResolveInline, ReadBaseline, HpeService,
           MapBmc
  <2> QED
    BY <2>1 DEF Uploading, IInv, FlashOK
<1>1. flash.proof = ""
  BY <1>0 DEF DoneOK, NoAnswer
<1>2. ASSUME \E why : Fails(why)
      PROVE  DoneOK'
  BY <1>0, <1>2, DoneEnds DEF Fails, Quiet
\* A step that goes on.
<1>3. ASSUME flash'.proof = flash.proof, flash'.pc # "poll",
             flash'.pc \in {"forceOff", "push"} => flash'.aim # {}
      PROVE  DoneOK'
  BY <1>1, <1>3 DEF DoneOK
<1>4. ASSUME NEW pc, Goto(pc), pc \notin {"forceOff", "push", "poll"}
      PROVE  DoneOK'
  <2>1. flash'.proof = flash.proof /\ flash'.pc = pc
    BY <1>0, <1>4 DEF Goto, FlashTypes
  <2> QED
    BY <1>3, <1>4, <2>1
<1>5. ASSUME NEW push, NEW leaf, Aimed(push, leaf)
      PROVE  DoneOK'
  <2>1. CASE leaf = NoLeaf
    BY <1>2, <1>5, <2>1 DEF Aimed
  <2>2. CASE leaf # NoLeaf
    <3>1. flash'.proof = flash.proof /\ flash'.pc = "baseline"
      BY <1>0, <1>5, <2>2 DEF Aimed, FlashTypes
    <3> QED
      BY <1>3, <3>1
  <2> QED
    BY <2>1, <2>2
<1>6. CASE VerifyFirmware
  BY <1>2, <1>4, <1>6 DEF VerifyFirmware
<1>7. CASE Preflight
  <2>1. CASE vendor = "supermicro" /\ Target # "HGX"
    <3>1. flash' = [flash EXCEPT !.pc = Recipe, !.push = "multipart", !.aim = {Target}]
      BY <1>7, <2>1 DEF Preflight
    <3>2. flash'.proof = flash.proof /\ flash'.pc = Recipe /\ flash'.aim = {Target}
      BY <1>0, <3>1 DEF FlashTypes
    <3>3. Recipe # "poll"
      BY DEF Recipe
    <3> QED
      BY <1>3, <3>2, <3>3
  <2>2. CASE ~(vendor = "supermicro" /\ Target # "HGX")
    <3>1. flash' = [flash EXCEPT !.pc = Recipe]
      BY <1>7, <2>2 DEF Preflight
    <3>2. vendor \in {"generic", "dell", "hpe", "supermicro"}
      BY FlashAssumption DEF IInv, vendor
    <3>3. Recipe \in {"map", "hpeService"}
      BY <2>2, <3>2 DEF Recipe
    <3> QED
      BY <1>4, <3>1, <3>3 DEF Goto
  <2> QED
    BY <2>1, <2>2
<1>8. CASE ResolveInline
  <2>1. CASE flash' = [flash EXCEPT !.pc = "target", !.push = tree.push]
    <3>1. flash'.proof = flash.proof /\ flash'.pc = "target"
      BY <1>0, <2>1 DEF FlashTypes
    <3> QED
      BY <1>3, <3>1
  <2> QED
    BY <1>5, <1>8, <2>1 DEF ResolveInline
<1>9. CASE ReadBaseline
  <2>1. PICK v : flash' = [flash EXCEPT !.pc = "push", !.base = v]
    BY <1>9 DEF ReadBaseline
  <2>2. flash'.proof = flash.proof /\ flash'.pc = "push" /\ flash'.aim = flash.aim
    BY <1>0, <2>1 DEF FlashTypes
  <2>3. flash.aim # {}
    BY <1>9 DEF ReadBaseline, IInv, FlashOK
  <2> QED
    BY <1>3, <2>2, <2>3
<1>10. CASE HpeService
  <2>1. CASE flash' = [flash EXCEPT !.pc = "hpePush", !.push = "multipart"]
    <3>1. flash'.proof = flash.proof /\ flash'.pc = "hpePush"
      BY <1>0, <2>1 DEF FlashTypes
    <3> QED
      BY <1>3, <3>1
  <2> QED
    BY <1>2, <1>4, <1>10, <2>1 DEF HpeService
<1>11. ASSUME NEW lost, MapBmc(lost)
       PROVE  DoneOK'
  <2> DEFINE cap == Walk(tree, lost)
  <2>1. CASE MapHgx(cap)
    <3>1. CASE cap.hgx = {} \/ cap.push # "multipart"
      BY <1>2, <2>1, <3>1 DEF MapHgx
    <3>2. CASE ~(cap.hgx = {} \/ cap.push # "multipart")
      <4> DEFINE aim == SelectHgxTargetGroup(cap.hgx, NamedAfter[flash.image],
                                             flash.image \in Bundles)
      <4>1. flash' = [flash EXCEPT !.pc = "push", !.push = "multipart", !.aim = aim]
        BY <2>1, <3>2 DEF MapHgx
      <4>2. aim # {}
        BY <3>2 DEF SelectHgxTargetGroup
      <4> HIDE DEF aim
      <4>3. flash'.proof = flash.proof /\ flash'.pc = "push" /\ flash'.aim = aim
        BY <1>0, <4>1 DEF FlashTypes
      <4> QED
        BY <1>3, <4>2, <4>3
    <3> QED
      BY <3>1, <3>2
  <2> HIDE DEF cap
  <2>2. CASE Goto("transport")
    BY <1>4, <2>2
  <2>3. CASE Aimed(cap.push, IF Target = "BIOS" THEN cap.bios ELSE cap.bmc)
    BY <1>5, <2>3
  <2> QED
    BY <1>11, <2>1, <2>2, <2>3 DEF MapBmc, cap
<1> QED
  BY <1>6, <1>7, <1>8, <1>9, <1>10, <1>11 DEF Preparing

\* The push: a task to poll, the word that it is done, or less than that.
LEMMA PushingDone ==
  ASSUME IInv, DoneOK, OwnBanks, Pushing
  PROVE  DoneOK'
<1>0. /\ flash \in FlashTypes /\ Clean(flash.aim) /\ machine \in Machines
      /\ n \in Flashes /\ n # 0 /\ flash.proof = "" /\ UNCHANGED <<machine, n>>
      /\ flash.pc # "idle"
  <2>1. flash.pc \in {"push", "hpePush"} /\ UNCHANGED <<machine, n>>
    BY DEF Pushing, Push, PushLost, HpePush
  <2>2. n \in Flashes /\ n # 0
    BY <2>1, FlashAssumption DEF IInv, FlashOK
  <2> QED
    BY <2>1, <2>2 DEF IInv, FlashOK, DoneOK, NoAnswer, Uploading
<1>1. vendor' = vendor /\ \A load : Into(load)' = Into(load)
  BY <1>0 DEF vendor, tree, Into
<1>2. ASSUME flash'.pc \notin {"forceOff", "push", "poll"}, flash'.proof = ""
      PROVE  DoneOK'
  BY <1>2 DEF DoneOK, NoAnswer
<1>3. ASSUME NEW answer \in {"task", "sync", "silent"}, Push(answer)
      PROVE  DoneOK'
  <2> DEFINE b == Uploaded(Dest)
  <2>1. Clean(Dest)
    BY <1>0 DEF Dest, Clean
  <2>2. BmcOK(b) /\ b.work = n /\ b.task[n] = "Running"
    BY <1>0, <2>1, UploadedOK DEF BmcOK
  <2>3. Fits(Into(b.load))
    BY <1>3, UploadFits DEF Push
  <2>4. bmc' = IF answer = "sync" THEN Finished(b) ELSE b
    BY <1>3 DEF Push
  <2> HIDE DEF b
  <2>5. CASE answer = "task" /\ Watched
    <3>1. flash' = [flash EXCEPT !.pc = "poll"]
      BY <1>3, <2>5 DEF Push, Goto, AfterPush
    <3>2. flash'.pc = "poll" /\ flash'.proof = "" /\ flash'.aim = flash.aim
      BY <1>0, <3>1 DEF FlashTypes
    <3>3. Fits(Into(bmc.load))'
      BY <1>1, <2>3, <2>4, <2>5, <3>2 DEF Fits
    <3> QED
      BY <1>0, <2>2, <2>4, <2>5, <3>2, <3>3 DEF DoneOK
  <2>6. CASE answer # "task" /\ Accepted(answer)
    <3>1. flash' = [flash EXCEPT !.pc = AfterFlash, !.proof = answer]
      BY <1>3, <2>6 DEF Push, AfterPush
    <3>2. flash'.pc = AfterFlash /\ flash'.proof = answer /\ flash'.aim = flash.aim
      BY <1>0, <3>1 DEF FlashTypes
    <3>3. AfterFlash \in {"result", "readback", "install", "apply"}
      BY DEF AfterFlash
    <3>4. CASE answer = "silent"
      BY <1>1, <2>6, <3>2, <3>3, <3>4 DEF DoneOK, NoAnswer, Uploading, Accepted
    <3>5. CASE answer = "sync"
      <4>1. bmc'.work = 0
        BY <1>0, <2>2, <2>4, <3>5, FinishedOK
      <4>2. bmc'.landed = [b.landed EXCEPT ![n] = Into(b.load)]
        BY <1>0, <2>2, <2>4, <3>5, FinishedFields
      <4>3. bmc'.landed[n] = Into(b.load)
        BY <1>0, <2>2, <4>2 DEF BmcOK, BmcTypes
      <4>4. Fits(bmc.landed[n])'
        BY <1>0, <1>1, <2>3, <3>2, <4>3 DEF Fits
      <4> QED
        BY <1>0, <3>2, <3>3, <3>5, <4>1, <4>4 DEF DoneOK, NoAnswer, Uploading
    <3> QED
      BY <2>6, <3>4, <3>5
  <2>7. CASE answer # "task" /\ ~Accepted(answer)
    <3>1. flash' = Ends("failed", "refused")
      BY <1>3, <2>7 DEF Push, Fails
    <3>2. flash'.pc = "failed" /\ flash'.proof = ""
      BY <1>0, <3>1 DEF Ends, FlashTypes
    <3> QED
      BY <1>2, <3>2
  <2>8. CASE answer = "task" /\ ~Watched
    <3>1. flash' = Ends("failed", "unwatched")
      BY <1>3, <2>8 DEF Push, Fails
    <3>2. flash'.pc = "failed" /\ flash'.proof = ""
      BY <1>0, <3>1 DEF Ends, FlashTypes
    <3> QED
      BY <1>2, <3>2
  <2> QED
    BY <2>5, <2>6, <2>7, <2>8
<1>4. CASE PushLost
  <2>1. PICK why : flash' = Ends("failed", why)
    BY <1>4 DEF PushLost, Fails
  <2>2. flash'.pc = "failed" /\ flash'.proof = ""
    BY <1>0, <2>1 DEF Ends, FlashTypes
  <2> QED
    BY <1>2, <2>2
<1>5. CASE HpePush
  <2>1. flash'.pc = "hpePoll" /\ flash'.proof = ""
    BY <1>0, <1>5 DEF HpePush, Goto, FlashTypes
  <2> QED
    BY <1>2, <2>1
<1> QED
  BY <1>3, <1>4, <1>5 DEF Pushing

\* The polls: only the task's own word proves anything.
LEMMA FollowingDone ==
  ASSUME IInv, DoneOK, Following
  PROVE  DoneOK'
<1>0. flash \in FlashTypes /\ Quiet
  BY DEF IInv, FlashOK, Following, PollTask, PollIlo, PollError, Ceiling, Rescue, Install,
         PollBiosTask, ReadBack, Refused, ConnectionDrops
<1>1. UNCHANGED <<machine, n, bmc>>
  BY <1>0 DEF Quiet
<1>2. ASSUME \E why : Fails(why)
      PROVE  DoneOK'
  BY <1>1, <1>2, DoneEnds DEF Fails
<1>3. ASSUME flash'.aim = flash.aim, flash'.proof = flash.proof,
             flash'.pc = flash.pc
      PROVE  DoneOK'
  BY <1>1, <1>3, DoneKept
<1>4. ASSUME flash' = [flash EXCEPT !.errs = flash'.errs]
      PROVE  DoneOK'
  <2>1. flash'.aim = flash.aim /\ flash'.proof = flash.proof /\ flash'.pc = flash.pc
    BY <1>0, <1>4 DEF FlashTypes
  <2> QED
    BY <1>3, <2>1
<1>5. ASSUME NEW pc \in {"powerOn", "result", "readback"}, Goto(pc)
      PROVE  DoneOK'
  <2>1. flash'.aim = flash.aim /\ flash'.proof = flash.proof /\ flash'.pc = pc
    BY <1>0, <1>5 DEF Goto, FlashTypes
  <2> QED
    BY <1>1, <2>1, DoneKept DEF NoAnswer, Uploading
<1>6. ASSUME Goto("rescue"), flash.pc = "poll"
      PROVE  DoneOK'
  <2>1. flash'.aim = flash.aim /\ flash'.proof = flash.proof /\ flash'.pc = "rescue"
    BY <1>0, <1>6 DEF Goto, FlashTypes
  <2> QED
    BY <1>1, <1>6, <2>1, DoneKept DEF NoAnswer, Uploading
\* A success that proves less.
<1>7. ASSUME NEW pc \in {"result", "readback", "install", "apply", "hpeApply"},
             NEW proof \in {"state", "moved", "unobserved"},
             flash' = [flash EXCEPT !.pc = pc, !.proof = proof]
      PROVE  DoneOK'
  <2>1. flash'.pc = pc /\ flash'.proof = proof
    BY <1>0, <1>7 DEF FlashTypes
  <2> QED
    BY <2>1 DEF DoneOK, NoAnswer, Uploading
<1>8. AfterFlash \in {"result", "readback", "install", "apply"}
  BY DEF AfterFlash
<1>9. CASE PollTask
  <2>1. CASE flash' = [flash EXCEPT !.errs = 0]
    <3>1. flash' = [flash EXCEPT !.errs = flash'.errs]
      BY <1>0, <2>1 DEF FlashTypes
    <3> QED
      BY <1>4, <3>1
  <2>2. CASE /\ bmc.task[n] = "Completed"
             /\ flash' = [flash EXCEPT !.pc = AfterFlash, !.proof = "task"]
    <3>1. flash'.aim = flash.aim /\ flash'.proof = "task" /\ flash'.pc = AfterFlash
      BY <1>0, <2>2 DEF FlashTypes
    <3>2. bmc.work # n
      BY <1>9, <2>2, FlashAssumption DEF PollTask, IInv, BmcOK, FlashOK
    <3>3. Fits(bmc.landed[n])
      BY <1>9, <2>2 DEF PollTask, DoneOK
    <3>4. Fits(bmc.landed[n])' /\ (bmc.work # n)'
      BY <1>1, <3>1, <3>2, <3>3 DEF Fits, vendor
    <3> QED
      BY <1>8, <3>1, <3>4 DEF DoneOK, NoAnswer, Uploading
  <2> QED
    BY <1>2, <1>6, <1>9, <2>1, <2>2 DEF PollTask
<1>10. CASE PollIlo
  <2>1. CASE bmc.ilo = "Complete"
    BY <1>7, <1>10, <2>1 DEF PollIlo
  <2>2. CASE bmc.ilo = "Error"
    BY <1>2, <1>10, <2>2 DEF PollIlo
  <2>3. CASE bmc.ilo \notin {"Complete", "Error"}
    <3>1. flash' = [flash EXCEPT !.errs = 0]
      BY <1>10, <2>3 DEF PollIlo
    <3>2. flash' = [flash EXCEPT !.errs = flash'.errs]
      BY <1>0, <3>1 DEF FlashTypes
    <3> QED
      BY <1>4, <3>2
  <2> QED
    BY <2>1, <2>2, <2>3
<1>11. CASE PollError
  <2>1. CASE flash' = [flash EXCEPT !.errs = @ + 1]
    <3>1. flash' = [flash EXCEPT !.errs = flash'.errs]
      BY <1>0, <2>1 DEF FlashTypes
    <3> QED
      BY <1>4, <3>1
  <2> QED
    BY <1>2, <1>6, <1>11, <2>1 DEF PollError
<1>12. CASE Ceiling
  BY <1>2, <1>7, <1>12 DEF Ceiling
<1>13. CASE Rescue
  BY <1>2, <1>7, <1>8, <1>13 DEF Rescue
<1>14. CASE Install \/ ReadBack
  BY <1>5, <1>14 DEF Install, ReadBack
<1>15. CASE PollBiosTask
  BY <1>2, <1>5, <1>15 DEF PollBiosTask
<1>16. CASE Refused \/ ConnectionDrops
  BY <1>2, <1>16 DEF Refused, ConnectionDrops
<1> QED
  BY <1>9, <1>10, <1>11, <1>12, <1>13, <1>14, <1>15, <1>16 DEF Following

LEMMA HostCallDone ==
  ASSUME IInv, DoneOK, NEW acts \in BOOLEAN, NEW dropped \in BOOLEAN, HostCall(acts, dropped)
  PROVE  DoneOK'
<1>0. /\ flash \in FlashTypes /\ BmcOK(bmc) /\ UNCHANGED <<machine, n>>
      /\ flash.pc \in {"apply", "hpeApply", "forceOff", "powerOn"}
  BY DEF IInv, FlashOK, HostCall
<1>1. /\ bmc'.work = bmc.work /\ bmc'.load = bmc.load /\ bmc'.task = bmc.task
      /\ bmc'.landed = bmc.landed
  <2>1. CASE bmc' = bmc
    BY <2>1
  <2>2. CASE bmc' = [bmc EXCEPT !.host = "Off"]
    BY <1>0, <2>2 DEF BmcOK, BmcTypes
  <2>3. CASE bmc' \in Starts(bmc)
    BY <1>0, <2>3, StartsFields
  <2> QED
    BY <2>1, <2>2, <2>3 DEF HostCall
<1> DEFINE f == IF dropped THEN Ends("failed", "drop") ELSE [flash EXCEPT !.pc = AfterHost]
<1>2. /\ DOMAIN f = DOMAIN flash /\ f.aim = flash.aim /\ f.proof = flash.proof
      /\ f.pc \in {"readback", "result", "push", "biosPoll", "failed"}
      /\ f.pc = "push" => flash.pc = "forceOff"
  <2>1. /\ AfterHost \in {"readback", "result", "push", "biosPoll"}
        /\ AfterHost = "push" => flash.pc = "forceOff"
    BY <1>0 DEF AfterHost
  <2>2. CASE dropped
    BY <1>0, <2>2 DEF Ends, FlashTypes
  <2>3. CASE ~dropped
    BY <1>0, <2>1, <2>3 DEF FlashTypes
  <2> QED
    BY <2>2, <2>3
<1>3. flash' = [f EXCEPT !.cycled = @ \/ acts, !.early = @ \/ (acts /\ bmc.work = n)]
  BY DEF HostCall
<1> HIDE DEF f
<1>4. flash'.aim = f.aim /\ flash'.proof = f.proof /\ flash'.pc = f.pc
  BY <1>0, <1>2, <1>3 DEF FlashTypes
<1> QED
  BY <1>0, <1>1, <1>2, <1>4, DoneKept DEF NoAnswer, Uploading

\* The BMC's own steps: an upload that ends is in its banks, or was refused.
LEMMA BmcStepDone ==
  ASSUME IInv, DoneOK, BmcFinishes \/ BmcFails \/ IloPicksUp \/ HostRestarts
  PROVE  DoneOK'
<1>0. /\ BmcOK(bmc) /\ bmc \in BmcTypes /\ machine \in Machines
      /\ UNCHANGED <<machine, n, flash>>
  BY DEF IInv, BmcOK, BmcFinishes, BmcFails, IloPicksUp, HostRestarts
<1>1. vendor' = vendor /\ \A banks : Fits(banks)' = Fits(banks)
  BY <1>0 DEF vendor, Fits
<1>2. flash.pc = "poll" => n \in Flashes /\ n # 0
  BY FlashAssumption DEF IInv, FlashOK
<1>3. flash.proof \in {"task", "sync"} => bmc.work # n
  BY DEF DoneOK
\* An upload that is over leaves the tasks and the banks of the others alone.
<1>4. ASSUME bmc.work # 0, bmc'.work = 0, NEW status, status # "Running",
             bmc'.task = [bmc.task EXCEPT ![bmc.work] = status],
             status = "Completed" => bmc'.landed = [bmc.landed EXCEPT ![bmc.work] = Into(bmc.load)],
             status # "Completed" => bmc'.landed = bmc.landed
      PROVE  DoneOK'
  <2>1. bmc.work \in Flashes /\ bmc.task \in [Flashes -> {"none", "Running", "Completed", "Exception"}]
        /\ bmc.landed \in [Flashes -> SUBSET Leaves]
    BY <1>0, <1>4 DEF BmcTypes
  <2>2. n \in Flashes /\ n # bmc.work
           => bmc'.landed[n] = bmc.landed[n] /\ bmc'.task[n] = bmc.task[n]
    BY <1>4, <2>1
  <2>3. n = bmc.work /\ bmc'.task[n] = "Completed" => bmc'.landed[n] = Into(bmc.load)
    BY <1>4, <2>1
  <2>4. flash.proof \in {"task", "sync"} => n \in Flashes /\ n # 0
    <3>1. flash.pc = "idle" => flash.proof \notin {"task", "sync"}
      BY ZenonT(30) DEF DoneOK, NoAnswer
    <3> QED
      BY <3>1, FlashAssumption DEF IInv, FlashOK
  <2> QED
    BY <1>0, <1>1, <1>2, <1>3, <1>4, <2>2, <2>3, <2>4 DEF DoneOK
<1>5. CASE BmcFinishes
  <2>1. bmc.work # 0 /\ bmc' = Finished(bmc)
    BY <1>5 DEF BmcFinishes
  <2>2. /\ bmc'.work = 0 /\ bmc'.task = [bmc.task EXCEPT ![bmc.work] = "Completed"]
        /\ bmc'.landed = [bmc.landed EXCEPT ![bmc.work] = Into(bmc.load)]
    BY <1>0, <2>1, FinishedOK, FinishedFields
  <2> QED
    BY <1>4, <2>1, <2>2
<1>6. CASE BmcFails
  <2>1. /\ bmc.work # 0 /\ bmc'.work = 0 /\ bmc'.landed = bmc.landed
        /\ bmc'.task = [bmc.task EXCEPT ![bmc.work] = "Exception"]
    BY <1>0, <1>6 DEF BmcFails, BmcTypes
  <2> QED
    BY <1>4, <2>1
<1>7. CASE IloPicksUp \/ HostRestarts
  <2>1. /\ bmc'.work = bmc.work /\ bmc'.load = bmc.load /\ bmc'.task = bmc.task
        /\ bmc'.landed = bmc.landed
    <3>1. CASE IloPicksUp
      BY <1>0, <3>1 DEF IloPicksUp, BmcTypes
    <3>2. CASE HostRestarts
      BY <1>0, <3>2, StartsFields DEF HostRestarts
    <3> QED
      BY <1>7, <3>1, <3>2
  <2> QED
    BY <1>0, <2>1, DoneKept
<1> QED
  BY <1>5, <1>6, <1>7

LEMMA AroundDone ==
  ASSUME IInv, DoneOK, Around
  PROVE  DoneOK'
<1>0. flash \in FlashTypes
  BY DEF IInv, FlashOK
<1>1. ASSUME NEW i \in Images, NEW now \in BOOLEAN, StartFlash(i, now)
      PROVE  DoneOK'
  <2>1. flash' = [NoFlash EXCEPT !.pc = "hash", !.image = i, !.now = now]
    BY <1>1 DEF StartFlash
  <2>2. flash'.pc = "hash" /\ flash'.proof = ""
    BY <2>1 DEF NoFlash
  <2> QED
    BY <2>2 DEF DoneOK
<1>2. CASE StoreStep
  <2>1. flash'.pc = flash.pc /\ flash'.aim = flash.aim /\ flash'.proof = flash.proof
    BY <1>0, <1>2 DEF StoreStep, FlashTypes
  <2> QED
    BY <1>2, <2>1, DoneKept DEF StoreStep
<1>3. CASE Report
  BY <1>3, DoneEnds DEF Report
<1>4. CASE AppEnds
  BY <1>4, DoneEnds DEF AppEnds, Fails
<1> QED
  BY <1>1, <1>2, <1>3, <1>4 DEF Around

LEMMA InitDone == Init => DoneOK
<1>1. Init => flash.pc = "idle" /\ flash.proof = ""
  <2>1. NoFlash.pc = "idle" /\ NoFlash.proof = ""
    BY DEF NoFlash
  <2> QED
    BY <2>1 DEF Init
<1>2. flash.proof = ""
        => flash.proof # "task" /\ flash.proof # "sync" /\ flash.proof # "silent"
  OBVIOUS
<1>3. flash.pc = "idle"
        => flash.pc # "forceOff" /\ flash.pc # "push" /\ flash.pc # "poll"
  OBVIOUS
<1> QED
  BY <1>1, <1>2, <1>3 DEF DoneOK

LEMMA NextDone ==
  ASSUME OwnBanks, IInv, DoneOK, [Next]_vars
  PROVE  DoneOK'
<1>1. CASE FlashStep
  <2>1. CASE \E acts, dropped \in BOOLEAN : HostCall(acts, dropped)
    BY <2>1, HostCallDone
  <2>2. CASE Report
    BY <2>2, AroundDone DEF Around
  <2>3. CASE Preparing \/ Pushing \/ Following
    BY <2>3, PreparingDone, PushingDone, FollowingDone
  <2> QED
    BY <1>1, <2>1, <2>2, <2>3 DEF FlashStep, Preparing, Pushing, Following
<1>2. CASE BmcFinishes \/ BmcFails \/ IloPicksUp \/ HostRestarts
  BY <1>2, BmcStepDone
<1>3. CASE Around
  BY <1>3, AroundDone
<1>4. CASE UNCHANGED vars
  BY <1>4, DoneKept DEF vars
<1> QED
  BY <1>1, <1>2, <1>3, <1>4 DEF Next, Around

\* Every variable keeps to its domain: no recipe ends in a state the code has no name
\* for, counts an error too many or aims at something that is no member.
THEOREM TypeCorrect == Spec => []TypeOK
<1>1. IInv => TypeOK
  BY IInvImplies
<1> QED
  BY <1>1, InvariantHolds, PTL

\* For any BMC, any names and any loss, no recipe ever writes to a bank whose name
\* says that it is a backup, golden or second image (_is_active_bank).
THEOREM BanksStayUntouched == Spec => []RollbackBanksUntouched
<1>1. IInv => RollbackBanksUntouched
  BY IInvImplies
<1> QED
  BY <1>1, InvariantHolds, PTL

\* The host is restarted for a BIOS image with "apply now" only; while an upload is
\* still being taken in, only by a flash that had no task to wait on, or lost it
\* (_reset_to_apply, update_bios).
THEOREM RestartsAreSafe == Spec => []RestartsOnlyWhenSafe
<1>1. IInv => RestartsOnlyWhenSafe
  BY IInvImplies
<1> QED
  BY <1>1, InvariantHolds, PTL

\* Unless the repository was changed under the flash, what was hashed is what is
\* uploaded (_verify_firmware_sha).
THEOREM FileIsTheOneHashed == Spec => []PushesWhatWasHashed
<1>1. IInv => PushesWhatWasHashed
  BY IInvImplies
<1> QED
  BY <1>1, InvariantHolds, PTL

\* A flash that reports success because the BMC said so has its image in every bank it
\* aimed at, or in a bank of its component where the BMC was not told which
\* (flash_firmware, update_bios, update_hgx): for any BMC, any timing, loss and
\* replacement of uploads.
THEOREM SuccessIsReal ==
  ASSUME OwnBanks
  PROVE  Spec => []SuccessMeansInstalled
<1>1. IInv /\ IInv' /\ DoneOK /\ [Next]_vars => DoneOK'
  BY NextDone
<1>2. DoneOK => SuccessMeansInstalled
  BY DEF DoneOK, SuccessMeansInstalled, Fits
<1> QED
  BY <1>1, <1>2, InitDone, InvariantHolds, PTL DEF Spec
=============================================================================
