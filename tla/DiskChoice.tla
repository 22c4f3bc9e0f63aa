----------------------------- MODULE DiskChoice -----------------------------
(***************************************************************************)
(* Which drive an install wipes: from the BMC's list of drives, through    *)
(* the inventory cached on the server's row and the name the operator      *)
(* picked, to the drive the installer finds.                               *)
(*                                                                         *)
(* A drive's name is a tuple, ordered as the code's strings are:           *)
(*    <<bay, 0, 0, 0>>         Disk.Bay.3                                  *)
(*    <<bay, size, 0, 0>>      Disk.Bay.3 (600 GB)                         *)
(*    <<bay, size, 1, n>>      Disk.Bay.3 (600 GB) #n                      *)
(*    <<bay, size, 2, tail>>   Disk.Bay.3 (600 GB, ABC123)                 *)
(***************************************************************************)
EXTENDS Integers, Sequences, FiniteSets

CONSTANTS
    Drives,       \* the drives that can be in the machine, ghosts included
    Disk,         \* what the BMC says of each: see DiskRecord
    Listing,      \* <<controller, drive>> in the order the walk meets them
    Controllers,  \* storage controllers
    Handles,      \* bays whose name is a Linux device's
    Kernel,       \* Kernel[bay]: the drive the host calls by that name
    Swappable,    \* drives that may be pulled and put back
    Strategies,   \* disk strategies the operator may choose from
    None

DiskRecord ==
    [bay : Nat, size : Nat, sizeLabel : Nat \ {0}, serial : Nat, tail : Nat,
     nvme : BOOLEAN, ssd : BOOLEAN, m2 : BOOLEAN, model : STRING, slot : Nat]

Names == Nat \X Nat \X Nat \X Nat

\* No two drives report one serial number; 0 is none.
ASSUME DiskAssumption ==
    /\ Disk \in [Drives -> DiskRecord]
    /\ \A d, e \in Drives : Disk[d].serial # 0 /\ Disk[d].serial = Disk[e].serial => d = e
    /\ Listing \in Seq(Controllers \X Drives)
    /\ Kernel \in [Handles -> Drives] /\ Swappable \subseteq Drives
    /\ None \notin Drives \cup Names

VARIABLES
    present,   \* drives that are in the machine
    row,       \* disks_json of the server's row
    pick,      \* the page's override: a name, and the drive it stood for
    job        \* the install's task

vars == <<present, row, pick, job>>

-----------------------------------------------------------------------------
(* get_storage_inventory.                                                  *)

\* Mutation: empty bays are reported too.
PresentWithGhosts(d) == TRUE

\* An empty bay reports no capacity.
Present(d) == Disk[d].size > 0

\* The listings a walk of the drives `in' comes to know, when it loses some
\* controllers and some listings.  One that loses Systems or Storage loses them all.
Raw(controllers, listings, in) ==
    {i \in DOMAIN Listing \ listings :
        /\ Listing[i][1] \notin controllers
        /\ Listing[i][2] \in in /\ Present(Listing[i][2])}

Least(S) == CHOOSE n \in S : \A m \in S : n <= m

\* Mutation: without the number, as before the names were made unique.
NameUncounted(d, shared, emitted) ==
    LET b == Disk[d].bay  s == Disk[d].sizeLabel  t == Disk[d].tail
    IN  IF ~shared THEN <<b, 0, 0, 0>>
        ELSE IF <<b, s, 0, 0>> \notin emitted \/ t = 0 THEN <<b, s, 0, 0>>
        ELSE <<b, s, 2, t>>

\* The size, then the serial's tail, then a number.
Name(d, shared, emitted) ==
    LET b == Disk[d].bay  s == Disk[d].sizeLabel  t == Disk[d].tail
    IN  IF ~shared THEN <<b, 0, 0, 0>>
        ELSE IF <<b, s, 0, 0>> \notin emitted THEN <<b, s, 0, 0>>
        ELSE IF t # 0 /\ <<b, s, 2, t>> \notin emitted THEN <<b, s, 2, t>>
        ELSE <<b, s, 1, Least({n \in 2..Len(Listing) + 2 : <<b, s, 1, n>> \notin emitted})>>

\* A drive that is listed twice counts twice for its bay.
Shared(raw, d) ==
    \E i, j \in raw : i # j /\ \A k \in {i, j} : Disk[Listing[k][2]].bay = Disk[d].bay

\* A drive that was kept already is not kept again.
Emit(raw, out, d) ==
    IF \E e \in out : e.drive = d THEN out
    ELSE out \cup {[drive |-> d, name |-> Name(d, Shared(raw, d), {e.name : e \in out})]}

\* What was kept after each listing.
Kept(raw) ==
    LET kept[k \in 0..Len(Listing)] ==
            IF k = 0 THEN {}
            ELSE IF k \in raw THEN Emit(raw, kept[k - 1], Listing[k][2]) ELSE kept[k - 1]
    IN  kept

\* The code's list is sorted by name: a set, and First instead of an index.
Inventory(raw) == Kept(raw)[Len(Listing)]

Before(a, b) ==
    \E i \in 1..4 : a.name[i] < b.name[i] /\ \A j \in 1..i - 1 : a.name[j] = b.name[j]

First(S) == CHOOSE e \in S : \A f \in S \ {e} : Before(e, f)

\* Everything a read may bring back.
Readings ==
    [in \in {Drives \ out : out \in SUBSET Swappable} |->
        {Inventory(Raw(c, l, in)) : c \in SUBSET Controllers, l \in SUBSET DOMAIN Listing}]

-----------------------------------------------------------------------------
(* resolve of disk_resolver.py: a strategy's kind and argument.            *)

Runnable == {"matched", "override", "ambiguous"}
As(status, e) == [status |-> status, name |-> e.name, drive |-> e.drive]
NoPick == [name |-> None, drive |-> None]
Unmatched == As("unmatched", NoPick)

\* endswith on the label: 3 also fits slot 13.
EndsWith(label, n) == label = n \/ \E k \in {10, 100, 1000} : n < k /\ label % k = n

Fits(s, d) ==
    LET disk == Disk[d]
    IN  CASE s.kind = "first_nvme" -> disk.nvme
          [] s.kind = "first_m2" -> disk.m2
          [] s.kind = "smallest_ssd" -> disk.ssd
          [] s.kind \in {"largest_disk", "smallest_disk"} -> TRUE
          [] s.kind = "by_size" -> 100 * (disk.size - s.arg) \in -s.tolerance * s.arg..s.tolerance * s.arg
          [] s.kind = "by_model" -> disk.model = s.arg
          [] s.kind = "by_slot" -> EndsWith(disk.slot, s.arg)
          [] s.kind = "by_serial" -> disk.serial = s.arg

\* Probably an M.2 boot drive: an NVMe SSD below 1 TB.
M2Like(d) == Disk[d].nvme /\ Disk[d].ssd /\ Disk[d].size < 1000

Resolve(s, inv) ==
    LET Size(e) == Disk[e.drive].size
        strict == {e \in inv : Fits(s, e.drive)}
        cands == IF s.kind = "first_m2" /\ strict = {}
                 THEN {e \in inv : M2Like(e.drive)} ELSE strict
        best == CASE s.kind \in {"smallest_ssd", "smallest_disk"} ->
                        {e \in cands : \A f \in cands : Size(e) <= Size(f)}
                  [] s.kind = "largest_disk" ->
                        {e \in cands : \A f \in cands : Size(e) >= Size(f)}
                  [] OTHER -> cands
        several == s.kind \in {"by_size", "by_model"} /\ Cardinality(cands) > 1
    IN  IF best = {} THEN Unmatched
        ELSE As(IF several THEN "ambiguous" ELSE "matched", First(best))

\* Mutation: a pick that is not in the inventory leaves it to the strategy.
ResolveForElse(name, s, inv) ==
    LET named == {e \in inv : e.name = name}
    IN  IF named # {} THEN As("override", First(named))
        ELSE IF inv = {} THEN Unmatched
        ELSE IF s.kind = "manual_per_host" THEN As("requires_override", NoPick)
        ELSE Resolve(s, inv)

\* _resolve_for: the pick wins, also when the inventory has no such name.
ResolveFor(name, s, inv) ==
    LET named == {e \in inv : e.name = name}
    IN  IF named # {} THEN As("override", First(named))
        ELSE IF name # None \/ inv = {} THEN Unmatched
        ELSE IF s.kind = "manual_per_host" THEN As("requires_override", NoPick)
        ELSE Resolve(s, inv)

-----------------------------------------------------------------------------
Idle == [pc |-> "idle", meant |-> None, res |-> Unmatched, by |-> "none", wiped |-> None]

Init ==
    /\ present = Drives
    /\ row = {}
    /\ pick = NoPick
    /\ job = Idle

\* _refresh_disks stores what the walk brought, however little.  Refreshes may
\* overlap; as any read may lose anything, their order adds nothing.
RefreshDisks ==
    /\ row' \in Readings[present]
    /\ UNCHANGED <<present, pick, job>>

\* The scan stores a list that is not empty; a walk that raises stores nothing.
ScanDisks ==
    /\ row' \in Readings[present] \ {{}}
    /\ UNCHANGED <<present, pick, job>>

\* The picker shows the row's drives; a pick outlives refreshes.
PickDrive ==
    /\ \E e \in row \cup {NoPick} : pick' = [name |-> e.name, drive |-> e.drive]
    /\ UNCHANGED <<present, row, job>>

\* start_job resolves by name once more, from the row as it is now.
Start(s) ==
    /\ job.pc = "idle"
    /\ job' = [Idle EXCEPT !.pc = "resolved", !.meant = pick.drive,
                           !.res = ResolveFor(pick.name, s, row)]
    /\ UNCHANGED <<present, row, pick>>

IsHandle(name) == name # None /\ name[2] = 0 /\ name[1] \in Handles
SerialOf(res) == IF res.drive = None THEN 0 ELSE Disk[res.drive].serial

\* Mutation: a device name goes before the serial number.
DiskSnippetsByName(res) ==
    IF IsHandle(res.name) THEN "device" ELSE IF SerialOf(res) # 0 THEN "serial" ELSE "refused"

\* _disk_snippets: by serial number, else by a genuine device name.
DiskSnippets(res) ==
    IF SerialOf(res) # 0 THEN "serial" ELSE IF IsHandle(res.name) THEN "device" ELSE "refused"

\* _real_task up to the rendered answers.
RenderAnswers ==
    /\ job.pc = "resolved"
    /\ job' = IF job.res.status \in Runnable /\ DiskSnippets(job.res) # "refused"
              THEN [job EXCEPT !.pc = "rendered", !.by = DiskSnippets(job.res)]
              ELSE Idle
    /\ UNCHANGED <<present, row, pick>>

\* The installer (external) takes the drive it finds, or stops.
Found == IF job.by = "serial" THEN {d \in present : Disk[d].serial = SerialOf(job.res)}
         ELSE {Kernel[job.res.name[1]]} \cap present

Install ==
    /\ job.pc = "rendered"
    /\ job' = IF Found = {} THEN Idle
              ELSE [job EXCEPT !.pc = "wiped", !.wiped = CHOOSE d \in Found : TRUE]
    /\ UNCHANGED <<present, row, pick>>

\* The job's row stays for the audit; another may start.
JobEnds ==
    /\ job.pc = "wiped"
    /\ job' = Idle
    /\ UNCHANGED <<present, row, pick>>

\* Somebody pulls a drive or puts one in.
Swap ==
    /\ \E d \in Swappable : present' = IF d \in present THEN present \ {d} ELSE present \cup {d}
    /\ UNCHANGED <<row, pick, job>>

Next ==
    \/ RefreshDisks \/ ScanDisks \/ PickDrive \/ Swap
    \/ \E s \in Strategies : Start(s)
    \/ RenderAnswers \/ Install \/ JobEnds

Spec == Init /\ [][Next]_vars

-----------------------------------------------------------------------------
Entry(e) == e.name \in Names /\ e.drive \in Drives /\ Disk[e.drive].size > 0

\* Types; a ghost bay is never in the inventory and never resolved.
TypeOK ==
    /\ present \subseteq Drives
    /\ \A e \in row : Entry(e)
    /\ pick = NoPick \/ Entry(pick)
    /\ job.pc \in {"idle", "resolved", "rendered", "wiped"}
    /\ job.res.status \in Runnable \cup {"unmatched", "requires_override"}
    /\ job.res.status \in Runnable => Entry(job.res)

\* Whatever a read lost, drives that share a bay's number are told apart: no name
\* stands for two drives of one inventory, and no drive has two names.
NamesAreUnique ==
    \A e, f \in row : e.name = f.name \/ e.drive = f.drive => e = f

Alone(d) == \A e \in Drives \ {d} : Disk[e].bay # Disk[d].bay

\* A drive that shares its bay's number with none is wiped when it was picked, or
\* nothing is: a reading that lost controllers or drives, a drive listed twice,
\* the strategy and a drive pulled meanwhile never put another in its place.
LoneBayIsExact ==
    job.pc = "wiped" /\ job.meant # None /\ Alone(job.meant) /\ SerialOf(job.res) # 0 =>
        job.wiped = job.meant

\* The host numbers drives its own way: a drive whose serial number is known is
\* found by it, and one without is not wiped under a label of the BMC's.
InstallerHitsResolved ==
    job.pc = "wiped" =>
        IF SerialOf(job.res) # 0 THEN job.wiped = job.res.drive
        ELSE IsHandle(job.res.name)

\* provisioning_orchestrator.py:118 of an override: "that's how the per-host picker
\* in the UI signals "this server, this exact drive"".
ThisExactDrive ==
    job.pc = "wiped" /\ job.meant # None => job.wiped = job.meant
=============================================================================
