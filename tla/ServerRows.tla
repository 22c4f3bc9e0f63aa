------------------------------ MODULE ServerRows ------------------------------
(***************************************************************************)
(* The servers table (data/repositories/servers_repo.py) and everybody who *)
(* writes it: discovery (core/services/discovery_service.py), which puts   *)
(* what a scan found into the row of its address, power actions and the    *)
(* end of a flash, which write back a row they read earlier (core/services/*)
(* power_service.py, update_orchestrator.py), the disk refresh, and the    *)
(* operator, who pins a vendor or removes the server.  A repository method *)
(* holds the write lock and commits, so each is one step; between two of   *)
(* them the other thread or another coroutine may write.                   *)
(*                                                                         *)
(* A machine stands for its serial number, its certificate and its disks.  *)
(* Which machine answers at an address is up to the data centre; it does   *)
(* not change while a scan is between its answers and its writes.  Rows of *)
(* different addresses share nothing, so one address shows all there is.   *)
(***************************************************************************)
EXTENDS Naturals

CONSTANTS
  Addresses,        \* values of the ip column
  Machines,
  None              \* NULL, and nothing where a machine may be absent

ASSUME NoneAssumption == None \notin Machines

VARIABLES
  cable,     \* the machine that answers at each address
  row,       \* the row of each address, or NoRow
  scan,      \* _persist_and_notify and _capture_tls of each address
  held,      \* rows read and not yet written back
  disks,     \* _refresh_disks: the machine whose drives it has read
  pickedFor, \* history: the serial the row had when its vendor was pinned
  lapsed     \* history: addresses whose row has had no serial since, or had none then

vars == <<cable, row, scan, held, disks, pickedFor, lapsed>>

NoRow  == [here |-> FALSE, serial |-> None, pick |-> FALSE, drives |-> None, pin |-> None]
NoScan == [pc |-> "idle", serial |-> None, drives |-> None]

Init ==
  /\ cable \in [Addresses -> Machines]
  /\ row = [a \in Addresses |-> NoRow]
  /\ scan = [a \in Addresses |-> NoScan]
  /\ held = [a \in Addresses |-> NoRow]
  /\ disks = [a \in Addresses |-> None]
  /\ pickedFor = [a \in Addresses |-> None]
  /\ lapsed = {}

-----------------------------------------------------------------------------
(* upsert: every column of _FIELDS is written, absent ones as NULL; the    *)
(* vendor and the drives are not among them.                               *)

\* Mutation: the serial numbers are not compared.
SwapIgnored(old, new) == FALSE

SwapProven(old, new) == old # None /\ new # None /\ old # new

\* Mutation: oem_override is one of the columns an upsert writes.
UpsertedWithPick(a, serial, pin) ==
  LET swapped == row[a].here /\ SwapProven(row[a].serial, serial)
  IN [here   |-> TRUE, serial |-> serial, pick |-> FALSE,
      drives |-> IF swapped THEN None ELSE row[a].drives, pin |-> pin]

Upserted(a, serial, pin) ==
  LET old == row[a]
      swapped == old.here /\ SwapProven(old.serial, serial)
  IN [here   |-> TRUE,
      serial |-> serial,
      pick   |-> old.pick /\ ~swapped,
      drives |-> IF swapped THEN None ELSE old.drives,
      pin    |-> pin]

\* What the history keeps of an upsert that brings this serial number.
Lapsed(a, serial) == IF serial = None THEN lapsed \cup {a} ELSE lapsed

-----------------------------------------------------------------------------
(* Discovery, on the engine thread.                                        *)

\* scan() has read the identity and, best effort, the drives.  A BMC may leave the
\* serial number out of any answer.
Probe(a) ==
  /\ scan[a].pc = "idle"
  /\ \E serial, drives \in {cable[a], None} :
       scan' = [scan EXCEPT ![a] = [pc |-> "found", serial |-> serial, drives |-> drives]]
  /\ UNCHANGED <<cable, row, held, disks, pickedFor, lapsed>>

\* The row discovery passes to upsert has no tls_fpr.
Persist(a) ==
  /\ scan[a].pc = "found"
  /\ row' = [row EXCEPT ![a] = Upserted(a, scan[a].serial, None)]
  /\ lapsed' = Lapsed(a, scan[a].serial)
  /\ scan' = [scan EXCEPT ![a].pc = "saved"]
  /\ UNCHANGED <<cable, held, disks, pickedFor>>

CacheDrives(a) ==
  /\ scan[a].pc = "saved"
  /\ row' = IF scan[a].drives # None /\ row[a].here
              THEN [row EXCEPT ![a].drives = scan[a].drives] ELSE row
  /\ scan' = [scan EXCEPT ![a].pc = "capture"]
  /\ UNCHANGED <<cable, held, disks, pickedFor, lapsed>>

\* set_tls_fpr_by_ip; without a row or an answer nothing is written.
CaptureTls(a) ==
  /\ scan[a].pc = "capture"
  /\ scan' = [scan EXCEPT ![a] = NoScan]
  /\ \/ /\ row[a].here
        /\ row' = [row EXCEPT ![a].pin = cable[a]]
     \/ UNCHANGED row
  /\ UNCHANGED <<cable, held, disks, pickedFor, lapsed>>

-----------------------------------------------------------------------------
(* Those who write back what they read: _apply_one after a power action,   *)
(* _refresh_server after a flash.                                          *)

ReadRow(a) ==
  /\ row[a].here /\ row[a].pick /\ ~held[a].here
  /\ held' = [held EXCEPT ![a] = row[a]]
  /\ UNCHANGED <<cable, row, scan, disks, pickedFor, lapsed>>

WriteBack(a) ==
  /\ held[a].here
  /\ row' = [row EXCEPT ![a] = Upserted(a, held[a].serial, held[a].pin)]
  /\ lapsed' = Lapsed(a, held[a].serial)
  /\ held' = [held EXCEPT ![a] = NoRow]
  /\ UNCHANGED <<cable, scan, disks, pickedFor>>

\* The action failed, or the BMC did not tell the power state.
GiveUp(a) ==
  /\ held[a].here
  /\ held' = [held EXCEPT ![a] = NoRow]
  /\ UNCHANGED <<cable, row, scan, disks, pickedFor, lapsed>>

\* _refresh_disks: get_storage_inventory, then set_disks in a worker thread.
ReadDrives(a) ==
  /\ row[a].here /\ row[a].pick /\ disks[a] = None
  /\ disks' = [disks EXCEPT ![a] = cable[a]]
  /\ UNCHANGED <<cable, row, scan, held, pickedFor, lapsed>>

SaveDrives(a) ==
  /\ disks[a] # None
  /\ row' = IF row[a].here THEN [row EXCEPT ![a].drives = disks[a]] ELSE row
  /\ disks' = [disks EXCEPT ![a] = None]
  /\ UNCHANGED <<cable, scan, held, pickedFor, lapsed>>

-----------------------------------------------------------------------------
(* The operator and the data centre.                                       *)

\* set_oem_override, on a row whose vendor the operator judges by its columns.
PinVendor(a) ==
  /\ row[a].here
  /\ row' = [row EXCEPT ![a].pick = TRUE]
  /\ pickedFor' = [pickedFor EXCEPT ![a] = row[a].serial]
  /\ lapsed' = IF row[a].serial = None THEN lapsed \cup {a} ELSE lapsed \ {a}
  /\ UNCHANGED <<cable, scan, held, disks>>

UnpinVendor(a) ==
  /\ row[a].here /\ row[a].pick
  /\ row' = [row EXCEPT ![a].pick = FALSE]
  /\ UNCHANGED <<cable, scan, held, disks, pickedFor, lapsed>>

\* Mutation: the row is hidden, its vendor and drives are kept.
RemoveKeepingPick(a) ==
  /\ row[a].here
  /\ row' = [row EXCEPT ![a] = [NoRow EXCEPT !.pick = row[a].pick, !.drives = row[a].drives]]
  /\ UNCHANGED <<cable, scan, held, disks, pickedFor, lapsed>>

Remove(a) ==
  /\ row[a].here
  /\ row' = [row EXCEPT ![a] = NoRow]
  /\ UNCHANGED <<cable, scan, held, disks, pickedFor, lapsed>>

Recable(a, m) ==
  /\ scan[a].pc = "idle" /\ m # cable[a]
  /\ cable' = [cable EXCEPT ![a] = m]
  /\ UNCHANGED <<row, scan, held, disks, pickedFor, lapsed>>

-----------------------------------------------------------------------------
Scanning(a) == Probe(a) \/ Persist(a) \/ CacheDrives(a) \/ CaptureTls(a)
Acting(a)   == ReadRow(a) \/ WriteBack(a) \/ GiveUp(a) \/ ReadDrives(a) \/ SaveDrives(a)
Operator(a) == PinVendor(a) \/ UnpinVendor(a) \/ Remove(a)

Next ==
  \/ \E a \in Addresses : Scanning(a) \/ Acting(a) \/ Operator(a)
  \/ \E a \in Addresses, m \in Machines : Recable(a, m)

Spec == Init /\ [][Next]_vars

-----------------------------------------------------------------------------
OrNone == Machines \cup {None}
Row == [here : BOOLEAN, serial : OrNone, pick : BOOLEAN, drives : OrNone, pin : OrNone]

\* Every variable stays within the domain the table and the memory give it, and
\* only a row that exists has contents.
TypeOK ==
  /\ cable \in [Addresses -> Machines]
  /\ row \in [Addresses -> Row] /\ held \in [Addresses -> Row]
  /\ \A a \in Addresses : ~row[a].here => row[a] = NoRow
  /\ scan \in [Addresses -> [pc : {"idle", "found", "saved", "capture"},
                             serial : OrNone, drives : OrNone]]
  /\ disks \in [Addresses -> OrNone]
  /\ pickedFor \in [Addresses -> OrNone]
  /\ lapsed \subseteq Addresses

\* A vendor pinned for one machine outlives it only on a row that has lost its
\* serial number in between: as long as every upsert since brought one, the pick
\* is gone by the time the row has another machine's, whoever writes the row and
\* however old the copy is that they write back (servers_repo.py:71-80).
PickFitsRow ==
  \A a \in Addresses :
    row[a].pick /\ a \notin lapsed => pickedFor[a] = row[a].serial

\* servers_repo.py:58-60: "so a stale pick can never flash the wrong vendor
\* recipe": a vendor pinned when the row had one machine's serial number is gone
\* when it has another's.  A scan without a serial number keeps the pick (l.71)
\* and writes NULL over the serial (l.86), so the next machine's is compared with
\* nothing.
StalePickGone ==
  \A a \in Addresses :
    row[a].pick /\ row[a].serial # None /\ pickedFor[a] # None =>
      pickedFor[a] = row[a].serial

\* A vendor the operator pinned goes only when they take it back, when they remove
\* the server or when a write proves the machine replaced: no scan of the same
\* machine, power action or flash loses it.
PickKept ==
  [][\A a \in Addresses :
       row[a].pick /\ ~row'[a].pick =>
         \/ UnpinVendor(a) \/ Remove(a)
         \/ /\ row[a].serial # None /\ row'[a].serial # None
            /\ row[a].serial # row'[a].serial]_vars

=============================================================================
