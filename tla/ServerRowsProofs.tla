---------------------------- MODULE ServerRowsProofs ----------------------------
(***************************************************************************)
(* What ServerRows keeps for any set of addresses and of machines, whether *)
(* or not BMCs report their serial numbers.                                *)
(***************************************************************************)
EXTENDS ServerRows, TLAPS

\* One address at a time: each action of Next names the address it is about.
StepAt(a) == Scanning(a) \/ Acting(a) \/ Operator(a) \/ \E m \in Machines : Recable(a, m)

LEMMA NextIsStepAt == Next <=> \E a \in Addresses : StepAt(a)
  BY DEF Next, StepAt

\* An upsert leaves a row of the table's type behind.
LEMMA UpsertedType ==
  ASSUME TypeOK, NEW a \in Addresses, NEW s \in OrNone, NEW p \in OrNone
  PROVE  Upserted(a, s, p) \in Row /\ Upserted(a, s, p).here
  BY DEF TypeOK, Row, Upserted, SwapProven, OrNone

LEMMA NoRowType == NoRow \in Row
  BY DEF NoRow, Row, OrNone

LEMMA InitType == Init => TypeOK
  BY NoRowType DEF Init, TypeOK, NoRow, NoScan, Row, OrNone

LEMMA ScanningType ==
  ASSUME TypeOK, NEW a \in Addresses, Scanning(a)
  PROVE  TypeOK'
<1>0. cable[a] \in OrNone /\ row[a] \in Row /\ None \in OrNone
  BY DEF TypeOK, OrNone
<1>1. CASE Probe(a)
  BY <1>0, <1>1 DEF Probe, TypeOK, OrNone
<1>2. CASE Persist(a)
  <2>1. Upserted(a, scan[a].serial, None) \in Row /\ Upserted(a, scan[a].serial, None).here
    BY <1>0, UpsertedType DEF TypeOK
  <2>. QED  BY <1>2, <2>1 DEF Persist, Lapsed, TypeOK
<1>3. CASE CacheDrives(a)
  BY <1>0, <1>3 DEF CacheDrives, TypeOK, Row
<1>4. CASE CaptureTls(a)
  <2>1. CASE UNCHANGED row
    BY <1>0, <1>4, <2>1 DEF CaptureTls, TypeOK, NoScan
  <2>2. CASE row' = [row EXCEPT ![a].pin = cable[a]] /\ row[a].here
    <3>1. row' \in [Addresses -> Row] /\ \A b \in Addresses : ~row'[b].here => row'[b] = NoRow
      BY <1>0, <2>2 DEF TypeOK, Row
    <3>. QED  BY <1>0, <1>4, <3>1 DEF CaptureTls, TypeOK, NoScan
  <2>. QED  BY <1>4, <2>1, <2>2 DEF CaptureTls
<1>. QED  BY <1>1, <1>2, <1>3, <1>4 DEF Scanning

LEMMA ActingType ==
  ASSUME TypeOK, NEW a \in Addresses, Acting(a)
  PROVE  TypeOK'
<1>0. cable[a] \in OrNone /\ row[a] \in Row /\ held[a] \in Row /\ NoRow \in Row /\ None \in OrNone
  BY NoRowType DEF TypeOK, OrNone
<1>1. CASE ReadRow(a)
  BY <1>0, <1>1 DEF ReadRow, TypeOK
<1>2. CASE WriteBack(a)
  <2>1. /\ Upserted(a, held[a].serial, held[a].pin) \in Row
        /\ Upserted(a, held[a].serial, held[a].pin).here
    BY <1>0, UpsertedType DEF Row
  <2>. QED  BY <1>0, <1>2, <2>1 DEF WriteBack, Lapsed, TypeOK
<1>3. CASE GiveUp(a)
  BY <1>0, <1>3 DEF GiveUp, TypeOK
<1>4. CASE ReadDrives(a)
  BY <1>0, <1>4 DEF ReadDrives, TypeOK
<1>5. CASE SaveDrives(a)
  BY <1>0, <1>5 DEF SaveDrives, TypeOK, Row
<1>. QED  BY <1>1, <1>2, <1>3, <1>4, <1>5 DEF Acting

LEMMA OperatorType ==
  ASSUME TypeOK, NEW a \in Addresses, Operator(a)
  PROVE  TypeOK'
<1>0. row[a] \in Row /\ NoRow \in Row /\ None \in OrNone
  BY NoRowType DEF TypeOK, OrNone
<1>1. CASE PinVendor(a)
  BY <1>0, <1>1 DEF PinVendor, TypeOK, Row
<1>2. CASE UnpinVendor(a)
  BY <1>0, <1>2 DEF UnpinVendor, TypeOK, Row
<1>3. CASE Remove(a)
  BY <1>0, <1>3 DEF Remove, TypeOK
<1>. QED  BY <1>1, <1>2, <1>3 DEF Operator

LEMMA NextType == TypeOK /\ [Next]_vars => TypeOK'
<1>. SUFFICES ASSUME TypeOK, [Next]_vars PROVE TypeOK'
  OBVIOUS
<1>1. CASE UNCHANGED vars
  BY <1>1 DEF vars, TypeOK
<1>2. ASSUME NEW a \in Addresses, StepAt(a) PROVE TypeOK'
  <2>1. ASSUME NEW m \in Machines, Recable(a, m) PROVE TypeOK'
    BY <2>1 DEF Recable, TypeOK
  <2>. QED  BY <1>2, <2>1, ScanningType, ActingType, OperatorType DEF StepAt
<1>. QED  BY <1>1, <1>2, NextIsStepAt

\* For any addresses and machines every variable keeps to its domain, and a row
\* that does not exist (delete, servers_repo.py:162) has no contents.
THEOREM TypeCorrect == Spec => []TypeOK
<1>. QED  BY InitType, NextType, PTL DEF Spec

-----------------------------------------------------------------------------
\* A pinned vendor goes only when it is taken back, when the server is removed
\* or when an upsert sees two serial numbers that differ (servers_repo.py:71);
\* this needs no assumption about what a BMC reports.
LEMMA UpsertKeepsPick ==
  ASSUME NEW a, NEW s, NEW p, row[a].pick, ~Upserted(a, s, p).pick
  PROVE  row[a].serial # None /\ s # None /\ row[a].serial # s /\ Upserted(a, s, p).serial = s
  BY DEF Upserted, SwapProven

LEMMA PickStep ==
  ASSUME TypeOK, Next, NEW a \in Addresses, row[a].pick, ~row'[a].pick
  PROVE  \/ UnpinVendor(a) \/ Remove(a)
         \/ /\ row[a].serial # None /\ row'[a].serial # None
            /\ row[a].serial # row'[a].serial
<1>0. row \in [Addresses -> Row]
  BY DEF TypeOK
<1>1. PICK b \in Addresses : StepAt(b)
  BY NextIsStepAt
<1>2. b = a
  BY <1>0, <1>1 DEF StepAt, Scanning, Acting, Operator, Probe, Persist, CacheDrives, CaptureTls,
     ReadRow, WriteBack, GiveUp, ReadDrives, SaveDrives, PinVendor, UnpinVendor, Remove, Recable
<1>3. CASE Persist(a)
  BY <1>0, <1>3, UpsertKeepsPick DEF Persist
<1>4. CASE WriteBack(a)
  BY <1>0, <1>4, UpsertKeepsPick DEF WriteBack
<1>5. CASE CacheDrives(a) \/ CaptureTls(a) \/ SaveDrives(a) \/ PinVendor(a)
  BY <1>0, <1>5 DEF CacheDrives, CaptureTls, SaveDrives, PinVendor, Row
<1>6. CASE UNCHANGED row
  BY <1>6
<1>. QED
  BY <1>1, <1>2, <1>3, <1>4, <1>5, <1>6 DEF StepAt, Scanning, Acting, Operator, Probe,
     ReadRow, GiveUp, ReadDrives, Recable

\* No scan of the same machine, power action or flash loses a pinned vendor.
THEOREM PickIsKept == Spec => PickKept
<1>1. TypeOK /\ [Next]_vars =>
        [\A a \in Addresses :
           row[a].pick /\ ~row'[a].pick =>
             \/ UnpinVendor(a) \/ Remove(a)
             \/ /\ row[a].serial # None /\ row'[a].serial # None
                /\ row[a].serial # row'[a].serial]_vars
  BY PickStep
<1>. QED  BY <1>1, TypeCorrect, PTL DEF Spec, PickKept

-----------------------------------------------------------------------------
(* The invariant.  A pick fits its row as long as the row has had a serial *)
(* number to compare ever since; a copy somebody still holds may be of any *)
(* age, as its serial number is compared when it is written back.          *)

PickMatches ==
  \A a \in Addresses :
    row[a].pick /\ a \notin lapsed => row[a].serial # None /\ pickedFor[a] = row[a].serial

IInv == TypeOK /\ PickMatches

\* What an upsert leaves: the pick stays only beside the serial number it was for,
\* or the history says that there was none.
LEMMA UpsertedMatches ==
  ASSUME IInv, NEW a \in Addresses, NEW s, NEW p,
         Upserted(a, s, p).pick, a \notin Lapsed(a, s)
  PROVE  s # None /\ pickedFor[a] = s
<1>1. row[a].pick /\ ~(row[a].here /\ SwapProven(row[a].serial, s))
  BY DEF Upserted
<1>2. s # None /\ a \notin lapsed
  BY DEF Lapsed
<1>3. row[a].here
  <2>1. NoRow.pick = FALSE
    BY DEF NoRow
  <2>. QED  BY <1>1, <2>1 DEF IInv, TypeOK
<1>. QED  BY <1>1, <1>2, <1>3 DEF IInv, PickMatches, SwapProven

\* Both writers of a whole row, the scan and the one who writes back, are upserts.
LEMMA UpsertSafe ==
  ASSUME IInv, NEW b \in Addresses, NEW s, NEW p,
         row' = [row EXCEPT ![b] = Upserted(b, s, p)], lapsed' = Lapsed(b, s),
         UNCHANGED pickedFor
  PROVE  PickMatches'
<1>. SUFFICES ASSUME NEW a \in Addresses, row'[a].pick, a \notin lapsed'
              PROVE  row'[a].serial # None /\ pickedFor[a] = row'[a].serial
  BY DEF PickMatches
<1>1. CASE a = b
  <2>1. row'[a] = Upserted(b, s, p) /\ Upserted(b, s, p).serial = s
    BY <1>1 DEF IInv, TypeOK, Upserted
  <2>. QED  BY <1>1, <2>1, UpsertedMatches
<1>2. CASE a # b
  <2>1. row'[a] = row[a] /\ a \notin lapsed
    BY <1>2 DEF IInv, TypeOK, Lapsed
  <2>. QED  BY <2>1 DEF IInv, PickMatches
<1>. QED  BY <1>1, <1>2

\* A step that leaves a row's serial number and pick, and the history, alone.
LEMMA SafeFrame ==
  ASSUME PickMatches, UNCHANGED <<pickedFor, lapsed>>,
         \A a \in Addresses : row'[a].serial = row[a].serial /\ row'[a].pick = row[a].pick
  PROVE  PickMatches'
  BY DEF PickMatches

LEMMA NextSafe ==
  ASSUME IInv, [Next]_vars
  PROVE  IInv'
<1>0. TypeOK /\ PickMatches /\ TypeOK'
  BY NextType DEF IInv
<1>. SUFFICES PickMatches'
  BY <1>0 DEF IInv
<1>1. CASE UNCHANGED vars
  BY <1>0, <1>1 DEF vars, PickMatches
<1>2. ASSUME NEW b \in Addresses, StepAt(b) PROVE PickMatches'
  <2>1. CASE Persist(b)
    BY <2>1, UpsertSafe DEF Persist
  <2>2. CASE WriteBack(b)
    BY <2>2, UpsertSafe DEF WriteBack
  <2>3. CASE CacheDrives(b) \/ SaveDrives(b)
    BY <1>0, <2>3, SafeFrame DEF CacheDrives, SaveDrives, TypeOK, Row
  <2>4. CASE CaptureTls(b)
    <3>1. row' = row \/ row' = [row EXCEPT ![b].pin = cable[b]]
      BY <2>4 DEF CaptureTls
    <3>2. \A a \in Addresses : row'[a].serial = row[a].serial /\ row'[a].pick = row[a].pick
      BY <1>0, <3>1 DEF TypeOK, Row
    <3>. QED  BY <1>0, <2>4, <3>2, SafeFrame DEF CaptureTls
  <2>5. CASE UNCHANGED <<row, pickedFor, lapsed>>
    BY <1>0, <2>5, SafeFrame
  <2>6. CASE PinVendor(b)
    <3>1. \A a \in Addresses : a # b => row'[a] = row[a] /\ pickedFor'[a] = pickedFor[a]
                                        /\ (a \in lapsed' <=> a \in lapsed)
      BY <1>0, <2>6 DEF PinVendor, TypeOK
    <3>2. row'[b].serial = row[b].serial /\ pickedFor'[b] = row[b].serial
          /\ (row[b].serial = None => b \in lapsed')
      BY <1>0, <2>6 DEF PinVendor, TypeOK, Row
    <3>. QED  BY <1>0, <3>1, <3>2 DEF PickMatches
  <2>7. CASE UnpinVendor(b)
    <3>1. row'[b].pick = FALSE /\ \A a \in Addresses : a # b => row'[a] = row[a]
      BY <1>0, <2>7 DEF UnpinVendor, TypeOK, Row
    <3>. QED  BY <1>0, <2>7, <3>1 DEF UnpinVendor, PickMatches
  <2>8. CASE Remove(b)
    <3>1. row'[b].pick = FALSE /\ \A a \in Addresses : a # b => row'[a] = row[a]
      BY <1>0, <2>8 DEF Remove, NoRow, TypeOK
    <3>. QED  BY <1>0, <2>8, <3>1 DEF Remove, PickMatches
  <2>. QED
    BY <1>2, <2>1, <2>2, <2>3, <2>4, <2>5, <2>6, <2>7, <2>8
       DEF StepAt, Scanning, Acting, Operator, Probe, ReadRow, GiveUp, ReadDrives, Recable
<1>. QED  BY <1>1, <1>2, NextIsStepAt

\* A vendor pinned for one machine is never found on the row of another
\* (servers_repo.py:71-80) unless an upsert without a serial number came between,
\* however the writers of the row interleave and whatever they held.
THEOREM PickFits == Spec => []PickFitsRow
<1>1. Init => IInv
  BY InitType DEF Init, IInv, PickMatches, NoRow
<1>2. IInv /\ [Next]_vars => IInv'
  BY NextSafe
<1>3. IInv => PickFitsRow
  BY DEF IInv, PickMatches, PickFitsRow
<1>. QED  BY <1>1, <1>2, <1>3, PTL DEF Spec

=============================================================================
