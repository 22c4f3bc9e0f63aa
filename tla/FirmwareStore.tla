---------------------------- MODULE FirmwareStore ----------------------------
(***************************************************************************)
(* The firmware repository: rows of the table `firmware' and the files     *)
(* under firmware/<sha256>/ (src/core/services/firmware_service.py).       *)
(* Imports run on worker threads, deletions on the page's thread; neither  *)
(* holds a lock over the file and the row.                                 *)
(***************************************************************************)
EXTENDS FiniteSets

CONSTANTS
    Images,     \* firmware images, by content
    Importers   \* worker threads that may be importing at one time

VARIABLES
    rows,       \* images that have a row
    blob,       \* blob[i]: what stands at firmware/<sha256 of i>/
    importer,   \* importer[w]: the image w is importing and how far it is
    deleting    \* images whose row is gone and whose file is about to go

storeVars == <<rows, blob, importer, deleting>>

NoImport == [pc |-> "idle"]
Imports == {NoImport} \cup [pc : {"copying", "copied"}, image : Images]

Copying(i) == {w \in Importers : importer[w] # NoImport /\ importer[w].pc = "copying"
                                                        /\ importer[w].image = i}

StoreTypeOK ==
    /\ rows \subseteq Images
    /\ blob \in [Images -> {"absent", "partial", "intact"}]
    /\ importer \in [Importers -> Imports]
    /\ deleting \subseteq Images

StoreInit ==
    /\ rows \in SUBSET Images
    /\ blob = [i \in Images |-> IF i \in rows THEN "intact" ELSE "absent"]
    /\ importer = [w \in Importers |-> NoImport]
    /\ deleting = {}

\* exists_sha says no; copy2 truncates what is there.
ImportFile(w, i) ==
    /\ importer[w] = NoImport
    /\ i \notin rows
    /\ importer' = [importer EXCEPT ![w] = [pc |-> "copying", image |-> i]]
    /\ blob' = [blob EXCEPT ![i] = "partial"]
    /\ UNCHANGED <<rows, deleting>>

\* Another copy of the same content may still be writing the same file.
CopyEnds(w) ==
    /\ importer[w] # NoImport
    /\ importer[w].pc = "copying"
    /\ LET i == importer[w].image
       IN  blob' = [blob EXCEPT ![i] =
                        IF @ = "partial" /\ Copying(i) = {w} THEN "intact" ELSE @]
    /\ importer' = [importer EXCEPT ![w].pc = "copied"]
    /\ UNCHANGED <<rows, deleting>>

\* INSERT ... ON CONFLICT(sha256) DO NOTHING.
AddRow(w) ==
    /\ importer[w] # NoImport
    /\ importer[w].pc = "copied"
    /\ rows' = rows \cup {importer[w].image}
    /\ importer' = [importer EXCEPT ![w] = NoImport]
    /\ UNCHANGED <<blob, deleting>>

\* The page deletes one image at a time: the row first, then the file.
DeleteRow(i) ==
    /\ deleting = {}
    /\ i \in rows
    /\ rows' = rows \ {i}
    /\ deleting' = {i}
    /\ UNCHANGED <<blob, importer>>

\* unlink fails while somebody has the file open; the error is swallowed.
Unlink(i) ==
    /\ i \in deleting
    /\ deleting' = {}
    /\ \/ blob' = [blob EXCEPT ![i] = "absent"]
       \/ UNCHANGED blob
    /\ UNCHANGED <<rows, importer>>

\* A crash leaves files as they are.
StoreCrash ==
    /\ importer' = [w \in Importers |-> NoImport]
    /\ deleting' = {}
    /\ UNCHANGED <<rows, blob>>

StoreNext ==
    \/ \E w \in Importers, i \in Images : ImportFile(w, i)
    \/ \E w \in Importers : CopyEnds(w) \/ AddRow(w)
    \/ \E i \in Images : DeleteRow(i) \/ Unlink(i)
=============================================================================
