---------------------------- MODULE MCFlashFlow ----------------------------
(***************************************************************************)
(* FlashFlow for TLC: a BMC with the host's banks, a rollback bank and two *)
(* GPU components, one of which is called BMC.                             *)
(***************************************************************************)
EXTENDS FlashFlow

MCLeaves == {"BIOS", "BMC", "BMCImage2", "HGX_FW_BMC_0", "HGX_FW_GPU_0"}
MCTokens == [l \in MCLeaves |->
    CASE l = "BIOS"         -> {"bios"}
      [] l = "BMC"          -> {"bmc"}
      [] l = "BMCImage2"    -> {"bmc", "image2"}
      [] l = "HGX_FW_BMC_0" -> {"bmc", "hgx"}
      [] l = "HGX_FW_GPU_0" -> {"gpu", "hgx"}]
MCSpelled == [l \in MCLeaves |->
    CASE l = "BIOS"                     -> {"BIOS"}
      [] l \in {"BMC", "HGX_FW_BMC_0"} -> {"BMC"}
      [] l = "BMCImage2"                -> {"BMC", "Image2"}
      [] l = "HGX_FW_GPU_0"             -> {}]
MCLex == [l \in MCLeaves |->
    CASE l = "BIOS" -> 1 [] l = "BMC" -> 2 [] l = "BMCImage2" -> 3
      [] l = "HGX_FW_BMC_0" -> 4 [] l = "HGX_FW_GPU_0" -> 5]

MCImages == {"bmcImage", "biosImage", "hgxImage"}
MCTargetOf == [i \in MCImages |->
    CASE i = "bmcImage" -> "BMC" [] i = "biosImage" -> "BIOS" [] i = "hgxImage" -> "HGX"]
MCNamedAfter == [i \in MCImages |-> IF i = "hgxImage" THEN "HGX_FW_GPU_0" ELSE None]

Tree(push, members) ==
    [push |-> push, members |-> members, system |-> TRUE, resets |-> {},
     resetInfo |-> FALSE, manager |-> FALSE, inserted |-> <<>>]
Host == {"BIOS", "BMC", "BMCImage2"}
MCMachines ==
    {[vendor |-> v, tree |-> Tree("multipart", MCLeaves)] : v \in {"generic", "dell", "supermicro"}}
    \cup {[vendor |-> v, tree |-> Tree("http", Host)] : v \in {"generic", "hpe"}}
    \cup {[vendor |-> v, tree |-> Tree("multipart", Host)] : v \in {"hpe"}}

\* Bounds: the repository moves under the first flash only, and only the image
\* that is flashed does.
Moved == {i \in Images : i \notin rows \/ blob[i] # "intact"}
StoreNearFlash ==
    /\ Cardinality(Moved) <= 1 /\ (flash.image # None => Moved \subseteq {flash.image})
    /\ n > 1 => Moved = {} /\ deleting = {} /\ \A w \in Importers : importer[w] = NoImport
=============================================================================
