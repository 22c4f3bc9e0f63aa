--------------------------- MODULE CapabilityWalk ---------------------------
(***************************************************************************)
(* What RedfishCapabilityDiscoverer makes of a BMC's resource tree         *)
(* (src/core/plugins_api/capability_discoverer.py), and the choices the    *)
(* plugins make from the map: the firmware bank a flash is aimed at, the   *)
(* group of GPU components, the reset type.  A walk is a sequence of GETs  *)
(* each of which may fail without stopping it, so the map is a function of *)
(* the tree and of the set of resources that were lost.                    *)
(*                                                                         *)
(* A member of FirmwareInventory is named by the last segment of its URI.  *)
(* The code looks for substrings in the lower-cased name; Tokens gives the *)
(* substrings each name contains.                                          *)
(***************************************************************************)
EXTENDS Naturals, Sequences, FiniteSets

CONSTANTS
    Leaves,     \* names of firmware inventory members
    Tokens,     \* Tokens[l]: the substrings the code looks for that l contains
    Lex,        \* Lex[l]: l's place in the lexical order of names
    Place,      \* Place[l]: l's place in the BMC's list of members
    LaterPage,  \* members listed after Members@odata.nextLink
    Slots,      \* virtual media slots of the BMC
    NoLeaf      \* None

ASSUME LeavesAssumption ==
    /\ Tokens \in [Leaves -> SUBSET STRING]
    /\ Lex \in [Leaves -> Nat] /\ Place \in [Leaves -> Nat]
    /\ LaterPage \subseteq Leaves
    /\ NoLeaf \notin Leaves

-----------------------------------------------------------------------------
(* Classification of a name.                                               *)

BiosTokens == {"bios", "uefi"}
BmcTokens == {"bmc", "idrac", "ilo", "xcc", "manager"}
HgxTokens == {"hgx", "hmc", "gpu", "erot", "inforom"}
BannedBankLeaves ==
    {"backup", "golden", "staging", "recovery", "history", "image2", "image_2"}

\* BIOS is looked for first: the first class a name has a token of is its class.
ClassifyComponent(l) ==
    IF Tokens[l] \cap BiosTokens # {} THEN "bios"
    ELSE IF Tokens[l] \cap BmcTokens # {} THEN "bmc"
    ELSE "other"

\* Mutation: AMI's second image counts as active.
IsActiveBankImage2(l) == Tokens[l] \cap (BannedBankLeaves \ {"image2", "image_2"}) = {}

IsActiveBank(l) == Tokens[l] \cap BannedBankLeaves = {}

IsHgxMember(l) == Tokens[l] \cap HgxTokens # {}

BiosCandidates == <<"BIOS", "Bios", "SystemBios", "SystemBIOS", "UEFI", "Uefi",
                    "BIOSImage1", "BIOSImage_1">>
BmcCandidates == <<"BMC", "BMC-Primary", "BMCActive", "BMC_Active", "BMCImage1",
                   "BMCImage_1", "iDRAC", "iLO", "iLO5", "iLO6", "XCC", "Manager">>

\* No name that is looked for as it stands contains a banned substring.
ASSUME CandidatesAssumption ==
    \A l \in Leaves :
        \/ \E i \in DOMAIN BiosCandidates : l = BiosCandidates[i]
        \/ \E i \in DOMAIN BmcCandidates : l = BmcCandidates[i]
        => IsActiveBank(l)

-----------------------------------------------------------------------------
(* The choice of a bank.                                                   *)

FirstBy(order, S) == CHOOSE l \in S : \A k \in S : order[l] <= order[k]

\* The first candidate that is in S, else the first of S.
Preferred(candidates, order, S) ==
    LET named == {i \in DOMAIN candidates : candidates[i] \in S}
    IN  IF named = {} THEN FirstBy(order, S)
        ELSE candidates[CHOOSE i \in named : \A j \in named : i <= j]

ActiveOf(class, members) ==
    {l \in members : ClassifyComponent(l) = class /\ IsActiveBank(l)}

PickActive(class, candidates, members) ==
    LET active == ActiveOf(class, members)
    IN  IF active = {} THEN NoLeaf ELSE Preferred(candidates, Lex, active)

\* _resolve_firmware_target without a map: an exact candidate is taken as it
\* is, other names must not be a rollback bank.
PickInline(class, candidates, members) ==
    LET exact == {candidates[i] : i \in DOMAIN candidates}
        tokens == IF class = "bios" THEN BiosTokens ELSE BmcTokens
        fit == {l \in members : l \in exact \/ (Tokens[l] \cap tokens # {} /\ IsActiveBank(l))}
    IN  IF fit = {} THEN NoLeaf ELSE Preferred(candidates, Place, fit)

\* _select_hgx_target_group: a file named after one component goes to it, a
\* bundle to all, anything else to the first.  `named' is the member whose name
\* the file's name contains, the longest of them.
SelectHgxTargetGroup(hgx, named, bundle) ==
    IF named \in hgx THEN {named}
    ELSE IF bundle THEN hgx
    ELSE {FirstBy(Place, hgx)}

\* Mutation: the first type the BMC lists when it lists nothing wanted.
ChooseResetTypeFirst(allowed, priority, fallback) ==
    LET offered == {i \in DOMAIN priority : priority[i] \in allowed}
    IN  IF allowed = {} THEN fallback
        ELSE IF offered = {} THEN CHOOSE type \in allowed : TRUE
        ELSE priority[CHOOSE i \in offered : \A j \in offered : i <= j]

\* _choose_reset_type: the first preference the BMC advertises; the fallback
\* when it advertises nothing, or nothing of the list.
ChooseResetType(allowed, priority, fallback) ==
    LET offered == {i \in DOMAIN priority : priority[i] \in allowed}
    IN  IF offered = {} THEN fallback
        ELSE priority[CHOOSE i \in offered : \A j \in offered : i <= j]

-----------------------------------------------------------------------------
(* The walk.  A tree says what the BMC exposes; `lost' holds the resources  *)
(* whose GET failed.  Only the service root may sink the walk.             *)

Trees == [push : {"multipart", "http", "none"}, members : SUBSET Leaves,
          system : BOOLEAN, resets : SUBSET STRING, resetInfo : BOOLEAN,
          manager : BOOLEAN, inserted : [Slots -> BOOLEAN]]

NoMap == [push |-> "none", bios |-> NoLeaf, bmc |-> NoLeaf, hgx |-> {},
          reset |-> FALSE, resets |-> {}, slots |-> {}, inserted |-> {},
          walked |-> FALSE]

\* A page that is lost ends the listing.
Listed(tree, lost) ==
    IF "inventory" \in lost THEN {}
    ELSE tree.members \ (IF "page" \in lost THEN LaterPage ELSE {})

WalkFirmwareInventory(tree, lost) == Listed(tree, lost) \ lost

HgxMembers(members) == {l \in members : IsHgxMember(l) /\ IsActiveBank(l)}

WalkSystems(tree, lost) == tree.system /\ lost \cap {"systems", "system"} = {}

\* AllowableValues stand on the action or in an ActionInfo of their own.
AllowedResetTypes(tree, lost) ==
    IF ~WalkSystems(tree, lost) \/ (tree.resetInfo /\ "resetInfo" \in lost)
    THEN {} ELSE tree.resets

WalkVirtualMedia(tree, lost) ==
    IF tree.manager /\ lost \cap {"managers", "manager", "media"} = {}
    THEN Slots \ lost ELSE {}

Walk(tree, lost) ==
    LET us == "update" \notin lost
        members == IF us THEN WalkFirmwareInventory(tree, lost) ELSE {}
        slots == WalkVirtualMedia(tree, lost)
    IN  IF "root" \in lost THEN NoMap
        ELSE [push |-> IF us THEN tree.push ELSE "none",
              bios |-> PickActive("bios", BiosCandidates, members),
              bmc |-> PickActive("bmc", BmcCandidates, members),
              hgx |-> HgxMembers(members),
              reset |-> WalkSystems(tree, lost),
              resets |-> AllowedResetTypes(tree, lost),
              slots |-> slots,
              inserted |-> {s \in slots : tree.inserted[s]},
              walked |-> TRUE]
=============================================================================
