---------------------------- MODULE MCDiskChoice ----------------------------
(***************************************************************************)
(* DiskChoice for TLC: three drives that report bay 3, an NVMe drive that  *)
(* is listed twice and that the host calls otherwise than the BMC, drives  *)
(* without a serial number, one of them in slot 13, and an empty bay.      *)
(***************************************************************************)
EXTENDS DiskChoice

MCDrives == {"a", "b", "c", "nvme", "sd", "ghost"}

Record(bay, size, label, serial, solid) ==
    [bay |-> bay, size |-> size, sizeLabel |-> label, serial |-> serial, tail |-> serial,
     nvme |-> solid, ssd |-> solid, m2 |-> FALSE, model |-> "m", slot |-> bay]

MCDisk == [d \in MCDrives |->
    CASE d = "a"      -> Record(3, 600, 1, 1, FALSE)
      [] d = "b"      -> Record(3, 600, 1, 2, FALSE)
      [] d = "c"      -> Record(3, 600, 1, 0, FALSE)
      [] d = "nvme"   -> Record(1, 960, 2, 4, TRUE)
      [] d = "sd"     -> [Record(2, 480, 3, 0, TRUE) EXCEPT !.slot = 13]
      [] d = "ghost"  -> Record(5, 0, 5, 0, TRUE)]

MCListing == <<<<"c1", "a">>, <<"c1", "nvme">>, <<"c1", "sd">>, <<"c1", "ghost">>,
               <<"c2", "b">>, <<"c2", "c">>, <<"c2", "nvme">>>>
MCKernel == [b \in {1, 2} |-> IF b = 1 THEN "a" ELSE "sd"]

Kind(k) == [kind |-> k, arg |-> 0, tolerance |-> 0]
MCStrategies ==
    {Kind(k) : k \in {"manual_per_host", "first_nvme", "first_m2", "smallest_ssd",
                      "largest_disk", "smallest_disk"}}
    \cup {[kind |-> "by_size", arg |-> 600, tolerance |-> 10],
          [kind |-> "by_model", arg |-> "m", tolerance |-> 0],
          [kind |-> "by_slot", arg |-> 3, tolerance |-> 0],
          [kind |-> "by_serial", arg |-> 2, tolerance |-> 0]}
=============================================================================
