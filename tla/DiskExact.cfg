SPECIFICATION Spec
CONSTANTS
  None = None
  Drives <- MCDrives
  Disk <- MCDisk
  Listing <- MCListing
  Controllers = {"c1", "c2"}
  Handles = {1, 2}
  Kernel <- MCKernel
  Swappable = {"a"}
  Strategies <- MCStrategies
INVARIANT ThisExactDrive
