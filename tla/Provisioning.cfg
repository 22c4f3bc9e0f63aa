SPECIFICATION Spec
CONSTANTS
  NoJob = NoJob
  Jobs = {j1, j2}
  Servers = {s1, s2}
  Widths = {0, 2}
  OnePage = TRUE
SYMMETRY Symmetry
CONSTRAINTS
  FewRows
  WideAlone
  SmallPair
INVARIANTS
  TypeOK
  BatchBounded
  CancelBelongsToJob
  ConfigsOnlyWhileInstalling
  TouchedOnlyWithDisk
  NothingStranded
