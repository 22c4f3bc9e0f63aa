SPECIFICATION Spec
CONSTANTS
  NoJob = NoJob
  Jobs = {j1, j2}
  Servers = {s1, s2}
  Widths = {2}
  OnePage = TRUE
SYMMETRY Symmetry
INVARIANT WaitsForInstaller
