SPECIFICATION Spec
CONSTANTS
  NoJob = NoJob
  Jobs = {j1, j2}
  Servers = {s1, s2}
  ConcurrencyRequests = {0, 2}
  PluginStates = {"flashing"}
  MaxWriteFaults = 2
SYMMETRY Symmetry
CONSTRAINTS
  FewRows
  WideAlone
  FaultsAlone
INVARIANTS
  TypeOK
  ConcurrencyBounded
  NoStrandedJob
  NoStrandedTask
  ClosedAfterTasks
  VerdictNeverFlatters
PROPERTIES
  CancelledTaskNeverStarts
  ResultsAreFinal
  LaunchClosesAll
