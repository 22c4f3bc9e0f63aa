SPECIFICATION UiSpec
CONSTANTS
  NoJob = NoJob
  Jobs = {j1, j2}
  Servers = {s1, s2}
  ConcurrencyRequests = {0}
  PluginStates = {}
  MaxWriteFaults = 0
  MaxTasks = 2
INVARIANTS
  StartOfferedOnlyWhenIdle
  CancelHitsItsJob
PROPERTIES
  KeepsLedger
  JobSettles
  PageBecomesFree
