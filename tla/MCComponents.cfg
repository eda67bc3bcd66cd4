CONSTANTS
  Readers = {r1, r2}
  Sources = {a}
  Modules = {h1, h2}
  MaxPaths = 2
  Absent = Absent
  Null = Null
  Monitors = {t1, t2}
  Interfaces = 2
  NoHandle = NoHandle
  WordSize = 16
  FirstSize = 2
  Chunks = {1, 6}
  MaxImage = 8
  LoadedSets <- MCLoadedSets
SPECIFICATION FairSpec
INVARIANTS ModulesAccounted OneMonitorWindow BufferHoldsImage ClipboardGivenBack
PROPERTIES DisabledThreadsEnd DispatcherReturns
