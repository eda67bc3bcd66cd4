CONSTANTS
  Readers = {r1, r2}
  Sources = {a}
  Modules = {h1, h2}
  MaxPaths = 1
  Absent = Absent
  Null = Null
SPECIFICATION SysLogSpec
INVARIANT CachedModuleIsLoaded
