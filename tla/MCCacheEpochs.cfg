\* One process, two keys and room for one epoch.
SPECIFICATION FairSpec
CONSTANTS
  api = api
  worker = worker
  k1 = k1
  k2 = k2
  Procs = {api}
  Keys = {k1, k2}
  Requested = {0, 9}
  Infinite = 9
  MinTtl = 1
  MaxTtl = 2
  MaxTracked = 1
  MaxLoads = 2
  MaxWrites = 1
  MaxFaults = 1
INVARIANTS
  TypeOK
  StaleExplained
  JoinedIsFresh
PROPERTIES
  Heals
