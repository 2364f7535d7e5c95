\* One worker, a good copy, a poison copy and an unparseable one; one fault.
SPECIFICATION FairSpec
CONSTANTS
  c1 = c1
  c2 = c2
  m1 = m1
  m2 = m2
  m3 = m3
  NoCopy = NoCopy
  Commands = {c1, c2}
  Copies <- Mixed
  CommandOf <- MixedOf
  Malformed = {m3}
  Anonymous = {m3}
  Broken = {c2}
  Refusable = {}
  Workers = {w1}
  NumHandlers = 1
  Hooks = {outcome}
  Guarded = {}
  MaxReceive = 2
  MaxBatch = 2
  Redrive = FALSE
  MaxFaults = 1
CHECK_DEADLOCK FALSE
PROPERTIES
  EventuallySettled
