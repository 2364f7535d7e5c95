\* Two workers, two copies of one command, two handlers; two faults.
SPECIFICATION Spec
CONSTANTS
  c1 = c1
  c2 = c2
  m1 = m1
  m2 = m2
  m3 = m3
  NoCopy = NoCopy
  Commands = {c1}
  Copies <- Twice
  CommandOf <- TwiceOf
  Malformed = {}
  Anonymous = {}
  Broken = {}
  Refusable = {c1}
  Workers = {w1, w2}
  NumHandlers = 2
  Hooks = {outcome, result}
  Guarded = {result}
  MaxReceive = 2
  MaxBatch = 1
  Redrive = FALSE
  MaxFaults = 2
CHECK_DEADLOCK FALSE
INVARIANT FailedIsKept
