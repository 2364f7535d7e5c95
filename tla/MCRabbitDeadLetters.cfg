\* Whose messages a dead-letter queue holds, without faults.
SPECIFICATION Spec
CONSTANTS
  s1 = s1
  s2 = s2
  m1 = m1
  Services = {s1, s2}
  Msgs = {m1}
  MaxRetries = 2
  MaxFaults = 0
INVARIANT
  DeadLettersAreOwn
CHECK_DEADLOCK FALSE
