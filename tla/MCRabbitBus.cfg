\* Two services on one topic, one message, two attempts; two faults.
SPECIFICATION FairSpec
CONSTANTS
  s1 = s1
  s2 = s2
  m1 = m1
  Services = {s1, s2}
  Msgs = {m1}
  MaxRetries = 2
  MaxFaults = 2
INVARIANTS
  TypeOK
  NothingVanishes
  AttemptsBounded
PROPERTIES
  Settles
CHECK_DEADLOCK FALSE
