\* Two services, a publisher that requires subscribers beside one that does not, both
\* publishing again and again; a TTL configured below the recheck delay; two faults.
SPECIFICATION FairSpec
CONSTANTS
  audit = audit
  plain = plain
  s1 = s1
  s2 = s2
  Services = {s1, s2}
  Calls = {audit, plain}
  Required = {audit}
  Ttl = 1
  Recheck = 2
  MaxFaults = 2
INVARIANTS
  TypeOK
  NobodySkipped
PROPERTIES
  EventuallyKnown
  ImplementsPublish
