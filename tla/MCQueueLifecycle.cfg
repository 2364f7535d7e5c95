\* Two workers of one service, one topic; three faults.
SPECIFICATION FairSpec
CONSTANTS
  w1 = w1
  w2 = w2
  t1 = t1
  t2 = t2
  Workers = {w1, w2}
  Topics = {t1}
  MaxFaults = 3
INVARIANTS
  TypeOK
  RedriveAttached
PROPERTIES
  StopIsFinal
  Recreated
