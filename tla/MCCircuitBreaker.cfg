\* Three overlapping calls, a threshold of two, a window of two ticks; five faults.
SPECIFICATION FairSpec
CONSTANTS
  k1 = k1
  k2 = k2
  k3 = k3
  Calls = {k1, k2, k3}
  Threshold = 2
  Recovery = 2
  MaxFaults = 5
INVARIANTS
  TypeOK
  OneProbe
PROPERTIES
  StaleIsIgnored
  ClosesForGood
