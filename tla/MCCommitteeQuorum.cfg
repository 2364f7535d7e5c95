\* Two voters, committees of two and three, every rule, two workers; one rollback.
SPECIFICATION FairSpec
CONSTANTS
  v1 = v1
  v2 = v2
  w1 = w1
  w2 = w2
  Voters = {v1, v2}
  Workers = {w1, w2}
  Sizes = {2, 3}
  MaxCommands = 3
  MaxFaults = 1
INVARIANTS
  TypeOK
  AnnouncedOnce
  VerdictIsTrue
  ReadsAgree
PROPERTIES
  EveryVoteAnswered
  ImplementsBallot
CHECK_DEADLOCK FALSE
