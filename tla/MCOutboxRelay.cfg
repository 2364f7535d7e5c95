\* Two workers drain an audit row and a younger plain row, one row or both in a cycle,
\* both in one wave; a backoff map of one entry; one fault.
SPECIFICATION FairSpec
CONSTANTS
  audit = audit
  plain = plain
  Rows <- MCRows
  CreatedAt <- MCCreatedAt
  Required = {audit}
  Relays = {r1, r2}
  Batches = {1, 2}
  Wave = 2
  BackoffBase = 2
  BackoffMax = 3
  MaxTracked = 1
  MaxFaults = 1
INVARIANTS
  TypeOK
  PublishedWasAccepted
  RequiredNeverVoid
  DuplicatesExplained
PROPERTY EventuallyPublished
