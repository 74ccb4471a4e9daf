\* One worker and one reader; the dead letters share a replay identifier.
CONSTANTS
  d1 = d1
  d2 = d2
  a1 = a1
  a2 = a2
  Workers = {w1}
  Readers = {r1}
  DeadLetters = {d1, d2}
  Approvals = {a1, a2}
  ReplayIdOf <- Colliding
  Commands <- Asked
  Filters <- Asking
  PageSize = 4
  MaxRejected = 1
  MaxOutages = 1
  None = None
SPECIFICATION FairSpec
INVARIANTS
  TypeOK
  ReadyAgrees
  PagesFollowTrail
PROPERTIES
  ReplayLedgerSpec
  TrailIsRead
