\* Two facts of one source record.
CONSTANTS
  f1 = f1
  f2 = f2
  f3 = f3
  f4 = f4
  c1 = c1
  w1 = w1
  w2 = w2
  Workers = {w1}
  Facts = {f1, f2}
  Commands = {}
  Malformed = {}
  PublicationOf <- Sharing
  KeyOf <- Reusing
  DecisionOf <- Deciding
  BatchSize = 2
  MaxOutages = 0
  None = None
SPECIFICATION FairSpec
INVARIANTS
  RejectedIsCommitted
