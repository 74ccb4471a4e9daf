\* Two workers publish batches that share events and keys.
CONSTANTS
  e1 = e1
  e2 = e2
  e3 = e3
  e4 = e4
  bad = bad
  Workers = {w1, w2}
  Events = {e1, e2, e3, e4, bad}
  Malformed = {bad}
  KeyOf <- Sharing
  Batches <- Overlapping
  MaxOutages = 2
  None = None
SPECIFICATION FairSpec
INVARIANTS
  PublishedIsFinal
  ConfirmedIsPublished
  BatchOrderIsKept
  InvalidBatchIsHarmless
PROPERTIES
  LogSpec
  FailedBatchIsConfirmed
