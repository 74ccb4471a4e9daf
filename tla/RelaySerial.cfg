\* One worker; requests share source records and events.
CONSTANTS
  f1 = f1
  f2 = f2
  f3 = f3
  f4 = f4
  c1 = c1
  w1 = w1
  w2 = w2
  Workers = {w1}
  Facts = {f1, f2, f3, f4}
  Commands = {c1}
  Malformed = {f4}
  PublicationOf <- Sharing
  KeyOf <- Reusing
  DecisionOf <- Deciding
  BatchSize = 2
  MaxOutages = 2
  None = None
SPECIFICATION FairSpec
INVARIANTS
  DecidedOnce
  AcceptedIsCommitted
PROPERTIES
  LedgerSpec
  FactsAreAcked
