\* Two workers; every request names a publication of its own.
CONSTANTS
  f1 = f1
  f2 = f2
  f3 = f3
  f4 = f4
  c1 = c1
  w1 = w1
  w2 = w2
  Workers = {w1, w2}
  Facts = {f1, f2, f3}
  Commands = {}
  Malformed = {}
  PublicationOf <- Owning
  KeyOf <- Reusing
  DecisionOf <- Deciding
  BatchSize = 2
  MaxOutages = 1
  None = None
SPECIFICATION Spec
SYMMETRY WorkerSymmetry
INVARIANTS
  TypeOK
  AckedIsAnswered
  CursorPassesAcked
  AnswersStand
