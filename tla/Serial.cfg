\* One worker and every use case: requests are handled one after the other.
CONSTANTS
  w1 = w1
  w2 = w2
  d1 = d1
  d2 = d2
  k1 = k1
  k2 = k2
  x1 = x1
  x2 = x2
  p1 = p1
  p2 = p2
  Workers = {w1}
  Deliveries = {d1}
  Uses <- AllUses
  Keys = {k1, k2}
  Refs = {x1}
  PlanIds = {p1, p2}
  Budgets = {1, 2}
  MaxAttempts = 3
  MaxOutages = 1
  None = None
SPECIFICATION Spec
INVARIANTS
  OneActivePlan
  AnchorsAnswerTruly
  NoNeedlessDispatch
  AttemptsArePaidFor
PROPERTIES
  WritesAreVersioned
  AnswersAreForever
  JournalSpec
SYMMETRY DataSymmetry
