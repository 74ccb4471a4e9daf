\* Two workers and every use case: any two of them race.
CONSTANTS
  w1 = w1
  w2 = w2
  d1 = d1
  d2 = d2
  k1 = k1
  k2 = k2
  x1 = x1
  x2 = x2
  p1 = p1
  p2 = p2
  Workers = {w1, w2}
  Deliveries = {d1}
  Uses <- AllUses
  Keys = {k1}
  Refs = {x1}
  PlanIds = {p1}
  Budgets = {1}
  MaxAttempts = 2
  MaxOutages = 0
  None = None
SPECIFICATION Spec
INVARIANTS
  TypeOK
  HistoryExplainsStatus
  AttemptsAreSettled
  DispatchesAreJournalled
  CompletedIsAcked
  DeadLetteredHasEntry
SYMMETRY WorkerAndData
