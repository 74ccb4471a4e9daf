\* A reader queries a delivery that one worker moves.
CONSTANTS
  w1 = w1
  d1 = d1
  k1 = k1
  x1 = x1
  p1 = p1
  r1 = r1
  Workers = {w1}
  Deliveries = {d1}
  Uses <- Watched
  Keys = {k1}
  Refs = {x1}
  PlanIds = {p1}
  Budgets = {1}
  MaxAttempts = 2
  MaxOutages = 1
  Readers = {r1}
  Limit = 2
  Interests <- OneEach
  MaxAccesses = 3
  MaxRefreshed = 2
  None = None
SPECIFICATION OutputSpec
INVARIANTS
  CompletedViewHasAck
  ViewIsNotBehind
  PagesFollowHistory
  DisclosureIsTraced
