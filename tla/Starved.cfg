\* The scheduler passes every cursor on to the next job.
CONSTANTS
  w1 = w1
  w2 = w2
  k1 = k1
  x1 = x1
  p1 = p1
  Workers = {w1, w2}
  Runners = {w1}
  Clerks = {w2}
  Deliveries = {1, 2}
  Uses <- JobCases
  Keys = {k1}
  Refs = {x1}
  PlanIds = {p1}
  PlanNo <- PlansReversed
  Budgets = {1}
  BatchSize = 2
  Mail <- Post
  Restarts = FALSE
  MaxAttempts = 2
  MaxOutages = 1
  None = None
SPECIFICATION FairSpec
PROPERTIES
  ScheduledIsAttempted
