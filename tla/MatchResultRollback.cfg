\* Requests in sequence, one failure.
CONSTANTS
  t1 = t1
  t2 = t2
  t3 = t3
  Team = {t1, t2}
  Match = {1, 2}
  Sides <- TwoFixtures
  Score = {0}
  Request = {r1}
  Diligent = {}
  Viewed = {}
  ManyCopies = 1
  MaxGames = 3
  MaxFaults = 1
SPECIFICATION Spec
INVARIANT
  RollbackLeavesNoTrace
CHECK_DEADLOCK FALSE
