\* Requests in sequence, owners that keep submitting.
CONSTANTS
  t1 = t1
  t2 = t2
  t3 = t3
  Team = {t1, t2}
  Match = {1}
  Sides <- OneFixture
  Score = {0}
  Request = {r1}
  Diligent = {1}
  Viewed = {}
  ManyCopies = 1
  MaxGames = 3
  MaxFaults = 0
SPECIFICATION FairSpec
PROPERTY
  RegisteredMatchCompletes
CHECK_DEADLOCK FALSE
