\* Requests one after the other, nothing fails; t1 plays t2 and t3, and the
\* owners of the first match keep submitting.
CONSTANTS
  t1 = t1
  t2 = t2
  t3 = t3
  Team = {t1, t2, t3}
  Match = {1, 2}
  Sides <- ThreeTeams
  Score = {0, 1}
  Request = {r1}
  Diligent = {1}
  Viewed = {}
  ManyCopies = 1
  MaxGames = 3
  MaxFaults = 0
SPECIFICATION FairSpec
INVARIANTS
  StandingsMatchResults
PROPERTIES
  ImplementsLeague
  ReportInTurnCompletes
