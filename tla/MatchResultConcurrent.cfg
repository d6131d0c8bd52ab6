\* Two requests at a time, one of which may fail; one match,
\* the page of one team visited.  The bounds let the system stop.
CONSTANTS
  t1 = t1
  t2 = t2
  t3 = t3
  Team = {t1, t2}
  Match = {1}
  Sides <- OneFixture
  Score = {0, 1}
  Request = {r1, r2}
  Diligent = {}
  Viewed = {t1}
  ManyCopies = 1
  MaxGames = 1
  MaxFaults = 1
SYMMETRY RequestSymmetry
SPECIFICATION Spec
INVARIANTS
  TypeOK
  ScoredResultHasPlayers
  OwnWriteDropsPage
  DuplicatesOnlyByRace
PROPERTIES
  StandingsNeedReport
CHECK_DEADLOCK FALSE
