\* Two requests at a time, one of which may fail; two pages are read.
CONSTANTS
  t1 = t1
  t2 = t2
  t3 = t3
  p1 = 1
  p2 = 2
  q1 = 3
  p3 = 4
  u1 = u1
  u2 = u2
  u3 = u3
  Team = {t1, t2, t3}
  Match = {1, 2}
  Member = {1, 2, 3, 4}
  TeamOf <- TheTeamOf
  UserOf <- TheUserOf
  TopPlaces = 1
  WarnedGames = 1
  WarnedPlaces = 1
  CardDays = 2
  Profiled = {u1, u3}
  Take = 1
  Sides <- TheSides
  Lineups <- TheLineups
  Founded = {t1, t2}
  Past <- ThePast
  Request = {r1, r2}
  Open = {2}
  Visited <- TheVisited
  MaxLog = 4
  MaxFails = 1
SPECIFICATION FairSpec
INVARIANTS
  TypeOK
  OutdatedOnlyByOvertaking
  PagesLapse
  PagesAddUp
PROPERTY
  OutdatedPageGoes
CHECK_DEADLOCK FALSE
