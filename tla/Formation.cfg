\* Three matches, two saves at a time, a member of the team and one of another.
CONSTANTS
  NumMatches = 3
  Shape = {f1, f2}
  NoShape = NoShape
  Player = {p1, p2}
  p1 = p1
  p2 = p2
  f1 = f1
  f2 = f2
  Offered <- TheOffered
  Squad = {p1}
  Saver = {r1, r2}
  MaxGoals = 1
  MaxLineups = 3
SPECIFICATION FormationSpec
SYMMETRY SaverSymmetry
INVARIANTS
  FormationTypeOK
  RecommendationLeads
PROPERTY LoneSaveReplaces
CHECK_DEADLOCK FALSE
