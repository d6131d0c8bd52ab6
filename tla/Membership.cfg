\* Two requests at a time, one of which may fail.
CONSTANTS
  User = {1, 2}
  Team = {1}
  Member = {m1, m2}
  Kind = {"join", "invite"}
  Token = {k1}
  Request = {r1, r2}
  MaxFails = 1
SPECIFICATION Spec
SYMMETRY Symmetry
INVARIANTS
  TypeOK
  RegisteredOnlyByRace
  ChatAfterMembership
  MembersReachChat
CHECK_DEADLOCK FALSE
