\* Two acceptances at a time, three matches that want two slots; a team may
\* be named as its own opponent.
CONSTANTS
  a = a
  b = b
  Team = {a, b}
  FirstUser = a
  NoTeam = NoTeam
  Slot = {s1, s2}
  Field = {f1}
  Match = {m1, m2, m3}
  Request = {r1, r2}
  Pairing <- ThePairing
SPECIFICATION Spec
SYMMETRY RequestSymmetry
INVARIANTS
  TypeOK
  SlotSharedOnlyByRace
PROPERTIES
  RecordsGoWithMatch
  DeletedStaysDeleted
CHECK_DEADLOCK FALSE
