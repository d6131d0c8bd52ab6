\* Two requests at a time and the sweep; two teams apply for one place.
CONSTANTS
  Team = {a, b}
  Limit = {1}
  Request = {r1, r2}
  NoOne = NoOne
SPECIFICATION FairSpec
INVARIANTS
  TypeOK
  DecisionIsFresh
PROPERTIES
  RegistrationFits
  OnlyOwnEntryChanges
  LockIsReleased
