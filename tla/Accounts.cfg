CONSTANTS
  e1 = e1
  e2 = e2
  n1 = n1
  n2 = n2
  w1 = w1
  w2 = w2
  r1 = r1
  r2 = r2
  Email = {e1, e2}
  Name = {n1, n2}
  Password = {w1, w2}
  Code = {k1}
  Founders <- TheFounders
  Request = {r1, r2}
  Take = 1
  MaxUsers = 2
  MaxRequests = 3
  MaxFails = 1
SYMMETRY Slots
SPECIFICATION Spec
INVARIANTS
  TypeOK
  KeysLapse
  LocationsLeftByRollback
  ListReadOnce
PROPERTY
  SavesKeepOthersChanges
CHECK_DEADLOCK FALSE
