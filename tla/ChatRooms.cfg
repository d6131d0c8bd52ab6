CONSTANTS
  User = {u1}
  u1 = u1
  Socket = {s1, s2, s3}
  s1 = s1
  s2 = s2
  s3 = s3
  Chat = {c1, c2}
  c1 = c1
  c2 = c2
  UserOf <- TheUserOf
  NspOf <- TheNspOf
  Founded = {c1}
  Clients = {s1}
  Events <- TheEvents
  Request = {r1, r2}
  r1 = r1
  r2 = r2
  Take = 1
  MaxMessages = 2
  MaxFails = 1
SYMMETRY Slots
SPECIFICATION Spec
INVARIANTS
  TypeOK
  NothingMissed
CHECK_DEADLOCK FALSE
