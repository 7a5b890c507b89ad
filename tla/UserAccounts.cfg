SPECIFICATION Spec
CONSTANTS
  Request = {r1, r2, r3}
  Founder = Founder
  Email = {m1, m2}
  NoUser = NoUser
INVARIANTS TypeOK CacheIsCurrent PasswordFollowsEmail OnlyRacesMakeAdministrators
SYMMETRY Interchangeable
CHECK_DEADLOCK FALSE
