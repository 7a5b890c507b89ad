SPECIFICATION Spec
CONSTANTS
  Connection = {c1, c2}
  Asker = {a1}
  Editor = {e1, e2}
  User = {u1}
  System = System
  None = None
  MaxVersion = 3
  Allowed <- MCAllowed
INVARIANTS TypeOK RegisteredIsOpen PoolsAccounted OnlyRacesOverwrite PermissionIsOfPool CurrentUnlessRaced
SYMMETRY Interchangeable
CHECK_DEADLOCK FALSE
