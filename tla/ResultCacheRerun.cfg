SPECIFICATION Spec
CONSTANTS
  Result = {r1, r2}
  Query = {q1}
  Remover = {}
  Cleaner = cleaner
  NoQuery = NoQuery
  Sizes <- MCSmallSizes
  PageSize = 2
  MaxRows = 4
  MaxStatements = 2
  MaxRestarts = 0
SYMMETRY Symmetry
INVARIANTS
  TypeOK
  TargetedIsPending
  SharedSurvivesCleanup
PROPERTIES
  ListedTableDroppedAsOrphanOnly
  RemovedStaysRemoved
CHECK_DEADLOCK FALSE
