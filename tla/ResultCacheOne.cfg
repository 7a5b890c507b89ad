SPECIFICATION FairSpec
CONSTANTS
  Result = {r1}
  Query = {q1}
  Remover = {u}
  Cleaner = cleaner
  NoQuery = NoQuery
  Sizes <- MCSizes
  PageSize = 2
  MaxRows = 4
  MaxStatements = 1
  MaxRestarts = 1
INVARIANTS
  ClientToldTheTruth
  CompleteIsStored
PROPERTIES
  OrphansReclaimed
  TargetedIsRemoved
