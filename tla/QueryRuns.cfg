SPECIFICATION FairSpec
CONSTANTS
  NoRun = NoRun
  MaxRuns = 2
  Choices <- MCChoices
  Watched <- MCWatched
  MaxStatements = 2
  MaxConns = 2
  MaxTransit = 2
  MaxAsks = 1
  MaxDisturbances = 1
INVARIANTS
  BusyIsHonest
  AnswersInOrder
  TableIsRight
  AuditIsTrue
PROPERTIES
  MarkIsLifted
CHECK_DEADLOCK FALSE
