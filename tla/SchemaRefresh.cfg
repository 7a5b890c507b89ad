SPECIFICATION FairSpec
CONSTANTS
  Conn = {c1}
  Request = {r1, r2}
  NotLoaded = NotLoaded
  NoJob = NoJob
  MaxVersion = 1
INVARIANTS
  TypeOK
  ForcedReplyIsFresh
  NoForgottenWaiter
  OnlyLateRefreshStaysRegistered
PROPERTIES
  AnsweredOrRefused
CHECK_DEADLOCK FALSE
