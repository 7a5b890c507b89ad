SPECIFICATION Spec
CONSTANTS
  Conn = {c1}
  Request = {r1, r2}
  NotLoaded = NotLoaded
  NoJob = NoJob
  MaxVersion = 1
SYMMETRY Symmetry
PROPERTIES
  RefreshNoticeIsTrue
CHECK_DEADLOCK FALSE
