SPECIFICATION Spec
CONSTANTS
  Panel = {1, 2, 3}
  Tab <- MCTab
  Sizes = {0, 3, 5}
  PageSize = 2
  MaxViews = 3
  MaxFlying = 2
INVARIANTS RowsInOrder LinkIsHonest
CHECK_DEADLOCK FALSE
VIEW Seen
