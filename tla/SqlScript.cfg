SPECIFICATION Spec
CONSTANTS
  Short = 3
  Long = 6
  Scripts <- MCScripts
INVARIANTS CutsAreDelimiters StatementsStandAlone PickedIsAtCursor
CHECK_DEADLOCK FALSE
