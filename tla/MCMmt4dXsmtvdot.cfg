CONSTANTS
  Calls <- MCCalls
  IntBits = 3
SPECIFICATION Spec
INVARIANTS TypeOK TileCorrect LoadsInBounds
PROPERTIES ImplementsTile
CHECK_DEADLOCK FALSE
