CONSTANT Contractions <- MCTransposed
SPECIFICATION Spec
INVARIANT KNOrderedCorrect
CHECK_DEADLOCK FALSE
