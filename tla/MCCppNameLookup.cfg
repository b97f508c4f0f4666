CONSTANTS
  NoContext = NoContext
  Declared <- MCDeclared
  Requests <- MCRequests
SPECIFICATION Spec
INVARIANTS
  TypeOK
  EntitiesKept
  AmbiguityExact
  UnqualifiedExact
  QualifiedExact
  RedeclarationConfined
PROPERTIES
  ResolvedStable
  ResultSpec
CHECK_DEADLOCK FALSE
