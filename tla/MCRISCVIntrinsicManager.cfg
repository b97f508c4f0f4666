CONSTANTS
  Records <- MCRecords
  Points <- MCPoints
  Identifiers <- MCIdentifiers
  Builtins <- MCBuiltins
  LibFunctions <- MCBuiltins
  CPlusPlus = FALSE
SPECIFICATION Spec
INVARIANTS TypeOK LookupExact
