SPECIFICATION Spec
CHECK_DEADLOCK FALSE
CONSTANTS
  Programs <- HintPrograms
  Identifiers <- MCIdentifiers
  Builtins <- MCBuiltins
  Extensions <- MCExtensions
INVARIANTS
  HintsResynchronised
