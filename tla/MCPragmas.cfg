SPECIFICATION Spec
CHECK_DEADLOCK FALSE
CONSTANTS
  Programs <- MCPrograms
  Identifiers <- MCIdentifiers
  Builtins <- MCBuiltins
  Extensions <- MCExtensions
INVARIANTS
  PragmaActsAsWritten
  PragmasInOrder
