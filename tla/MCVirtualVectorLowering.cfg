CONSTANTS
  c1 = c1
  c2 = c2
  c3 = c3
  g1 = g1
  NoTarget = NoTarget
  Compiled <- CompiledValue
  Contractions <- ContractionsValue
  Gathers <- GathersValue
  ImeAccepts <- ImeAcceptsValue
  I8mmAccepts <- I8mmAcceptsValue
  Invocations = 2
SPECIFICATION Spec
INVARIANTS
  FeatureHonoured
  GatherCorrect
CHECK_DEADLOCK FALSE
