CONSTANTS
  Implied <- MCImplied
  Conflicts <- MCConflicts
  VLen <- MCVLen
  CPUArch <- MCCPUArch
  FeatureBit <- MCFeatureBit
  Targets <- MCTargets
  Functions <- MCFunctions
  Calls <- MCCalls
SPECIFICATION CallSpec
INVARIANTS
  CallTypeOK
  TargetSound
  ResolverPicksBest
  InterruptLegal
  OperandsFit
  ListsAgree
  DependentDeferred
  IntrinsicAsDeclared
PROPERTIES
  FeaturesAsAsked
CHECK_DEADLOCK FALSE
