CONSTANT Contractions <- MCContractions
SPECIFICATION Spec
INVARIANTS TypeOK ResultCorrect OperandsPreserved RejectionLeavesNoTrace
PROPERTY Termination
CHECK_DEADLOCK FALSE
