SPECIFICATION Spec
CONSTANT N = 3
INVARIANTS TypeOK ValidHasWitness NotValidatedAfterAll
PROPERTY SuccessEndsAll
CHECK_DEADLOCK FALSE
