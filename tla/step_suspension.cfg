SPECIFICATION Spec
CONSTANTS
  UserKey = {ask}
  None = None
  Bodies <- OneOrTwoSteps
  MaxAttempts = 2
  Timeouts = TRUE
INVARIANTS TypeOK AskedOnceUndisturbed AnswersReachUndisturbed NoFalseMismatchUndisturbed
PROPERTIES PassesGetFurther
CHECK_DEADLOCK FALSE
