SPECIFICATION Spec
CONSTANT Bounds <- MCBounds
INVARIANTS PipesAgree
PROPERTIES AnswersOwn StartupEnds RequestsEnd
CHECK_DEADLOCK FALSE
