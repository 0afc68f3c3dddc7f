SPECIFICATION Spec
CONSTANTS
  MaxRequests = 3
  MaxChunks = 2
  CanDie = TRUE
CHECK_DEADLOCK FALSE
INVARIANTS TypeOK OwnAnswer WholeOrCutShort
PROPERTIES AnswerEnds ChildEnds
