\* The documented resumption, of a flow whose steps feed one another.
SPECIFICATION Spec
CONSTANTS
  Graphs <- Pair
  MaxSteps = 4
CHECK_DEADLOCK FALSE
INVARIANTS ResumeDoesNotFail
