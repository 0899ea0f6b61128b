\* A loop with fan-out, self-edge and goto, and a fork within a fork beside a
\* fan-out, taken up again after crashes; the run may end.
SPECIFICATION FairSpec
CONSTANTS
  Graphs <- Walks
  MaxSteps = 12
CHECK_DEADLOCK FALSE
INVARIANTS CompletedIsClosed BranchesAreIsolated
PROPERTIES CommittedIsNotRepeated NothingStartsAfterAbort Terminates
