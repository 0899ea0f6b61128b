\* Every scheduler fair; an executor that obeys its timeouts and comes back
\* after each crash; a run pushed by a producer or walked inline by the API.
SPECIFICATION FairSpec
CONSTANTS
  r1 = r1  w1 = w1  w2 = w2
  Runs = {r1}
  InvokeRuns = {r1}
  Executors = {w1}
  NSteps = 1
  MoneySteps = {1}
  BudgetSteps = {1}
  MaxTries = 2
  MaxFires = 2
  MaxFaults = 2
  Pauses = FALSE
PROPERTIES CompletedIsFinal SweepSparesTheLiving PendingIsPickedUp RunningSettles
