\* One run, two executors that may be paused past every timeout: the worst
\* case for the optimistic lock and the two-phase step commit.
SPECIFICATION Spec
CONSTANTS
  r1 = r1  w1 = w1  w2 = w2
  Runs = {r1}
  InvokeRuns = {}
  Executors = {w1, w2}
  NSteps = 2
  MoneySteps = {2}
  BudgetSteps = {2}
  MaxTries = 2
  MaxFires = 1
  MaxFaults = 2
  Pauses = TRUE
SYMMETRY ExecutorSymmetry
INVARIANTS TypeOK AtMostOnePurchase TruthfulSteps OneOwner
PROPERTIES PromiseSpec
