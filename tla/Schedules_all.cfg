SPECIFICATION Spec
CONSTANTS
  Flows = {f1, f2, f3, f4}
  Trigs = {t1, t2, t3, t4, t5}
  Reqs = {r1, r2}
  Router = router
  None = None
  Asks <- EveryAsk
  Starts <- BothStarts
  Grace = 0
  MaxVersion = 3
  MaxClock = 1
  MaxEvents = 2
  f1 = f1
  f2 = f2
  t1 = t1
  t2 = t2
  t3 = t3
INVARIANTS
    OneAutomationPerPreset
    HandledEventsReachedEveryFlow
PROPERTIES
    ResyncLosesNoTick
    JobsComeToMatch
