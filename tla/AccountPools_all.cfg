\* Two requests, two processes, an exclusion; three tasks that lease and
\* invalidate, cancelled at any await.  The bounds end every behaviour.
SPECIFICATION PoolsSpec
CONSTANTS
  Accts = {a1, a2, a3}
  Tokens = {t1, t2}
  Labels = {l1}
  Reqs = {r1, r2}
  Api = api
  Worker = worker
  None = None
  Legacies <- Distinct
  MaxRequests = 2
  MaxExclusions = 1
  MaxSaves = 1
  a1 = a1
  a2 = a2
  t1 = t1
  t2 = t2
  Tasks = {k1, k2, k3}
  MaxEntries = 3
  MaxLocks = 3
  MaxCancels = 1
CHECK_DEADLOCK FALSE
INVARIANTS
    AddedTokensAreUnique
    OnlyTheseWindowsAreStale
    SomeRequestGoesOn
    NoUseAfterClose
PROPERTIES
    WaitersAreServed
