\* The documented deletion: no flow saved meanwhile slips past its check.
SPECIFICATION OneRequestSpec
CONSTANTS
  Accts = {a1, a2, a3}
  Tokens = {t1, t2}
  Labels = {l1}
  Reqs = {r1, r2}
  Api = api
  Worker = worker
  None = None
  Legacies <- Distinct
  MaxRequests = 1
  MaxExclusions = 0
  MaxSaves = 1
  a1 = a1
  a2 = a2
  t1 = t1
  t2 = t2
  Tasks = {k1, k2, k3}
  MaxEntries = 1
  MaxLocks = 1
  MaxCancels = 0
CHECK_DEADLOCK FALSE
PROPERTIES
  DeletedIsUnreferenced
