------------------------------ MODULE TokenPool ------------------------------
(***************************************************************************)
(* The process-wide cache of one pylzt pool and Client per tenant: scoped  *)
(* leases, retirement by invalidate, closing by the last holder, and the   *)
(* per-tenant asyncio.Lock that is forgotten with the tenant's last pool.  *)
(* Tenants share nothing, so the module follows one.                       *)
(*                                                                         *)
(* Coroutines interleave at awaits only: everything a task does from the   *)
(* moment it gets the lock to its next await is one step.  asyncio.Lock is *)
(* modelled as CPython implements it: release() marks the lock free and    *)
(* resolves the future of the first waiter, which takes the lock when the  *)
(* loop next runs it; until then the lock is free and has a waiter.        *)
(***************************************************************************)
EXTENDS Integers, Sequences, FiniteSets, FiniteSetsExt

CONSTANTS
  Tasks,       \* coroutines that lease or invalidate
  MaxEntries,  \* bound: pools built
  MaxLocks,    \* bound: Lock objects created
  MaxCancels   \* bound: cancellations of a task at an await

ASSUME PoolAssumption ==
  /\ IsFiniteSet(Tasks)
  /\ MaxEntries \in Nat /\ MaxLocks \in Nat \ {0} /\ MaxCancels \in Nat

Entries == 1..MaxEntries
Locks == 1..MaxLocks

VARIABLES
  lockOf,     \* _locks[tenant], 0 when absent
  madeLocks,  \* Lock objects created so far
  locked, queue, woken,  \* each Lock: its flag, waiters, first future resolved
  cache,      \* _cache[tenant], 0 when absent
  built,      \* entries built so far
  open, leases, retired, \* each entry
  pc, goal, lk, hold,    \* each task: where, why, on which lock, which entry
  cancels                \* cancellations so far

lockVars  == <<lockOf, madeLocks, locked, queue, woken>>
entryVars == <<cache, built, open, leases, retired>>
taskVars  == <<pc, goal, lk, hold>>
vars == <<lockVars, entryVars, taskVars, cancels>>

TypeOK ==
  /\ lockOf \in 0..MaxLocks /\ madeLocks \in 0..MaxLocks
  /\ locked \in [Locks -> BOOLEAN] /\ woken \in [Locks -> BOOLEAN]
  /\ queue \in [Locks -> Seq(Tasks)]
  /\ cache \in 0..MaxEntries /\ built \in 0..MaxEntries
  /\ open \in [Entries -> BOOLEAN] /\ retired \in [Entries -> BOOLEAN]
  /\ leases \in [Entries -> Nat]
  /\ pc \in [Tasks -> {"idle", "waiting", "building", "in", "closing"}]
  /\ goal \in [Tasks -> {"none", "lease", "release", "invalidate"}]
  /\ lk \in [Tasks -> 0..MaxLocks]
  /\ hold \in [Tasks -> 0..MaxEntries]
  /\ cancels \in 0..MaxCancels

Init ==
  /\ lockOf = 0 /\ madeLocks = 0
  /\ locked = [l \in Locks |-> FALSE] /\ woken = [l \in Locks |-> FALSE]
  /\ queue = [l \in Locks |-> <<>>]
  /\ cache = 0 /\ built = 0
  /\ open = [e \in Entries |-> FALSE] /\ retired = [e \in Entries |-> FALSE]
  /\ leases = [e \in Entries |-> 0]
  /\ pc = [t \in Tasks |-> "idle"] /\ goal = [t \in Tasks |-> "none"]
  /\ lk = [t \in Tasks |-> 0] /\ hold = [t \in Tasks |-> 0]
  /\ cancels = 0

-----------------------------------------------------------------------------
(* asyncio.Lock (external)                                                 *)

(* The lock is free again, its first waiter (of what is left of the queue) *)
(* scheduled.                                                              *)
FreeLock(l, q) == /\ locked' = [locked EXCEPT ![l] = FALSE]
                  /\ queue' = [queue EXCEPT ![l] = q]
                  /\ woken' = [woken EXCEPT ![l] = q # <<>>]

KeepLock(l, q) == /\ locked' = [locked EXCEPT ![l] = TRUE]
                  /\ queue' = [queue EXCEPT ![l] = q]
                  /\ woken' = [woken EXCEPT ![l] = FALSE]

-----------------------------------------------------------------------------
(* The three critical sections.  Each either runs to the end of its        *)
(* "async with" without an await, or stops at the build's database read.   *)

Set(t, label, why, l, e) == /\ pc' = [pc EXCEPT ![t] = label]
                            /\ goal' = [goal EXCEPT ![t] = why]
                            /\ lk' = [lk EXCEPT ![t] = l]
                            /\ hold' = [hold EXCEPT ![t] = e]

(* _get_or_build: the lease is counted under the same lock hold that reads *)
(* or publishes the entry.                                                 *)
LeaseBody(t, l, q) ==
  IF cache # 0
  THEN /\ leases' = [leases EXCEPT ![cache] = @ + 1]
       /\ Set(t, "in", "none", 0, cache) /\ FreeLock(l, q)
       /\ UNCHANGED <<cache, built, open, retired>>
  ELSE /\ Set(t, "building", "none", l, 0) /\ KeepLock(l, q)
       /\ UNCHANGED entryVars

(* The finally of _lease_entry.                                            *)
ReleaseBody(t, l, q) == LET e == hold[t] IN
  /\ leases' = [leases EXCEPT ![e] = @ - 1]
  /\ IF retired[e] /\ leases[e] = 1 THEN Set(t, "closing", "none", 0, e)
                                    ELSE Set(t, "idle", "none", 0, 0)
  /\ FreeLock(l, q)
  /\ UNCHANGED <<cache, built, open, retired>>

(* Mutant of InvalidateBody: closes at once, whoever holds the pool.       *)
InvalidateCloses(t, l, q) ==
  /\ FreeLock(l, q)
  /\ IF cache = 0
     THEN Set(t, "idle", "none", 0, 0) /\ UNCHANGED entryVars
     ELSE /\ cache' = 0
          /\ retired' = [retired EXCEPT ![cache] = TRUE]
          /\ Set(t, "closing", "none", 0, cache)
          /\ UNCHANGED <<built, open, leases>>

(* invalidate: pop, mark retired, close at once if nobody holds it.        *)
InvalidateBody(t, l, q) ==
  /\ FreeLock(l, q)
  /\ IF cache = 0
     THEN Set(t, "idle", "none", 0, 0) /\ UNCHANGED entryVars
     ELSE /\ cache' = 0
          /\ retired' = [retired EXCEPT ![cache] = TRUE]
          /\ IF leases[cache] = 0 THEN Set(t, "closing", "none", 0, cache)
                                  ELSE Set(t, "idle", "none", 0, 0)
          /\ UNCHANGED <<built, open, leases>>

Body(t, why, l, q) == CASE why = "lease" -> LeaseBody(t, l, q)
                        [] why = "release" -> ReleaseBody(t, l, q)
                        [] why = "invalidate" -> InvalidateBody(t, l, q)

-----------------------------------------------------------------------------
(* async with self._lock_for(tenant): a missing lock is created, a free    *)
(* one without waiters is taken on the spot, any other is queued for.      *)
Acquire(t, why) ==
  \E l \in Locks :
    /\ IF lockOf = 0 THEN l = madeLocks + 1 ELSE l = lockOf
    /\ lockOf' = l
    /\ madeLocks' = IF lockOf = 0 THEN l ELSE madeLocks
    /\ IF ~locked[l] /\ queue[l] = <<>>
       THEN Body(t, why, l, <<>>)
       ELSE /\ Set(t, "waiting", why, l, hold[t])
            /\ queue' = [queue EXCEPT ![l] = Append(@, t)]
            /\ UNCHANGED <<locked, woken, entryVars>>

Lease(t) == pc[t] = "idle" /\ built < MaxEntries /\ Acquire(t, "lease")
LeaveLease(t) == pc[t] = "in" /\ Acquire(t, "release")
Invalidate(t) == pc[t] = "idle" /\ Acquire(t, "invalidate")

(* The loop runs the waiter whose future was resolved.                     *)
Resume(t) == LET l == lk[t] IN
  /\ pc[t] = "waiting" /\ woken[l] /\ Head(queue[l]) = t
  /\ Body(t, goal[t], l, Tail(queue[l]))
  /\ UNCHANGED <<lockOf, madeLocks>>

(* _build returned: publish, count the caller's lease, leave the lock.     *)
Built(t) == LET e == built + 1 IN
  /\ pc[t] = "building" /\ built < MaxEntries
  /\ built' = e /\ cache' = e
  /\ open' = [open EXCEPT ![e] = TRUE]
  /\ leases' = [leases EXCEPT ![e] = 1]
  /\ Set(t, "in", "none", 0, e)
  /\ FreeLock(lk[t], queue[lk[t]])
  /\ UNCHANGED <<lockOf, madeLocks, retired>>

(* Mutant of BuildFails: a failed build leaves the lock taken.             *)
BuildFailsLocked(t) ==
  /\ pc[t] = "building"
  /\ Set(t, "idle", "none", 0, 0)
  /\ UNCHANGED <<lockVars, entryVars>>

(* NoAvailableAccount, or the read failed: nothing is published.           *)
BuildFails(t) ==
  /\ pc[t] = "building"
  /\ Set(t, "idle", "none", 0, 0)
  /\ FreeLock(lk[t], queue[lk[t]])
  /\ UNCHANGED <<lockOf, madeLocks, entryVars>>

(* _drop_lock_if_idle: looks at the flag, not at the waiters.              *)
DropLockIfIdle ==
  lockOf' = IF lockOf # 0 /\ ~locked[lockOf] /\ cache = 0 THEN 0 ELSE lockOf

(* aclose returned: the sockets are gone; then the lock may be forgotten.  *)
Closed(t) ==
  /\ pc[t] = "closing"
  /\ open' = [open EXCEPT ![hold[t]] = FALSE]
  /\ Set(t, "idle", "none", 0, 0)
  /\ DropLockIfIdle
  /\ UNCHANGED <<madeLocks, locked, queue, woken, cache, built, leases, retired>>

(* CancelledError at the await the task stands at.  A cancelled waiter     *)
(* leaves the queue and, if the lock is free, passes the wake-up on; a     *)
(* cancelled build leaves the lock.                                        *)
Cancel(t) == LET l == lk[t]  rest == SelectSeq(queue[l], LAMBDA u : u # t) IN
  /\ cancels < MaxCancels /\ cancels' = cancels + 1
  /\ pc[t] \in {"waiting", "building", "closing"}
  /\ Set(t, "idle", "none", 0, 0)
  /\ CASE pc[t] = "building" -> FreeLock(l, queue[l])
       [] pc[t] = "waiting" ->
            /\ queue' = [queue EXCEPT ![l] = rest]
            /\ woken' = [woken EXCEPT ![l] = ~locked[l] /\ rest # <<>>]
            /\ UNCHANGED locked
       [] pc[t] = "closing" -> UNCHANGED <<locked, queue, woken>>
  /\ UNCHANGED <<lockOf, madeLocks, entryVars>>

-----------------------------------------------------------------------------
Run(t) == Resume(t) \/ Built(t) \/ BuildFails(t) \/ Closed(t)

Next == \E t \in Tasks :
  \/ (Lease(t) \/ LeaveLease(t) \/ Invalidate(t) \/ Run(t)) /\ UNCHANGED cancels
  \/ Cancel(t)

Spec == Init /\ [][Next]_vars

(* The event loop runs every ready coroutine, and a leased block ends.     *)
Fairness == \A t \in Tasks : WF_vars(Run(t) /\ UNCHANGED cancels) /\ WF_vars(LeaveLease(t) /\ UNCHANGED cancels)

FairSpec == Spec /\ Fairness

-----------------------------------------------------------------------------

(* A Client is never closed while a task is inside its lease, whatever     *)
(* invalidations, rebuilds and second locks there are (pool.py, lease).    *)
NoUseAfterClose == \A t \in Tasks : pc[t] = "in" => open[hold[t]]

(* Nobody waits for ever on a lock, not even on one the cache forgot.      *)
WaitersAreServed == \A t \in Tasks : pc[t] = "waiting" ~> pc[t] # "waiting"
=============================================================================
