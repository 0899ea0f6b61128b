-------------------------- MODULE AccountPoolsProofs --------------------------
(***************************************************************************)
(* Theorems about one process's pools, and about the accounts and the      *)
(* pools of every process, for any number of tasks, requests, accounts,    *)
(* exclusions and cancellations.                                           *)
(*                                                                         *)
(* That no pool is closed under a borrower rests on the counter of leases  *)
(* alone: neither the lock's mutual exclusion nor its queue is needed,     *)
(* which is why forgetting a lock that has waiters does no harm.           *)
(*                                                                         *)
(* About the accounts, an invariant on the versions a row has at a time    *)
(* (the committed one, and a transaction's) says that no two rows hold one *)
(* readable token and what the requests know of that; a second one, which  *)
(* stands on it, says which statuses a transaction may still change, and   *)
(* where the API's pool is meanwhile.                                      *)
(***************************************************************************)
EXTENDS AccountRotation, TokenPool, FiniteSetTheorems, TLAPS

(* The tasks a pool is lent to.                                            *)
Holds(t, e) == hold[t] = e /\ pc[t] # "closing"
Holders(e) == {t \in Tasks : Holds(t, e)}

EntryTypes ==
  /\ cache \in 0..built /\ built \in 0..MaxEntries
  /\ open \in [Entries -> BOOLEAN] /\ retired \in [Entries -> BOOLEAN]
  /\ leases \in [Entries -> Nat]
  /\ pc \in [Tasks -> {"idle", "waiting", "building", "in", "closing"}]
  /\ goal \in [Tasks -> {"none", "lease", "release", "invalidate"}]
  /\ hold \in [Tasks -> 0..built]

(* A task has a pool exactly while it is inside its lease, on its way out, *)
(* or closing what it was the last to hold.                                *)
HoldsByPlace ==
  \A t \in Tasks :
    /\ pc[t] \in {"idle", "building"} => hold[t] = 0
    /\ pc[t] \in {"in", "closing"} => hold[t] # 0
    /\ pc[t] = "waiting" => (goal[t] = "release" <=> hold[t] # 0) /\ goal[t] # "none"

(* The published pool is open and in use, a borrowed one open, and one     *)
(* that is being closed retired with no lease left.                        *)
Sheltered ==
  /\ cache # 0 => open[cache] /\ ~retired[cache]
  /\ \A e \in Entries : retired[e] => e <= built
  /\ \A t \in Tasks : hold[t] # 0 /\ pc[t] # "closing" => open[hold[t]]
  /\ \A t \in Tasks : pc[t] = "closing" => retired[hold[t]] /\ leases[hold[t]] = 0

(* No borrower goes uncounted (pool.py, _get_or_build, _lease_entry).      *)
Counted == \A e \in Entries : leases[e] >= Cardinality(Holders(e))

IInv == EntryTypes /\ HoldsByPlace /\ Sheltered /\ Counted

-----------------------------------------------------------------------------
(* What is not zero names a pool that was built.                           *)
LEMMA PoolNames ==
  ASSUME EntryTypes
  PROVE  /\ built \in Nat /\ MaxEntries \in Nat /\ built <= MaxEntries
         /\ leases \in [Entries -> Nat]
         /\ cache \in 0..built /\ (cache # 0 => cache \in Entries)
         /\ \A u \in Tasks : hold[u] \in 0..built /\ (hold[u] # 0 => hold[u] \in Entries)
<1>1. built \in 0..MaxEntries /\ MaxEntries \in Nat
  BY PoolAssumption DEF PoolAssumption, EntryTypes
<1>2. \A i \in 0..built : i # 0 => i \in Entries
  BY <1>1 DEF Entries
<1>3. cache \in 0..built /\ \A u \in Tasks : hold[u] \in 0..built
  BY DEF EntryTypes
<1>4. leases \in [Entries -> Nat]
  BY DEF EntryTypes
<1> QED BY <1>1, <1>2, <1>3, <1>4

(* What the counter says about the holders.                                *)
LEMMA HoldersAreFinite ==
  ASSUME NEW e PROVE IsFiniteSet(Holders(e)) /\ Cardinality(Holders(e)) \in Nat
  BY FS_Subset, FS_CardinalityType, PoolAssumption DEF Holders, PoolAssumption

LEMMA NobodyHolds ==
  ASSUME IInv, NEW e \in Entries, leases[e] = 0 PROVE Holders(e) = {}
<1>1. Cardinality(Holders(e)) = 0
  BY HoldersAreFinite DEF IInv, Counted
<1> QED BY <1>1, HoldersAreFinite, FS_EmptySet

LEMMA HolderIsCounted ==
  ASSUME IInv, NEW e \in Entries, NEW t \in Holders(e) PROVE leases[e] >= 1
<1>1. leases[e] # 0
  BY NobodyHolds
<1> QED BY <1>1 DEF IInv, EntryTypes

(* A task that comes, goes or stays changes the holders by itself alone:   *)
(* the count stays right when the leases move at least as much as it does. *)
LEMMA Recount ==
  ASSUME IInv, NEW t \in Tasks, NEW e \in Entries,
         \A u \in Tasks \ {t} : hold'[u] = hold[u] /\ pc'[u] = pc[u],
         leases'[e] \in Nat,
         leases'[e] + (IF Holds(t, e) THEN 1 ELSE 0) >= leases[e] + (IF Holds(t, e)' THEN 1 ELSE 0)
  PROVE  leases'[e] >= Cardinality(Holders(e)')
<1> DEFINE Others == {u \in Tasks \ {t} : Holds(u, e)}
<1>0. IsFiniteSet(Others) /\ Cardinality(Others) \in Nat /\ t \notin Others
  BY FS_Subset, FS_CardinalityType, PoolAssumption DEF PoolAssumption
<1>1. Cardinality(Others \cup {t}) = Cardinality(Others) + 1
  BY <1>0, FS_AddElement
<1>2. Holders(e) = IF Holds(t, e) THEN Others \cup {t} ELSE Others
  BY DEF Holders
<1>3. Holders(e)' = IF Holds(t, e)' THEN Others \cup {t} ELSE Others
  BY DEF Holders, Holds
<1>4. Cardinality(Holders(e)) = Cardinality(Others) + IF Holds(t, e) THEN 1 ELSE 0
  BY <1>0, <1>1, <1>2
<1>5. Cardinality(Holders(e)') = Cardinality(Others) + IF Holds(t, e)' THEN 1 ELSE 0
  BY <1>0, <1>1, <1>3
<1>6. leases[e] \in Nat /\ leases[e] >= Cardinality(Holders(e))
  BY DEF IInv, EntryTypes, Counted
<1> HIDE DEF Others
<1> QED BY <1>0, <1>4, <1>5, <1>6

-----------------------------------------------------------------------------
(* Nothing exists yet.                                                     *)
LEMMA InvInit == Init => IInv
<1> SUFFICES ASSUME Init PROVE IInv
  OBVIOUS
<1>0. MaxEntries \in Nat
  BY PoolAssumption DEF PoolAssumption
<1>1. \A e \in Entries : Holders(e) = {} /\ leases[e] = 0
  BY DEF Holders, Holds, Init, Entries
<1>2. EntryTypes
  BY <1>0 DEF Init, EntryTypes, Entries
<1>3. HoldsByPlace /\ Sheltered
  BY DEF Init, HoldsByPlace, Sheltered
<1>4. Counted
  BY <1>1, FS_EmptySet DEF Counted
<1> QED BY <1>2, <1>3, <1>4 DEF IInv

(* What a step of one task writes to the tasks.                            *)
LEMMA SetsOne ==
  ASSUME IInv, NEW t \in Tasks, NEW label, NEW why, NEW l, NEW h, Set(t, label, why, l, h)
  PROVE  /\ \A u \in Tasks \ {t} : hold'[u] = hold[u] /\ pc'[u] = pc[u] /\ goal'[u] = goal[u]
         /\ pc'[t] = label /\ hold'[t] = h /\ goal'[t] = why
  BY DEF Set, IInv, EntryTypes

(* A task without a pool, or one that gives its place up unheard, goes to  *)
(* where it holds nothing.                                                 *)
LEMMA EmptyHanded ==
  ASSUME IInv, NEW t \in Tasks, NEW label \in {"idle", "building"}, NEW l,
         Set(t, label, "none", l, 0), UNCHANGED entryVars
  PROVE  IInv'
<1>1. /\ \A u \in Tasks \ {t} : hold'[u] = hold[u] /\ pc'[u] = pc[u] /\ goal'[u] = goal[u]
      /\ pc'[t] = label /\ hold'[t] = 0 /\ goal'[t] = "none"
  BY SetsOne
<1>2. EntryTypes'
  BY DEF Set, entryVars, IInv, EntryTypes
<1>3. HoldsByPlace' /\ Sheltered'
  BY <1>1 DEF entryVars, IInv, HoldsByPlace, Sheltered
<1>4. Counted'
  <2> SUFFICES ASSUME NEW e \in Entries PROVE leases'[e] >= Cardinality(Holders(e)')
    BY DEF Counted
  <2>1. ~Holds(t, e)' /\ leases'[e] = leases[e] /\ leases[e] \in Nat
    BY <1>1 DEF Holds, Entries, entryVars, IInv, EntryTypes
  <2> QED BY <1>1, <2>1, Recount
<1> QED BY <1>2, <1>3, <1>4 DEF IInv

(* A task queues up with what it holds.                                    *)
LEMMA QueuesUp ==
  ASSUME IInv, NEW t \in Tasks, NEW l, NEW why \in {"lease", "release", "invalidate"},
         why = "release" <=> hold[t] # 0, pc[t] # "closing",
         Set(t, "waiting", why, l, hold[t]), UNCHANGED entryVars
  PROVE  IInv'
<1>1. /\ \A u \in Tasks \ {t} : hold'[u] = hold[u] /\ pc'[u] = pc[u] /\ goal'[u] = goal[u]
      /\ pc'[t] = "waiting" /\ hold'[t] = hold[t] /\ goal'[t] = why
  BY SetsOne
<1>2. EntryTypes'
  BY DEF Set, entryVars, IInv, EntryTypes
<1>3. HoldsByPlace' /\ Sheltered'
  BY <1>1 DEF entryVars, IInv, HoldsByPlace, Sheltered
<1>4. Counted'
  <2> SUFFICES ASSUME NEW e \in Entries PROVE leases'[e] >= Cardinality(Holders(e)')
    BY DEF Counted
  <2>1. Holds(t, e)' = Holds(t, e) /\ leases'[e] = leases[e] /\ leases[e] \in Nat
    BY <1>1 DEF Holds, entryVars, IInv, EntryTypes
  <2> QED BY <1>1, <2>1, Recount
<1> QED BY <1>2, <1>3, <1>4 DEF IInv

(* The lease of the published pool is counted before anyone else runs.     *)
LEMMA LeaseKeeps ==
  ASSUME IInv, NEW t \in Tasks, NEW l, NEW q, hold[t] = 0, LeaseBody(t, l, q) PROVE IInv'
<1>1. CASE cache = 0
  BY <1>1, EmptyHanded DEF LeaseBody
<1>2. CASE cache # 0
  <2>0. cache \in Entries /\ cache \in 0..built /\ leases \in [Entries -> Nat]
    BY <1>2, PoolNames DEF IInv
  <2>1. /\ leases' = [leases EXCEPT ![cache] = @ + 1] /\ UNCHANGED <<cache, built, open, retired>>
        /\ Set(t, "in", "none", 0, cache)
    BY <1>2 DEF LeaseBody
  <2>2. /\ \A u \in Tasks \ {t} : hold'[u] = hold[u] /\ pc'[u] = pc[u] /\ goal'[u] = goal[u]
        /\ pc'[t] = "in" /\ hold'[t] = cache /\ goal'[t] = "none"
    BY <2>1, SetsOne
  <2>3. EntryTypes'
    BY <2>0, <2>1 DEF Set, IInv, EntryTypes
  <2>4. HoldsByPlace'
    BY <1>2, <2>2 DEF IInv, HoldsByPlace
  <2>5. Sheltered'
    <3>1. \A u \in Tasks : pc[u] = "closing" => hold[u] # cache /\ hold[u] \in Entries
      BY <1>2, PoolNames DEF IInv, Sheltered, HoldsByPlace
    <3>2. \A u \in Tasks : pc'[u] = "closing" => retired'[hold'[u]] /\ leases'[hold'[u]] = 0
      BY <2>0, <2>1, <2>2, <3>1 DEF IInv, Sheltered
    <3>3. \A u \in Tasks : hold'[u] # 0 /\ pc'[u] # "closing" => open'[hold'[u]]
      BY <1>2, <2>1, <2>2 DEF IInv, Sheltered
    <3> QED BY <1>2, <2>1, <3>2, <3>3 DEF IInv, Sheltered
  <2>6. Counted'
    <3> SUFFICES ASSUME NEW e \in Entries PROVE leases'[e] >= Cardinality(Holders(e)')
      BY DEF Counted
    <3>1. Holds(t, e)' <=> e = cache
      BY <2>2 DEF Holds
    <3>2. ~Holds(t, e)
      BY DEF Holds, Entries
    <3>3. leases'[e] = (IF e = cache THEN leases[e] + 1 ELSE leases[e]) /\ leases[e] \in Nat
      BY <2>0, <2>1
    <3> QED BY <2>2, <3>1, <3>2, <3>3, Recount
  <2> QED BY <2>3, <2>4, <2>5, <2>6 DEF IInv
<1> QED BY <1>1, <1>2

(* Leaving takes one lease off, and closes only what nobody is left to     *)
(* hold.                                                                   *)
LEMMA ReleaseKeeps ==
  ASSUME IInv, NEW t \in Tasks, NEW l, NEW q, hold[t] # 0, pc[t] # "closing", ReleaseBody(t, l, q)
  PROVE  IInv'
<1> DEFINE h == hold[t]
<1>0. h \in Entries /\ h \in 0..built /\ leases \in [Entries -> Nat] /\ leases[h] >= 1
  <2>1. h \in Entries /\ h \in 0..built /\ leases \in [Entries -> Nat]
    BY PoolNames DEF IInv
  <2>2. t \in Holders(h)
    BY DEF Holders, Holds
  <2> QED BY <2>1, <2>2, HolderIsCounted
<1>1. leases' = [leases EXCEPT ![h] = @ - 1] /\ UNCHANGED <<cache, built, open, retired>>
  BY DEF ReleaseBody
<1> DEFINE last == retired[h] /\ leases[h] = 1
<1>2. IF last THEN Set(t, "closing", "none", 0, h) ELSE Set(t, "idle", "none", 0, 0)
  BY DEF ReleaseBody
<1>3. /\ \A u \in Tasks \ {t} : hold'[u] = hold[u] /\ pc'[u] = pc[u] /\ goal'[u] = goal[u]
      /\ pc'[t] = (IF last THEN "closing" ELSE "idle") /\ hold'[t] = IF last THEN h ELSE 0
  BY <1>2, SetsOne
<1>4. EntryTypes'
  <2>1. leases' \in [Entries -> Nat]
    BY <1>0, <1>1
  <2>2. \/ Set(t, "closing", "none", 0, h)
        \/ Set(t, "idle", "none", 0, 0)
    BY <1>2
  <2>3. pc' \in [Tasks -> {"idle", "waiting", "building", "in", "closing"}]
        /\ goal' \in [Tasks -> {"none", "lease", "release", "invalidate"}]
    BY <2>2 DEF Set, IInv, EntryTypes
  <2>4. hold' \in [Tasks -> 0..built]
    BY <1>0, <2>2 DEF Set, IInv, EntryTypes
  <2> QED BY <1>1, <2>1, <2>3, <2>4 DEF IInv, EntryTypes
<1>5. HoldsByPlace'
  BY <1>3 DEF IInv, HoldsByPlace
<1>6. Sheltered'
  <2>1. \A u \in Tasks : pc[u] = "closing" => hold[u] # h /\ hold[u] \in Entries
    BY <1>0, PoolNames DEF IInv, Sheltered, HoldsByPlace
  <2>2. \A u \in Tasks : pc'[u] = "closing" => retired'[hold'[u]] /\ leases'[hold'[u]] = 0
    <3> SUFFICES ASSUME NEW u \in Tasks, pc'[u] = "closing"
                 PROVE  retired'[hold'[u]] /\ leases'[hold'[u]] = 0
      OBVIOUS
    <3>1. CASE u = t
      BY <1>0, <1>1, <1>3, <3>1
    <3>2. CASE u # t
      BY <1>0, <1>1, <1>3, <2>1, <3>2 DEF IInv, Sheltered
    <3> QED BY <3>1, <3>2
  <2>3. \A u \in Tasks : hold'[u] # 0 /\ pc'[u] # "closing" => open'[hold'[u]]
    BY <1>1, <1>3 DEF IInv, Sheltered
  <2> QED BY <1>1, <2>2, <2>3 DEF IInv, Sheltered
<1>7. Counted'
  <2> SUFFICES ASSUME NEW e \in Entries PROVE leases'[e] >= Cardinality(Holders(e)')
    BY DEF Counted
  <2>1. ~Holds(t, e)'
    BY <1>3 DEF Holds, Entries
  <2>2. Holds(t, e) <=> e = h
    BY DEF Holds
  <2>3. leases'[e] = (IF e = h THEN leases[e] - 1 ELSE leases[e]) /\ leases[e] \in Nat /\ leases'[e] \in Nat
    BY <1>0, <1>1
  <2> QED BY <1>3, <2>1, <2>2, <2>3, Recount
<1> QED BY <1>4, <1>5, <1>6, <1>7 DEF IInv

(* Invalidation closes a pool only when its lease count is zero.           *)
LEMMA InvalidateKeeps ==
  ASSUME IInv, NEW t \in Tasks, NEW l, NEW q, hold[t] = 0, InvalidateBody(t, l, q) PROVE IInv'
<1>1. CASE cache = 0
  BY <1>1, EmptyHanded DEF InvalidateBody
<1>2. CASE cache # 0
  <2> DEFINE last == leases[cache] = 0
  <2>0. cache \in Entries /\ cache \in 0..built /\ built \in Nat
    BY <1>2, PoolNames DEF IInv
  <2>1. cache' = 0 /\ retired' = [retired EXCEPT ![cache] = TRUE] /\ UNCHANGED <<built, open, leases>>
    BY <1>2 DEF InvalidateBody
  <2>2. IF last THEN Set(t, "closing", "none", 0, cache) ELSE Set(t, "idle", "none", 0, 0)
    BY <1>2 DEF InvalidateBody
  <2>3. /\ \A u \in Tasks \ {t} : hold'[u] = hold[u] /\ pc'[u] = pc[u] /\ goal'[u] = goal[u]
        /\ pc'[t] = (IF last THEN "closing" ELSE "idle") /\ hold'[t] = IF last THEN cache ELSE 0
    BY <2>2, SetsOne
  <2>4. EntryTypes'
    <3>1. retired' \in [Entries -> BOOLEAN]
      BY <2>1 DEF IInv, EntryTypes
    <3>2. \/ Set(t, "closing", "none", 0, cache)
          \/ Set(t, "idle", "none", 0, 0)
      BY <2>2
    <3>3. pc' \in [Tasks -> {"idle", "waiting", "building", "in", "closing"}]
          /\ goal' \in [Tasks -> {"none", "lease", "release", "invalidate"}]
      BY <3>2 DEF Set, IInv, EntryTypes
    <3>4. hold' \in [Tasks -> 0..built]
      BY <2>0, <3>2 DEF Set, IInv, EntryTypes
    <3>5. cache' \in 0..built
      BY <2>0, <2>1
    <3> QED BY <2>1, <3>1, <3>3, <3>4, <3>5 DEF IInv, EntryTypes
  <2>5. HoldsByPlace'
    BY <1>2, <2>3 DEF IInv, HoldsByPlace
  <2>6. Sheltered'
    <3>1. \A e \in Entries : retired'[e] => e <= built'
      BY <2>0, <2>1 DEF IInv, Sheltered, EntryTypes
    <3>2. \A u \in Tasks : pc'[u] = "closing" => retired'[hold'[u]] /\ leases'[hold'[u]] = 0
      <4> SUFFICES ASSUME NEW u \in Tasks, pc'[u] = "closing"
                   PROVE  retired'[hold'[u]] /\ leases'[hold'[u]] = 0
        OBVIOUS
      <4>1. CASE u = t
        BY <2>0, <2>1, <2>3, <4>1 DEF IInv, EntryTypes
      <4>2. CASE u # t
        BY <2>0, <2>1, <2>3, <4>2 DEF IInv, EntryTypes, Sheltered
      <4> QED BY <4>1, <4>2
    <3>3. \A u \in Tasks : hold'[u] # 0 /\ pc'[u] # "closing" => open'[hold'[u]]
      BY <2>1, <2>3 DEF IInv, Sheltered
    <3> QED BY <2>1, <3>1, <3>2, <3>3 DEF IInv, Sheltered
  <2>7. Counted'
    <3> SUFFICES ASSUME NEW e \in Entries PROVE leases'[e] >= Cardinality(Holders(e)')
      BY DEF Counted
    <3>1. ~Holds(t, e)' /\ ~Holds(t, e)
      BY <2>3 DEF Holds, Entries
    <3>2. leases'[e] = leases[e] /\ leases[e] \in Nat
      BY <2>1 DEF IInv, EntryTypes
    <3> QED BY <2>3, <3>1, <3>2, Recount
  <2> QED BY <2>4, <2>5, <2>6, <2>7 DEF IInv
<1> QED BY <1>1, <1>2

-----------------------------------------------------------------------------
(* The critical sections, entered on the spot or after a wait.             *)
LEMMA BodyKeeps ==
  ASSUME IInv, NEW t \in Tasks, NEW l, NEW q, NEW why \in {"lease", "release", "invalidate"},
         why = "release" <=> hold[t] # 0, pc[t] # "closing", Body(t, why, l, q)
  PROVE  IInv'
<1>1. CASE why = "lease"
  BY <1>1, LeaseKeeps DEF Body
<1>2. CASE why = "release"
  BY <1>2, ReleaseKeeps DEF Body
<1>3. CASE why = "invalidate"
  BY <1>3, InvalidateKeeps DEF Body
<1> QED BY <1>1, <1>2, <1>3

LEMMA AcquireKeeps ==
  ASSUME IInv, NEW t \in Tasks, NEW why \in {"lease", "release", "invalidate"},
         why = "release" <=> hold[t] # 0, pc[t] # "closing", Acquire(t, why)
  PROVE  IInv'
<1>1. PICK l \in Locks : \/ Body(t, why, l, <<>>)
                         \/ Set(t, "waiting", why, l, hold[t]) /\ UNCHANGED entryVars
  BY DEF Acquire
<1> QED BY <1>1, BodyKeeps, QueuesUp

(* A new pool has nobody in it.                                            *)
LEMMA BuiltKeeps ==
  ASSUME IInv, NEW t \in Tasks, Built(t) PROVE IInv'
<1> DEFINE n == built + 1
<1>0. /\ n \in Entries /\ built \in Nat /\ MaxEntries \in Nat /\ hold \in [Tasks -> 0..built]
      /\ leases \in [Entries -> Nat] /\ pc[t] = "building" /\ hold[t] = 0
  <2>1. pc[t] = "building" /\ built < MaxEntries
    BY DEF Built
  <2>2. n \in Entries
    BY <2>1, PoolNames DEF IInv, Entries
  <2>3. hold \in [Tasks -> 0..built]
    BY DEF IInv, EntryTypes
  <2> QED BY <2>1, <2>2, <2>3, PoolNames DEF IInv, HoldsByPlace
<1>1. /\ built' = n /\ cache' = n /\ open' = [open EXCEPT ![n] = TRUE]
      /\ leases' = [leases EXCEPT ![n] = 1] /\ retired' = retired /\ Set(t, "in", "none", 0, n)
  BY DEF Built
<1>2. /\ \A u \in Tasks \ {t} : hold'[u] = hold[u] /\ pc'[u] = pc[u] /\ goal'[u] = goal[u]
      /\ pc'[t] = "in" /\ hold'[t] = n
  BY <1>1, SetsOne
<1>3. \A u \in Tasks : hold[u] # n
  BY <1>0
<1>4. EntryTypes'
  <2>1. built' \in 0..MaxEntries /\ cache' \in 0..built'
    BY <1>0, <1>1 DEF Entries
  <2>2. pc' \in [Tasks -> {"idle", "waiting", "building", "in", "closing"}]
        /\ goal' \in [Tasks -> {"none", "lease", "release", "invalidate"}]
    BY <1>1 DEF Set, IInv, EntryTypes
  <2>3. hold' \in [Tasks -> 0..built']
    <3>1. hold' = [hold EXCEPT ![t] = n]
      BY <1>1 DEF Set
    <3> QED BY <1>0, <1>1, <3>1
  <2>4. /\ open' \in [Entries -> BOOLEAN] /\ retired' \in [Entries -> BOOLEAN]
        /\ leases' \in [Entries -> Nat]
    BY <1>0, <1>1 DEF IInv, EntryTypes
  <2> QED BY <2>1, <2>2, <2>3, <2>4 DEF EntryTypes
<1>5. HoldsByPlace'
  BY <1>0, <1>2 DEF IInv, HoldsByPlace
<1>6. Sheltered'
  <2>1. open'[n] /\ ~retired'[n]
    BY <1>0, <1>1 DEF IInv, EntryTypes, Sheltered
  <2>2. \A u \in Tasks : pc'[u] = "closing" => retired'[hold'[u]] /\ leases'[hold'[u]] = 0
    BY <1>0, <1>1, <1>2, <1>3 DEF IInv, Sheltered
  <2>3. \A u \in Tasks : hold'[u] # 0 /\ pc'[u] # "closing" => open'[hold'[u]]
    BY <1>1, <1>2, <1>3, <2>1 DEF IInv, Sheltered
  <2>4. \A e \in Entries : retired'[e] => e <= built'
    BY <1>0, <1>1 DEF IInv, Sheltered, Entries
  <2> QED BY <1>1, <2>1, <2>2, <2>3, <2>4 DEF Sheltered
<1>7. Counted'
  <2> SUFFICES ASSUME NEW e \in Entries PROVE leases'[e] >= Cardinality(Holders(e)')
    BY DEF Counted
  <2>1. CASE e # n
    <3>1. ~Holds(t, e)' /\ leases'[e] = leases[e] /\ leases[e] \in Nat
      BY <1>0, <1>1, <1>2, <2>1 DEF Holds
    <3> QED BY <1>2, <3>1, Recount
  <2>2. CASE e = n
    <3>1. Holders(e)' = {t}
      BY <1>2, <1>3, <2>2 DEF Holders, Holds
    <3>2. leases'[e] = 1
      BY <1>0, <1>1, <2>2
    <3>3. Cardinality({t}) = 1
      BY FS_Singleton
    <3>4. Cardinality(Holders(e)') = 1
      BY <3>1, <3>3
    <3> QED BY <3>2, <3>4
  <2> QED BY <2>1, <2>2
<1> QED BY <1>4, <1>5, <1>6, <1>7 DEF IInv

(* What is closed has no borrower, and is not the published pool.          *)
LEMMA ClosedKeeps ==
  ASSUME IInv, NEW t \in Tasks, Closed(t) PROVE IInv'
<1> DEFINE h == hold[t]
<1>0. h \in Entries /\ retired[h] /\ leases[h] = 0 /\ pc[t] = "closing"
  BY PoolNames DEF Closed, IInv, Sheltered, HoldsByPlace
<1>1. /\ open' = [open EXCEPT ![h] = FALSE] /\ UNCHANGED <<cache, built, leases, retired>>
      /\ Set(t, "idle", "none", 0, 0)
  BY DEF Closed
<1>2. /\ \A u \in Tasks \ {t} : hold'[u] = hold[u] /\ pc'[u] = pc[u] /\ goal'[u] = goal[u]
      /\ pc'[t] = "idle" /\ hold'[t] = 0
  BY <1>1, SetsOne
<1>3. \A u \in Tasks : hold[u] = h => pc[u] = "closing"
  BY <1>0, NobodyHolds DEF Holders, Holds
<1>4. EntryTypes'
  BY <1>0, <1>1 DEF Set, IInv, EntryTypes
<1>5. HoldsByPlace'
  BY <1>2 DEF IInv, HoldsByPlace
<1>6. Sheltered'
  <2>1. cache # h
    BY <1>0 DEF IInv, Sheltered, Entries
  <2>2. \A u \in Tasks : hold'[u] # 0 /\ pc'[u] # "closing" => open'[hold'[u]]
    BY <1>0, <1>1, <1>2, <1>3 DEF IInv, EntryTypes, Sheltered
  <2>3. cache' # 0 => open'[cache'] /\ ~retired'[cache']
    BY <1>1, <2>1 DEF IInv, EntryTypes, Sheltered
  <2> QED BY <1>1, <1>2, <2>2, <2>3 DEF IInv, Sheltered
<1>7. Counted'
  <2> SUFFICES ASSUME NEW e \in Entries PROVE leases'[e] >= Cardinality(Holders(e)')
    BY DEF Counted
  <2>1. ~Holds(t, e)' /\ ~Holds(t, e) /\ leases'[e] = leases[e] /\ leases[e] \in Nat
    BY <1>0, <1>1, <1>2 DEF Holds, Entries, IInv, EntryTypes
  <2> QED BY <1>2, <2>1, Recount
<1> QED BY <1>4, <1>5, <1>6, <1>7 DEF IInv

-----------------------------------------------------------------------------
(* One step per action.                                                    *)
LEMMA InvStep == IInv /\ [Next]_vars => IInv'
<1> SUFFICES ASSUME IInv, [Next]_vars PROVE IInv'
  OBVIOUS
<1>1. CASE UNCHANGED vars
  <2>1. UNCHANGED entryVars /\ pc' = pc /\ goal' = goal /\ hold' = hold
    BY <1>1 DEF vars, entryVars, taskVars
  <2>2. Counted'
    BY <2>1 DEF IInv, Counted, Holders, Holds, entryVars
  <2> QED BY <2>1, <2>2 DEF IInv, EntryTypes, HoldsByPlace, Sheltered, entryVars
<1>2. ASSUME NEW t \in Tasks, Lease(t) PROVE IInv'
  BY <1>2, AcquireKeeps DEF Lease, IInv, HoldsByPlace
<1>3. ASSUME NEW t \in Tasks, LeaveLease(t) PROVE IInv'
  BY <1>3, AcquireKeeps DEF LeaveLease, IInv, HoldsByPlace
<1>4. ASSUME NEW t \in Tasks, Invalidate(t) PROVE IInv'
  BY <1>4, AcquireKeeps DEF Invalidate, IInv, HoldsByPlace
<1>5. ASSUME NEW t \in Tasks, Resume(t) PROVE IInv'
  <2>1. /\ goal[t] \in {"lease", "release", "invalidate"} /\ (goal[t] = "release" <=> hold[t] # 0)
        /\ pc[t] = "waiting" /\ Body(t, goal[t], lk[t], Tail(queue[lk[t]]))
    BY <1>5 DEF Resume, IInv, HoldsByPlace, EntryTypes
  <2> QED BY <2>1, BodyKeeps
<1>6. ASSUME NEW t \in Tasks, Built(t) PROVE IInv'
  BY <1>6, BuiltKeeps
<1>7. ASSUME NEW t \in Tasks, BuildFails(t) PROVE IInv'
  BY <1>7, EmptyHanded DEF BuildFails
<1>8. ASSUME NEW t \in Tasks, Closed(t) PROVE IInv'
  BY <1>8, ClosedKeeps
<1>9. ASSUME NEW t \in Tasks, Cancel(t) PROVE IInv'
  BY <1>9, EmptyHanded DEF Cancel
<1> QED BY <1>1, <1>2, <1>3, <1>4, <1>5, <1>6, <1>7, <1>8, <1>9 DEF Next, Run

(* A Client is never closed while a task is inside its lease, whatever     *)
(* invalidations, rebuilds, second locks and cancellations there are, for  *)
(* any number of each (pool.py, lease).                                    *)
THEOREM NeverClosedUnderABorrower == Spec => []NoUseAfterClose
<1>1. IInv => NoUseAfterClose
  BY DEF IInv, Sheltered, HoldsByPlace, NoUseAfterClose
<1> QED BY <1>1, InvInit, InvStep, PTL DEF Spec

-----------------------------------------------------------------------------
(* The accounts of a tenant                                               *)

(* No two readable rows of before revision 0014 hold one token.            *)
DistinctLegacies ==
  \A legacy \in Legacies : \A a, b \in DOMAIN legacy :
    a # b /\ Decrypts(legacy[a]) /\ Decrypts(legacy[b]) => legacy[a].token # legacy[b].token

(* The rows an account has just now: the committed one, and the one of a   *)
(* transaction that has it locked.                                         *)
Version(a) == {db[a]} \cup {pend[r][a] : r \in {q \in Reqs : a \in DOMAIN pend[q]}}

Bare(v) == v # None /\ Decrypts(v.blob) /\ v.hash = None
Twins(v, w) ==
  v # None /\ w # None /\ Decrypts(v.blob) /\ Decrypts(w.blob) /\ v.blob.token = w.blob.token

AccountTypes ==
  /\ db \in [Accts -> Rows]
  /\ DOMAIN pend = Reqs
  /\ \A r \in Reqs : DOMAIN pend[r] \subseteq Accts /\ \A a \in DOMAIN pend[r] : pend[r][a] \in Rows

(* A digest is that of the row's token, which can be read.                 *)
DigestsAreTrue ==
  \A a \in Accts : \A v \in Version(a) :
    v # None /\ v.hash # None => v.hash = Fingerprint(v.blob.token) /\ Decrypts(v.blob)

OneWriter == \A r, q \in Reqs : r # q => DOMAIN pend[r] \cap DOMAIN pend[q] = {}

(* What a transaction wrote over a committed row keeps its ciphertext and  *)
(* its digest; what it inserted has one.                                   *)
Follows ==
  \A r \in Reqs : \A a \in DOMAIN pend[r] : pend[r][a] # None =>
    IF db[a] = None THEN pend[r][a].hash # None
    ELSE /\ pend[r][a].blob = db[a].blob
         /\ db[a].hash # None => pend[r][a].hash = db[a].hash

NoTwins == DistinctLegacies =>
  \A a, b \in Accts : a # b => \A v \in Version(a), w \in Version(b) : ~Twins(v, w)

AddedAreReadable ==
  added \subseteq Accts /\ \A a \in added : \A v \in Version(a) : v # None => Decrypts(v.blob)

RowInv == AccountTypes /\ DigestsAreTrue /\ OneWriter /\ Follows /\ NoTwins /\ AddedAreReadable

-----------------------------------------------------------------------------
(* What the requests know of the rows                                      *)

Adding == {"list", "backfill", "verify", "insert"}
Later  == {"check", "write", "invalidate", "profile", "save", "commit"}
Adds   == [op : {"add"}, token : Tokens, acct : Accts \cup {None}]
Changes == {"add", "reactivate", "delete"}

(* Where a request is, and what it holds there.                            *)
Placed(r) ==
  /\ due[r] \in {"idle"} \cup Adding \cup Later /\ todo[r] \subseteq Accts
  /\ due[r] = "idle" => DOMAIN pend[r] = {}
  /\ due[r] \in Adding => /\ req[r] \in Adds /\ req[r].acct = None
                          /\ \A a \in DOMAIN pend[r] : pend[r][a] # None
  /\ due[r] \in Later => req[r] \in Request /\ req[r].acct \in Accts
  /\ due[r] \in {"check", "write"} => req[r].op \in {"reactivate", "delete", "label"}

(* The backfill leaves no readable row without its digest.                 *)
Listed(r) == DistinctLegacies => \A a \in Accts : Bare(View(r)[a]) =>
  /\ due[r] \notin {"verify", "insert"}
  /\ due[r] = "backfill" => a \in todo[r]
  /\ Fingerprint(View(r)[a].blob.token) \notin assigned[r]

InFlight ==
  /\ DOMAIN due = Reqs /\ DOMAIN req = Reqs /\ DOMAIN todo = Reqs /\ DOMAIN assigned = Reqs
  /\ \A r \in Reqs : Placed(r) /\ Listed(r)

UniqueInv == RowInv /\ InFlight

-----------------------------------------------------------------------------
LEMMA Constants ==
  /\ None \notin Accts /\ None \notin Account /\ None \notin Digests /\ None \notin Labels
  /\ KeyVersion = 1 /\ (\A t : Decrypts(Encrypt(t)))
  BY RotationAssumption DEF KeyVersion, Encrypt, Decrypts

LEMMA RowParts ==
  ASSUME NEW v \in Rows, v # None
  PROVE  /\ v \in Account /\ v.blob.token \in Tokens /\ v.hash \in Digests \cup {None}
         /\ DOMAIN v = {"blob", "hash", "status", "label", "synced"}
  BY DEF Rows, Account

LEMMA NewRowParts ==
  ASSUME NEW t \in Tokens
  PROVE  /\ NewRow(t) \in Account /\ NewRow(t) # None /\ NewRow(t).hash = Fingerprint(t)
         /\ NewRow(t).hash # None /\ NewRow(t).blob.token = t /\ Decrypts(NewRow(t).blob)
         /\ NewRow(t).status = "active"
<1>1. Encrypt(t) \in [version : 0..KeyVersion, token : Tokens] /\ Encrypt(t).token = t
  BY DEF Encrypt, KeyVersion
<1>2. Fingerprint(t) \in Digests
  BY DEF Digests
<1>3. NewRow(t) \in Account
  BY <1>1, <1>2 DEF NewRow, Account
<1>4. Fingerprint(t) # None /\ NewRow(t) # None
  BY <1>2, <1>3, Constants
<1> QED BY <1>1, <1>3, <1>4, Constants DEF NewRow

(* A request sees the one version or the other.                            *)
LEMMA Seen ==
  ASSUME AccountTypes, NEW r \in Reqs, NEW a \in Accts
  PROVE  /\ View(r)[a] = IF a \in DOMAIN pend[r] THEN pend[r][a] ELSE db[a]
         /\ View(r)[a] \in Version(a) /\ db[a] \in Version(a) /\ View(r)[a] \in Rows
<1>1. View(r)[a] = IF a \in DOMAIN pend[r] THEN pend[r][a] ELSE db[a]
  BY DEF View
<1> QED BY <1>1 DEF AccountTypes, Version

LEMMA FingerprintsDiffer == \A t, u : Fingerprint(t) = Fingerprint(u) => t = u
  BY DEF Fingerprint

-----------------------------------------------------------------------------
(* The steps, as the rows see them                                         *)

(* What r may make of a row it sees: other fields, its digest, or nothing. *)
Tame(v, row) ==
  /\ v # None /\ row \in Rows
  /\ row = None \/ ( /\ row.blob = v.blob
                     /\ \/ row.hash = v.hash
                        \/ v.hash = None /\ Decrypts(v.blob) /\ row.hash = Fingerprint(v.blob.token))

(* No row loses its digest in anybody's view.                              *)
ViewsAreTame(q) == \A b \in Accts : Bare(View(q)'[b]) =>
  Bare(View(q)[b]) /\ View(q)'[b].blob = View(q)[b].blob

LEMMA WriteShape ==
  ASSUME AccountTypes, NEW r \in Reqs, NEW a \in Accts, NEW row \in Rows, Write(r, a, row)
  PROVE  /\ DOMAIN pend' = Reqs /\ \A q \in Reqs \ {r} : pend'[q] = pend[q]
         /\ DOMAIN pend'[r] = {a} \cup DOMAIN pend[r] /\ pend'[r][a] = row
         /\ \A b \in DOMAIN pend[r] \ {a} : pend'[r][b] = pend[r][b]
         /\ \A q \in Reqs : DOMAIN pend'[q] \subseteq Accts
         /\ \A q \in Reqs : \A b \in DOMAIN pend'[q] : pend'[q][b] \in Rows
<1>1. pend' = [pend EXCEPT ![r] = [b \in {a} \cup DOMAIN pend[r] |-> IF b = a THEN row ELSE pend[r][b]]]
  BY DEF Write
<1>2. DOMAIN pend' = Reqs /\ \A q \in Reqs \ {r} : pend'[q] = pend[q]
  BY <1>1 DEF AccountTypes
<1>3. pend'[r] = [b \in {a} \cup DOMAIN pend[r] |-> IF b = a THEN row ELSE pend[r][b]]
  BY <1>1 DEF AccountTypes
<1>4. DOMAIN pend'[r] = {a} \cup DOMAIN pend[r] /\ pend'[r][a] = row
      /\ \A b \in DOMAIN pend[r] \ {a} : pend'[r][b] = pend[r][b]
  BY <1>3
<1> QED BY <1>2, <1>4 DEF AccountTypes

(* The versions after a write are those before, and the row written.       *)
LEMMA WriteVersions ==
  ASSUME AccountTypes, NEW r \in Reqs, NEW a \in Accts, NEW row \in Rows, Write(r, a, row), UNCHANGED db
  PROVE  /\ \A b \in Accts \ {a} : Version(b)' = Version(b)
         /\ Version(a)' \subseteq Version(a) \cup {row}
<1>1. /\ DOMAIN pend' = Reqs /\ \A q \in Reqs \ {r} : pend'[q] = pend[q]
      /\ DOMAIN pend'[r] = {a} \cup DOMAIN pend[r] /\ pend'[r][a] = row
      /\ \A b \in DOMAIN pend[r] \ {a} : pend'[r][b] = pend[r][b]
  BY WriteShape
<1>2. \A b \in Accts \ {a} : \A q \in Reqs :
        (b \in DOMAIN pend'[q] <=> b \in DOMAIN pend[q]) /\ (b \in DOMAIN pend[q] => pend'[q][b] = pend[q][b])
  BY <1>1
<1>3. \A b \in Accts \ {a} : Version(b)' = Version(b)
  BY <1>2 DEF Version
<1>4. \A q \in Reqs : a \in DOMAIN pend'[q] =>
        pend'[q][a] = row \/ (a \in DOMAIN pend[q] /\ pend'[q][a] = pend[q][a])
  BY <1>1
<1> QED BY <1>3, <1>4 DEF Version

LEMMA WriteKeepsRows ==
  ASSUME RowInv, NEW r \in Reqs, NEW a \in Accts, NEW row \in Rows, ~Locked(r, a),
         Write(r, a, row), UNCHANGED <<db, added>>, Tame(View(r)[a], row)
  PROVE  RowInv' /\ \A q \in Reqs : ViewsAreTame(q)
<1> DEFINE v == View(r)[a]
<1>0. AccountTypes /\ v \in Version(a) /\ v \in Rows /\ v # None
      /\ v = (IF a \in DOMAIN pend[r] THEN pend[r][a] ELSE db[a])
  BY Seen DEF RowInv, Tame
<1>1. /\ DOMAIN pend' = Reqs /\ \A q \in Reqs \ {r} : pend'[q] = pend[q]
      /\ DOMAIN pend'[r] = {a} \cup DOMAIN pend[r] /\ pend'[r][a] = row
      /\ \A b \in DOMAIN pend[r] \ {a} : pend'[r][b] = pend[r][b]
  BY <1>0, WriteShape
<1>2. (\A b \in Accts \ {a} : Version(b)' = Version(b)) /\ Version(a)' \subseteq Version(a) \cup {row}
  BY <1>0, WriteVersions
<1>3. \A q \in Reqs \ {r} : a \notin DOMAIN pend[q]
  BY DEF Locked
<1>4. AccountTypes'
  BY <1>0, WriteShape DEF AccountTypes
<1>5. row # None => row.blob = v.blob /\ (row.hash = v.hash \/ (v.hash = None /\ Decrypts(v.blob) /\ row.hash = Fingerprint(v.blob.token)))
  BY DEF Tame
<1> HIDE DEF v
<1>6. DigestsAreTrue'
  <2> SUFFICES ASSUME NEW b \in Accts, NEW w \in Version(b)', w # None, w.hash # None
               PROVE  w.hash = Fingerprint(w.blob.token) /\ Decrypts(w.blob)
    BY DEF DigestsAreTrue
  <2>1. CASE w \in Version(b)
    BY <2>1 DEF RowInv, DigestsAreTrue
  <2>2. CASE b = a /\ w = row
    <3>1. v.hash # None => v.hash = Fingerprint(v.blob.token) /\ Decrypts(v.blob)
      BY <1>0 DEF RowInv, DigestsAreTrue
    <3> QED BY <1>5, <2>2, <3>1
  <2> QED BY <1>2, <2>1, <2>2
<1>7. OneWriter'
  BY <1>1, <1>3 DEF RowInv, OneWriter
<1>8. Follows'
  <2> SUFFICES ASSUME NEW q \in Reqs, NEW b \in DOMAIN pend'[q], pend'[q][b] # None
               PROVE  IF db[b] = None THEN pend'[q][b].hash # None
                      ELSE /\ pend'[q][b].blob = db[b].blob
                           /\ db[b].hash # None => pend'[q][b].hash = db[b].hash
    BY DEF Follows
  <2>1. CASE b \in DOMAIN pend[q] /\ pend'[q][b] = pend[q][b]
    BY <2>1 DEF RowInv, Follows
  <2>2. CASE q = r /\ b = a /\ pend'[q][b] = row
    <3>1. IF db[a] = None THEN v.hash # None
          ELSE v.blob = db[a].blob /\ (db[a].hash # None => v.hash = db[a].hash)
      BY <1>0 DEF RowInv, Follows
    <3>2. \A t \in Tokens : Fingerprint(t) # None
      BY Constants DEF Digests
    <3>3. v.blob.token \in Tokens
      BY <1>0, RowParts
    <3> QED BY <1>5, <2>2, <3>1, <3>2, <3>3
  <2> QED BY <1>1, <2>1, <2>2
<1>9. NoTwins'
  <2> SUFFICES ASSUME DistinctLegacies, NEW b \in Accts, NEW c \in Accts, b # c, NEW w \in Version(b)', NEW x \in Version(c)'
               PROVE  ~Twins(w, x)
    BY DEF NoTwins
  <2>1. ~(w \in Version(b) /\ x \in Version(c)) \/ ~Twins(w, x)
    BY DEF RowInv, NoTwins
  <2>2. CASE b = a /\ w = row
    <3>1. x \in Version(c) /\ ~Twins(v, x)
      BY <1>0, <1>2, <2>2 DEF RowInv, NoTwins
    <3> QED BY <1>0, <1>5, <2>2, <3>1 DEF Twins
  <2>3. CASE c = a /\ x = row
    <3>1. w \in Version(b) /\ ~Twins(w, v)
      BY <1>0, <1>2, <2>3 DEF RowInv, NoTwins
    <3> QED BY <1>0, <1>5, <2>3, <3>1 DEF Twins
  <2> QED BY <1>2, <2>1, <2>2, <2>3
<1>10. AddedAreReadable'
  <2>0. added \subseteq Accts
    BY DEF RowInv, AddedAreReadable
  <2> SUFFICES ASSUME NEW b \in added, NEW w \in Version(b)', w # None PROVE Decrypts(w.blob)
    BY <2>0 DEF AddedAreReadable
  <2>1. CASE w \in Version(b)
    BY <2>1 DEF RowInv, AddedAreReadable
  <2>2. CASE b = a /\ w = row
    BY <1>0, <1>5, <2>2 DEF RowInv, AddedAreReadable
  <2> QED BY <1>2, <2>0, <2>1, <2>2
<1>11. ASSUME NEW q \in Reqs PROVE ViewsAreTame(q)
  <2> SUFFICES ASSUME NEW b \in Accts, Bare(View(q)'[b])
               PROVE  Bare(View(q)[b]) /\ View(q)'[b].blob = View(q)[b].blob
    BY DEF ViewsAreTame
  <2>1. View(q)'[b] = (IF b \in DOMAIN pend'[q] THEN pend'[q][b] ELSE db[b])
        /\ View(q)[b] = (IF b \in DOMAIN pend[q] THEN pend[q][b] ELSE db[b])
    BY DEF View
  <2>2. CASE q = r /\ b = a
    <3>1. View(q)'[b] = row /\ View(q)[b] = v
      BY <1>1, <2>1, <2>2 DEF v
    <3>2. \A t \in Tokens : Fingerprint(t) # None
      BY Constants DEF Digests
    <3>3. v.blob.token \in Tokens
      BY <1>0, RowParts
    <3> QED BY <1>0, <1>5, <3>1, <3>2, <3>3 DEF Bare
  <2>3. CASE ~(q = r /\ b = a)
    <3>1. View(q)'[b] = View(q)[b]
      BY <1>1, <2>1, <2>3
    <3> QED BY <3>1
  <2> QED BY <2>2, <2>3
<1> QED BY <1>4, <1>6, <1>7, <1>8, <1>9, <1>10, <1>11 DEF RowInv

(* A rollback forgets versions; the committed rows are what they were.     *)
LEMMA RollbackKeepsRows ==
  ASSUME RowInv, NEW r \in Reqs, pend' = [pend EXCEPT ![r] = <<>>], UNCHANGED <<db, added>>
  PROVE  RowInv' /\ \A q \in Reqs \ {r} : ViewsAreTame(q)
<1>0. DOMAIN <<>> = {}
  OBVIOUS
<1>1. /\ DOMAIN pend' = Reqs /\ DOMAIN pend'[r] = {} /\ \A q \in Reqs \ {r} : pend'[q] = pend[q]
  BY <1>0 DEF RowInv, AccountTypes
<1>2. \A b \in Accts : Version(b)' \subseteq Version(b)
  BY <1>1 DEF Version
<1>3. AccountTypes'
  BY <1>1 DEF RowInv, AccountTypes
<1>4. DigestsAreTrue' /\ NoTwins' /\ AddedAreReadable'
  BY <1>2 DEF RowInv, DigestsAreTrue, NoTwins, AddedAreReadable
<1>5. OneWriter' /\ Follows'
  BY <1>1 DEF RowInv, OneWriter, Follows
<1>6. ASSUME NEW q \in Reqs \ {r} PROVE ViewsAreTame(q)
  <2>1. \A b \in Accts : View(q)'[b] = View(q)[b]
    BY <1>1 DEF View
  <2> QED BY <2>1 DEF ViewsAreTame
<1> QED BY <1>3, <1>4, <1>5, <1>6 DEF RowInv

LEMMA CommitShape ==
  ASSUME RowInv, NEW r \in Reqs, db' = View(r), pend' = [pend EXCEPT ![r] = <<>>]
  PROVE  /\ DOMAIN db' = Accts
         /\ \A b \in Accts : db'[b] = IF b \in DOMAIN pend[r] THEN pend[r][b] ELSE db[b]
         /\ DOMAIN pend' = Reqs /\ DOMAIN pend'[r] = {} /\ \A q \in Reqs \ {r} : pend'[q] = pend[q]
         /\ \A q \in Reqs \ {r} : \A b \in DOMAIN pend[q] : b \in Accts /\ db'[b] = db[b]
<1>0. DOMAIN <<>> = {}
  OBVIOUS
<1>1. DOMAIN db' = Accts /\ \A b \in Accts : db'[b] = IF b \in DOMAIN pend[r] THEN pend[r][b] ELSE db[b]
  BY DEF View
<1>2. DOMAIN pend' = Reqs /\ DOMAIN pend'[r] = {} /\ \A q \in Reqs \ {r} : pend'[q] = pend[q]
  BY <1>0 DEF RowInv, AccountTypes
<1>3. ASSUME NEW q \in Reqs \ {r}, NEW b \in DOMAIN pend[q] PROVE b \in Accts /\ db'[b] = db[b]
  BY <1>1, <1>3 DEF RowInv, AccountTypes, OneWriter
<1> QED BY <1>1, <1>2, <1>3

(* A commit makes one version the committed one, and disturbs no other     *)
(* transaction's: the rows it wrote were locked.                           *)
LEMMA CommitKeepsRows ==
  ASSUME RowInv, NEW r \in Reqs, db' = View(r), pend' = [pend EXCEPT ![r] = <<>>], UNCHANGED added
  PROVE  RowInv' /\ \A q \in Reqs \ {r} : ViewsAreTame(q)
<1>1. /\ DOMAIN db' = Accts
      /\ \A b \in Accts : db'[b] = IF b \in DOMAIN pend[r] THEN pend[r][b] ELSE db[b]
      /\ DOMAIN pend' = Reqs /\ DOMAIN pend'[r] = {} /\ \A q \in Reqs \ {r} : pend'[q] = pend[q]
      /\ \A q \in Reqs \ {r} : \A b \in DOMAIN pend[q] : b \in Accts /\ db'[b] = db[b]
  BY CommitShape
<1>2. \A b \in Accts : Version(b)' \subseteq Version(b)
  BY <1>1 DEF Version
<1>3. AccountTypes'
  <2>1. \A b \in Accts : db'[b] \in Rows
    BY <1>1 DEF RowInv, AccountTypes
  <2>2. db' = [b \in Accts |-> db'[b]]
    BY DEF View
  <2>3. db' \in [Accts -> Rows]
    BY <2>1, <2>2
  <2> QED BY <1>1, <2>3 DEF RowInv, AccountTypes
<1>4. DigestsAreTrue' /\ NoTwins' /\ AddedAreReadable'
  BY <1>2 DEF RowInv, DigestsAreTrue, NoTwins, AddedAreReadable
<1>5. OneWriter'
  BY <1>1 DEF RowInv, OneWriter
<1>6. Follows'
  BY <1>1 DEF RowInv, Follows
<1>7. ASSUME NEW q \in Reqs \ {r} PROVE ViewsAreTame(q)
  <2> SUFFICES ASSUME NEW b \in Accts, Bare(View(q)'[b])
               PROVE  Bare(View(q)[b]) /\ View(q)'[b].blob = View(q)[b].blob
    BY DEF ViewsAreTame
  <2>1. View(q)'[b] = (IF b \in DOMAIN pend'[q] THEN pend'[q][b] ELSE db'[b])
        /\ View(q)[b] = (IF b \in DOMAIN pend[q] THEN pend[q][b] ELSE db[b])
    BY DEF View
  <2>2. CASE View(q)'[b] = View(q)[b]
    BY <2>2
  <2>3. CASE b \notin DOMAIN pend[q] /\ b \in DOMAIN pend[r]
    <3>1. View(q)'[b] = pend[r][b] /\ View(q)[b] = db[b]
      BY <1>1, <2>1, <2>3
    <3>2. pend[r][b] # None /\ pend[r][b].hash = None /\ Decrypts(pend[r][b].blob)
      BY <3>1 DEF Bare
    <3>3. IF db[b] = None THEN pend[r][b].hash # None
          ELSE /\ pend[r][b].blob = db[b].blob
               /\ db[b].hash # None => pend[r][b].hash = db[b].hash
      BY <2>3, <3>2 DEF RowInv, Follows
    <3> QED BY <3>1, <3>2, <3>3 DEF Bare
  <2> QED BY <1>1, <2>1, <2>2, <2>3
<1> QED BY <1>3, <1>4, <1>5, <1>6, <1>7 DEF RowInv

(* An exclusion touches a row that nobody has locked, and its status only. *)
LEMMA ExcludeKeepsRows ==
  ASSUME RowInv, NEW a \in Accts, db[a] # None, \A r \in Reqs : a \notin DOMAIN pend[r],
         db' = [db EXCEPT ![a] = update_status(@, "excluded")], UNCHANGED <<pend, added>>
  PROVE  RowInv' /\ \A q \in Reqs : ViewsAreTame(q)
<1>1. db[a] \in Account /\ db[a].blob.token \in Tokens
      /\ DOMAIN db[a] = {"blob", "hash", "status", "label", "synced"}
  BY RowParts DEF RowInv, AccountTypes
<1>2. PICK row : row = [db[a] EXCEPT !.status = "excluded"]
  OBVIOUS
<1>3. row \in Account /\ row.blob = db[a].blob /\ row.hash = db[a].hash /\ row # None
  <2>1. row \in Account
    BY <1>1, <1>2 DEF Account
  <2>2. row.blob = db[a].blob /\ row.hash = db[a].hash
    BY <1>1, <1>2
  <2> QED BY <2>1, <2>2, Constants
<1>4. DOMAIN db' = Accts /\ db'[a] = row /\ (\A b \in Accts \ {a} : db'[b] = db[b]) /\ db' \in [Accts -> Rows]
  BY <1>2, <1>3 DEF RowInv, AccountTypes, update_status, Rows
<1>5. Version(a) = {db[a]} /\ Version(a)' = {row} /\ \A b \in Accts \ {a} : Version(b)' = Version(b)
  BY <1>4 DEF Version
<1>6. AccountTypes'
  BY <1>4 DEF RowInv, AccountTypes
<1>7. DigestsAreTrue'
  <2>1. db[a].hash # None => db[a].hash = Fingerprint(db[a].blob.token) /\ Decrypts(db[a].blob)
    BY <1>5 DEF RowInv, DigestsAreTrue
  <2> SUFFICES ASSUME NEW b \in Accts, NEW w \in Version(b)', w # None, w.hash # None
               PROVE  w.hash = Fingerprint(w.blob.token) /\ Decrypts(w.blob)
    BY DEF DigestsAreTrue
  <2>2. CASE b = a
    <3>1. w = row
      BY <1>5, <2>2
    <3> QED BY <1>3, <2>1, <3>1
  <2>3. CASE b # a
    <3>1. w \in Version(b)
      BY <1>5, <2>3
    <3> QED BY <3>1 DEF RowInv, DigestsAreTrue
  <2> QED BY <2>2, <2>3
<1>8. NoTwins'
  <2> SUFFICES ASSUME DistinctLegacies, NEW b \in Accts, NEW c \in Accts, b # c, NEW w \in Version(b)', NEW x \in Version(c)'
               PROVE  ~Twins(w, x)
    BY DEF NoTwins
  <2>1. CASE b = a
    <3>1. w = row /\ x \in Version(c) /\ ~Twins(db[a], x)
      BY <1>5, <2>1 DEF RowInv, NoTwins
    <3> QED BY <1>3, <3>1 DEF Twins
  <2>2. CASE c = a
    <3>1. x = row /\ w \in Version(b) /\ ~Twins(w, db[a])
      BY <1>5, <2>2 DEF RowInv, NoTwins
    <3> QED BY <1>3, <3>1 DEF Twins
  <2>3. CASE b # a /\ c # a
    BY <1>5, <2>3 DEF RowInv, NoTwins
  <2> QED BY <2>1, <2>2, <2>3
<1>9. AddedAreReadable'
  <2>1. added \subseteq Accts /\ (a \in added => Decrypts(db[a].blob))
    BY <1>5 DEF RowInv, AddedAreReadable
  <2>2. ASSUME NEW b \in added, NEW w \in Version(b)', w # None PROVE Decrypts(w.blob)
    <3>1. CASE b = a
      <4>1. w = row
        BY <1>5, <3>1
      <4> QED BY <1>3, <2>1, <3>1, <4>1
    <3>2. CASE b # a
      <4>1. w \in Version(b)
        BY <1>5, <2>1, <3>2
      <4> QED BY <2>2, <4>1 DEF RowInv, AddedAreReadable
    <3> QED BY <3>1, <3>2
  <2> QED BY <2>1, <2>2 DEF AddedAreReadable
<1>10. OneWriter' /\ Follows'
  BY <1>4 DEF RowInv, OneWriter, Follows
<1>11. ASSUME NEW q \in Reqs PROVE ViewsAreTame(q)
  <2> SUFFICES ASSUME NEW b \in Accts, Bare(View(q)'[b])
               PROVE  Bare(View(q)[b]) /\ View(q)'[b].blob = View(q)[b].blob
    BY DEF ViewsAreTame
  <2>1. View(q)'[b] = (IF b \in DOMAIN pend[q] THEN pend[q][b] ELSE db'[b])
        /\ View(q)[b] = (IF b \in DOMAIN pend[q] THEN pend[q][b] ELSE db[b])
    BY DEF View
  <2> QED BY <1>3, <1>4, <2>1 DEF Bare
<1> QED BY <1>6, <1>7, <1>8, <1>9, <1>10, <1>11 DEF RowInv

-----------------------------------------------------------------------------
(* The insert                                                              *)

(* Nobody has the token: a readable row of another account has its digest, *)
(* which the insert would have collided with.                              *)
LEMMA NobodyHasIt ==
  ASSUME DistinctLegacies, UniqueInv, NEW r \in Reqs, due[r] = "insert", ~Contested(r, req[r].token),
         \A b \in Accts : ~HasHash(View(r)[b], req[r].token),
         NEW b \in Accts, NEW w \in Version(b), w # None, Decrypts(w.blob)
  PROVE  w.blob.token # req[r].token
<1> DEFINE t == req[r].token
<1> SUFFICES ASSUME w.blob.token = t PROVE FALSE
  OBVIOUS
<1>0. RowInv /\ AccountTypes /\ DOMAIN pend = Reqs
      /\ \A a \in DOMAIN pend[r] : pend[r][a] # None
  BY DEF UniqueInv, RowInv, AccountTypes, InFlight, Placed, Adding
<1>1. ASSUME NEW x, x = View(r)[b], x # None PROVE ~Decrypts(x.blob) \/ x.blob.token # t
  <2>1. ~Bare(x)
    BY <1>1 DEF UniqueInv, InFlight, Listed
  <2>2. x.hash # None => x.hash = Fingerprint(x.blob.token)
    BY <1>0, <1>1, Seen DEF RowInv, DigestsAreTrue
  <2>3. x.hash # Fingerprint(t)
    BY <1>1 DEF HasHash
  <2> QED BY <1>1, <2>1, <2>2, <2>3 DEF Bare
<1>2. w # View(r)[b]
  BY <1>1
<1>3. ASSUME db[b] # None PROVE ~Decrypts(db[b].blob) \/ db[b].blob.token # t
  <2>1. CASE b \notin DOMAIN pend[r]
    <3>1. View(r)[b] = db[b]
      BY <2>1 DEF View
    <3> QED BY <1>1, <1>3, <3>1
  <2>2. CASE b \in DOMAIN pend[r]
    <3>1. View(r)[b] = pend[r][b] /\ pend[r][b] # None
      BY <1>0, <2>2 DEF View
    <3>2. pend[r][b].blob = db[b].blob
      BY <1>0, <1>3, <2>2, <3>1 DEF RowInv, Follows
    <3> QED BY <1>1, <3>1, <3>2
  <2> QED BY <2>1, <2>2
<1>4. PICK q \in Reqs : b \in DOMAIN pend[q] /\ w = pend[q][b]
  BY <1>3 DEF Version
<1>5. q # r
  BY <1>2, <1>4 DEF View
<1>6. db[b] = None
  BY <1>0, <1>3, <1>4 DEF RowInv, Follows
<1>7. w.hash # None /\ w.hash = Fingerprint(t)
  BY <1>0, <1>4, <1>6 DEF RowInv, Follows, DigestsAreTrue
<1>8. HasHash(pend[q][b], t) /\ ~HasHash(db[b], t)
  BY <1>4, <1>6, <1>7 DEF HasHash
<1> QED BY <1>4, <1>5, <1>8 DEF Contested

LEMMA InsertKeepsRows ==
  ASSUME UniqueInv, NEW r \in Reqs, due[r] = "insert", ~Contested(r, req[r].token),
         \A b \in Accts : ~HasHash(View(r)[b], req[r].token),
         NEW a \in Accts, db[a] = None, ~Locked(r, a),
         Write(r, a, NewRow(req[r].token)), added' = added \cup {a}, UNCHANGED db
  PROVE  RowInv' /\ \A q \in Reqs : ViewsAreTame(q)
<1>0. RowInv /\ AccountTypes /\ req[r] \in Adds /\ req[r].token \in Tokens
  BY DEF UniqueInv, RowInv, InFlight, Placed, Adding, Adds
<1>1. PICK row : row = NewRow(req[r].token)
  OBVIOUS
<1>2. /\ row \in Rows /\ row # None /\ row.hash = Fingerprint(row.blob.token) /\ row.hash # None
      /\ row.blob.token = req[r].token /\ Decrypts(row.blob)
  BY <1>0, <1>1, NewRowParts DEF Rows
<1>3. /\ DOMAIN pend' = Reqs /\ \A q \in Reqs \ {r} : pend'[q] = pend[q]
      /\ DOMAIN pend'[r] = {a} \cup DOMAIN pend[r] /\ pend'[r][a] = row
      /\ \A b \in DOMAIN pend[r] \ {a} : pend'[r][b] = pend[r][b]
  BY <1>0, <1>1, <1>2, WriteShape
<1>4. (\A b \in Accts \ {a} : Version(b)' = Version(b)) /\ Version(a)' \subseteq Version(a) \cup {row}
  BY <1>0, <1>1, <1>2, WriteVersions
<1>5. \A q \in Reqs \ {r} : a \notin DOMAIN pend[q]
  BY DEF Locked
<1>6. Version(a)' = {None, row}
  <2>1. \A q \in Reqs : a \in DOMAIN pend'[q] <=> q = r
    BY <1>3, <1>5
  <2> QED BY <1>3, <2>1 DEF Version
<1>7. AccountTypes'
  BY <1>0, <1>1, <1>2, WriteShape DEF AccountTypes
<1>8. DigestsAreTrue'
  BY <1>0, <1>2, <1>4, <1>6 DEF RowInv, DigestsAreTrue
<1>9. OneWriter'
  BY <1>0, <1>3, <1>5 DEF RowInv, OneWriter
<1>10. Follows'
  <2> SUFFICES ASSUME NEW q \in Reqs, NEW b \in DOMAIN pend'[q], pend'[q][b] # None
               PROVE  IF db[b] = None THEN pend'[q][b].hash # None
                      ELSE /\ pend'[q][b].blob = db[b].blob
                           /\ db[b].hash # None => pend'[q][b].hash = db[b].hash
    BY DEF Follows
  <2>1. CASE b \in DOMAIN pend[q] /\ pend'[q][b] = pend[q][b]
    BY <1>0, <2>1 DEF RowInv, Follows
  <2>2. CASE b = a /\ pend'[q][b] = row
    BY <1>2, <2>2
  <2> QED BY <1>3, <2>1, <2>2
<1>11. NoTwins'
  <2> SUFFICES ASSUME DistinctLegacies, NEW b \in Accts, NEW c \in Accts, b # c, NEW w \in Version(b)', NEW x \in Version(c)'
               PROVE  ~Twins(w, x)
    BY DEF NoTwins
  <2>1. ASSUME NEW d \in Accts \ {a}, NEW y \in Version(d) PROVE ~Twins(row, y) /\ ~Twins(y, row)
    BY <1>2, <2>1, NobodyHasIt DEF Twins
  <2>2. ~Twins(None, row) /\ \A y : ~Twins(None, y) /\ ~Twins(y, None)
    BY DEF Twins
  <2>3. CASE b = a
    <3>1. w \in {None, row} /\ x \in Version(c)
      BY <1>4, <1>6, <2>3
    <3> QED BY <2>1, <2>2, <2>3, <3>1
  <2>4. CASE c = a
    <3>1. x \in {None, row} /\ w \in Version(b)
      BY <1>4, <1>6, <2>4
    <3> QED BY <2>1, <2>2, <2>4, <3>1
  <2>5. CASE b # a /\ c # a
    BY <1>0, <1>4, <2>5 DEF RowInv, NoTwins
  <2> QED BY <2>3, <2>4, <2>5
<1>12. AddedAreReadable'
  BY <1>0, <1>2, <1>4, <1>6 DEF RowInv, AddedAreReadable
<1>13. ASSUME NEW q \in Reqs PROVE ViewsAreTame(q)
  <2> SUFFICES ASSUME NEW b \in Accts, Bare(View(q)'[b])
               PROVE  Bare(View(q)[b]) /\ View(q)'[b].blob = View(q)[b].blob
    BY DEF ViewsAreTame
  <2>1. View(q)'[b] = (IF b \in DOMAIN pend'[q] THEN pend'[q][b] ELSE db[b])
        /\ View(q)[b] = (IF b \in DOMAIN pend[q] THEN pend[q][b] ELSE db[b])
    BY DEF View
  <2>2. ~(q = r /\ b = a)
    BY <1>2, <1>3, <2>1 DEF Bare
  <2>3. View(q)'[b] = View(q)[b]
    BY <1>3, <2>1, <2>2
  <2> QED BY <2>3
<1> QED BY <1>7, <1>8, <1>9, <1>10, <1>11, <1>12, <1>13 DEF RowInv

-----------------------------------------------------------------------------
(* The requests                                                            *)

LEMMA SameRows ==
  ASSUME RowInv, UNCHANGED <<db, pend, added>> PROVE RowInv' /\ \A q \in Reqs : ViewsAreTame(q)
<1>1. \A a \in Accts : Version(a)' = Version(a)
  BY DEF Version
<1>2. RowInv'
  BY <1>1 DEF RowInv, AccountTypes, DigestsAreTrue, OneWriter, Follows, NoTwins, AddedAreReadable
<1>3. \A q \in Reqs : View(q)' = View(q)
  BY DEF View
<1> QED BY <1>2, <1>3 DEF ViewsAreTame

(* What another request does leaves q where it is, no worse informed.      *)
LEMMA OthersStay ==
  ASSUME UniqueInv, NEW q \in Reqs, ViewsAreTame(q), due'[q] = due[q], req'[q] = req[q],
         todo'[q] = todo[q], assigned'[q] = assigned[q], pend'[q] = pend[q]
  PROVE  Placed(q)' /\ Listed(q)'
<1>1. Placed(q) /\ Listed(q)
  BY DEF UniqueInv, InFlight
<1>2. Placed(q)'
  BY <1>1 DEF Placed
<1>3. Listed(q)'
  <2> SUFFICES ASSUME DistinctLegacies, NEW a \in Accts, Bare(View(q)'[a])
               PROVE  /\ due'[q] \notin {"verify", "insert"}
                      /\ due'[q] = "backfill" => a \in todo'[q]
                      /\ Fingerprint(View(q)'[a].blob.token) \notin assigned'[q]
    BY DEF Listed
  <2>1. Bare(View(q)[a]) /\ View(q)'[a].blob = View(q)[a].blob
    BY DEF ViewsAreTame
  <2> QED BY <1>1, <2>1 DEF Listed
<1> QED BY <1>2, <1>3

LEMMA EndsKeep ==
  ASSUME UniqueInv, NEW r \in Reqs, Rollback(r), RowInv', \A q \in Reqs \ {r} : ViewsAreTame(q)
  PROVE  UniqueInv'
<1>0. DOMAIN <<>> = {}
  OBVIOUS
<1>1. DOMAIN pend = Reqs /\ DOMAIN due = Reqs /\ DOMAIN req = Reqs /\ DOMAIN todo = Reqs /\ DOMAIN assigned = Reqs
  BY DEF UniqueInv, RowInv, AccountTypes, InFlight
<1>2. /\ DOMAIN due' = Reqs /\ DOMAIN req' = Reqs /\ DOMAIN todo' = Reqs /\ DOMAIN assigned' = Reqs
      /\ DOMAIN pend'[r] = {} /\ due'[r] = "idle" /\ assigned'[r] = {} /\ todo'[r] = {}
      /\ \A q \in Reqs \ {r} : /\ due'[q] = due[q] /\ req'[q] = req[q] /\ todo'[q] = todo[q]
                               /\ assigned'[q] = assigned[q] /\ pend'[q] = pend[q]
  BY <1>0, <1>1 DEF Rollback, Goto
<1>3. Placed(r)' /\ Listed(r)'
  BY <1>2 DEF Placed, Listed, Adding, Later
<1>4. \A q \in Reqs \ {r} : Placed(q)' /\ Listed(q)'
  BY <1>2, OthersStay
<1> QED BY <1>2, <1>3, <1>4 DEF UniqueInv, InFlight

LEMMA RollbackKeeps ==
  ASSUME UniqueInv, NEW r \in Reqs, Rollback(r), UNCHANGED <<db, added>> PROVE UniqueInv'
<1>1. RowInv' /\ \A q \in Reqs \ {r} : ViewsAreTame(q)
  BY RollbackKeepsRows DEF UniqueInv, Rollback
<1> QED BY <1>1, EndsKeep

(* A request goes on to its next call.                                     *)
LEMMA GoesOn ==
  ASSUME UniqueInv, NEW r \in Reqs, NEW l \in Adding \cup Later, Goto(r, l),
         DOMAIN req' = Reqs, \A q \in Reqs \ {r} : req'[q] = req[q], UNCHANGED <<todo, assigned>>,
         RowInv', \A q \in Reqs : ViewsAreTame(q), \A q \in Reqs \ {r} : pend'[q] = pend[q],
         l \in Adding => /\ due[r] \in Adding /\ UNCHANGED <<req, pend>>
                         /\ (DistinctLegacies => \A a \in Accts : ~Bare(View(r)[a])),
         l \in Later => req'[r] \in Request /\ req'[r].acct \in Accts,
         l \in {"check", "write"} => req'[r].op \in {"reactivate", "delete", "label"}
  PROVE  UniqueInv'
<1>1. DOMAIN due' = Reqs /\ DOMAIN todo' = Reqs /\ DOMAIN assigned' = Reqs
      /\ due'[r] = l /\ \A q \in Reqs \ {r} : due'[q] = due[q]
  BY DEF UniqueInv, InFlight, Goto
<1>2. l # "idle" /\ ~(l \in Adding /\ l \in Later) /\ (l \in Later => l \notin {"backfill", "verify", "insert"})
      /\ (l \in Adding => l \notin {"check", "write"})
  BY DEF Adding, Later
<1>3. Placed(r)'
  BY <1>1, <1>2 DEF Placed, UniqueInv, InFlight
<1>4. Listed(r)'
  <2> SUFFICES ASSUME DistinctLegacies, NEW a \in Accts, Bare(View(r)'[a])
               PROVE  /\ due'[r] \notin {"verify", "insert"}
                      /\ due'[r] = "backfill" => a \in todo'[r]
                      /\ Fingerprint(View(r)'[a].blob.token) \notin assigned'[r]
    BY DEF Listed
  <2>1. Bare(View(r)[a]) /\ View(r)'[a].blob = View(r)[a].blob
    BY DEF ViewsAreTame
  <2>2. Fingerprint(View(r)[a].blob.token) \notin assigned[r]
    BY <2>1 DEF UniqueInv, InFlight, Listed
  <2> QED BY <1>1, <1>2, <2>1, <2>2
<1>5. \A q \in Reqs \ {r} : Placed(q)' /\ Listed(q)'
  BY <1>1, OthersStay
<1> QED BY <1>1, <1>3, <1>4, <1>5 DEF UniqueInv, InFlight

LEMMA ReceiveKeeps == ASSUME UniqueInv, NEW r \in Reqs, Receive(r) PROVE UniqueInv'
<1>1. UNCHANGED <<db, pend, added, todo, assigned>>
  BY DEF Receive, rows
<1>2. RowInv' /\ \A q \in Reqs : ViewsAreTame(q)
  BY <1>1, SameRows DEF UniqueInv
<1>3. PICK q \in Request :
        /\ q.op = "add" => q.acct = None
        /\ req' = [req EXCEPT ![r] = q]
        /\ Goto(r, CASE q.op = "add"     -> "list"
                     [] q.op = "delete"  -> "check"
                     [] q.op = "refresh" -> "profile"
                     [] OTHER            -> "write")
  BY DEF Receive
<1>4. /\ DOMAIN due' = Reqs /\ DOMAIN req' = Reqs /\ DOMAIN todo' = Reqs /\ DOMAIN assigned' = Reqs
      /\ req'[r] = q /\ \A p \in Reqs \ {r} : req'[p] = req[p] /\ due'[p] = due[p]
      /\ due'[r] = CASE q.op = "add"     -> "list"
                     [] q.op = "delete"  -> "check"
                     [] q.op = "refresh" -> "profile"
                     [] OTHER            -> "write"
  BY <1>1, <1>3 DEF UniqueInv, InFlight, Goto
<1>5. q.op = "add" \/ (q.op \in {"reactivate", "refresh", "delete", "label"} /\ q.acct \in Accts)
  BY DEF Request
<1>6. q.op = "add" => q \in Adds
  BY DEF Request, Adds
<1>7. DOMAIN pend[r] = {} /\ Listed(r)
  BY DEF Receive, At, UniqueInv, InFlight, Placed
<1>8. Placed(r)'
  <2>1. todo'[r] \subseteq Accts
    BY <1>1 DEF UniqueInv, InFlight, Placed
  <2>2. /\ q.op = "add" => due'[r] = "list"
        /\ q.op = "delete" => due'[r] = "check"
        /\ q.op = "refresh" => due'[r] = "profile"
        /\ q.op \in {"reactivate", "label"} => due'[r] = "write"
    BY <1>4
  <2>3. CASE q.op = "add"
    BY <1>1, <1>3, <1>4, <1>6, <1>7, <2>1, <2>2, <2>3 DEF Placed, Adding, Later
  <2>4. CASE q.op # "add"
    BY <1>1, <1>4, <1>5, <1>7, <2>1, <2>2, <2>4 DEF Placed, Adding, Later
  <2> QED BY <2>3, <2>4
<1>9. Listed(r)'
  <2>1. due'[r] \notin {"verify", "insert", "backfill"}
    BY <1>4
  <2>2. View(r)' = View(r)
    BY <1>1 DEF View
  <2> QED BY <1>1, <1>7, <2>1, <2>2 DEF Listed
<1>10. \A p \in Reqs \ {r} : Placed(p)' /\ Listed(p)'
  BY <1>1, <1>2, <1>4, OthersStay
<1> QED BY <1>2, <1>4, <1>8, <1>9, <1>10 DEF UniqueInv, InFlight

LEMMA ListKeeps == ASSUME UniqueInv, NEW r \in Reqs, List(r) PROVE UniqueInv'
<1>1. UNCHANGED <<db, pend, added, req, assigned>>
  BY DEF List, rows
<1>2. RowInv' /\ \A q \in Reqs : ViewsAreTame(q)
  BY <1>1, SameRows DEF UniqueInv
<1>3. /\ DOMAIN due' = Reqs /\ DOMAIN req' = Reqs /\ DOMAIN todo' = Reqs /\ DOMAIN assigned' = Reqs
      /\ due[r] = "list" /\ due'[r] = "backfill" /\ todo'[r] = {a \in Accts : View(r)[a] # None}
      /\ \A p \in Reqs \ {r} : due'[p] = due[p] /\ todo'[p] = todo[p]
  BY <1>1 DEF UniqueInv, InFlight, List, Goto, At
<1>4. Placed(r) /\ Listed(r) /\ View(r)' = View(r)
  BY <1>1 DEF UniqueInv, InFlight, View
<1>5. Placed(r)'
  BY <1>1, <1>3, <1>4 DEF Placed, Adding, Later
<1>6. Listed(r)'
  BY <1>1, <1>3, <1>4 DEF Listed, Bare
<1>7. \A p \in Reqs \ {r} : Placed(p)' /\ Listed(p)'
  BY <1>1, <1>2, <1>3, OthersStay
<1> QED BY <1>2, <1>3, <1>5, <1>6, <1>7 DEF UniqueInv, InFlight

(* Two readable rows never hold one token, so a digest in the list says    *)
(* that its row is not bare.                                               *)
LEMMA BackfillSkips ==
  ASSUME UniqueInv, NEW r \in Reqs, NEW a \in Accts, due[r] = "backfill", View(r)[a] # None,
         \/ View(r)[a].hash # None \/ ~Decrypts(View(r)[a].blob)
         \/ Fingerprint(View(r)[a].blob.token) \in assigned[r],
         todo' = [todo EXCEPT ![r] = @ \ {a}],
         assigned' = [assigned EXCEPT ![r] = @ \cup ({View(r)[a].hash} \ {None})],
         UNCHANGED <<db, pend, due, req, added>>
  PROVE  UniqueInv'
<1>1. RowInv /\ AccountTypes /\ Placed(r) /\ Listed(r)
      /\ DOMAIN due = Reqs /\ DOMAIN req = Reqs /\ DOMAIN todo = Reqs /\ DOMAIN assigned = Reqs
  BY DEF UniqueInv, InFlight, RowInv
<1>2. RowInv' /\ \A q \in Reqs : ViewsAreTame(q)
  BY <1>1, SameRows
<1>3. DOMAIN todo' = Reqs /\ DOMAIN assigned' = Reqs /\ todo'[r] = todo[r] \ {a}
      /\ assigned'[r] = assigned[r] \cup ({View(r)[a].hash} \ {None})
      /\ \A q \in Reqs \ {r} : todo'[q] = todo[q] /\ assigned'[q] = assigned[q]
  BY <1>1
<1>4. View(r)' = View(r)
  BY DEF View
<1>5. Listed(r)'
  <2> SUFFICES ASSUME DistinctLegacies, NEW b \in Accts, Bare(View(r)[b])
               PROVE  b \in todo'[r] /\ Fingerprint(View(r)[b].blob.token) \notin assigned'[r]
    BY <1>4 DEF Listed
  <2>1. b \in todo[r] /\ Fingerprint(View(r)[b].blob.token) \notin assigned[r]
    BY <1>1 DEF Listed
  <2>2. b # a
    BY <2>1 DEF Bare
  <2>3. View(r)[a].hash # None => View(r)[a].hash # Fingerprint(View(r)[b].blob.token)
    <3>1. View(r)[a] \in Version(a) /\ View(r)[b] \in Version(b)
      BY <1>1, Seen
    <3>2. ~Twins(View(r)[a], View(r)[b])
      BY <1>1, <2>2, <3>1 DEF RowInv, NoTwins
    <3>3. View(r)[a].hash # None =>
            View(r)[a].hash = Fingerprint(View(r)[a].blob.token) /\ Decrypts(View(r)[a].blob)
      BY <1>1, <3>1 DEF RowInv, DigestsAreTrue
    <3> QED BY <3>2, <3>3, FingerprintsDiffer DEF Twins, Bare
  <2> QED BY <1>3, <2>1, <2>2, <2>3
<1>6. Placed(r)'
  BY <1>1, <1>3 DEF Placed
<1>7. \A q \in Reqs \ {r} : Placed(q)' /\ Listed(q)'
  BY <1>2, <1>3, OthersStay
<1> QED BY <1>1, <1>2, <1>3, <1>5, <1>6, <1>7 DEF UniqueInv, InFlight

LEMMA BackfillWrites ==
  ASSUME UniqueInv, NEW r \in Reqs, NEW a \in Accts, due[r] = "backfill", View(r)[a] # None,
         View(r)[a].hash = None, Decrypts(View(r)[a].blob), ~Locked(r, a),
         Write(r, a, set_token_hash(View(r)[a], View(r)[a].blob.token)),
         todo' = [todo EXCEPT ![r] = @ \ {a}],
         assigned' = [assigned EXCEPT ![r] = @ \cup {Fingerprint(View(r)[a].blob.token)}],
         UNCHANGED <<db, due, req, added>>
  PROVE  UniqueInv'
<1>1. RowInv /\ AccountTypes /\ Placed(r) /\ Listed(r)
      /\ DOMAIN due = Reqs /\ DOMAIN req = Reqs /\ DOMAIN todo = Reqs /\ DOMAIN assigned = Reqs
  BY DEF UniqueInv, InFlight, RowInv
<1>2. PICK v : v = View(r)[a]
  OBVIOUS
<1>3. PICK row : row = set_token_hash(v, v.blob.token)
  OBVIOUS
<1>4. v \in Account /\ v.blob.token \in Tokens /\ DOMAIN v = {"blob", "hash", "status", "label", "synced"}
  BY <1>1, <1>2, Seen, RowParts
<1>5. /\ row \in Account /\ row.blob = v.blob /\ row.hash = Fingerprint(v.blob.token)
      /\ row # None /\ row.hash # None
  <2>1. Fingerprint(v.blob.token) \in Digests
    BY <1>4 DEF Digests
  <2>2. row = [v EXCEPT !.hash = Fingerprint(v.blob.token)]
    BY <1>3 DEF set_token_hash
  <2>3. row \in Account
    BY <1>4, <2>1, <2>2 DEF Account
  <2>4. row.blob = v.blob /\ row.hash = Fingerprint(v.blob.token)
    BY <1>4, <2>2
  <2> QED BY <2>1, <2>3, <2>4, Constants
<1>6. row \in Rows /\ Tame(v, row)
  BY <1>2, <1>5 DEF Tame, Rows
<1>7. RowInv' /\ \A q \in Reqs : ViewsAreTame(q)
  BY <1>1, <1>2, <1>3, <1>6, WriteKeepsRows
<1>8. /\ \A q \in Reqs \ {r} : pend'[q] = pend[q]
      /\ DOMAIN pend'[r] = {a} \cup DOMAIN pend[r] /\ pend'[r][a] = row
      /\ \A b \in DOMAIN pend[r] \ {a} : pend'[r][b] = pend[r][b]
  BY <1>1, <1>2, <1>3, <1>6, WriteShape
<1>9. DOMAIN todo' = Reqs /\ DOMAIN assigned' = Reqs /\ todo'[r] = todo[r] \ {a}
      /\ assigned'[r] = assigned[r] \cup {Fingerprint(v.blob.token)}
      /\ \A q \in Reqs \ {r} : todo'[q] = todo[q] /\ assigned'[q] = assigned[q]
  BY <1>1, <1>2
<1>10. Listed(r)'
  <2> SUFFICES ASSUME DistinctLegacies, NEW b \in Accts, Bare(View(r)'[b])
               PROVE  b \in todo'[r] /\ Fingerprint(View(r)'[b].blob.token) \notin assigned'[r]
    BY DEF Listed
  <2>1. Bare(View(r)[b]) /\ View(r)'[b].blob = View(r)[b].blob
    BY <1>7 DEF ViewsAreTame
  <2>2. b \in todo[r] /\ Fingerprint(View(r)[b].blob.token) \notin assigned[r]
    BY <1>1, <2>1 DEF Listed
  <2>3. b # a
    <3>1. View(r)'[a] = row
      BY <1>8 DEF View
    <3> QED BY <1>5, <3>1 DEF Bare
  <2>4. Fingerprint(View(r)[b].blob.token) # Fingerprint(v.blob.token)
    <3>1. v \in Version(a) /\ View(r)[b] \in Version(b)
      BY <1>1, <1>2, Seen
    <3>2. ~Twins(v, View(r)[b])
      BY <1>1, <2>3, <3>1 DEF RowInv, NoTwins
    <3> QED BY <1>2, <2>1, <3>2, FingerprintsDiffer DEF Twins, Bare
  <2> QED BY <1>9, <2>1, <2>2, <2>3, <2>4
<1>11. Placed(r)'
  BY <1>1, <1>5, <1>8, <1>9 DEF Placed, Adding
<1>12. \A q \in Reqs \ {r} : Placed(q)' /\ Listed(q)'
  BY <1>7, <1>8, <1>9, OthersStay
<1> QED BY <1>1, <1>7, <1>9, <1>10, <1>11, <1>12 DEF UniqueInv, InFlight

LEMMA BackfillKeeps == ASSUME UniqueInv, NEW r \in Reqs, Backfill(r) PROVE UniqueInv'
<1>1. UNCHANGED <<db, added>> /\ due[r] = "backfill"
  BY DEF Backfill, At
<1>2. PICK a \in todo[r] :
        IF View(r)[a] = None THEN Rollback(r)
        ELSE IF \/ View(r)[a].hash # None \/ ~Decrypts(View(r)[a].blob)
                \/ Fingerprint(View(r)[a].blob.token) \in assigned[r]
        THEN /\ todo' = [todo EXCEPT ![r] = @ \ {a}]
             /\ assigned' = [assigned EXCEPT ![r] = @ \cup ({View(r)[a].hash} \ {None})]
             /\ UNCHANGED <<pend, due, req>>
        ELSE /\ ~Locked(r, a)
             /\ IF HashTaken(r, a, View(r)[a].blob.token) THEN Rollback(r)
                ELSE /\ Write(r, a, set_token_hash(View(r)[a], View(r)[a].blob.token))
                     /\ todo' = [todo EXCEPT ![r] = @ \ {a}]
                     /\ assigned' = [assigned EXCEPT ![r] = @ \cup {Fingerprint(View(r)[a].blob.token)}]
                     /\ UNCHANGED <<due, req>>
  BY DEF Backfill
<1>3. a \in Accts
  BY DEF UniqueInv, InFlight, Placed
<1>4. CASE Rollback(r)
  BY <1>1, <1>4, RollbackKeeps
<1>5. CASE View(r)[a] # None /\ (\/ View(r)[a].hash # None \/ ~Decrypts(View(r)[a].blob)
                                 \/ Fingerprint(View(r)[a].blob.token) \in assigned[r])
  BY <1>1, <1>2, <1>3, <1>5, BackfillSkips
<1>6. CASE View(r)[a] # None /\ View(r)[a].hash = None /\ Decrypts(View(r)[a].blob)
           /\ Fingerprint(View(r)[a].blob.token) \notin assigned[r] /\ ~Rollback(r)
  BY <1>1, <1>2, <1>3, <1>6, BackfillWrites
<1> QED BY <1>2, <1>4, <1>5, <1>6

LEMMA InsertKeeps == ASSUME UniqueInv, NEW r \in Reqs, Insert(r) PROVE UniqueInv'
<1>1. UNCHANGED db /\ due[r] = "insert" /\ ~Contested(r, req[r].token)
  BY DEF Insert, At
<1>2. CASE Rollback(r) /\ UNCHANGED added
  BY <1>1, <1>2, RollbackKeeps
<1>3. ASSUME \A b \in Accts : ~HasHash(View(r)[b], req[r].token),
             NEW a \in Accts \ added, db[a] = None, ~Locked(r, a),
             Write(r, a, NewRow(req[r].token)), added' = added \cup {a},
             req' = [req EXCEPT ![r].acct = a], Goto(r, "invalidate"), UNCHANGED <<todo, assigned>>
      PROVE  UniqueInv'
  <2>1. RowInv' /\ \A q \in Reqs : ViewsAreTame(q)
    BY <1>1, <1>3, InsertKeepsRows
  <2>2. req[r] \in Adds /\ AccountTypes /\ DOMAIN req = Reqs
    BY <1>1 DEF UniqueInv, InFlight, Placed, Adding, RowInv
  <2>3. DOMAIN req' = Reqs /\ (\A q \in Reqs \ {r} : req'[q] = req[q])
        /\ req'[r] \in Request /\ req'[r].acct \in Accts
    BY <1>3, <2>2 DEF Adds, Request
  <2>4. NewRow(req[r].token) \in Rows
    BY <2>2, NewRowParts DEF Adds, Rows
  <2>5. \A q \in Reqs \ {r} : pend'[q] = pend[q]
    BY <1>3, <2>2, <2>4, WriteShape
  <2>6. "invalidate" \in Adding \cup Later /\ "invalidate" \notin Adding
    BY DEF Adding, Later
  <2> QED BY <1>3, <2>1, <2>3, <2>5, <2>6, GoesOn
<1> QED BY <1>1, <1>2, <1>3 DEF Insert

(* A row with other fields is the same row to whoever compares tokens.     *)
LEMMA FieldsChange ==
  ASSUME NEW v \in Rows, v # None
  PROVE  /\ [v EXCEPT !.synced = TRUE] \in Account /\ Tame(v, [v EXCEPT !.synced = TRUE])
         /\ \A s \in {"active", "excluded"} :
              update_status(v, s) \in Account /\ Tame(v, update_status(v, s))
         /\ \A l \in Labels \cup {None} :
              [v EXCEPT !.label = l] \in Account /\ Tame(v, [v EXCEPT !.label = l])
<1>1. v \in Account /\ DOMAIN v = {"blob", "hash", "status", "label", "synced"}
  BY RowParts
<1>2. /\ [v EXCEPT !.synced = TRUE] \in Account
      /\ [v EXCEPT !.synced = TRUE].blob = v.blob /\ [v EXCEPT !.synced = TRUE].hash = v.hash
  BY <1>1 DEF Account
<1>3. ASSUME NEW s \in {"active", "excluded"}
      PROVE  /\ update_status(v, s) \in Account
             /\ update_status(v, s).blob = v.blob /\ update_status(v, s).hash = v.hash
  BY <1>1 DEF Account, update_status
<1>4. ASSUME NEW l \in Labels \cup {None}
      PROVE  /\ [v EXCEPT !.label = l] \in Account
             /\ [v EXCEPT !.label = l].blob = v.blob /\ [v EXCEPT !.label = l].hash = v.hash
  BY <1>1 DEF Account
<1> QED BY <1>2, <1>3, <1>4 DEF Tame, Rows

(* A write of another field, or a deletion.                                *)
LEMMA TouchKeeps ==
  ASSUME UniqueInv, NEW r \in Reqs, NEW row \in Rows, ~Locked(r, req[r].acct), due[r] \in Later,
         Tame(View(r)[req[r].acct], row), Write(r, req[r].acct, row), NEW l \in {"invalidate", "commit"}, Goto(r, l),
         UNCHANGED <<db, added, req, todo, assigned>>
  PROVE  UniqueInv'
<1>1. RowInv /\ AccountTypes /\ Placed(r) /\ DOMAIN req = Reqs
  BY DEF UniqueInv, RowInv, InFlight
<1>2. req[r].acct \in Accts /\ req[r] \in Request
  BY <1>1 DEF Placed
<1>3. RowInv' /\ \A q \in Reqs : ViewsAreTame(q)
  BY <1>1, <1>2, WriteKeepsRows
<1>4. \A q \in Reqs \ {r} : pend'[q] = pend[q]
  BY <1>1, <1>2, WriteShape
<1>5. l \in Later /\ l \notin Adding
  BY DEF Adding, Later
<1> QED BY <1>1, <1>2, <1>3, <1>4, <1>5, GoesOn

LEMMA WriteRowKeeps == ASSUME UniqueInv, NEW r \in Reqs, WriteRow(r) PROVE UniqueInv'
<1>1. UNCHANGED <<db, added>> /\ due[r] = "write" /\ ~Locked(r, req[r].acct)
  BY DEF WriteRow, At
<1>2. CASE Rollback(r)
  BY <1>1, <1>2, RollbackKeeps
<1>3. ASSUME View(r)[req[r].acct] # None, UNCHANGED asked,
             \/ /\ Write(r, req[r].acct, update_status(View(r)[req[r].acct], "active"))
                /\ Goto(r, "invalidate")
             \/ Write(r, req[r].acct, None) /\ Goto(r, "invalidate")
             \/ /\ req[r].op = "label" /\ Goto(r, "commit")
                /\ Write(r, req[r].acct, [View(r)[req[r].acct] EXCEPT !.label = req[r].label])
      PROVE  UniqueInv'
  <2>1. due[r] \in Later /\ None \in Rows
    BY <1>1 DEF Later, Rows
  <2>2. req[r] \in Request /\ req[r].acct \in Accts /\ AccountTypes
    BY <2>1 DEF UniqueInv, InFlight, Placed, RowInv
  <2>3. View(r)[req[r].acct] \in Rows
    BY <2>2, Seen
  <2>4. req[r].op = "label" => req[r].label \in Labels
    BY <2>2 DEF Request
  <2>5. Tame(View(r)[req[r].acct], None)
    BY <1>3 DEF Tame, Rows
  <2>6. UNCHANGED <<req, todo, assigned>>
    BY <1>3 DEF asked
  <2>7. CASE /\ Write(r, req[r].acct, update_status(View(r)[req[r].acct], "active"))
             /\ Goto(r, "invalidate")
    BY <1>1, <1>3, <2>1, <2>3, <2>6, <2>7, FieldsChange, TouchKeeps DEF Rows
  <2>8. CASE Write(r, req[r].acct, None) /\ Goto(r, "invalidate")
    BY <1>1, <2>1, <2>5, <2>6, <2>8, TouchKeeps
  <2>9. CASE /\ req[r].op = "label" /\ Goto(r, "commit")
             /\ Write(r, req[r].acct, [View(r)[req[r].acct] EXCEPT !.label = req[r].label])
    BY <1>1, <1>3, <2>1, <2>3, <2>4, <2>6, <2>9, FieldsChange, TouchKeeps DEF Rows
  <2> QED BY <1>3, <2>7, <2>8, <2>9
<1>4. req[r].op \in {"reactivate", "delete", "label"}
  BY <1>1 DEF UniqueInv, InFlight, Placed
<1> QED BY <1>2, <1>3, <1>4 DEF WriteRow

LEMMA SaveProfileKeeps == ASSUME UniqueInv, NEW r \in Reqs, SaveProfile(r) PROVE UniqueInv'
<1>1. UNCHANGED <<db, added>> /\ due[r] = "save" /\ ~Locked(r, req[r].acct)
  BY DEF SaveProfile, At
<1>2. CASE Rollback(r)
  BY <1>1, <1>2, RollbackKeeps
<1>3. ASSUME View(r)[req[r].acct] # None, UNCHANGED asked, Goto(r, "commit"),
             Write(r, req[r].acct, [View(r)[req[r].acct] EXCEPT !.synced = TRUE])
      PROVE  UniqueInv'
  <2>1. due[r] \in Later
    BY <1>1 DEF Later
  <2>2. req[r].acct \in Accts /\ AccountTypes
    BY <2>1 DEF UniqueInv, InFlight, Placed, RowInv
  <2>3. View(r)[req[r].acct] \in Rows
    BY <2>2, Seen
  <2>4. UNCHANGED <<req, todo, assigned>>
    BY <1>3 DEF asked
  <2> QED BY <1>1, <1>3, <2>1, <2>3, <2>4, FieldsChange, TouchKeeps DEF Rows
<1> QED BY <1>2, <1>3 DEF SaveProfile

(* The calls that touch no row.                                            *)
LEMMA CallsKeep ==
  ASSUME UniqueInv, NEW r \in Reqs,
         BackfillDone(r) \/ Verify(r) \/ Check(r) \/ Profile(r) \/ DeadlockVictim(r) \/ InvalidateTenant(r)
  PROVE  UniqueInv'
<1>1. UNCHANGED <<db, added>>
  BY DEF BackfillDone, Verify, Check, Profile, DeadlockVictim, InvalidateTenant, rows
<1>2. CASE Rollback(r)
  BY <1>1, <1>2, RollbackKeeps
<1>3. CASE UNCHANGED <<pend, asked>> /\ \/ BackfillDone(r) /\ Goto(r, "verify")
                                        \/ Verify(r) /\ Goto(r, "insert")
  <2>1. UNCHANGED <<req, todo, assigned>> /\ DOMAIN req = Reqs
    BY <1>3 DEF asked, UniqueInv, InFlight
  <2>2. RowInv' /\ \A q \in Reqs : ViewsAreTame(q)
    BY <1>1, <1>3, SameRows DEF UniqueInv
  <2>3. (due[r] = "backfill" /\ todo[r] = {}) \/ due[r] = "verify"
    BY <1>3 DEF BackfillDone, Verify, At
  <2>4. DistinctLegacies => \A a \in Accts : ~Bare(View(r)[a])
    BY <2>3 DEF UniqueInv, InFlight, Listed
  <2>5. due[r] \in Adding /\ {"verify", "insert"} \subseteq Adding /\ Adding \cap Later = {}
    BY <2>3 DEF Adding, Later
  <2> QED BY <1>3, <2>1, <2>2, <2>4, <2>5, GoesOn
<1>4. CASE UNCHANGED <<pend, asked>> /\ (Check(r) \/ Profile(r) \/ InvalidateTenant(r))
           /\ \E l \in {"write", "profile", "save", "commit"} : Goto(r, l) /\ (l = "write" => Check(r))
  <2>1. UNCHANGED <<req, todo, assigned>> /\ DOMAIN req = Reqs
    BY <1>4 DEF asked, UniqueInv, InFlight
  <2>2. RowInv' /\ \A q \in Reqs : ViewsAreTame(q)
    BY <1>1, <1>4, SameRows DEF UniqueInv
  <2>3. due[r] \in Later /\ {"write", "profile", "save", "commit"} \subseteq Later /\ Adding \cap Later = {}
    BY <1>4 DEF Check, Profile, InvalidateTenant, At, Later, Adding
  <2>4. /\ req[r] \in Request /\ req[r].acct \in Accts
        /\ Check(r) => req[r].op \in {"reactivate", "delete", "label"}
    BY <2>3 DEF UniqueInv, InFlight, Placed, Check, At
  <2> QED BY <1>4, <2>1, <2>2, <2>3, <2>4, GoesOn
<1>5. BackfillDone(r) => UNCHANGED <<pend, asked>> /\ Goto(r, "verify")
  BY DEF BackfillDone, rows
<1>6. InvalidateTenant(r) => UNCHANGED <<pend, asked>> /\ (Goto(r, "profile") \/ Goto(r, "commit"))
  BY DEF InvalidateTenant, rows
<1> QED BY <1>2, <1>3, <1>4, <1>5, <1>6 DEF Verify, Check, Profile, DeadlockVictim

LEMMA CommitKeeps == ASSUME UniqueInv, NEW r \in Reqs, Commit(r) PROVE UniqueInv'
<1>1. RowInv' /\ \A q \in Reqs \ {r} : ViewsAreTame(q)
  BY CommitKeepsRows DEF UniqueInv, Commit, Rollback
<1> QED BY <1>1, EndsKeep DEF Commit

(* The pools and the flows know the rows, and change none but by an        *)
(* exclusion.                                                              *)
LEMMA AsideKeeps ==
  ASSUME UniqueInv, UNCHANGED <<pend, added, req, due, todo, assigned>>, RowInv',
         \A q \in Reqs : ViewsAreTame(q)
  PROVE  UniqueInv'
<1>1. \A q \in Reqs : Placed(q)' /\ Listed(q)'
  BY OthersStay
<1> QED BY <1>1 DEF UniqueInv, InFlight

LEMMA PoolsKeep ==
  ASSUME UniqueInv,
         \/ \E r \in Reqs : SaveFlow(r)
         \/ \E p \in Procs : BuildReads(p) \/ BuildPublishes(p)
         \/ \E p \in Procs, a \in Accts : ClientQuarantines(p, a) \/ Quarantine(p, a)
         \/ UNCHANGED accountVars
  PROVE  UniqueInv'
<1>1. UNCHANGED <<db, pend, added, req, due, todo, assigned>>
  BY DEF SaveFlow, BuildReads, BuildPublishes, ClientQuarantines, Quarantine, accountVars, rows, asked
<1> QED BY <1>1, SameRows, AsideKeeps DEF UniqueInv

LEMMA ExcludeKeeps ==
  ASSUME UniqueInv, NEW p \in Procs, NEW a \in Accts, Exclude(p, a) PROVE UniqueInv'
<1>1. UNCHANGED <<pend, added, req, due, todo, assigned>>
  BY DEF Exclude, asked
<1>2. RowInv' /\ \A q \in Reqs : ViewsAreTame(q)
  BY <1>1, ExcludeKeepsRows DEF UniqueInv, Exclude
<1> QED BY <1>1, <1>2, AsideKeeps

LEMMA UniqueStep == ASSUME UniqueInv, [AccountsNext]_accountVars PROVE UniqueInv'
<1>1. ASSUME NEW r \in Reqs, Receive(r) \/ Serve(r) PROVE UniqueInv'
  BY <1>1, ReceiveKeeps, ListKeeps, BackfillKeeps, InsertKeeps, WriteRowKeeps, SaveProfileKeeps,
     CallsKeep, CommitKeeps DEF Serve
<1> QED BY <1>1, PoolsKeep, ExcludeKeeps DEF AccountsNext

LEMMA UniqueInit == ASSUME AccountsInit PROVE UniqueInv
<1>0. DOMAIN <<>> = {}
  OBVIOUS
<1>1. PICK legacy \in Legacies :
        db = [a \in Accts |-> IF a \in DOMAIN legacy
                              THEN [NewRow(legacy[a].token) EXCEPT !.hash = None, !.blob = legacy[a]]
                              ELSE None]
  BY DEF AccountsInit
<1>2. \A a \in DOMAIN legacy : legacy[a] \in [version : 0..KeyVersion, token : Tokens]
  BY RotationAssumption DEF Range
<1>3. ASSUME NEW a \in DOMAIN legacy, a \in Accts
      PROVE  db[a] \in Account /\ db[a].blob = legacy[a] /\ db[a].hash = None
  <2>1. NewRow(legacy[a].token) \in Account
    BY <1>2, NewRowParts
  <2>2. PICK row : row = [NewRow(legacy[a].token) EXCEPT !.hash = None, !.blob = legacy[a]]
    OBVIOUS
  <2>3. row \in Account /\ row.blob = legacy[a] /\ row.hash = None
    BY <1>2, <2>1, <2>2 DEF Account
  <2> QED BY <1>1, <1>3, <2>2, <2>3
<1>4. /\ DOMAIN pend = Reqs /\ (\A r \in Reqs : DOMAIN pend[r] = {})
      /\ DOMAIN due = Reqs /\ DOMAIN req = Reqs /\ DOMAIN todo = Reqs /\ DOMAIN assigned = Reqs
      /\ (\A r \in Reqs : due[r] = "idle" /\ todo[r] = {} /\ assigned[r] = {}) /\ added = {}
  BY <1>0 DEF AccountsInit
<1>5. \A a \in Accts : Version(a) = {db[a]}
  BY <1>4 DEF Version
<1>6. \A a \in Accts : a \notin DOMAIN legacy => db[a] = None
  BY <1>1
<1>7. AccountTypes
  BY <1>1, <1>3, <1>4, <1>6 DEF AccountTypes, Rows
<1>8. DigestsAreTrue
  BY <1>3, <1>5, <1>6 DEF DigestsAreTrue
<1>9. OneWriter /\ Follows /\ AddedAreReadable
  BY <1>4 DEF OneWriter, Follows, AddedAreReadable
<1>10. NoTwins
  BY <1>3, <1>5, <1>6 DEF NoTwins, Twins, DistinctLegacies
<1>11. \A r \in Reqs : Placed(r) /\ Listed(r)
  BY <1>4 DEF Placed, Listed, Adding, Later
<1> QED BY <1>4, <1>7, <1>8, <1>9, <1>10, <1>11 DEF UniqueInv, RowInv, InFlight

(* However the requests, the exclusions and the rollbacks of any number of *)
(* sessions fall, an account the service stored never carries a token that *)
(* another readable row has (AccountService._backfill_token_hashes): the   *)
(* digests that revision 0014 nulled are back before the insert.           *)
THEOREM AddedAreUnique ==
  ASSUME DistinctLegacies PROVE AccountsSpec => []AddedTokensAreUnique
<1>1. AccountsInit => UniqueInv
  BY UniqueInit
<1>2. UniqueInv /\ [AccountsNext]_accountVars => UniqueInv'
  BY UniqueStep
<1>3. UniqueInv => AddedTokensAreUnique
  <2> SUFFICES ASSUME UniqueInv, NEW a \in added, NEW b \in Accts \ {a},
                      db[a] # None, db[b] # None, Decrypts(db[b].blob)
               PROVE  db[a].blob.token # db[b].blob.token
    BY DEF AddedTokensAreUnique
  <2>1. a \in Accts
    BY DEF UniqueInv, RowInv, AddedAreReadable
  <2> QED BY <2>1 DEF UniqueInv, RowInv, AddedAreReadable, NoTwins, Twins, Version
<1> QED BY <1>1, <1>2, <1>3, PTL DEF AccountsSpec

-----------------------------------------------------------------------------
(* What the pools know of the rows                                         *)

StatusOf(v) ==
  IF v = None THEN "absent" ELSE IF v.status = "active" THEN "rotates" ELSE "quarantined"

(* A transaction changes the status of one row at most, that of the account *)
(* it is about, and only if it adds, reactivates or deletes it.            *)
SteadyAt(r) == \A a \in DOMAIN pend[r] :
  \/ StatusOf(pend[r][a]) = StatusOf(db[a])
  \/ due[r] \in Later /\ req[r].op \in Changes /\ req[r].acct = a

(* From its invalidate on, the API has no pool, unless a build came between. *)
QuietAt(r) ==
  due[r] \in {"profile", "save", "commit"} /\ req[r].op \in Changes /\ r \notin overtaken =>
    cached[Api] = None /\ building[Api] = None

PoolTypes ==
  /\ DOMAIN cached = Procs /\ DOMAIN building = Procs /\ DOMAIN excused = Procs
  /\ \A p \in Procs : cached[p] # None => DOMAIN cached[p] = Accts

(* What p's build has read, and what its pool rotates, is what Postgres    *)
(* says, but for an exclusion that p itself is about to carry out and for  *)
(* active accounts that the client has quarantined.                        *)
ToldAt(p) == \A a \in Accts \ excused[p] :
  /\ building[p] # None => StatusOf(building[p][a]) = StatusOf(db[a])
  /\ cached[p] # None =>
       \/ cached[p][a] = StatusOf(db[a])
       \/ cached[p][a] = "refused" /\ StatusOf(db[a]) = "rotates"
       \/ /\ <<p, a>> \in excluding /\ cached[p][a] \in {"rotates", "refused"}
          /\ StatusOf(db[a]) = "quarantined"

StaleInv == PoolTypes /\ (\A r \in Reqs : SteadyAt(r) /\ QuietAt(r)) /\ (\A p \in Procs : ToldAt(p))

LEMMA StatusesDiffer == ASSUME NEW v \in Rows
  PROVE  /\ StatusOf(v) = "absent" <=> v = None
         /\ StatusOf(v) = "rotates" <=> v # None /\ v.status = "active"
         /\ StatusOf(v) \in {"absent", "rotates", "quarantined"}
  BY DEF StatusOf

LEMMA StatusKept ==
  ASSUME NEW v \in Rows, v # None
  PROVE  /\ StatusOf([v EXCEPT !.synced = TRUE]) = StatusOf(v)
         /\ StatusOf(set_token_hash(v, v.blob.token)) = StatusOf(v)
         /\ \A l \in Labels \cup {None} : StatusOf([v EXCEPT !.label = l]) = StatusOf(v)
<1>1. v \in Account /\ v.blob.token \in Tokens /\ DOMAIN v = {"blob", "hash", "status", "label", "synced"}
  BY RowParts
<1>2. [v EXCEPT !.synced = TRUE] \in Account /\ [v EXCEPT !.synced = TRUE].status = v.status
  BY <1>1 DEF Account
<1>3. /\ set_token_hash(v, v.blob.token) \in Account
      /\ set_token_hash(v, v.blob.token).status = v.status
  BY <1>1 DEF Account, set_token_hash, Digests
<1>4. ASSUME NEW l \in Labels \cup {None}
      PROVE  [v EXCEPT !.label = l] \in Account /\ [v EXCEPT !.label = l].status = v.status
  BY <1>1 DEF Account
<1> QED BY <1>2, <1>3, <1>4, Constants DEF StatusOf

LEMMA StillTold ==
  ASSUME NEW p \in Procs, ToldAt(p), UNCHANGED <<db, excluding>>,
         building'[p] = building[p], cached'[p] = None \/ cached'[p] = cached[p], excused'[p] = excused[p]
  PROVE  ToldAt(p)'
  BY DEF ToldAt, StatusOf

(* A request goes on without touching the pools.                           *)
LEMMA CallKnows ==
  ASSUME StaleInv, NEW r \in Reqs, UNCHANGED <<db, pools>>, SteadyAt(r)', QuietAt(r)',
         \A q \in Reqs \ {r} : pend'[q] = pend[q] /\ due'[q] = due[q] /\ req'[q] = req[q]
  PROVE  StaleInv'
<1>1. PoolTypes' /\ \A p \in Procs : ToldAt(p)'
  BY DEF StaleInv, PoolTypes, ToldAt, pools
<1>2. \A q \in Reqs \ {r} : SteadyAt(q)' /\ QuietAt(q)'
  BY DEF StaleInv, SteadyAt, QuietAt, pools
<1> QED BY <1>1, <1>2 DEF StaleInv

LEMMA RollbackKnows ==
  ASSUME UniqueInv, StaleInv, NEW r \in Reqs, Rollback(r), UNCHANGED <<db, pools>> PROVE StaleInv'
<1>0. DOMAIN <<>> = {}
  OBVIOUS
<1>1. /\ DOMAIN pend'[r] = {} /\ due'[r] = "idle"
      /\ \A q \in Reqs \ {r} : pend'[q] = pend[q] /\ due'[q] = due[q] /\ req'[q] = req[q]
  BY <1>0 DEF Rollback, Goto, UniqueInv, RowInv, AccountTypes, InFlight
<1>2. SteadyAt(r)' /\ QuietAt(r)'
  BY <1>1 DEF SteadyAt, QuietAt
<1> QED BY <1>1, <1>2, CallKnows

(* It goes on with the rows it wrote so far.                               *)
LEMMA GoesOnKnows ==
  ASSUME UniqueInv, StaleInv, NEW r \in Reqs, NEW l, Goto(r, l), UNCHANGED <<db, pend, pools, req>>,
         due[r] \in Later => l \in Later,
         l \in {"profile", "save", "commit"} => due[r] = "profile"
  PROVE  StaleInv'
<1>1. due'[r] = l /\ \A q \in Reqs \ {r} : due'[q] = due[q]
  BY DEF Goto, UniqueInv, InFlight
<1>2. SteadyAt(r)'
  BY <1>1 DEF StaleInv, SteadyAt
<1>3. QuietAt(r)'
  BY <1>1 DEF StaleInv, QuietAt, pools
<1> QED BY <1>1, <1>2, <1>3, CallKnows

LEMMA WriteKnows ==
  ASSUME UniqueInv, StaleInv, NEW r \in Reqs, NEW a \in Accts, NEW row \in Rows, Write(r, a, row),
         UNCHANGED <<db, pools>>, \A q \in Reqs \ {r} : due'[q] = due[q] /\ req'[q] = req[q],
         due[r] \in Later => due'[r] \in Later /\ req'[r] = req[r],
         \/ StatusOf(row) = StatusOf(View(r)[a])
         \/ due'[r] \in Later /\ req'[r].op \in Changes /\ req'[r].acct = a,
         due'[r] \in {"profile", "save", "commit"} /\ req'[r].op \in Changes =>
           due[r] \in {"profile", "save", "commit"} /\ req'[r] = req[r]
  PROVE  StaleInv'
<1>1. AccountTypes
  BY DEF UniqueInv, RowInv
<1>2. /\ \A q \in Reqs \ {r} : pend'[q] = pend[q]
      /\ DOMAIN pend'[r] = {a} \cup DOMAIN pend[r] /\ pend'[r][a] = row
      /\ \A b \in DOMAIN pend[r] \ {a} : pend'[r][b] = pend[r][b]
  BY <1>1, WriteShape
<1>3. \/ StatusOf(View(r)[a]) = StatusOf(db[a])
      \/ due[r] \in Later /\ req[r].op \in Changes /\ req[r].acct = a
  BY <1>1, Seen DEF StaleInv, SteadyAt
<1>4. SteadyAt(r)'
  <2> SUFFICES ASSUME NEW b \in DOMAIN pend'[r]
               PROVE  \/ StatusOf(pend'[r][b]) = StatusOf(db[b])
                      \/ due'[r] \in Later /\ req'[r].op \in Changes /\ req'[r].acct = b
    BY DEF SteadyAt, StatusOf
  <2>1. CASE b = a
    BY <1>2, <1>3, <2>1
  <2>2. CASE b # a
    BY <1>2, <2>2 DEF StaleInv, SteadyAt
  <2> QED BY <2>1, <2>2
<1>5. QuietAt(r)'
  BY DEF StaleInv, QuietAt, pools
<1> QED BY <1>2, <1>4, <1>5, CallKnows

LEMMA ReceiveKnows == ASSUME UniqueInv, StaleInv, NEW r \in Reqs, Receive(r) PROVE StaleInv'
<1>1. UNCHANGED <<db, pend, pools>>
  BY DEF Receive, rows
<1>2. PICK q \in Request :
        /\ req' = [req EXCEPT ![r] = q]
        /\ Goto(r, CASE q.op = "add"     -> "list"
                     [] q.op = "delete"  -> "check"
                     [] q.op = "refresh" -> "profile"
                     [] OTHER            -> "write")
  BY DEF Receive
<1>3. /\ req'[r] = q /\ \A p \in Reqs \ {r} : req'[p] = req[p] /\ due'[p] = due[p]
      /\ due'[r] = CASE q.op = "add"     -> "list"
                     [] q.op = "delete"  -> "check"
                     [] q.op = "refresh" -> "profile"
                     [] OTHER            -> "write"
  BY <1>2 DEF UniqueInv, InFlight, Goto
<1>4. DOMAIN pend[r] = {}
  BY DEF Receive, At, UniqueInv, InFlight, Placed
<1>5. SteadyAt(r)'
  BY <1>1, <1>4 DEF SteadyAt
<1>6. due'[r] \in {"profile", "save", "commit"} => q.op = "refresh"
  BY <1>3
<1>7. QuietAt(r)'
  BY <1>3, <1>6 DEF QuietAt, Changes
<1> QED BY <1>1, <1>3, <1>5, <1>7, CallKnows

LEMMA BackfillKnows == ASSUME UniqueInv, StaleInv, NEW r \in Reqs, Backfill(r) PROVE StaleInv'
<1>1. UNCHANGED <<db, pools>> /\ due[r] = "backfill"
  BY DEF Backfill, At
<1>2. PICK a \in todo[r] :
        \/ Rollback(r)
        \/ UNCHANGED <<pend, due, req>>
        \/ /\ Write(r, a, set_token_hash(View(r)[a], View(r)[a].blob.token))
           /\ View(r)[a] # None /\ UNCHANGED <<due, req>>
  BY DEF Backfill
<1>3. a \in Accts /\ AccountTypes
  BY DEF UniqueInv, InFlight, Placed, RowInv
<1>4. CASE Rollback(r)
  BY <1>1, <1>4, RollbackKnows
<1>5. CASE UNCHANGED <<pend, due, req>>
  BY <1>1, <1>5, CallKnows DEF StaleInv, SteadyAt, QuietAt, pools
<1>6. CASE /\ Write(r, a, set_token_hash(View(r)[a], View(r)[a].blob.token))
           /\ View(r)[a] # None /\ UNCHANGED <<due, req>>
  <2>1. View(r)[a] \in Rows
    BY <1>3, Seen
  <2>2. /\ set_token_hash(View(r)[a], View(r)[a].blob.token) \in Rows
        /\ StatusOf(set_token_hash(View(r)[a], View(r)[a].blob.token)) = StatusOf(View(r)[a])
    <3>1. View(r)[a] \in Account /\ View(r)[a].blob.token \in Tokens
      BY <1>6, <2>1, RowParts
    <3>2. Fingerprint(View(r)[a].blob.token) \in Digests
      BY <3>1 DEF Digests
    <3>3. set_token_hash(View(r)[a], View(r)[a].blob.token) \in Account
      BY <3>1, <3>2 DEF Account, set_token_hash
    <3> QED BY <1>6, <2>1, <3>3, StatusKept DEF Rows
  <2>3. due[r] \notin Later /\ due'[r] \notin {"profile", "save", "commit"}
    BY <1>1, <1>6 DEF Later
  <2> QED BY <1>1, <1>3, <1>6, <2>2, <2>3, WriteKnows
<1> QED BY <1>2, <1>4, <1>5, <1>6

LEMMA InsertKnows == ASSUME UniqueInv, StaleInv, NEW r \in Reqs, Insert(r) PROVE StaleInv'
<1>1. UNCHANGED <<db, pools>> /\ due[r] = "insert"
  BY DEF Insert, At
<1>2. CASE Rollback(r)
  BY <1>1, <1>2, RollbackKnows
<1>3. ASSUME NEW a \in Accts, Write(r, a, NewRow(req[r].token)),
             req' = [req EXCEPT ![r].acct = a], Goto(r, "invalidate")
      PROVE  StaleInv'
  <2>1. req[r] \in Adds /\ DOMAIN req = Reqs /\ DOMAIN due = Reqs
    BY <1>1 DEF UniqueInv, InFlight, Placed, Adding
  <2>2. /\ req'[r].op = "add" /\ req'[r].acct = a /\ due'[r] = "invalidate"
        /\ \A q \in Reqs \ {r} : req'[q] = req[q] /\ due'[q] = due[q]
    BY <1>3, <2>1 DEF Adds, Goto
  <2>3. NewRow(req[r].token) \in Rows
    BY <2>1, NewRowParts DEF Adds, Rows
  <2>4. due[r] \notin Later /\ due'[r] \in Later /\ "add" \in Changes
    BY <1>1, <2>2 DEF Later, Changes
  <2> QED BY <1>1, <1>3, <2>2, <2>3, <2>4, WriteKnows
<1> QED BY <1>2, <1>3 DEF Insert

LEMMA TouchKnows ==
  ASSUME UniqueInv, StaleInv, NEW r \in Reqs, WriteRow(r) \/ SaveProfile(r) PROVE StaleInv'
<1>1. UNCHANGED <<db, pools>> /\ due[r] \in {"write", "save"} /\ due[r] \in Later
      /\ (WriteRow(r) => due[r] = "write") /\ (SaveProfile(r) => due[r] = "save")
  BY DEF WriteRow, SaveProfile, At, Later
<1>2. CASE Rollback(r)
  BY <1>1, <1>2, RollbackKnows
<1>3. /\ req[r] \in Request /\ req[r].acct \in Accts /\ AccountTypes /\ DOMAIN due = Reqs
      /\ due[r] = "write" => req[r].op \in {"reactivate", "delete", "label"}
  BY <1>1 DEF UniqueInv, InFlight, Placed, RowInv
<1>4. View(r)[req[r].acct] \in Rows
  BY <1>3, Seen
<1>5. ASSUME ~Rollback(r), WriteRow(r)
      PROVE  /\ View(r)[req[r].acct] # None /\ UNCHANGED req
             /\ \/ /\ req[r].op = "reactivate" /\ Goto(r, "invalidate")
                   /\ Write(r, req[r].acct, update_status(View(r)[req[r].acct], "active"))
                \/ req[r].op = "delete" /\ Goto(r, "invalidate") /\ Write(r, req[r].acct, None)
                \/ /\ req[r].op = "label" /\ Goto(r, "commit")
                   /\ Write(r, req[r].acct, [View(r)[req[r].acct] EXCEPT !.label = req[r].label])
  BY <1>1, <1>3, <1>5 DEF WriteRow, asked
<1>6. ASSUME ~Rollback(r), SaveProfile(r)
      PROVE  /\ View(r)[req[r].acct] # None /\ UNCHANGED req /\ Goto(r, "commit")
             /\ Write(r, req[r].acct, [View(r)[req[r].acct] EXCEPT !.synced = TRUE])
  BY <1>6 DEF SaveProfile, asked
<1>7. ASSUME NEW l, Goto(r, l) PROVE due'[r] = l /\ \A q \in Reqs \ {r} : due'[q] = due[q]
  BY <1>3, <1>7 DEF Goto
<1>8. {"invalidate", "commit"} \subseteq Later /\ {"reactivate", "delete"} \subseteq Changes /\ "label" \notin Changes
  BY DEF Later, Changes
<1>9. ASSUME View(r)[req[r].acct] # None, UNCHANGED req, Goto(r, "invalidate"), req[r].op = "reactivate",
             Write(r, req[r].acct, update_status(View(r)[req[r].acct], "active"))
      PROVE  StaleInv'
  <2>1. update_status(View(r)[req[r].acct], "active") \in Rows
    BY <1>4, <1>9, FieldsChange DEF Rows
  <2> QED BY <1>1, <1>3, <1>7, <1>8, <1>9, <2>1, WriteKnows
<1>10. ASSUME UNCHANGED req, Goto(r, "invalidate"), req[r].op = "delete", Write(r, req[r].acct, None)
       PROVE  StaleInv'
  <2>1. None \in Rows
    BY DEF Rows
  <2> QED BY <1>1, <1>3, <1>7, <1>8, <1>10, <2>1, WriteKnows
<1>11. ASSUME View(r)[req[r].acct] # None, UNCHANGED req, Goto(r, "commit"), req[r].op = "label",
              Write(r, req[r].acct, [View(r)[req[r].acct] EXCEPT !.label = req[r].label])
       PROVE  StaleInv'
  <2>0. req[r].label \in Labels
    BY <1>3, <1>11 DEF Request
  <2>1. [View(r)[req[r].acct] EXCEPT !.label = req[r].label] \in Rows
    BY <1>4, <1>11, <2>0, FieldsChange DEF Rows
  <2>2. StatusOf([View(r)[req[r].acct] EXCEPT !.label = req[r].label]) = StatusOf(View(r)[req[r].acct])
    BY <1>4, <1>11, <2>0, StatusKept
  <2> QED BY <1>1, <1>3, <1>7, <1>8, <1>11, <2>1, <2>2, WriteKnows
<1>12. ASSUME View(r)[req[r].acct] # None, UNCHANGED req, Goto(r, "commit"), due[r] = "save",
              Write(r, req[r].acct, [View(r)[req[r].acct] EXCEPT !.synced = TRUE])
       PROVE  StaleInv'
  <2>1. [View(r)[req[r].acct] EXCEPT !.synced = TRUE] \in Rows
    BY <1>4, <1>12, FieldsChange DEF Rows
  <2>2. StatusOf([View(r)[req[r].acct] EXCEPT !.synced = TRUE]) = StatusOf(View(r)[req[r].acct])
    BY <1>4, <1>12, StatusKept
  <2> QED BY <1>1, <1>3, <1>7, <1>8, <1>12, <2>1, <2>2, WriteKnows
<1> QED BY <1>1, <1>2, <1>5, <1>6, <1>9, <1>10, <1>11, <1>12

LEMMA CallsKnow ==
  ASSUME UniqueInv, StaleInv, NEW r \in Reqs,
         List(r) \/ BackfillDone(r) \/ Verify(r) \/ Check(r) \/ Profile(r) \/ DeadlockVictim(r)
  PROVE  StaleInv'
<1>1. UNCHANGED <<db, pools>>
  BY DEF List, BackfillDone, Verify, Check, Profile, DeadlockVictim, rows
<1>2. CASE Rollback(r)
  BY <1>1, <1>2, RollbackKnows
<1>3. ASSUME ~Rollback(r)
      PROVE  UNCHANGED <<pend, req>> /\ \/ due[r] = "list" /\ Goto(r, "backfill")
                                        \/ due[r] = "backfill" /\ Goto(r, "verify")
                                        \/ due[r] = "verify" /\ Goto(r, "insert")
                                        \/ due[r] = "check" /\ Goto(r, "write")
                                        \/ due[r] = "profile" /\ (Goto(r, "save") \/ Goto(r, "commit"))
  BY <1>3 DEF List, BackfillDone, Verify, Check, Profile, DeadlockVictim, rows, asked, At
<1>4. {"write", "save", "commit"} \subseteq Later /\ Later \cap {"list", "backfill", "verify"} = {}
  BY DEF Later
<1>5. ASSUME due[r] \in {"list", "backfill", "verify"}, NEW l \in {"backfill", "verify", "insert"}, Goto(r, l),
             UNCHANGED <<pend, req>>
      PROVE  StaleInv'
  BY <1>1, <1>4, <1>5, GoesOnKnows
<1>6. ASSUME due[r] = "check", Goto(r, "write"), UNCHANGED <<pend, req>> PROVE StaleInv'
  BY <1>1, <1>4, <1>6, GoesOnKnows
<1>7. ASSUME due[r] = "profile", NEW l \in {"save", "commit"}, Goto(r, l), UNCHANGED <<pend, req>> PROVE StaleInv'
  BY <1>1, <1>4, <1>7, GoesOnKnows
<1> QED BY <1>2, <1>3, <1>5, <1>6, <1>7

(* The API's pool goes, and nothing is built: no transaction is overtaken. *)
LEMMA InvalidateKnows ==
  ASSUME UniqueInv, StaleInv, NEW r \in Reqs, InvalidateTenant(r) PROVE StaleInv'
<1>1. /\ UNCHANGED <<db, pend, req, building, excluding, excused>> /\ due[r] = "invalidate"
      /\ cached' = [cached EXCEPT ![Api] = None] /\ building[Api] = None
      /\ Goto(r, IF req[r].op = "add" THEN "profile" ELSE "commit")
  BY DEF InvalidateTenant, rows, asked, At
<1>2. /\ due'[r] \in Later /\ due[r] \in Later /\ \A q \in Reqs \ {r} : due'[q] = due[q]
  BY <1>1 DEF Goto, UniqueInv, InFlight, Later
<1>3. cached'[Api] = None /\ building'[Api] = None /\ \A p \in Procs \ {Api} : cached'[p] = cached[p]
  BY <1>1 DEF StaleInv, PoolTypes, Procs
<1>4. PoolTypes'
  BY <1>1, <1>3 DEF StaleInv, PoolTypes
<1>5. \A q \in Reqs : SteadyAt(q)' /\ QuietAt(q)'
  BY <1>1, <1>2, <1>3 DEF StaleInv, SteadyAt, QuietAt
<1>6. \A p \in Procs : ToldAt(p)'
  BY <1>1, <1>3, StillTold DEF StaleInv
<1> QED BY <1>4, <1>5, <1>6 DEF StaleInv

(* A commit changes a status only for the pools that are excused, or the   *)
(* API's, which is not there.                                              *)
LEMMA CommitKnows == ASSUME UniqueInv, StaleInv, NEW r \in Reqs, Commit(r) PROVE StaleInv'
<1>0. DOMAIN <<>> = {}
  OBVIOUS
<1>1. /\ due[r] = "commit" /\ db' = View(r) /\ Rollback(r) /\ UNCHANGED <<cached, building, excluding>>
      /\ overtaken' = overtaken \ {r}
      /\ excused' = [p \in Procs |->
           IF p \in Missed(r) /\ req[r].op \in {"add", "reactivate", "delete"}
           THEN excused[p] \cup {req[r].acct} ELSE excused[p]]
  BY DEF Commit, At
<1>2. /\ \A b \in Accts : db'[b] = IF b \in DOMAIN pend[r] THEN pend[r][b] ELSE db[b]
      /\ DOMAIN pend'[r] = {} /\ \A q \in Reqs \ {r} : pend'[q] = pend[q]
      /\ \A q \in Reqs \ {r} : \A b \in DOMAIN pend[q] : b \in Accts /\ db'[b] = db[b]
  BY <1>1, CommitShape DEF Rollback, UniqueInv
<1>3. due'[r] = "idle" /\ \A q \in Reqs \ {r} : due'[q] = due[q] /\ req'[q] = req[q]
  BY <1>1 DEF Rollback, Goto, UniqueInv, InFlight
<1>4. \A q \in Reqs \ {r} : SteadyAt(q)' /\ QuietAt(q)'
  <2> SUFFICES ASSUME NEW q \in Reqs \ {r} PROVE SteadyAt(q)' /\ QuietAt(q)'
    OBVIOUS
  <2>1. QuietAt(q)'
    BY <1>1, <1>3 DEF StaleInv, QuietAt
  <2>2. SteadyAt(q)'
    BY <1>2, <1>3 DEF StaleInv, SteadyAt, StatusOf
  <2> QED BY <2>1, <2>2
<1>5. SteadyAt(r)' /\ QuietAt(r)'
  BY <1>2, <1>3 DEF SteadyAt, QuietAt
<1>6. PoolTypes'
  BY <1>1 DEF StaleInv, PoolTypes
<1>7. ASSUME NEW p \in Procs, NEW a \in Accts \ excused'[p]
      PROVE  \/ StatusOf(db'[a]) = StatusOf(db[a])
             \/ cached[p] = None /\ building[p] = None
  <2>1. CASE req[r].op \in Changes /\ req[r].acct = a
    <3>1. p \notin Missed(r)
      BY <1>1, <1>7, <2>1 DEF Changes
    <3>2. p = Api /\ r \notin overtaken
      BY <3>1 DEF Missed
    <3> QED BY <1>1, <2>1, <3>2 DEF StaleInv, QuietAt
  <2>2. CASE ~(req[r].op \in Changes /\ req[r].acct = a)
    BY <1>2, <2>2 DEF StaleInv, SteadyAt
  <2> QED BY <2>1, <2>2
<1>8. \A p \in Procs : ToldAt(p)'
  <2> SUFFICES ASSUME NEW p \in Procs, NEW a \in Accts \ excused'[p]
               PROVE  /\ building'[p] # None => StatusOf(building'[p][a]) = StatusOf(db'[a])
                      /\ cached'[p] # None =>
                           \/ cached'[p][a] = StatusOf(db'[a])
                           \/ cached'[p][a] = "refused" /\ StatusOf(db'[a]) = "rotates"
                           \/ /\ <<p, a>> \in excluding' /\ cached'[p][a] \in {"rotates", "refused"}
                              /\ StatusOf(db'[a]) = "quarantined"
    BY DEF ToldAt, StatusOf
  <2>1. a \notin excused[p]
    BY <1>1
  <2> QED BY <1>1, <1>7, <2>1 DEF StaleInv, ToldAt
<1> QED BY <1>4, <1>5, <1>6, <1>8 DEF StaleInv

(* A build reads the rows as they are, behind the transactions that have   *)
(* had their invalidate.                                                   *)
LEMMA ReadsKnow == ASSUME UniqueInv, StaleInv, NEW p \in Procs, BuildReads(p) PROVE StaleInv'
<1>1. /\ UNCHANGED <<db, pend, cached, excluding, req, due>> /\ cached[p] = None
      /\ building' = [building EXCEPT ![p] = db] /\ excused' = [excused EXCEPT ![p] = {}]
      /\ overtaken' = IF p = Api THEN overtaken \cup
                        {r \in Reqs : due[r] \in {"profile", "save", "commit"}} ELSE overtaken
  BY DEF BuildReads, rows, asked
<1>2. /\ DOMAIN building' = Procs /\ DOMAIN excused' = Procs /\ building'[p] = db
      /\ \A q \in Procs \ {p} : building'[q] = building[q] /\ excused'[q] = excused[q]
  BY <1>1 DEF StaleInv, PoolTypes
<1>3. PoolTypes'
  BY <1>1, <1>2 DEF StaleInv, PoolTypes
<1>4. \A r \in Reqs : SteadyAt(r)'
  BY <1>1 DEF StaleInv, SteadyAt
<1>5. \A r \in Reqs : QuietAt(r)'
  <2>1. CASE p = Api
    BY <1>1, <2>1 DEF QuietAt
  <2>2. CASE p # Api
    BY <1>1, <1>2, <2>2 DEF StaleInv, QuietAt, Procs
  <2> QED BY <2>1, <2>2
<1>6. \A q \in Procs \ {p} : ToldAt(q)'
  BY <1>1, <1>2, StillTold DEF StaleInv
<1>7. ToldAt(p)'
  BY <1>1, <1>2 DEF ToldAt, StatusOf
<1> QED BY <1>3, <1>4, <1>5, <1>6, <1>7 DEF StaleInv

LEMMA PublishesKnow == ASSUME UniqueInv, StaleInv, NEW p \in Procs, BuildPublishes(p) PROVE StaleInv'
<1>1. /\ UNCHANGED <<db, pend, excluding, req, due, overtaken, excused>> /\ building[p] # None
      /\ cached' = [cached EXCEPT ![p] = PoolOf(building[p])] /\ building' = [building EXCEPT ![p] = None]
  BY DEF BuildPublishes, rows, asked
<1>2. /\ DOMAIN building' = Procs /\ DOMAIN cached' = Procs
      /\ building'[p] = None /\ cached'[p] = PoolOf(building[p])
      /\ \A q \in Procs \ {p} : building'[q] = building[q] /\ cached'[q] = cached[q]
  BY <1>1 DEF StaleInv, PoolTypes
<1>3. DOMAIN PoolOf(building[p]) = Accts /\ \A a \in Accts : PoolOf(building[p])[a] = StatusOf(building[p][a])
  BY DEF PoolOf, StatusOf
<1>4. PoolTypes'
  BY <1>1, <1>2, <1>3 DEF StaleInv, PoolTypes
<1>5. \A r \in Reqs : SteadyAt(r)'
  BY <1>1 DEF StaleInv, SteadyAt
<1>6. \A r \in Reqs : QuietAt(r)'
  BY <1>1, <1>2 DEF StaleInv, QuietAt, Procs
<1>7. \A q \in Procs \ {p} : ToldAt(q)'
  BY <1>1, <1>2, StillTold DEF StaleInv
<1>8. ToldAt(p)'
  <2> SUFFICES ASSUME NEW a \in Accts \ excused[p]
               PROVE  /\ building'[p] # None => StatusOf(building'[p][a]) = StatusOf(db[a])
                      /\ cached'[p] # None => cached'[p][a] = StatusOf(db[a])
    BY <1>1 DEF ToldAt, StatusOf
  <2> QED BY ZenonT(60), <1>1, <1>2, <1>3 DEF StaleInv, ToldAt
<1> QED BY <1>4, <1>5, <1>6, <1>7, <1>8 DEF StaleInv

(* An exclusion: p's own pool waits for its quarantine, the others miss it. *)
LEMMA ExcludeKnows ==
  ASSUME UniqueInv, StaleInv, NEW p \in Procs, NEW a \in Accts, Exclude(p, a) PROVE StaleInv'
<1>1. /\ UNCHANGED <<pend, cached, building, overtaken, req, due>> /\ <<p, a>> \notin excluding
      /\ db[a] # None /\ \A r \in Reqs : a \notin DOMAIN pend[r]
      /\ db' = [db EXCEPT ![a] = update_status(@, "excluded")]
      /\ excluding' = excluding \cup {<<p, a>>}
      /\ excused' = [q \in Procs |-> IF q # p \/ building[q] # None
                                     THEN excused[q] \cup {a} ELSE excused[q]]
  BY DEF Exclude, asked
<1>2. db \in [Accts -> Rows] /\ db[a] \in Rows
  BY DEF UniqueInv, RowInv, AccountTypes
<1>3. db'[a] = update_status(db[a], "excluded") /\ \A b \in Accts \ {a} : db'[b] = db[b]
  BY <1>1, <1>2
<1>4. StatusOf(db'[a]) = "quarantined"
  <2>1. /\ db[a] \in Account /\ DOMAIN db[a] = {"blob", "hash", "status", "label", "synced"}
        /\ update_status(db[a], "excluded") \in Account
    BY <1>1, <1>2, RowParts, FieldsChange
  <2>2. update_status(db[a], "excluded").status = "excluded"
    BY <2>1 DEF update_status
  <2> QED BY <1>3, <2>1, <2>2, Constants DEF StatusOf
<1>5. PoolTypes'
  BY <1>1 DEF StaleInv, PoolTypes
<1>6. \A r \in Reqs : QuietAt(r)'
  BY <1>1 DEF StaleInv, QuietAt
<1>7. \A r \in Reqs : SteadyAt(r)'
  <2>1. \A r \in Reqs : \A b \in DOMAIN pend[r] : b \in Accts \ {a}
    BY <1>1 DEF UniqueInv, RowInv, AccountTypes
  <2> QED BY <1>1, <1>3, <2>1 DEF StaleInv, SteadyAt, StatusOf
<1>8. \A q \in Procs : ToldAt(q)'
  <2> SUFFICES ASSUME NEW q \in Procs, NEW b \in Accts \ excused'[q]
               PROVE  /\ building'[q] # None => StatusOf(building'[q][b]) = StatusOf(db'[b])
                      /\ cached'[q] # None =>
                           \/ cached'[q][b] = StatusOf(db'[b])
                           \/ cached'[q][b] = "refused" /\ StatusOf(db'[b]) = "rotates"
                           \/ /\ <<q, b>> \in excluding' /\ cached'[q][b] \in {"rotates", "refused"}
                              /\ StatusOf(db'[b]) = "quarantined"
    BY DEF ToldAt, StatusOf
  <2>1. b \notin excused[q]
    BY <1>1
  <2>2. CASE b # a
    <3>1. StatusOf(db'[b]) = StatusOf(db[b])
      BY <1>3, <2>2
    <3> QED BY <1>1, <2>1, <3>1 DEF StaleInv, ToldAt
  <2>3. CASE b = a
    <3>1. q = p /\ building[q] = None
      BY <1>1, <2>3
    <3>2. cached[q] # None => \/ cached[q][a] = StatusOf(db[a])
                              \/ cached[q][a] = "refused"
      BY <1>1, <2>1, <2>3, <3>1 DEF StaleInv, ToldAt
    <3>3. StatusOf(db[a]) \in {"rotates", "quarantined"}
      BY <1>1 DEF StatusOf
    <3> QED BY <1>1, <1>4, <2>3, <3>1, <3>2, <3>3
  <2> QED BY <2>2, <2>3
<1> QED BY <1>5, <1>6, <1>7, <1>8 DEF StaleInv

(* The client takes an account out of the pool of p alone.                 *)
LEMMA ClientKnows ==
  ASSUME UniqueInv, StaleInv, NEW p \in Procs, NEW a \in Accts, ClientQuarantines(p, a) PROVE StaleInv'
<1>1. /\ UNCHANGED <<db, pend, building, excluding, overtaken, excused, req, due>>
      /\ cached[p] # None /\ cached[p][a] = "rotates" /\ cached' = [cached EXCEPT ![p][a] = "refused"]
  BY DEF ClientQuarantines, rows, asked
<1>2. PICK c : c = [cached[p] EXCEPT ![a] = "refused"]
  OBVIOUS
<1>3. DOMAIN c = Accts /\ c[a] = "refused" /\ \A b \in Accts \ {a} : c[b] = cached[p][b]
  BY <1>1, <1>2 DEF StaleInv, PoolTypes
<1>4. /\ DOMAIN cached' = Procs /\ cached'[p] = c /\ \A q \in Procs \ {p} : cached'[q] = cached[q]
  BY <1>1, <1>2 DEF StaleInv, PoolTypes
<1>5. PoolTypes'
  BY <1>1, <1>3, <1>4 DEF StaleInv, PoolTypes
<1>6. \A r \in Reqs : SteadyAt(r)'
  BY <1>1 DEF StaleInv, SteadyAt
<1>7. \A r \in Reqs : QuietAt(r)'
  BY <1>1, <1>4 DEF StaleInv, QuietAt, Procs
<1>8. \A q \in Procs \ {p} : ToldAt(q)'
  BY <1>1, <1>4, StillTold DEF StaleInv
<1>9. ToldAt(p)'
  <2> SUFFICES ASSUME NEW b \in Accts \ excused[p]
               PROVE  /\ building'[p] # None => StatusOf(building'[p][b]) = StatusOf(db'[b])
                      /\ cached'[p] # None =>
                           \/ cached'[p][b] = StatusOf(db'[b])
                           \/ cached'[p][b] = "refused" /\ StatusOf(db'[b]) = "rotates"
                           \/ /\ <<p, b>> \in excluding' /\ cached'[p][b] \in {"rotates", "refused"}
                              /\ StatusOf(db'[b]) = "quarantined"
    BY <1>1 DEF ToldAt, StatusOf
  <2>1. CASE b # a
    BY <1>1, <1>3, <1>4, <2>1 DEF StaleInv, ToldAt
  <2>2. CASE b = a
    BY <1>1, <1>3, <1>4, <2>2 DEF StaleInv, ToldAt
  <2> QED BY <2>1, <2>2
<1> QED BY <1>5, <1>6, <1>7, <1>8, <1>9 DEF StaleInv

LEMMA QuarantineKnows ==
  ASSUME UniqueInv, StaleInv, NEW p \in Procs, NEW a \in Accts, Quarantine(p, a) PROVE StaleInv'
<1>1. /\ UNCHANGED <<db, pend, building, overtaken, req, due>>
      /\ excluding' = excluding \ {<<p, a>>}
      /\ cached' = IF cached[p] # None /\ cached[p][a] # "absent"
                   THEN [cached EXCEPT ![p][a] = "quarantined"] ELSE cached
      /\ excused' = IF db[a] # None /\ db[a].status = "active"
                    THEN [excused EXCEPT ![p] = @ \cup {a}] ELSE excused
  BY DEF Quarantine, rows, asked
<1>2. /\ DOMAIN cached' = Procs /\ DOMAIN excused' = Procs
      /\ \A q \in Procs \ {p} : cached'[q] = cached[q] /\ excused'[q] = excused[q]
      /\ cached'[p] # None => cached[p] # None
      /\ cached[p] = None => cached'[p] = None
      /\ cached[p] # None =>
           DOMAIN cached'[p] = Accts /\ (\A b \in Accts \ {a} : cached'[p][b] = cached[p][b])
      /\ (cached[p] # None /\ cached[p][a] # "absent") => cached'[p][a] = "quarantined"
      /\ (cached[p] # None /\ cached[p][a] = "absent") => cached'[p][a] = "absent"
      /\ excused'[p] = IF StatusOf(db[a]) = "rotates" THEN excused[p] \cup {a} ELSE excused[p]
  <2>1. DOMAIN cached = Procs /\ DOMAIN excused = Procs /\ (cached[p] # None => DOMAIN cached[p] = Accts)
    BY DEF StaleInv, PoolTypes
  <2>2. StatusOf(db[a]) = "rotates" <=> db[a] # None /\ db[a].status = "active"
    BY DEF StatusOf
  <2>3. CASE ~(cached[p] # None /\ cached[p][a] # "absent")
    BY <1>1, <2>1, <2>2, <2>3
  <2>4. CASE cached[p] # None /\ cached[p][a] # "absent"
    <3>1. PICK c : c = [cached[p] EXCEPT ![a] = "quarantined"]
      OBVIOUS
    <3>2. DOMAIN c = Accts /\ c[a] = "quarantined" /\ \A b \in Accts \ {a} : c[b] = cached[p][b]
      BY <2>1, <2>4, <3>1
    <3>3. cached' = [cached EXCEPT ![p] = c]
      BY <1>1, <2>4, <3>1
    <3> QED BY <1>1, <2>1, <2>2, <2>4, <3>2, <3>3
  <2> QED BY <2>3, <2>4
<1>3. PoolTypes'
  BY <1>1, <1>2 DEF StaleInv, PoolTypes
<1>4. \A r \in Reqs : SteadyAt(r)'
  BY <1>1 DEF StaleInv, SteadyAt
<1>5. \A r \in Reqs : QuietAt(r)'
  BY <1>1, <1>2 DEF StaleInv, QuietAt, Procs
<1>6. \A q \in Procs \ {p} : ToldAt(q)'
  <2> SUFFICES ASSUME NEW q \in Procs \ {p}, NEW b \in Accts \ excused'[q]
               PROVE  /\ building'[q] # None => StatusOf(building'[q][b]) = StatusOf(db'[b])
                      /\ cached'[q] # None =>
                           \/ cached'[q][b] = StatusOf(db'[b])
                           \/ cached'[q][b] = "refused" /\ StatusOf(db'[b]) = "rotates"
                           \/ /\ <<q, b>> \in excluding' /\ cached'[q][b] \in {"rotates", "refused"}
                              /\ StatusOf(db'[b]) = "quarantined"
    BY DEF ToldAt, StatusOf
  <2>1. b \notin excused[q] /\ (<<q, b>> \in excluding => <<q, b>> \in excluding')
    BY <1>1, <1>2
  <2> QED BY <1>1, <1>2, <2>1 DEF StaleInv, ToldAt
<1>7. ToldAt(p)'
  <2> SUFFICES ASSUME NEW b \in Accts \ excused'[p]
               PROVE  /\ building'[p] # None => StatusOf(building'[p][b]) = StatusOf(db'[b])
                      /\ cached'[p] # None =>
                           \/ cached'[p][b] = StatusOf(db'[b])
                           \/ cached'[p][b] = "refused" /\ StatusOf(db'[b]) = "rotates"
                           \/ /\ <<p, b>> \in excluding' /\ cached'[p][b] \in {"rotates", "refused"}
                              /\ StatusOf(db'[b]) = "quarantined"
    BY DEF ToldAt, StatusOf
  <2>1. b \notin excused[p]
    BY <1>2
  <2>2. CASE b # a
    BY <1>1, <1>2, <2>1, <2>2 DEF StaleInv, ToldAt
  <2>3. CASE b = a
    <3>1. StatusOf(db[a]) # "rotates" /\ a \notin excused[p]
      BY <1>2, <2>1, <2>3
    <3>2. building[p] # None => StatusOf(building[p][a]) = StatusOf(db[a])
      BY <3>1 DEF StaleInv, ToldAt
    <3>3. cached[p] # None => \/ cached[p][a] = StatusOf(db[a])
                              \/ cached[p][a] \in {"rotates", "refused"} /\ StatusOf(db[a]) = "quarantined"
      BY <3>1 DEF StaleInv, ToldAt
    <3>4. cached[p] # None => cached'[p][a] = StatusOf(db[a])
      <4>1. StatusOf(db[a]) \in {"absent", "rotates", "quarantined"}
        BY DEF StatusOf
      <4> QED BY <1>2, <3>1, <3>3, <4>1
    <3> QED BY <1>1, <1>2, <2>3, <3>2, <3>4
  <2> QED BY <2>2, <2>3
<1> QED BY <1>3, <1>4, <1>5, <1>6, <1>7 DEF StaleInv

LEMMA StaleStep == ASSUME UniqueInv, StaleInv, [AccountsNext]_accountVars PROVE StaleInv'
<1>1. ASSUME NEW r \in Reqs, Receive(r) \/ Serve(r) PROVE StaleInv'
  BY <1>1, ReceiveKnows, BackfillKnows, InsertKnows, TouchKnows, CallsKnow, InvalidateKnows,
     CommitKnows DEF Serve
<1>2. ASSUME (\E r \in Reqs : SaveFlow(r)) \/ UNCHANGED accountVars PROVE StaleInv'
  <2>1. UNCHANGED <<db, pend, pools, req, due>>
    BY <1>2 DEF SaveFlow, accountVars, rows, asked
  <2> QED BY <2>1 DEF StaleInv, PoolTypes, SteadyAt, QuietAt, ToldAt, pools
<1> QED BY <1>1, <1>2, ReadsKnow, PublishesKnow, ClientKnows, ExcludeKnows, QuarantineKnows DEF AccountsNext

LEMMA StaleInit == ASSUME AccountsInit PROVE StaleInv
<1>0. DOMAIN <<>> = {}
  OBVIOUS
<1>1. \A r \in Reqs : DOMAIN pend[r] = {} /\ due[r] = "idle"
  BY <1>0 DEF AccountsInit
<1>2. PoolTypes /\ \A p \in Procs : ToldAt(p)
  BY DEF AccountsInit, PoolTypes, ToldAt
<1> QED BY <1>1, <1>2 DEF StaleInv, SteadyAt, QuietAt

(* However builds, invalidates, exclusions and commits fall, a process's   *)
(* pool is what Postgres says of every account, but in the five windows    *)
(* that OnlyTheseWindowsAreStale names (TokenPool.invalidate before the    *)
(* commit of AccountService, exclude_account in two steps).                *)
THEOREM StaleInWindowsOnly == AccountsSpec => []OnlyTheseWindowsAreStale
<1>1. AccountsInit => UniqueInv /\ StaleInv
  BY UniqueInit, StaleInit
<1>2. UniqueInv /\ StaleInv /\ [AccountsNext]_accountVars => UniqueInv' /\ StaleInv'
  BY UniqueStep, StaleStep
<1>3. StaleInv => OnlyTheseWindowsAreStale
  BY DEF StaleInv, ToldAt, OnlyTheseWindowsAreStale, PoolOf, StatusOf
<1> QED BY <1>1, <1>2, <1>3, PTL DEF AccountsSpec
=============================================================================
