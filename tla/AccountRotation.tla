--------------------------- MODULE AccountRotation ---------------------------
(***************************************************************************)
(* The accounts of one tenant: the rows in Postgres, the API requests that *)
(* add, reactivate, relabel, refresh and delete them inside one            *)
(* transaction each, the exclusion of a token the marketplace refuses, and *)
(* the pools that the processes of the system built from those rows.       *)
(* TokenPool looks inside one process's cache; here a cache is only what   *)
(* it rotates, and the question is whether it is what Postgres says.       *)
(***************************************************************************)
EXTENDS Integers, FiniteSets, Functions

CONSTANTS
  Accts, Tokens, Labels, Reqs,  \* ids, credentials, labels, concurrent requests
  Api, Worker,       \* the processes, each with a TokenPool of its own
  None,
  Legacies,          \* the rows there may be at the start: from ids to ciphertexts
  MaxRequests,       \* bound: requests served
  MaxExclusions,     \* bound: AuthFailed seen
  MaxSaves           \* bound: flows saved

Procs == {Api, Worker}

VARIABLES
  db,        \* the committed rows
  pend,      \* of each request: the rows its transaction wrote, locked till it ends
  req, due,  \* what each request was asked, and the call it is about to make
  todo, assigned, \* its backfill: rows left, digests seen
  cached,    \* of each process: what its pool rotates and quarantines
  building,  \* of each process: the rows a build in flight has read
  excluding, \* <<p, a>>: a's EXCLUDED is committed, p's pool not yet told
  pins,      \* accounts that some saved flow names
  added,     \* accounts that add_account created
  handed,    \* of each process: accounts its pools have ever rotated
  overtaken, \* requests that a build has read behind, since their invalidate
  excused,   \* of each process: accounts whose change its pool cannot have seen
  served, exclusions, saves

rows   == <<db, pend, pins, added>>
pools  == <<cached, building, excluding, handed, overtaken, excused>>
asked  == <<req, todo, assigned>>
bounds == <<served, exclusions, saves>>
accountVars == <<rows, pools, asked, due, bounds>>

(* A ciphertext carries the version of the key it was written under, and   *)
(* decrypts under that one only; a digest is equal for equal tokens.       *)
KeyVersion == 1
Encrypt(t) == [version |-> KeyVersion, token |-> t]
Decrypts(blob) == blob.version = KeyVersion
Fingerprint(t) == <<"hmac", t>>
Digests == {Fingerprint(t) : t \in Tokens}

Account == [blob : [version : 0..KeyVersion, token : Tokens], hash : Digests \cup {None},
            status : {"active", "excluded"}, label : Labels \cup {None}, synced : BOOLEAN]
Rows == Account \cup {None}
NewRow(t) == [blob |-> Encrypt(t), hash |-> Fingerprint(t), status |-> "active",
              label |-> None, synced |-> FALSE]
Request == [op : {"add"}, token : Tokens, acct : Accts \cup {None}]
      \cup [op : {"reactivate", "refresh", "delete"}, acct : Accts]
      \cup [op : {"label"}, acct : Accts, label : Labels]

ASSUME RotationAssumption ==
  /\ Api # Worker
  /\ None \notin Accts \cup Tokens \cup Labels \cup Digests \cup Account
  /\ \A legacy \in Legacies : /\ DOMAIN legacy \subseteq Accts
                              /\ Range(legacy) \subseteq [version : 0..KeyVersion, token : Tokens]
  /\ {MaxRequests, MaxExclusions, MaxSaves} \subseteq Nat

AccountsTypeOK ==
  /\ db \in [Accts -> Rows]
  /\ \A r \in Reqs : DOMAIN pend[r] \subseteq Accts /\ Range(pend[r]) \subseteq Rows
  /\ req \in [Reqs -> Request \cup {None}]
  /\ due \in [Reqs -> {"idle", "list", "backfill", "verify", "insert", "check", "write",
                      "invalidate", "profile", "save", "commit"}]
  /\ todo \in [Reqs -> SUBSET Accts] /\ assigned \in [Reqs -> SUBSET Digests]
  /\ cached \in [Procs -> [Accts -> {"absent", "rotates", "refused", "quarantined"}] \cup {None}]
  /\ building \in [Procs -> [Accts -> Rows] \cup {None}]
  /\ excluding \subseteq Procs \X Accts /\ pins \subseteq Accts /\ added \subseteq Accts
  /\ handed \in [Procs -> SUBSET Accts]
  /\ overtaken \subseteq Reqs /\ excused \in [Procs -> SUBSET Accts]
  /\ served \in 0..MaxRequests /\ exclusions \in 0..MaxExclusions /\ saves \in 0..MaxSaves

(* Rows of before revision 0014: no digest, and some no longer decrypt.    *)
AccountsInit ==
  /\ \E legacy \in Legacies :
       db = [a \in Accts |-> IF a \in DOMAIN legacy
                             THEN [NewRow(legacy[a].token) EXCEPT !.hash = None,
                                                                  !.blob = legacy[a]]
                             ELSE None]
  /\ pend = [r \in Reqs |-> <<>>] /\ req = [r \in Reqs |-> None]
  /\ due = [r \in Reqs |-> "idle"]
  /\ todo = [r \in Reqs |-> {}] /\ assigned = [r \in Reqs |-> {}]
  /\ cached = [p \in Procs |-> None] /\ building = [p \in Procs |-> None]
  /\ excluding = {} /\ pins = {} /\ added = {}
  /\ handed = [p \in Procs |-> {}] /\ overtaken = {} /\ excused = [p \in Procs |-> {}]
  /\ served = 0 /\ exclusions = 0 /\ saves = 0

-----------------------------------------------------------------------------
(* Read committed: what request r sees, and what it must wait for.         *)
View(r) == [a \in Accts |-> IF a \in DOMAIN pend[r] THEN pend[r][a] ELSE db[a]]
Locked(r, a) == \E q \in Reqs \ {r} : a \in DOMAIN pend[q]
Write(r, a, row) ==
  pend' = [pend EXCEPT ![r] = [b \in {a} \cup DOMAIN @ |-> IF b = a THEN row ELSE @[b]]]

HasHash(row, t) == row # None /\ row.hash = Fingerprint(t)
(* A unique index: a flush waits for another transaction's entry and fails *)
(* on a committed one.                                                     *)
Contested(r, t) ==
  \E q \in Reqs \ {r} : \E a \in DOMAIN pend[q] : HasHash(pend[q][a], t) /\ ~HasHash(db[a], t)
HashTaken(r, a, t) == \E b \in Accts \ {a} : HasHash(View(r)[b], t)
LabelTaken(r, a, l) ==
  l # None /\ \E b \in Accts \ {a} : View(r)[b] # None /\ View(r)[b].label = l

At(r, label) == due[r] = label
Goto(r, label) == due' = [due EXCEPT ![r] = label]

(* Mutant of Rollback: the session is left open.                           *)
RollbackForgets(r) ==
  /\ Goto(r, "idle") /\ req' = [req EXCEPT ![r] = None] /\ UNCHANGED pend
  /\ todo' = [todo EXCEPT ![r] = {}] /\ assigned' = [assigned EXCEPT ![r] = {}]

(* session_scope on an exception: the transaction leaves no trace.         *)
Rollback(r) ==
  /\ pend' = [pend EXCEPT ![r] = <<>>] /\ Goto(r, "idle")
  /\ req' = [req EXCEPT ![r] = None]
  /\ todo' = [todo EXCEPT ![r] = {}] /\ assigned' = [assigned EXCEPT ![r] = {}]

(* A handler of account_routes: one session, one service call.             *)
Receive(r) ==
  /\ At(r, "idle") /\ served < MaxRequests
  /\ \E q \in Request :
       /\ q.op = "add" => q.acct = None
       /\ req' = [req EXCEPT ![r] = q]
       /\ Goto(r, CASE q.op = "add"     -> "list"
                    [] q.op = "delete"  -> "check"
                    [] q.op = "refresh" -> "profile"
                    [] OTHER            -> "write")
  /\ served' = served + 1
  /\ UNCHANGED <<rows, pools, todo, assigned, exclusions, saves>>

update_status(row, status) == [row EXCEPT !.status = status]
set_token_hash(row, t) == [row EXCEPT !.hash = Fingerprint(t)]

-----------------------------------------------------------------------------
(* Mutant of List: a tenant's first account needs no fingerprints.         *)
ListSkips(r) ==
  /\ At(r, "list") /\ Goto(r, "verify")
  /\ UNCHANGED <<rows, pools, asked, bounds>>

(* _backfill_token_hashes reads every row of the tenant, in no order.      *)
List(r) ==
  /\ At(r, "list") /\ Goto(r, "backfill")
  /\ todo' = [todo EXCEPT ![r] = {a \in Accts : View(r)[a] # None}]
  /\ UNCHANGED <<rows, pools, req, assigned, bounds>>

(* One row of the loop.  A digest seen twice in the list is left out of    *)
(* the second row; a row whose ciphertext does not decrypt is left alone.  *)
Backfill(r) == \E a \in todo[r] : LET row == View(r)[a] t == row.blob.token IN
  /\ At(r, "backfill")
  /\ IF row = None THEN Rollback(r)   \* AccountNotFound
     ELSE IF row.hash # None \/ ~Decrypts(row.blob) \/ Fingerprint(t) \in assigned[r]
     THEN /\ todo' = [todo EXCEPT ![r] = @ \ {a}]
          /\ assigned' = [assigned EXCEPT ![r] = @ \cup ({row.hash} \ {None})]
          /\ UNCHANGED <<pend, due, req>>
     ELSE /\ ~Locked(r, a) /\ ~Contested(r, t)
          /\ IF HashTaken(r, a, t) THEN Rollback(r)
             ELSE /\ Write(r, a, set_token_hash(row, t))
                  /\ todo' = [todo EXCEPT ![r] = @ \ {a}]
                  /\ assigned' = [assigned EXCEPT ![r] = @ \cup {Fingerprint(t)}]
                  /\ UNCHANGED <<due, req>>
  /\ UNCHANGED <<db, pins, added, pools, bounds>>

BackfillDone(r) ==
  /\ At(r, "backfill") /\ todo[r] = {} /\ Goto(r, "verify")
  /\ UNCHANGED <<rows, pools, asked, bounds>>

(* verify_token: a token the marketplace refuses is not stored.            *)
Verify(r) ==
  /\ At(r, "verify")
  /\ \/ Goto(r, "insert") /\ UNCHANGED <<pend, asked>>
     \/ Rollback(r)
  /\ UNCHANGED <<db, pins, added, pools, bounds>>

(* create: the unique index refuses a token the tenant already has.        *)
Insert(r) == LET t == req[r].token IN
  /\ At(r, "insert") /\ ~Contested(r, t)
  /\ IF \E b \in Accts : HasHash(View(r)[b], t)
     THEN Rollback(r) /\ UNCHANGED added                   \* DuplicateAccountToken
     ELSE \E a \in Accts \ added :                         \* uuid4: never used before
            /\ db[a] = None /\ ~Locked(r, a)
            /\ Write(r, a, NewRow(t)) /\ added' = added \cup {a}
            /\ req' = [req EXCEPT ![r].acct = a]
            /\ Goto(r, "invalidate") /\ UNCHANGED <<todo, assigned>>
  /\ UNCHANGED <<db, pins, pools, bounds>>

(* A spec names an account at any depth of its nodes' children.            *)
flows_referencing(a) == {a} \cap pins

(* flows_referencing, then delete: a row gone meanwhile is AccountNotFound. *)
Check(r) ==
  /\ At(r, "check")
  /\ IF flows_referencing(req[r].acct) # {} THEN Rollback(r)               \* AccountInUse
     ELSE Goto(r, "write") /\ UNCHANGED <<pend, asked>>
  /\ UNCHANGED <<db, pins, added, pools, bounds>>

LabelContested(r, l) ==
  \E q \in Reqs \ {r} : \E b \in DOMAIN pend[q] :
    /\ pend[q][b] # None /\ l # None /\ pend[q][b].label = l
    /\ db[b] # None => db[b].label # l

(* update_status, set_label and delete: one row, locked until the commit.  *)
WriteRow(r) == LET a == req[r].acct row == View(r)[a] op == req[r].op IN
  /\ At(r, "write") /\ ~Locked(r, a)
  /\ op = "label" => ~LabelContested(r, req[r].label)
  /\ IF row = None \/ (op = "label" /\ LabelTaken(r, a, req[r].label))
     THEN Rollback(r)                          \* AccountNotFound, Conflict
     ELSE /\ CASE op = "reactivate" ->
                    Write(r, a, update_status(row, "active")) /\ Goto(r, "invalidate")
               [] op = "delete" -> Write(r, a, None) /\ Goto(r, "invalidate")
               [] op = "label"  ->
                    Write(r, a, [row EXCEPT !.label = req[r].label]) /\ Goto(r, "commit")
          /\ UNCHANGED asked
  /\ UNCHANGED <<db, pins, added, pools, bounds>>

(* refresh_profile: a token that does not decrypt, or a marketplace that   *)
(* does not answer, fails a refresh; an add goes on without the profile.   *)
Profile(r) == LET row == View(r)[req[r].acct] IN
  /\ At(r, "profile")
  /\ \/ row # None /\ Decrypts(row.blob) /\ Goto(r, "save") /\ UNCHANGED <<pend, asked>>
     \/ req[r].op = "add" /\ Goto(r, "commit") /\ UNCHANGED <<pend, asked>>
     \/ req[r].op = "refresh" /\ Rollback(r)
  /\ UNCHANGED <<db, pins, added, pools, bounds>>

SaveProfile(r) == LET a == req[r].acct row == View(r)[a] IN
  /\ At(r, "save") /\ ~Locked(r, a)
  /\ IF row = None THEN Rollback(r)
     ELSE Write(r, a, [row EXCEPT !.synced = TRUE]) /\ Goto(r, "commit") /\ UNCHANGED asked
  /\ UNCHANGED <<db, pins, added, pools, bounds>>

(* Two transactions that wait for each other: Postgres rolls one back.     *)
WaitsFor(r) == {q \in Reqs \ {r} :
  CASE At(r, "backfill") ->
         \E a \in todo[r] : LET row == View(r)[a] IN
           /\ row # None /\ row.hash = None /\ Decrypts(row.blob)
           /\ a \in DOMAIN pend[q]
                \/ \E b \in DOMAIN pend[q] : HasHash(pend[q][b], row.blob.token)
    [] At(r, "insert") -> \E b \in DOMAIN pend[q] : HasHash(pend[q][b], req[r].token)
    [] due[r] \in {"write", "save"} -> DOMAIN pend[q] # {}
    [] OTHER -> FALSE}
DeadlockVictim(r) ==
  /\ \E q \in WaitsFor(r) : r \in WaitsFor(q)
  /\ Rollback(r)
  /\ UNCHANGED <<db, pins, added, pools, bounds>>

-----------------------------------------------------------------------------
(* Mutant of InvalidateTenant: the pool is left to expire.                       *)
InvalidateTenantSkips(r) ==
  /\ At(r, "invalidate")
  /\ Goto(r, IF req[r].op = "add" THEN "profile" ELSE "commit")
  /\ UNCHANGED <<rows, asked, pools, bounds>>

(* TokenPool.invalidate of the API's own process, under the tenant's lock, *)
(* which a build holds; the transaction is still open.                     *)
InvalidateTenant(r) ==
  /\ At(r, "invalidate") /\ building[Api] = None
  /\ cached' = [cached EXCEPT ![Api] = None] /\ overtaken' = overtaken \ {r}
  /\ Goto(r, IF req[r].op = "add" THEN "profile" ELSE "commit")
  /\ UNCHANGED <<rows, asked, building, excluding, handed, excused, bounds>>

(* A committed change reaches the other process not at all, and this one   *)
(* only if no build has read the rows since the invalidate.                *)
Missed(r) == {p \in Procs : p # Api \/ r \in overtaken}

(* session_scope commits when the handler has returned.                    *)
Commit(r) ==
  /\ At(r, "commit")
  /\ db' = View(r)
  /\ excused' = [p \in Procs |->
       IF p \in Missed(r) /\ req[r].op \in {"add", "reactivate", "delete"}
       THEN excused[p] \cup {req[r].acct} ELSE excused[p]]
  /\ overtaken' = overtaken \ {r} /\ Rollback(r)
  /\ UNCHANGED <<pins, added, cached, building, excluding, handed, bounds>>

(* A flow that names an account is saved, which nothing checks exists.  It *)
(* matters to a delete only, so one comes while a delete is under way.     *)
SaveFlow(r) ==
  /\ saves < MaxSaves /\ req[r] # None /\ req[r].op = "delete" /\ due[r] \in {"check", "write"}
  /\ pins' = pins \cup {req[r].acct} /\ saves' = saves + 1
  /\ UNCHANGED <<db, pend, added, pools, asked, due, served, exclusions>>

-----------------------------------------------------------------------------
(* _build, first half: the rows are read in a session of their own.  No    *)
(* ACTIVE account, or one that does not decrypt, and there is no pool.     *)
BuildReads(p) ==
  /\ cached[p] = None /\ building[p] = None
  /\ \E a \in Accts : db[a] # None /\ db[a].status = "active"
  /\ \A a \in Accts : db[a] # None => Decrypts(db[a].blob)
  /\ building' = [building EXCEPT ![p] = db]
  /\ excused' = [excused EXCEPT ![p] = {}]
  /\ overtaken' = IF p = Api THEN overtaken \cup
                    {r \in Reqs : due[r] \in {"profile", "save", "commit"}} ELSE overtaken
  /\ UNCHANGED <<rows, cached, excluding, handed, asked, due, bounds>>

PoolOf(snapshot) == [a \in Accts |->
  IF snapshot[a] = None THEN "absent"
  ELSE IF snapshot[a].status = "active" THEN "rotates" ELSE "quarantined"]

(* _build, second half: every EXCLUDED row is quarantined again.           *)
BuildPublishes(p) == LET pool == PoolOf(building[p]) IN
  /\ building[p] # None
  /\ cached' = [cached EXCEPT ![p] = pool] /\ building' = [building EXCEPT ![p] = None]
  /\ handed' = [handed EXCEPT ![p] = @ \cup {a \in Accts : pool[a] = "rotates"}]
  /\ UNCHANGED <<rows, excluding, overtaken, excused, asked, due, bounds>>

(* pylzt quarantines a token on its first AuthFailed, in its own memory.   *)
(* Calls that go through MarketService exclude the account next; a call    *)
(* that fails otherwise, or a node with the raw client, excludes nothing.  *)
ClientQuarantines(p, a) ==
  /\ exclusions < MaxExclusions /\ exclusions' = exclusions + 1
  /\ cached[p] # None /\ cached[p][a] = "rotates"
  /\ cached' = [cached EXCEPT ![p][a] = "refused"]
  /\ UNCHANGED <<rows, building, excluding, handed, overtaken, excused, asked, due, served, saves>>

(* An AuthFailed that the client has not answered by itself.               *)
Unmet(p, a) == cached[p] = None \/ cached[p][a] # "refused"

(* exclude_account, first half, for a token the process's pool handed out: *)
(* the durable fact, in a transaction of its own.                          *)
Exclude(p, a) ==
  /\ Unmet(p, a) => exclusions < MaxExclusions
  /\ a \in handed[p] /\ <<p, a>> \notin excluding
  /\ db[a] # None /\ \A r \in Reqs : a \notin DOMAIN pend[r]
  /\ exclusions' = IF Unmet(p, a) THEN exclusions + 1 ELSE exclusions
  /\ db' = [db EXCEPT ![a] = update_status(@, "excluded")]
  /\ excluding' = excluding \cup {<<p, a>>}
  /\ excused' = [q \in Procs |-> IF q # p \/ building[q] # None
                                 THEN excused[q] \cup {a} ELSE excused[q]]
  /\ UNCHANGED <<pend, pins, added, cached, building, handed, overtaken, asked, due, served, saves>>

(* quarantine_account: nothing to do for a pool that is not there.         *)
Quarantine(p, a) ==
  /\ <<p, a>> \in excluding
  /\ excluding' = excluding \ {<<p, a>>}
  /\ cached' = IF cached[p] # None /\ cached[p][a] # "absent"
              THEN [cached EXCEPT ![p][a] = "quarantined"] ELSE cached
  /\ excused' = IF db[a] # None /\ db[a].status = "active"
                THEN [excused EXCEPT ![p] = @ \cup {a}] ELSE excused
  /\ UNCHANGED <<rows, building, handed, overtaken, asked, due, bounds>>

Serve(r) == \/ List(r) \/ Backfill(r) \/ BackfillDone(r) \/ Verify(r) \/ Insert(r)
            \/ Check(r) \/ WriteRow(r) \/ Profile(r) \/ SaveProfile(r)
            \/ DeadlockVictim(r) \/ InvalidateTenant(r) \/ Commit(r)
AccountsNext ==
  \/ \E r \in Reqs : Receive(r) \/ Serve(r) \/ SaveFlow(r)
  \/ \E p \in Procs : BuildReads(p) \/ BuildPublishes(p)
  \/ \E p \in Procs, a \in Accts : ClientQuarantines(p, a) \/ Exclude(p, a) \/ Quarantine(p, a)

AccountsSpec == AccountsInit /\ [][AccountsNext]_accountVars

-----------------------------------------------------------------------------
(* An account the service stored never carries a token that a row with a   *)
(* readable ciphertext has too: the digests that revision 0014 nulled are  *)
(* back before the insert that must collide with them                      *)
(* (AccountService._backfill_token_hashes).                                *)
AddedTokensAreUnique ==
  \A a \in added : \A b \in Accts \ {a} :
    (db[a] # None /\ db[b] # None /\ Decrypts(db[b].blob)) =>
      db[a].blob.token # db[b].blob.token

(* A process's pool differs from the committed rows in five windows only:  *)
(* the change was committed by the other process, or after a build that    *)
(* followed the invalidate had read, or by an exclusion a build overlapped, *)
(* or the quarantine of an exclusion came after its reactivation, or the   *)
(* client itself took an active account out of its rotation.               *)
OnlyTheseWindowsAreStale ==
  \A p \in Procs : cached[p] # None =>
    \A a \in Accts \ excused[p] :
      \/ <<p, a>> \in excluding \/ cached[p][a] = PoolOf(db)[a]
      \/ cached[p][a] = "refused" /\ PoolOf(db)[a] = "rotates"

(* As long as a request is unfinished some request can go on: whoever     *)
(* holds the rows, the digest or the tenant's lock it waits for gets done. *)
SomeRequestGoesOn ==
  (\E r \in Reqs : due[r] # "idle") =>
    \/ \E r \in Reqs : ENABLED Serve(r)
    \/ building[Api] # None

(* app/domain/account/service.py:153-156 of delete_account: the check and  *)
(* the delete share a transaction "and a flow saved mid-request can't slip *)
(* past the check".                                                        *)
DeletedIsUnreferenced ==
  [][\A a \in Accts : (db[a] # None /\ db'[a] = None) => a \notin pins]_accountVars
=============================================================================
