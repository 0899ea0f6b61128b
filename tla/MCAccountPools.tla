--------------------------- MODULE MCAccountPools ---------------------------
(* The accounts of a tenant as Postgres and the processes' pools see them, *)
(* and one process's pool looked into.  A behaviour is about one of the    *)
(* two, so that their state spaces add up.                                 *)
EXTENDS AccountRotation, TokenPool, TLC

CONSTANTS a1, a2, t1, t2

VARIABLE scene

(* Rows of before the tenant-scoped fingerprint: two that decrypt, or one  *)
(* that does and one whose ciphertext is gone.                             *)
Row(t, readable) == [version |-> IF readable THEN 1 ELSE 0, token |-> t]
Distinct == {a1 :> Row(t1, TRUE) @@ a2 :> Row(t2, TRUE),
             a1 :> Row(t1, TRUE) @@ a2 :> Row(t2, FALSE)}

PoolsInit ==
  /\ scene \in {"accounts", "leases"}
  /\ AccountsInit /\ (scene = "leases" => \A a \in {a1, a2} : Decrypts(db[a].blob))
  /\ Init

PoolsNext ==
  /\ scene' = scene
  /\ \/ scene = "accounts" /\ AccountsNext /\ UNCHANGED vars
     \/ scene = "leases"   /\ Next         /\ UNCHANGED accountVars

PoolsSpec == PoolsInit /\ [][PoolsNext]_<<scene, accountVars, vars>> /\ Fairness

OneRequestSpec ==
  /\ AccountsInit /\ Init /\ scene = "accounts"
  /\ [][AccountsNext /\ UNCHANGED <<scene, vars>>]_<<scene, accountVars, vars>>
=============================================================================
