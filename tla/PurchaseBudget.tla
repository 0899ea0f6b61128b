---------------------------- MODULE PurchaseBudget ----------------------------
(***************************************************************************)
(* market.fast_buy with a run_budget: the gate that reads the ledger, the  *)
(* idempotency guard, the purchase, and the best-effort ledger write, in   *)
(* one run whose fork branches each work through a list of lots.  The flow *)
(* carries the stop condition of the autobuy template: a step that reports *)
(* budget_exhausted aborts the run.  A run that failed inside its fork is  *)
(* taken up at the node that failed, outside any fork, where its steps     *)
(* have other keys.  RunLifecycle has the node under competing executors;  *)
(* here there is one.                                                      *)
(***************************************************************************)
EXTENDS Integers, FiniteSets, FiniteSetsExt

CONSTANTS
  Branches,    \* the branches of the fork, or the one list of a sequential run
  Forked,      \* whether there is a fork
  NLots,       \* lots each branch works through
  MaxPrice,    \* max_price: the ceiling pinned onto every purchase
  Budget,      \* run_budget
  MaxCrashes   \* bound: crashes, and executions of a failed run again

ASSUME BudgetAssumption ==
  /\ IsFiniteSet(Branches) /\ Branches # {} /\ NLots \in Nat /\ MaxPrice \in Nat \ {0}
  /\ Budget \in Nat /\ MaxCrashes \in Nat
  /\ Forked \in BOOLEAN /\ (~Forked => \A b, c \in Branches : b = c)

(* A step's key is its node and its iteration key: fork:<label> in a       *)
(* branch, none on the run's own chain.                                    *)
Lots == Branches \X (1..NLots)
Frames == {"fork", "top"}
Keys == Lots \X Frames

VARIABLES
  status,      \* of the run row
  top,         \* the branch the run's own chain is in: the row's current_node_id
  at, due, out,\* each branch: its lot, the call it is about to make, its result
  row,         \* the RunStep of each key
  guards,      \* idempotency keys in Redis
  price,       \* what the marketplace took under each key, 0 if nothing
  ledger,      \* keys whose purchase has a row in the purchases table
  again,       \* branches whose current step had a RUNNING row already
  asked,       \* a branch reported budget_exhausted: abort_box
  crashes

budgetVars == <<status, top, at, due, out, row, guards, price, ledger, again, asked, crashes>>

Halting == {"exhausted", "blind"}
Results == {"bought", "refused"} \cup Halting

BudgetTypeOK ==
  /\ status \in {"running", "failed", "completed"}
  /\ top \subseteq Branches /\ (\A b, c \in top : b = c) /\ (~Forked => top = Branches)
  /\ at \in [Branches -> 1..(NLots + 1)]
  /\ due \in [Branches -> {"enter", "gate", "guard", "buy", "record", "commit", "rest"}]
  /\ out \in [Branches -> Results]
  /\ row \in [Keys -> Results \cup {"none", "running"}]
  /\ guards \subseteq Keys /\ ledger \subseteq Keys
  /\ price \in [Keys -> 0..MaxPrice]
  /\ again \subseteq Branches /\ asked \in BOOLEAN /\ crashes \in 0..MaxCrashes

BudgetInit ==
  /\ status = "running" /\ top = IF Forked THEN {} ELSE Branches
  /\ at = [b \in Branches |-> 1] /\ due = [b \in Branches |-> "enter"]
  /\ out = [b \in Branches |-> "refused"] /\ again = {} /\ asked = FALSE
  /\ row = [k \in Keys |-> "none"] /\ price = [k \in Keys |-> 0]
  /\ guards = {} /\ ledger = {} /\ crashes = 0

-----------------------------------------------------------------------------
FrameOf(b) == IF b \in top THEN "top" ELSE "fork"
KeyOf(b) == <<<<b, at[b]>>, FrameOf(b)>>
Due(b, label) == status = "running" /\ due[b] = label
Goto(b, label) == due' = [due EXCEPT ![b] = label]
Report(b, r) == out' = [out EXCEPT ![b] = r] /\ Goto(b, "commit")

Total(S) == MapThenSumSet(LAMBDA k : price[k], S)
spent_for_run == Total(ledger)
Recorded(l) == \E k \in ledger : k[1] = l

(* RunFailed: the siblings are cancelled, and the row gets the failing     *)
(* node as its current one, however deep in a fork it stands.              *)
Fail(b) ==
  /\ status' = "failed" /\ top' = {b} /\ due' = [c \in Branches |-> "rest"]
  /\ UNCHANGED <<at, out, again, asked>>

(* The stop condition on a step's result, new or replayed.                 *)
MoveOn(b, r) ==
  IF r \in Halting THEN asked' = TRUE /\ Goto(b, "rest") /\ UNCHANGED at
  ELSE at' = [at EXCEPT ![b] = @ + 1] /\ Goto(b, "enter") /\ UNCHANGED asked

(* The join ends a branch, as a sibling's abort does; on the run's own     *)
(* chain it raises.  A committed step is replayed, a RUNNING one           *)
(* re-executed.                                                            *)
Enter(b) == LET k == KeyOf(b) IN
  /\ Due(b, "enter")
  /\ IF at[b] > NLots /\ Forked /\ b \in top
     THEN Fail(b) /\ UNCHANGED row
     ELSE /\ IF at[b] > NLots \/ asked
             THEN Goto(b, "rest") /\ UNCHANGED <<at, row, again, asked>>
             ELSE IF row[k] \in Results
             THEN MoveOn(b, row[k]) /\ UNCHANGED <<row, again>>
             ELSE /\ row' = [row EXCEPT ![k] = "running"] /\ Goto(b, "gate")
                  /\ again' = IF row[k] = "running" THEN again \cup {b} ELSE again \ {b}
                  /\ UNCHANGED <<at, asked>>
          /\ UNCHANGED <<status, top, out>>
  /\ UNCHANGED <<guards, price, ledger, crashes>>

(* The lot is named by a step this execution has not seen: build_inputs    *)
(* fails the claimed step before its node is run.                          *)
Unresolved(b) ==
  /\ Due(b, "gate") /\ Fail(b)
  /\ UNCHANGED <<row, guards, price, ledger, crashes>>

(* Mutant of Gate: compares what is spent, without the purchase to come.   *)
GateForgetsPrice(b) ==
  /\ Due(b, "gate")
  /\ IF spent_for_run < Budget THEN Goto(b, "guard") /\ UNCHANGED out
                               ELSE Report(b, "exhausted")
  /\ UNCHANGED <<status, top, at, row, guards, price, ledger, again, asked, crashes>>

(* _affordable: the ledger's total plus the ceiling, or no when the ledger *)
(* cannot be read.  It stands before the guard.                            *)
Gate(b) ==
  /\ Due(b, "gate")
  /\ \/ spent_for_run + MaxPrice <= Budget /\ Goto(b, "guard") /\ UNCHANGED out
     \/ spent_for_run + MaxPrice > Budget /\ Report(b, "exhausted")
     \/ Report(b, "exhausted")
  /\ UNCHANGED <<status, top, at, row, guards, price, ledger, again, asked, crashes>>

(* An earlier attempt of unknown outcome: RunFailed.                       *)
CheckAndSet(b) == LET k == KeyOf(b) IN
  /\ Due(b, "guard")
  /\ guards' = guards \cup {k}
  /\ IF k \in guards \/ b \in again
     THEN Fail(b)
     ELSE Goto(b, "buy") /\ UNCHANGED <<status, top, at, out, again, asked>>
  /\ UNCHANGED <<row, price, ledger, crashes>>

(* The lot is sold under the ceiling, or paid for and the answer lost      *)
(* (PurchaseOutcomeUnknown), or refused, or the call fails.                *)
Buy(b) == LET k == KeyOf(b) IN
  /\ Due(b, "buy")
  /\ \/ /\ \E p \in 1..MaxPrice : price' = [price EXCEPT ![k] = p]
        /\ \/ Goto(b, "record") /\ UNCHANGED <<status, top, at, out, again, asked>>
           \/ Fail(b)
     \/ Report(b, "refused") /\ UNCHANGED <<status, top, at, price, again, asked>>
     \/ Fail(b) /\ UNCHANGED price
  /\ UNCHANGED <<row, guards, ledger, crashes>>

(* Mutant of Record: a lost ledger row is reported as a plain purchase.    *)
RecordSwallows(b) == LET k == KeyOf(b) IN
  /\ Due(b, "record") /\ Report(b, "bought")
  /\ ledger' \in {ledger, ledger \cup {k}}
  /\ UNCHANGED <<status, top, at, row, guards, price, again, asked, crashes>>

(* _record never raises: a row that is lost, or thought to be, is reported *)
(* as budget_exhausted.  A lot has one row, its first: a second purchase   *)
(* of it is a duplicate, which counts as recorded.                         *)
Record(b) ==
  LET k == KeyOf(b)
      written == IF Recorded(k[1]) THEN ledger ELSE ledger \cup {k} IN
  /\ Due(b, "record")
  /\ \/ ledger' = written /\ Report(b, "bought")
     \/ ledger' \in {ledger, written} /\ Report(b, "blind")
  /\ UNCHANGED <<status, top, at, row, guards, price, again, asked, crashes>>

(* complete_step, then the template's stop condition.                      *)
Commit(b) ==
  /\ Due(b, "commit")
  /\ row' = [row EXCEPT ![KeyOf(b)] = out[b]]
  /\ MoveOn(b, out[b])
  /\ UNCHANGED <<status, top, out, guards, price, ledger, again, crashes>>

Complete ==
  /\ status = "running" /\ \A b \in Branches : due[b] = "rest"
  /\ status' = "completed"
  /\ UNCHANGED <<top, at, due, out, row, guards, price, ledger, again, asked, crashes>>

(* The executor dies, or the failed run is executed again: from the fork,  *)
(* while the row's current node is the fork, whose branches write nothing  *)
(* to it; else at the node of the run's own chain, and that chain alone.   *)
Resume ==
  /\ status # "completed" /\ crashes < MaxCrashes
  /\ crashes' = crashes + 1 /\ status' = "running"
  /\ at' = IF top = {} THEN [b \in Branches |-> 1] ELSE at
  /\ due' = [b \in Branches |-> IF top = {} \/ b \in top THEN "enter" ELSE "rest"]
  /\ again' = {} /\ asked' = FALSE
  /\ UNCHANGED <<top, out, row, guards, price, ledger>>

GuardExpires(k) ==
  /\ k \in guards /\ guards' = guards \ {k}
  /\ UNCHANGED <<status, top, at, due, out, row, price, ledger, again, asked, crashes>>

Step(b) ==
  Enter(b) \/ Unresolved(b) \/ Gate(b) \/ CheckAndSet(b) \/ Buy(b) \/ Record(b) \/ Commit(b)

(* The run is over, or has failed for the last time.                       *)
Closed == status # "running" /\ UNCHANGED budgetVars

BudgetNext ==
  \/ \E b \in Branches : Step(b)
  \/ Complete \/ Resume \/ \E k \in Keys : GuardExpires(k)
  \/ Closed

BudgetSpec == BudgetInit /\ [][BudgetNext]_budgetVars

-----------------------------------------------------------------------------
(* The chains that have walked: the branches, and the run's own chain once *)
(* it is among the lots.                                                   *)
Chains == (IF Forked THEN Branches \X {"fork"} ELSE {}) \cup (top \X {"top"})

(* The gate of a run is check-then-act across its branches, the ledger may *)
(* lose a row, and a failed run may be taken up where nothing remembers    *)
(* the lot: still it overspends by no more than one lot for every chain    *)
(* but one, and a sequential run not at all (fast_buy._affordable).        *)
OverrunIsBounded ==
  Total(Keys) <= Budget + (Cardinality(Chains) - 1) * MaxPrice

(* Money in the ledger is money that left, once for a lot, and a lot       *)
(* committed as bought is in the ledger: the number that authorises the    *)
(* next purchase counts every lot the operator was told was bought.        *)
LedgerIsHonest ==
  /\ \A k \in ledger : price[k] > 0
  /\ \A j, k \in ledger : j[1] = k[1] => j = k
  /\ \A k \in Keys : row[k] = "bought" => Recorded(k[1])

(* A step pays once, whatever is replayed and whichever idempotency key    *)
(* expired; and what was paid in a branch is paid for again only when the  *)
(* run failed at that lot before the step could commit, and is executed    *)
(* again (fast_buy.execute, step_replay, execute_run).                     *)
PaidOnce == [][\A k \in Keys : price'[k] # price[k] =>
                 /\ price[k] = 0
                 /\ \A j \in Keys : j[1] = k[1] /\ price[j] > 0 =>
                      k[2] = "top" /\ row[j] = "running"]_budgetVars
=============================================================================
