----------------------------- MODULE RunPromise -----------------------------
(***************************************************************************)
(* What the run engine promises the people who press "run": the abstract   *)
(* specification that RunLifecycle (row versions, step rows, the job       *)
(* queue, crashes and sweeps) is shown to implement.                       *)
(*                                                                         *)
(* A run is created once, is started, possibly several times, and settles. *)
(* A step that spends money does so at most once over the whole life of    *)
(* the run, whoever executes it, and not after it was committed; a         *)
(* committed step stays committed; a run settles as completed only when    *)
(* every step is committed, and a completed run never moves again.         *)
(*                                                                         *)
(* Two reserves the code makes.  A failed run is not final: a redelivered  *)
(* job may start it again.  And a step committed as declined (the lot did  *)
(* not fit the budget) is not settled: an attempt at it that was under way *)
(* may still pay, once, and write its own outcome over the refusal, even   *)
(* when the run has completed meanwhile.                                   *)
(***************************************************************************)
EXTENDS Integers

CONSTANTS Runs,    \* run identities: one per (flow_id, run_key)
          NSteps   \* steps of the flow, executed in the order 1..NSteps

Steps == 1..NSteps

VARIABLES status,    \* Run.status, "absent" before the row exists
          committed, \* committed[r]: the steps whose RunStep row is COMPLETED
          declined,  \* declined[r]: those whose row is the budget's refusal
          effects    \* effects[r][k]: purchases step k of run r made

vars == <<status, committed, declined, effects>>

Init == /\ status = [r \in Runs |-> "absent"]
        /\ committed = [r \in Runs |-> {}]
        /\ declined = [r \in Runs |-> {}]
        /\ effects = [r \in Runs |-> [k \in Steps |-> 0]]

Create(r) == /\ status[r] = "absent"
             /\ status' = [status EXCEPT ![r] = "pending"]
             /\ UNCHANGED <<committed, declined, effects>>

Start(r) == /\ status[r] \in {"pending", "failed"}
            /\ status' = [status EXCEPT ![r] = "running"]
            /\ UNCHANGED <<committed, declined, effects>>

(* Money moves only for a step that never spent before: of a run that was  *)
(* started and has not completed, or at a step that was only declined.     *)
Spend(r, k) == /\ effects[r][k] = 0
               /\ \/ k \in declined[r]
                  \/ k \notin committed[r] /\ status[r] \in {"running", "failed"}
               /\ effects' = [effects EXCEPT ![r][k] = 1]
               /\ UNCHANGED <<status, committed, declined>>

(* The outcome is committed, once more perhaps, as a refusal or not.       *)
Commit(r, k) == /\ k \in committed[r] \/ status[r] \in {"running", "failed"}
                /\ committed' = [committed EXCEPT ![r] = @ \cup {k}]
                /\ \/ declined' = [declined EXCEPT ![r] = @ \cup {k}]
                   \/ declined' = [declined EXCEPT ![r] = @ \ {k}]
                /\ UNCHANGED <<status, effects>>

Complete(r) == /\ status[r] = "running"
               /\ committed[r] = Steps
               /\ status' = [status EXCEPT ![r] = "completed"]
               /\ UNCHANGED <<committed, declined, effects>>

Fail(r) == /\ status[r] = "running"
           /\ status' = [status EXCEPT ![r] = "failed"]
           /\ UNCHANGED <<committed, declined, effects>>

Next == \E r \in Runs : \/ Create(r) \/ Start(r) \/ Complete(r) \/ Fail(r)
                        \/ \E k \in Steps : Spend(r, k) \/ Commit(r, k)

Spec == Init /\ [][Next]_vars
=============================================================================
