---------------------------- MODULE RunLifecycle ----------------------------
(***************************************************************************)
(* The life of a Run: the producers that insert its row and push its job,  *)
(* arq's delivery of that job, the executors that walk the flow under the  *)
(* row's optimistic lock and the two-phase RunStep commit, the handler of  *)
(* a cancelled job, and the two sweeps that look for stranded rows.        *)
(*                                                                         *)
(* One action per await: whatever happens between two awaits of a coroutine*)
(* is atomic, whatever happens at an await (a statement of its own         *)
(* transaction, a Redis command, a marketplace call) may interleave with   *)
(* everyone else.  The flow is a chain of NSteps nodes; branching is the   *)
(* subject of FlowInterpreter.                                             *)
(***************************************************************************)
EXTENDS Integers, FiniteSets

CONSTANTS
  Runs,        \* run identities, one per (flow_id, run_key)
  InvokeRuns,  \* those POST /flows/{id}/invoke may create
  Executors,   \* arq job slots and API requests that can walk a run
  NSteps,      \* nodes of the chain
  MoneySteps,  \* the nodes that buy (market.fast_buy with dry_run = false)
  BudgetSteps, \* those of them with a run_budget
  MaxTries,    \* WorkerSettings.max_tries
  MaxFires,    \* bound: producer calls per run
  MaxFaults,   \* bound: crashes, cancellations, failed calls, in the whole run
  Pauses       \* may a live executor be silent past every timeout?

Steps == 1..NSteps
NoNode == 0      \* current_node_id IS NULL
LoadNode == -1   \* the pseudo step "load" a failed load writes there

ASSUME LifecycleAssumption ==
  /\ NSteps \in Nat \ {0}
  /\ MoneySteps \subseteq Steps /\ BudgetSteps \subseteq MoneySteps
  /\ InvokeRuns \subseteq Runs
  /\ MaxTries \in Nat /\ MaxFires \in Nat /\ MaxFaults \in Nat
  /\ Pauses \in BOOLEAN

VARIABLES
  \* the runs table
  status, version, cur,
  \* the run_steps table and the marketplace
  step, effects,
  \* Redis: guard keys, and arq's job, in-progress and result keys, try counts
  guards, jobs, inProgress, results, tries,
  \* producers between the row and the push
  owed, fires,
  \* executors: the call each is about to make, who started it on which run,
  \* its copy of the version, its node, step_replay, what execute() returned
  pc, via, run, ver, at, replay, out,
  \* sweeps between their SELECT and their writes
  sweep, closing,
  faults

rowVars  == <<status, version, cur>>
stepVars == <<step, effects>>
arqVars  == <<jobs, inProgress, results, tries>>
prodVars == <<owed, fires>>
exec     == <<pc, via, run, ver, at, replay, out>>
sweepVars == <<sweep, closing>>
vars == <<rowVars, stepVars, guards, arqVars, prodVars, exec, sweepVars, faults>>

(* What a committed row reports: the lot was bought, nothing was, or the   *)
(* budget gate declined to look.                                           *)
Outcomes == {"bought", "clear", "declined"}
StepRows == {"none", "running"} \cup Outcomes
Done(r, k) == step[r][k] \in Outcomes

(* Where an executor stands: the call it is about to make.                 *)
Body    == {"gate", "guard", "effect", "plain"}
Walking == {"load", "node", "claimstep", "getstep", "complete", "finish", "fail"} \cup Body
Active  == {"get", "claim"} \cup Walking
Labels  == {"idle", "aread", "atouch", "end"} \cup Active

(* The executor whose version is the row's: the only one whose touch wins. *)
Owner(w, r) == run[w] = r /\ pc[w] \in Walking /\ ver[w] = version[r]

RowTypes ==
  /\ status \in [Runs -> {"absent", "pending", "running", "completed", "failed"}]
  /\ version \in [Runs -> Nat]
  /\ cur \in [Runs -> LoadNode..NSteps]
StepTypes ==
  /\ step \in [Runs -> [Steps -> StepRows]]
  /\ effects \in [Runs -> [Steps -> Nat]]
  /\ guards \subseteq (Runs \X Steps)
ArqTypes ==
  /\ jobs \subseteq Runs /\ inProgress \subseteq Runs /\ results \subseteq Runs
  /\ tries \in [Runs -> 0..MaxTries]
ProducerTypes == owed \in [Runs -> Nat] /\ fires \in [Runs -> 0..MaxFires]
ExecutorTypes ==
  /\ pc \in [Executors -> Labels]
  /\ via \in [Executors -> {"arq", "invoke"}]
  /\ run \in [Executors -> Runs]
  /\ ver \in [Executors -> Nat]
  /\ at \in [Executors -> LoadNode..(NSteps + 1)]
  /\ replay \subseteq Executors
  /\ out \in [Executors -> Outcomes]
SweepTypes ==
  /\ sweep \subseteq Runs
  /\ closing \in [Runs -> Nat \cup {-1}]
  /\ faults \in 0..MaxFaults

TypeOK == /\ RowTypes /\ StepTypes /\ ArqTypes
          /\ ProducerTypes /\ ExecutorTypes /\ SweepTypes

Init ==
  /\ status = [r \in Runs |-> "absent"]
  /\ version = [r \in Runs |-> 0]
  /\ cur = [r \in Runs |-> NoNode]
  /\ step = [r \in Runs |-> [k \in Steps |-> "none"]]
  /\ effects = [r \in Runs |-> [k \in Steps |-> 0]]
  /\ guards = {} /\ jobs = {} /\ inProgress = {} /\ results = {}
  /\ tries = [r \in Runs |-> 0]
  /\ owed = [r \in Runs |-> 0]
  /\ fires = [r \in Runs |-> 0]
  /\ pc = [w \in Executors |-> "idle"]
  /\ via = [w \in Executors |-> "arq"]
  /\ run \in {[w \in Executors |-> r] : r \in Runs}
  /\ ver = [w \in Executors |-> 0]
  /\ at = [w \in Executors |-> NoNode]
  /\ replay = {}
  /\ out = [w \in Executors |-> "clear"]
  /\ sweep = {}
  /\ closing = [r \in Runs |-> -1]
  /\ faults = 0

-----------------------------------------------------------------------------
(* The runs table                                                          *)

(* UPDATE ... WHERE version = v: one row, or none.                         *)
TouchWins(r, v, node, s) ==
  /\ version[r] = v
  /\ version' = [version EXCEPT ![r] = v + 1]
  /\ cur' = [cur EXCEPT ![r] = node]
  /\ status' = [status EXCEPT ![r] = s]

TouchLoses(r, v) == version[r] # v /\ UNCHANGED rowVars

(* INSERT ... ON CONFLICT (flow_id, run_key) DO NOTHING.                   *)
CreateIfAbsent(r) ==
  /\ status' = [status EXCEPT ![r] = IF @ = "absent" THEN "pending" ELSE @]
  /\ UNCHANGED <<version, cur>>

(* enqueue_job with _job_id: refused while the job or its result exists.   *)
Enqueue(r) ==
  /\ jobs' = IF r \in results THEN jobs ELSE jobs \cup {r}
  /\ UNCHANGED <<inProgress, results, tries>>

Fault == faults < MaxFaults /\ faults' = faults + 1
Pause == Pauses /\ Fault

-----------------------------------------------------------------------------
(* Producers                                                               *)

(* A schedule or event fire: a dedup does not enqueue.                     *)
FireTrigger(r) ==
  /\ fires[r] < MaxFires
  /\ CreateIfAbsent(r)
  /\ owed' = [owed EXCEPT ![r] = IF status[r] = "absent" THEN @ + 1 ELSE @]
  /\ fires' = [fires EXCEPT ![r] = @ + 1]
  /\ UNCHANGED <<stepVars, guards, arqVars, exec, sweepVars, faults>>

(* POST /runs with an explicit key: enqueues whether or not it inserted.   *)
CreateRun(r) ==
  /\ fires[r] < MaxFires
  /\ CreateIfAbsent(r)
  /\ owed' = [owed EXCEPT ![r] = @ + 1]
  /\ fires' = [fires EXCEPT ![r] = @ + 1]
  /\ UNCHANGED <<stepVars, guards, arqVars, exec, sweepVars, faults>>

ProducerEnqueues(r) ==
  /\ owed[r] > 0
  /\ owed' = [owed EXCEPT ![r] = @ - 1]
  /\ Enqueue(r)
  /\ UNCHANGED <<rowVars, stepVars, guards, fires, exec, sweepVars, faults>>

(* The process dies, or Redis is unreachable, between row and push.        *)
ProducerDies(r) ==
  /\ owed[r] > 0 /\ Fault
  /\ owed' = [owed EXCEPT ![r] = @ - 1]
  /\ UNCHANGED <<rowVars, stepVars, guards, arqVars, fires, exec, sweepVars>>

-----------------------------------------------------------------------------
(* arq (external): delivery, redelivery after a lost worker, result keys   *)

At(w, label) == pc[w] = label
Become(w, label) == pc' = [pc EXCEPT ![w] = label]
Goto(w, label) == Become(w, label) /\ UNCHANGED <<via, run, ver, at, replay, out>>

(* A coroutine's locals live as long as it does.                           *)
Leave(w, label) ==
  /\ Become(w, label)
  /\ ver' = [ver EXCEPT ![w] = 0] /\ at' = [at EXCEPT ![w] = NoNode]
  /\ replay' = replay \ {w} /\ out' = [out EXCEPT ![w] = "clear"]
  /\ UNCHANGED <<via, run>>

Begin(w, r, v) ==
  /\ At(w, "idle") /\ Become(w, "get")
  /\ run' = [run EXCEPT ![w] = r] /\ via' = [via EXCEPT ![w] = v]
  /\ UNCHANGED <<ver, at, replay, out>>

(* It reads the row: version and node.                                     *)
Adopt(w, label, node) ==
  /\ Become(w, label)
  /\ ver' = [ver EXCEPT ![w] = version[run[w]]] /\ at' = [at EXCEPT ![w] = node]
  /\ UNCHANGED <<via, run, replay, out>>

Deliver(w, r) ==
  /\ r \in jobs \ inProgress /\ tries[r] < MaxTries
  /\ Begin(w, r, "arq")
  /\ inProgress' = inProgress \cup {r}
  /\ tries' = [tries EXCEPT ![r] = @ + 1]
  /\ UNCHANGED <<rowVars, stepVars, guards, jobs, results, prodVars, sweepVars, faults>>

FinishJob(r) ==
  /\ jobs' = jobs \ {r}
  /\ inProgress' = inProgress \ {r}
  /\ results' = results \cup {r}
  /\ tries' = [tries EXCEPT ![r] = 0]

(* The try counter is spent: the job is failed without being run.          *)
GiveUp(r) ==
  /\ r \in jobs \ inProgress /\ tries[r] = MaxTries
  /\ FinishJob(r)
  /\ UNCHANGED <<rowVars, stepVars, guards, prodVars, exec, sweepVars, faults>>

(* The in-progress key outlives job_timeout by ten seconds, so it expires  *)
(* under a live executor only if that executor was paused.                 *)
InProgressExpires(r) ==
  /\ r \in inProgress
  /\ inProgress' = inProgress \ {r}
  /\ IF \E w \in Executors :
          run[w] = r /\ via[w] = "arq" /\ ~At(w, "idle")
     THEN Pause ELSE UNCHANGED faults
  /\ UNCHANGED <<rowVars, stepVars, guards, jobs, results, tries, prodVars, exec, sweepVars>>

ResultExpires(r) ==
  /\ r \in results
  /\ results' = results \ {r}
  /\ UNCHANGED <<rowVars, stepVars, guards, jobs, inProgress, tries, prodVars, exec, sweepVars, faults>>

GuardExpires(r, k) ==
  /\ <<r, k>> \in guards
  /\ guards' = guards \ {<<r, k>>}
  /\ UNCHANGED <<rowVars, stepVars, arqVars, prodVars, exec, sweepVars, faults>>

(* The job ended, with a value or an exception: retry_jobs is off, so a    *)
(* failed or cancelled job is finished like any other.                     *)
JobEnds(w) ==
  /\ At(w, "end") /\ Leave(w, "idle")
  /\ IF via[w] = "arq" THEN FinishJob(run[w]) ELSE UNCHANGED arqVars
  /\ UNCHANGED <<rowVars, stepVars, guards, prodVars, sweepVars, faults>>

(* POST /flows/{id}/invoke: a row of its own, walked inline, never pushed; *)
(* its key is fresh, so no producer repeats it.                            *)
Invoke(w, r) ==
  /\ r \in InvokeRuns /\ status[r] = "absent"
  /\ CreateIfAbsent(r)
  /\ Begin(w, r, "invoke")
  /\ fires' = [fires EXCEPT ![r] = MaxFires]
  /\ UNCHANGED <<stepVars, guards, arqVars, owed, sweepVars, faults>>

-----------------------------------------------------------------------------
(* execute_run                                                             *)

outside == <<arqVars, prodVars, sweepVars>>  \* what no step of a walk writes

(* Mutant of Advance: the walk does not notice the end of the chain.       *)
AdvancePast(w) == at' = [at EXCEPT ![w] = @ + 1] /\ Become(w, "node")

(* The next node of the chain, or its end.                                 *)
Advance(w) == /\ at' = [at EXCEPT ![w] = @ + 1]
              /\ Become(w, IF at[w] = NSteps THEN "finish" ELSE "node")

NodeBody(k) == CASE k \in BudgetSteps -> "gate"
                 [] k \in MoneySteps \ BudgetSteps -> "guard"
                 [] OTHER -> "plain"

(* runs.get: only a COMPLETED run is refused.  The entry is where the row  *)
(* stopped, or the first node.                                             *)
GetRun(w) == LET r == run[w] IN
  /\ At(w, "get")
  /\ IF status[r] = "completed" THEN Leave(w, "end")
     ELSE Adopt(w, "claim", IF cur[r] = NoNode THEN 1 ELSE cur[r])
  /\ UNCHANGED <<rowVars, stepVars, guards, outside, faults>>

(* Mutant of OwnedTouch: the loser reads the new version and goes on.      *)
OwnedTouchRereads(w, node, label) ==
  \/ /\ TouchWins(run[w], ver[w], node, "running")
     /\ ver' = [ver EXCEPT ![w] = @ + 1] /\ Become(w, label)
     /\ UNCHANGED <<via, run, at, replay, out>>
  \/ TouchLoses(run[w], ver[w]) /\ Adopt(w, label, at[w])

(* A touch that must win: it advances to a label, or the run is no longer  *)
(* ours (RunAlreadyClaimed, which the job swallows).                       *)
OwnedTouch(w, node, label) ==
  \/ /\ TouchWins(run[w], ver[w], node, "running")
     /\ ver' = [ver EXCEPT ![w] = @ + 1] /\ Become(w, label)
     /\ UNCHANGED <<via, run, at, replay, out>>
  \/ TouchLoses(run[w], ver[w]) /\ Leave(w, "end")

(* A touch that ends the walk, whether or not it wins.                     *)
LastTouch(w, node, s) ==
  /\ TouchWins(run[w], ver[w], node, s) \/ TouchLoses(run[w], ver[w])
  /\ Leave(w, "end")

Claim(w) ==
  /\ At(w, "claim") /\ OwnedTouch(w, cur[run[w]], "load")
  /\ UNCHANGED <<stepVars, guards, outside, faults>>

(* The IR, the target market and the entry node; any of them missing fails *)
(* the run at the pseudo step "load".                                      *)
Load(w) ==
  /\ At(w, "load")
  /\ \/ at[w] \in Steps /\ Goto(w, "node")
     \/ /\ Become(w, "fail") /\ at' = [at EXCEPT ![w] = LoadNode]
        /\ UNCHANGED <<via, run, ver, replay, out>>
  /\ UNCHANGED <<rowVars, stepVars, guards, outside, faults>>

EnterNode(w) ==
  /\ At(w, "node") /\ OwnedTouch(w, at[w], "claimstep")
  /\ UNCHANGED <<stepVars, guards, outside, faults>>

(* Mutant of ClaimStep: ON CONFLICT DO UPDATE instead of DO NOTHING.       *)
ClaimStepUpserts(w) ==
  /\ At(w, "claimstep")
  /\ step' = [step EXCEPT ![run[w]][at[w]] = "running"]
  /\ replay' = replay \ {w} /\ Become(w, NodeBody(at[w]))
  /\ UNCHANGED <<via, run, ver, at, out, rowVars, effects, guards, outside, faults>>

(* INSERT the RunStep as RUNNING; a conflict asks for the row there is.    *)
ClaimStep(w) ==
  /\ At(w, "claimstep")
  /\ \/ /\ step[run[w]][at[w]] = "none"
        /\ step' = [step EXCEPT ![run[w]][at[w]] = "running"]
        /\ replay' = replay \ {w} /\ Become(w, NodeBody(at[w]))
     \/ /\ step[run[w]][at[w]] # "none" /\ UNCHANGED step
        /\ replay' = replay \cup {w} /\ Become(w, "getstep")
  /\ UNCHANGED <<via, run, ver, at, out, rowVars, effects, guards, outside, faults>>

(* The claim conflicted: a COMPLETED row is replayed, a RUNNING one is     *)
(* re-executed with step_replay set.                                       *)
GetStep(w) ==
  /\ At(w, "getstep")
  /\ IF Done(run[w], at[w]) THEN Advance(w) ELSE Become(w, NodeBody(at[w])) /\ UNCHANGED at
  /\ UNCHANGED <<via, run, ver, replay, out, rowVars, stepVars, guards, outside, faults>>

(* The budget gate asks the ledger before the guard, on a replay too: the  *)
(* lot fits, or it does not, or the ledger cannot be read and the step     *)
(* declines.  What the ledger holds is PurchaseBudget's business.          *)
Gate(w) ==
  /\ At(w, "gate")
  /\ \/ Become(w, "guard") /\ UNCHANGED out
     \/ Become(w, "complete") /\ out' = [out EXCEPT ![w] = "declined"]
  /\ UNCHANGED <<via, run, ver, at, replay, rowVars, stepVars, guards, outside, faults>>

(* Mutants of Guard: step_replay is not looked at; an unknown outcome is   *)
(* reported as "not purchased".                                            *)
GuardForgetsReplay(w) == LET key == <<run[w], at[w]>> IN
  /\ At(w, "guard")
  /\ guards' = guards \cup {key}
  /\ Goto(w, IF key \in guards THEN "fail" ELSE "effect")
  /\ UNCHANGED <<rowVars, stepVars, outside, faults>>

GuardDeduplicates(w) == LET key == <<run[w], at[w]>> IN
  /\ At(w, "guard")
  /\ guards' = guards \cup {key}
  /\ Goto(w, IF key \in guards \/ w \in replay THEN "complete" ELSE "effect")
  /\ UNCHANGED <<rowVars, stepVars, outside, faults>>

(* check_and_set, then "not first or step_replay".                         *)
Guard(w) == LET key == <<run[w], at[w]>> IN
  /\ At(w, "guard")
  /\ guards' = guards \cup {key}
  /\ Goto(w, IF key \in guards \/ w \in replay THEN "fail" ELSE "effect")
  /\ UNCHANGED <<rowVars, stepVars, outside, faults>>

(* The marketplace sells the lot, refuses it (LotUnavailable), or takes    *)
(* the money and the answer is lost (PurchaseOutcomeUnknown).              *)
Purchase(w) ==
  /\ At(w, "effect")
  /\ \/ /\ effects' = [effects EXCEPT ![run[w]][at[w]] = @ + 1]
        /\ \/ Become(w, "complete") /\ out' = [out EXCEPT ![w] = "bought"]
           \/ Become(w, "fail") /\ UNCHANGED out
     \/ Become(w, "complete") /\ UNCHANGED <<effects, out>>
  /\ UNCHANGED <<via, run, ver, at, replay, rowVars, step, guards, outside, faults>>

PlainNode(w) ==
  /\ At(w, "plain") /\ Goto(w, "complete")
  /\ UNCHANGED <<rowVars, stepVars, guards, outside, faults>>

(* Inputs that do not resolve, an API error, a node timeout: one RunFailed.*)
NodeRaises(w) ==
  /\ pc[w] \in Body /\ Goto(w, "fail")
  /\ UNCHANGED <<rowVars, stepVars, guards, outside, faults>>

(* complete_step is an unconditional UPDATE: no version guards it.         *)
CompleteStep(w) ==
  /\ At(w, "complete")
  /\ step' = [step EXCEPT ![run[w]][at[w]] = out[w]]
  /\ out' = [out EXCEPT ![w] = "clear"]
  /\ Advance(w)
  /\ UNCHANGED <<via, run, ver, replay, rowVars, effects, guards, outside, faults>>

Finish(w) ==
  /\ At(w, "finish") /\ LastTouch(w, NoNode, "completed")
  /\ UNCHANGED <<stepVars, guards, outside, faults>>

(* except RunFailed: the touch's answer is not looked at.                  *)
FailRun(w) ==
  /\ At(w, "fail") /\ LastTouch(w, at[w], "failed")
  /\ UNCHANGED <<stepVars, guards, outside, faults>>

(* A database call outside the node boundary raises: no handler of         *)
(* execute_run writes the row, and the job ends with the exception.        *)
CallRaises(w) ==
  /\ pc[w] \in (Active \ Body) \cup {"aread", "atouch"}
  /\ Fault /\ Leave(w, "end")
  /\ UNCHANGED <<rowVars, stepVars, guards, outside>>

(* Job timeout or worker shutdown: CancelledError at whichever await.      *)
Cancel(w) ==
  /\ pc[w] \in Active /\ via[w] = "arq"
  /\ Fault /\ Leave(w, "aread")
  /\ UNCHANGED <<rowVars, stepVars, guards, outside>>

(* _fail_abandoned_run: whatever version the row has now, if RUNNING.      *)
AbandonRead(w) ==
  /\ At(w, "aread")
  /\ IF status[run[w]] = "running" THEN Adopt(w, "atouch", cur[run[w]])
     ELSE Leave(w, "end")
  /\ UNCHANGED <<rowVars, stepVars, guards, outside, faults>>

AbandonTouch(w) ==
  /\ At(w, "atouch") /\ LastTouch(w, at[w], "failed")
  /\ UNCHANGED <<stepVars, guards, outside, faults>>

(* flow_invoke_timeout_s: the coroutine is cancelled, nothing is written.  *)
InvokeTimeout(w) ==
  /\ pc[w] \in Active /\ via[w] = "invoke"
  /\ Fault /\ Leave(w, "idle")
  /\ UNCHANGED <<rowVars, stepVars, guards, outside>>

(* The process dies: arq's keys stay until they expire.                    *)
Crash(w) ==
  /\ ~At(w, "idle") /\ Fault /\ Leave(w, "idle")
  /\ UNCHANGED <<rowVars, stepVars, guards, outside>>

-----------------------------------------------------------------------------
(* The sweeps                                                              *)

ListStalePending ==
  /\ sweep = {}
  /\ sweep' = {r \in Runs : status[r] = "pending"}
  /\ UNCHANGED <<rowVars, stepVars, guards, arqVars, prodVars, exec, closing, faults>>

(* Mutant of SweepEnqueues: the row is skipped without a push.             *)
SweepSkips(r) ==
  /\ r \in sweep
  /\ sweep' = sweep \ {r}
  /\ UNCHANGED <<rowVars, stepVars, guards, arqVars, prodVars, exec, closing, faults>>

SweepEnqueues(r) ==
  /\ r \in sweep
  /\ sweep' = sweep \ {r}
  /\ Enqueue(r)
  /\ UNCHANGED <<rowVars, stepVars, guards, prodVars, exec, closing, faults>>

(* Mutant of ListStaleRunning: misses the runs that never entered a node.  *)
ListStaleEntered(r) ==
  /\ status[r] = "running" /\ closing[r] = -1 /\ cur[r] # NoNode
  /\ closing' = [closing EXCEPT ![r] = version[r]]
  /\ IF \E w \in Executors : Owner(w, r) THEN Pause ELSE UNCHANGED faults
  /\ UNCHANGED <<rowVars, stepVars, guards, arqVars, prodVars, exec, sweep>>

(* RUNNING and untouched for job_timeout + grace.  An owner that is alive  *)
(* and not paused cannot be that silent: arq cancels it at job_timeout.    *)
ListStaleRunning(r) ==
  /\ status[r] = "running" /\ closing[r] = -1
  /\ closing' = [closing EXCEPT ![r] = version[r]]
  /\ IF \E w \in Executors : Owner(w, r) THEN Pause ELSE UNCHANGED faults
  /\ UNCHANGED <<rowVars, stepVars, guards, arqVars, prodVars, exec, sweep>>

(* Mutant of CloseAbandoned: writes over whatever version the row has.     *)
CloseUnconditionally(r) ==
  /\ closing[r] # -1
  /\ TouchWins(r, version[r], cur[r], "failed")
  /\ closing' = [closing EXCEPT ![r] = -1]
  /\ UNCHANGED <<stepVars, guards, arqVars, prodVars, exec, sweep, faults>>

CloseAbandoned(r) ==
  /\ closing[r] # -1
  /\ TouchWins(r, closing[r], cur[r], "failed") \/ TouchLoses(r, closing[r])
  /\ closing' = [closing EXCEPT ![r] = -1]
  /\ UNCHANGED <<stepVars, guards, arqVars, prodVars, exec, sweep, faults>>

-----------------------------------------------------------------------------
Walk(w) == \/ GetRun(w) \/ Claim(w) \/ Load(w) \/ EnterNode(w) \/ ClaimStep(w)
           \/ GetStep(w) \/ Gate(w) \/ Guard(w) \/ Purchase(w)
           \/ PlainNode(w) \/ NodeRaises(w) \/ CompleteStep(w) \/ Finish(w) \/ FailRun(w)
           \/ AbandonRead(w) \/ AbandonTouch(w) \/ JobEnds(w)

Disturb(w) == CallRaises(w) \/ Cancel(w) \/ InvokeTimeout(w) \/ Crash(w)

Produce(r) == FireTrigger(r) \/ CreateRun(r) \/ ProducerEnqueues(r) \/ ProducerDies(r)

Arq(r) == \/ GiveUp(r) \/ InProgressExpires(r) \/ ResultExpires(r)
          \/ \E w \in Executors : Deliver(w, r)

Next == \/ \E r \in Runs : Produce(r) \/ Arq(r)
        \/ \E r \in Runs, k \in Steps : GuardExpires(r, k)
        \/ \E w \in Executors, r \in Runs : Invoke(w, r)
        \/ \E w \in Executors : Walk(w) \/ Disturb(w)
        \/ ListStalePending
        \/ \E r \in Runs : SweepEnqueues(r) \/ ListStaleRunning(r) \/ CloseAbandoned(r)

Spec == Init /\ [][Next]_vars

(* What the code's schedulers give: a started coroutine is run, arq polls  *)
(* its queue and its keys have TTLs, and the two crons fire every five     *)
(* minutes.  Nothing obliges a producer to exist.                          *)
Fairness ==
  /\ \A w \in Executors : WF_vars(Walk(w))
  /\ \A r \in Runs : /\ WF_vars(\E w \in Executors : Deliver(w, r))
                     /\ WF_vars(GiveUp(r)) /\ WF_vars(InProgressExpires(r))
                     /\ WF_vars(ResultExpires(r)) /\ SF_vars(SweepEnqueues(r))
                     /\ WF_vars(ListStaleRunning(r)) /\ WF_vars(CloseAbandoned(r))
  /\ WF_vars(ListStalePending)

FairSpec == Spec /\ Fairness
-----------------------------------------------------------------------------
(* Safety                                                                  *)

(* A lot is bought at most once per step of a run, over every crash,       *)
(* redelivery, lost guard key and paused executor (fast_buy.execute,       *)
(* "buying twice costs the lot's price").                                  *)
AtMostOnePurchase == \A r \in Runs, k \in Steps : effects[r][k] <= 1

(* What a committed RunStep reports is what the marketplace did: never     *)
(* "bought" over no money, never "not bought" over money that left.  The   *)
(* one report that vouches for nothing is the budget gate's refusal, which *)
(* a replay may commit without knowing what the first attempt did.         *)
TruthfulSteps == \A r \in Runs, k \in Steps :
  /\ step[r][k] = "bought" => effects[r][k] = 1
  /\ step[r][k] = "clear" => effects[r][k] = 0
  /\ step[r][k] = "declined" => k \in BudgetSteps

(* Two executors are never both entitled to advance one run: the version   *)
(* of claim and touch is a fencing token (runtime.py, F-1).                *)
OneOwner == \A r \in Runs, w1, w2 \in Executors :
  Owner(w1, r) /\ Owner(w2, r) => w1 = w2

(* COMPLETED is written only over a chain whose every step is committed,   *)
(* whichever executor, resumed from wherever, reaches the end.             *)
CompletedMeansCommitted == \A r \in Runs :
  status[r] = "completed" => \A k \in Steps : Done(r, k)

(* A completed run is never claimed, failed or closed again: every late    *)
(* writer loses on the version it read.  Nor does it spend, but at a step  *)
(* that a replay declined for its budget while the first attempt at it was *)
(* still to pay.                                                           *)
CompletedIsFinal == [][\A r \in Runs : status[r] = "completed" =>
  /\ UNCHANGED <<status[r], version[r], cur[r]>>
  /\ \A k \in Steps : step[r][k] = "declined" \/ UNCHANGED effects[r][k]]_vars

(* The abandoned-run sweep closes no run that came back to life between    *)
(* its SELECT and its write (firing.py, close_abandoned_running_runs).     *)
SweepSparesTheLiving == [][\A r \in Runs :
  (closing[r] # -1 /\ closing'[r] = -1 /\ status'[r] # status[r]) =>
     \A w \in Executors : ~Owner(w, r)]_vars

(* RunLifecycle implements the abstract promise.                           *)
Committed == [r \in Runs |-> {k \in Steps : Done(r, k)}]
Declined == [r \in Runs |-> {k \in Steps : step[r][k] = "declined"}]
Promise == INSTANCE RunPromise WITH committed <- Committed, declined <- Declined
PromiseSpec == Promise!Spec

(* Liveness                                                                *)

(* A run whose push was lost is picked up all the same: the pending sweep, *)
(* once the result key is gone, is enough.                                 *)
PendingIsPickedUp == \A r \in Runs : status[r] = "pending" ~> status[r] # "pending"

(* A run whose executor vanished does not stay RUNNING for ever.           *)
RunningSettles == \A r \in Runs :
  status[r] = "running" ~> status[r] \in {"completed", "failed"}
=============================================================================
