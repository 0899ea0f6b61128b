------------------------- MODULE RunLifecycleProofs -------------------------
(***************************************************************************)
(* Proofs about RunLifecycle, for any number of runs, executors, steps,    *)
(* tries, producer calls and faults.  Four inductive invariants, each      *)
(* resting on the ones before it:                                          *)
(*   Typed      types, and where in the chain each label can stand;        *)
(*   Accounted  who may be between a step's claim and its commit, and what *)
(*              the marketplace has taken by then;                         *)
(*   Fenced     what a stale version can no longer do to the row;          *)
(*   Ordered    the steps before a walk's position are committed.          *)
(***************************************************************************)
EXTENDS RunLifecycle, TLAPS

-----------------------------------------------------------------------------
(* The inductive invariants                                                *)

Inside == {"node", "claimstep", "getstep", "gate", "guard", "effect", "plain", "complete"}

InPlace == \A w \in Executors :
  /\ pc[w] \in Inside => at[w] \in Steps
  /\ pc[w] = "finish" => at[w] = NSteps + 1
  /\ pc[w] # "finish" => at[w] <= NSteps
  /\ pc[w] = "idle" => at[w] = NoNode

Typed == TypeOK /\ InPlace

(* The executor holds the claim of a step that buys and has not committed  *)
(* it: its own INSERT created the row.                                     *)
Attempt(w) == /\ pc[w] \in {"gate", "guard", "effect", "complete"}
              /\ at[w] \in MoneySteps /\ w \notin replay

BodyFits == \A w \in Executors :
  /\ pc[w] = "gate" => at[w] \in BudgetSteps
  /\ pc[w] \in {"guard", "effect"} => at[w] \in MoneySteps
  /\ pc[w] = "plain" => at[w] \notin MoneySteps
  /\ pc[w] = "getstep" => w \in replay
  /\ pc[w] = "effect" => w \notin replay
  /\ pc[w] = "complete" /\ at[w] \in MoneySteps => w \notin replay \/ out[w] = "declined"
  /\ out[w] = "bought" => pc[w] = "complete" /\ at[w] \in MoneySteps
  /\ out[w] = "declined" => pc[w] = "complete" /\ at[w] \in BudgetSteps

AttemptsAlone == \A w1, w2 \in Executors :
  Attempt(w1) /\ Attempt(w2) /\ run[w1] = run[w2] /\ at[w1] = at[w2] => w1 = w2

AttemptsCount == \A w \in Executors : Attempt(w) =>
  /\ step[run[w]][at[w]] \in {"running", "declined"}
  /\ effects[run[w]][at[w]] = IF out[w] = "bought" THEN 1 ELSE 0

EffectsCount == \A r \in Runs, k \in Steps :
  /\ effects[r][k] <= 1
  /\ k \notin MoneySteps => effects[r][k] = 0
  /\ step[r][k] \in {"none", "clear"} => effects[r][k] = 0
  /\ step[r][k] = "bought" => effects[r][k] = 1
  /\ step[r][k] = "declined" => k \in BudgetSteps

Accounted == BodyFits /\ AttemptsAlone /\ AttemptsCount /\ EffectsCount

RowFits == \A r \in Runs :
  /\ status[r] \in {"absent", "pending"} <=> version[r] = 0
  /\ closing[r] <= version[r]
  /\ closing[r] = version[r] => status[r] = "running"
  /\ owed[r] > 0 \/ r \in jobs \/ r \in sweep => status[r] # "absent"

HolderFits == \A w \in Executors :
  /\ ver[w] <= version[run[w]]
  /\ pc[w] = "idle" => ver[w] = 0
  /\ pc[w] # "idle" => status[run[w]] # "absent"
  /\ pc[w] \in Walking => ver[w] > 0
  /\ ver[w] = version[run[w]] =>
       /\ pc[w] \in Walking \cup {"atouch"} => status[run[w]] = "running"
       /\ pc[w] = "claim" => status[run[w]] # "completed"

Fenced == RowFits /\ HolderFits /\ OneOwner

BehindIsDone == /\ \A w \in Executors, k \in Steps :
                     k < at[w] => Done(run[w], k)
                /\ \A r \in Runs, k \in Steps : k < cur[r] => Done(r, k)

Ordered == BehindIsDone /\ CompletedMeansCommitted

-----------------------------------------------------------------------------
USE LifecycleAssumption DEF Steps, NoNode, LoadNode, Body, Outcomes,
      rowVars, stepVars, arqVars, prodVars, sweepVars, exec, outside

LEMMA LabelFacts ==
  /\ "idle" \in Labels /\ "aread" \in Labels /\ "atouch" \in Labels /\ "end" \in Labels
  /\ Active \subseteq Labels /\ Walking \subseteq Labels /\ Inside \subseteq Labels
  /\ "get" \in Labels /\ "claim" \in Labels /\ "load" \in Labels
  /\ "finish" \in Labels /\ "fail" \in Labels
BY DEF Labels, Active, Walking, Inside

LEMMA TypedInit == Init => Typed
<1> SUFFICES ASSUME Init PROVE Typed
  OBVIOUS
<1>1. TypeOK
  BY LabelFacts DEF Init, TypeOK, RowTypes, StepTypes, ArqTypes, ProducerTypes, ExecutorTypes, SweepTypes, StepRows
<1>2. InPlace
  BY DEF Init, InPlace, Inside
<1> QED BY <1>1, <1>2 DEF Typed

(* The columns of an executor's type that its own steps write.             *)
LEMMA LeaveTyped ==
  ASSUME Typed, NEW w \in Executors, NEW l \in Labels \ (Inside \cup {"finish"}), Leave(w, l)
  PROVE  /\ pc' \in [Executors -> Labels] /\ ver' \in [Executors -> Nat]
         /\ at' \in [Executors -> LoadNode..(NSteps + 1)]
         /\ replay' \subseteq Executors /\ out' \in [Executors -> Outcomes]
         /\ via' = via /\ run' = run /\ InPlace'
<1>1. pc' \in [Executors -> Labels] /\ at' \in [Executors -> LoadNode..(NSteps + 1)]
  BY DEF Leave, Become, Typed, TypeOK, ExecutorTypes
<1>2. InPlace'
  BY DEF Leave, Become, Typed, TypeOK, ExecutorTypes, InPlace, Inside
<1> QED BY <1>1, <1>2 DEF Leave, Become, Typed, TypeOK, ExecutorTypes

LEMMA GotoTyped ==
  ASSUME Typed, NEW w \in Executors, NEW l \in Labels, Goto(w, l),
         l \in Inside => at[w] \in Steps, at[w] <= NSteps, l \notin {"finish", "idle"}
  PROVE  /\ pc' \in [Executors -> Labels] /\ UNCHANGED <<via, run, ver, at, replay, out>>
         /\ InPlace'
BY DEF Goto, Become, Typed, TypeOK, ExecutorTypes, InPlace, Inside


LEMMA StutterTyped == ASSUME TypeOK PROVE
  /\ UNCHANGED rowVars => RowTypes'
  /\ UNCHANGED <<stepVars, guards>> => StepTypes'
  /\ UNCHANGED arqVars => ArqTypes'
  /\ UNCHANGED prodVars => ProducerTypes'
  /\ UNCHANGED <<sweepVars, faults>> => SweepTypes'
  /\ UNCHANGED exec => ExecutorTypes'
<1> USE DEF TypeOK
<1>1. UNCHANGED rowVars => RowTypes' BY DEF RowTypes
<1>2. UNCHANGED <<stepVars, guards>> => StepTypes' BY DEF StepTypes
<1>3. UNCHANGED arqVars => ArqTypes' BY DEF ArqTypes
<1>4. UNCHANGED prodVars => ProducerTypes' BY DEF ProducerTypes
<1>5. UNCHANGED <<sweepVars, faults>> => SweepTypes' BY DEF SweepTypes
<1>6. UNCHANGED exec => ExecutorTypes' BY DEF ExecutorTypes
<1> QED BY <1>1, <1>2, <1>3, <1>4, <1>5, <1>6

LEMMA TouchTyped ==
  ASSUME TypeOK, NEW r \in Runs, NEW v \in Nat, NEW n \in LoadNode..NSteps,
         NEW s \in {"running", "completed", "failed"},
         TouchWins(r, v, n, s) \/ TouchLoses(r, v)
  PROVE  RowTypes'
BY DEF TypeOK, RowTypes, TouchWins, TouchLoses

(* One lemma per group of actions.                                         *)
LEMMA ProduceTyped == ASSUME Typed, NEW r \in Runs, Produce(r) PROVE Typed'
<1> USE DEF Typed, Produce, FireTrigger, CreateRun, ProducerEnqueues, ProducerDies
<1>1. RowTypes' BY StutterTyped DEF TypeOK, RowTypes, CreateIfAbsent
<1>2. StepTypes' /\ ExecutorTypes' /\ InPlace' BY StutterTyped DEF InPlace
<1>3. ArqTypes' BY StutterTyped DEF TypeOK, ArqTypes, Enqueue
<1>4. ProducerTypes' BY DEF TypeOK, ProducerTypes
<1>5. SweepTypes' BY StutterTyped DEF TypeOK, SweepTypes, Fault
<1> QED BY <1>1, <1>2, <1>3, <1>4, <1>5 DEF TypeOK

LEMMA ExpiryTyped ==
  ASSUME Typed, NEW r \in Runs,
         \/ GiveUp(r) \/ InProgressExpires(r) \/ ResultExpires(r)
         \/ \E k \in Steps : GuardExpires(r, k)
  PROVE  Typed'
<1> USE DEF Typed
<1>1. CASE GiveUp(r) BY <1>1, StutterTyped DEF GiveUp, FinishJob, TypeOK, ArqTypes, InPlace
<1>2. CASE InProgressExpires(r)
  <2>1. ArqTypes' BY <1>2 DEF InProgressExpires, TypeOK, ArqTypes
  <2>2. faults' \in 0..MaxFaults
    BY <1>2 DEF InProgressExpires, Pause, Fault, TypeOK, SweepTypes
  <2>3. SweepTypes' BY <1>2, <2>2 DEF InProgressExpires, TypeOK, SweepTypes
  <2> QED BY <1>2, <2>1, <2>3, StutterTyped DEF InProgressExpires, TypeOK, InPlace
<1>3. CASE ResultExpires(r) BY <1>3, StutterTyped DEF ResultExpires, TypeOK, ArqTypes, InPlace
<1>4. CASE \E k \in Steps : GuardExpires(r, k)
  BY <1>4, StutterTyped DEF GuardExpires, TypeOK, StepTypes, InPlace
<1> QED BY <1>1, <1>2, <1>3, <1>4

LEMMA BeginTyped ==
  ASSUME Typed, NEW w \in Executors, NEW r \in Runs, Deliver(w, r) \/ Invoke(w, r)
  PROVE  Typed'
<1> USE DEF Typed, Deliver, Invoke
<1>1. RowTypes' BY StutterTyped DEF TypeOK, RowTypes, CreateIfAbsent
<1>2. StepTypes' /\ SweepTypes' BY StutterTyped
<1>3. ProducerTypes' BY StutterTyped, LifecycleAssumption DEF TypeOK, ProducerTypes
<1>4. ArqTypes' BY StutterTyped DEF TypeOK, ArqTypes
<1>5. ExecutorTypes' /\ InPlace'
  BY LabelFacts DEF TypeOK, ExecutorTypes, InPlace, Begin, At, Become, Inside
<1> QED BY <1>1, <1>2, <1>3, <1>4, <1>5 DEF TypeOK

LEMMA SweepTyped ==
  ASSUME Typed,
         \/ ListStalePending
         \/ \E r \in Runs : SweepEnqueues(r) \/ ListStaleRunning(r) \/ CloseAbandoned(r)
  PROVE  Typed'
<1> USE DEF Typed, ListStalePending, SweepEnqueues, ListStaleRunning, CloseAbandoned
<1>1. RowTypes' BY StutterTyped DEF TypeOK, RowTypes, TouchWins, TouchLoses
<1>2. StepTypes' /\ ProducerTypes' /\ ExecutorTypes' /\ InPlace' BY StutterTyped DEF InPlace
<1>3. ArqTypes' BY StutterTyped DEF TypeOK, ArqTypes, Enqueue
<1>4. SweepTypes' BY StutterTyped DEF TypeOK, SweepTypes, RowTypes, Fault, Pause
<1> QED BY <1>1, <1>2, <1>3, <1>4 DEF TypeOK

LEMMA DisturbTyped == ASSUME Typed, NEW w \in Executors, Disturb(w) \/ JobEnds(w) PROVE Typed'
<1> USE DEF Typed, Disturb, CallRaises, Cancel, InvokeTimeout, Crash, JobEnds
<1>1. RowTypes' /\ StepTypes' /\ ProducerTypes' BY StutterTyped
<1>2. ArqTypes' BY StutterTyped DEF TypeOK, ArqTypes, FinishJob, ExecutorTypes
<1>3. SweepTypes' BY StutterTyped DEF TypeOK, SweepTypes, Fault
<1>4. PICK l \in {"end", "aread", "idle"} : Leave(w, l) OBVIOUS
<1>5. ExecutorTypes' /\ InPlace'
  BY <1>4, LeaveTyped, LabelFacts DEF ExecutorTypes, TypeOK, Inside
<1> QED BY <1>1, <1>2, <1>3, <1>5 DEF TypeOK

(* The steps of a walk: what they leave alone, then what they write.       *)
WalkAlone(w) == Walk(w) /\ ~JobEnds(w)

LEMMA WalkTyped == ASSUME Typed, NEW w \in Executors, WalkAlone(w) PROVE Typed'
<1> USE DEF Typed
<1> DEFINE E == ExecutorTypes' /\ InPlace'
<1>1. ArqTypes' /\ ProducerTypes'
  BY StutterTyped DEF WalkAlone, Walk, GetRun, Claim, Load, EnterNode, ClaimStep, GetStep, Gate, Guard, Purchase,
     PlainNode, NodeRaises, CompleteStep, Finish, FailRun, AbandonRead, AbandonTouch
<1>2. SweepTypes'
  BY StutterTyped DEF WalkAlone, Walk, GetRun, Claim, Load, EnterNode, ClaimStep, GetStep, Gate, Guard, Purchase,
     PlainNode, NodeRaises, CompleteStep, Finish, FailRun, AbandonRead, AbandonTouch
<1>3. CASE GetRun(w)
  <2>1. E BY <1>3, LabelFacts DEF GetRun, Adopt, Leave, Become, TypeOK, ExecutorTypes, RowTypes, InPlace, Inside, At
  <2> QED BY <1>1, <1>2, <1>3, <2>1, StutterTyped DEF GetRun, TypeOK
<1>4. CASE Claim(w)
  <2>1. E BY <1>4, LabelFacts DEF Claim, OwnedTouch, Leave, Become, TypeOK, ExecutorTypes, InPlace, Inside, At
  <2>2. RowTypes' BY <1>4, TouchTyped DEF Claim, OwnedTouch, TypeOK, RowTypes, ExecutorTypes
  <2> QED BY <1>1, <1>2, <1>4, <2>1, <2>2, StutterTyped DEF Claim, TypeOK
<1>5. CASE Load(w)
  <2>1. E BY <1>5, LabelFacts DEF Load, Goto, Become, TypeOK, ExecutorTypes, InPlace, Inside, At
  <2> QED BY <1>1, <1>2, <1>5, <2>1, StutterTyped DEF Load, TypeOK
<1>6. CASE EnterNode(w)
  <2>1. E BY <1>6, LabelFacts DEF EnterNode, OwnedTouch, Leave, Become, TypeOK, ExecutorTypes, InPlace, Inside, At
  <2>2. RowTypes' BY <1>6, TouchTyped DEF EnterNode, OwnedTouch, TypeOK, ExecutorTypes, InPlace, Inside, At
  <2> QED BY <1>1, <1>2, <1>6, <2>1, <2>2, StutterTyped DEF EnterNode, TypeOK
<1>7. CASE ClaimStep(w)
  <2>1. E BY <1>7, LabelFacts DEF ClaimStep, NodeBody, Become, TypeOK, ExecutorTypes, InPlace, Inside, At
  <2>0. run[w] \in Runs /\ at[w] \in Steps
    BY <1>7 DEF ClaimStep, TypeOK, ExecutorTypes, InPlace, Inside, At
  <2>3. UNCHANGED <<effects, guards>> BY <1>7 DEF ClaimStep
  <2>4. step' = step \/ step' = [step EXCEPT ![run[w]][at[w]] = "running"]
    BY <1>7 DEF ClaimStep
  <2>5. step' \in [Runs -> [Steps -> StepRows]]
    <3>1. CASE step' = step BY <3>1 DEF TypeOK, StepTypes
    <3>2. CASE step' = [step EXCEPT ![run[w]][at[w]] = "running"]
      BY <2>0, <3>2 DEF TypeOK, StepTypes, StepRows
    <3> QED BY <2>4, <3>1, <3>2
  <2>2. StepTypes' BY <2>3, <2>5 DEF TypeOK, StepTypes, StepRows
  <2> QED BY <1>1, <1>2, <1>7, <2>1, <2>2, StutterTyped DEF ClaimStep, TypeOK
<1>8. CASE GetStep(w)
  <2>1. E BY <1>8, LabelFacts DEF GetStep, NodeBody, Advance, Become, TypeOK, ExecutorTypes, InPlace, Inside, At
  <2> QED BY <1>1, <1>2, <1>8, <2>1, StutterTyped DEF GetStep, TypeOK
<1>14a. CASE Gate(w)
  <2>1. E BY <1>14a, LabelFacts DEF Gate, Become, TypeOK, ExecutorTypes, InPlace, Inside, At
  <2> QED BY <1>1, <1>2, <1>14a, <2>1, StutterTyped DEF Gate, TypeOK
<1>9. CASE Guard(w)
  <2>1. E BY <1>9, LabelFacts DEF Guard, Goto, Become, TypeOK, ExecutorTypes, InPlace, Inside, At
  <2>2. StepTypes' BY <1>9 DEF Guard, TypeOK, StepTypes, ExecutorTypes, InPlace, Inside, At
  <2> QED BY <1>1, <1>2, <1>9, <2>1, <2>2, StutterTyped DEF Guard, TypeOK
<1>10. CASE Purchase(w)
  <2>1. E BY <1>10, LabelFacts DEF Purchase, Become, TypeOK, ExecutorTypes, InPlace, Inside, At
  <2>0. run[w] \in Runs /\ at[w] \in Steps
    BY <1>10 DEF Purchase, TypeOK, ExecutorTypes, InPlace, Inside, At
  <2>3. UNCHANGED <<step, guards>> BY <1>10 DEF Purchase
  <2>4. effects' = effects \/ effects' = [effects EXCEPT ![run[w]][at[w]] = @ + 1]
    BY <1>10 DEF Purchase
  <2>5. effects' \in [Runs -> [Steps -> Nat]]
    <3>1. CASE effects' = effects BY <3>1 DEF TypeOK, StepTypes
    <3>2. CASE effects' = [effects EXCEPT ![run[w]][at[w]] = @ + 1]
      BY <2>0, <3>2 DEF TypeOK, StepTypes
    <3> QED BY <2>4, <3>1, <3>2
  <2>2. StepTypes' BY <2>3, <2>5 DEF TypeOK, StepTypes, StepRows
  <2> QED BY <1>1, <1>2, <1>10, <2>1, <2>2, StutterTyped DEF Purchase, TypeOK
<1>11. CASE PlainNode(w) \/ NodeRaises(w)
  <2>1. E BY <1>11, LabelFacts DEF PlainNode, NodeRaises, Goto, Become, TypeOK, ExecutorTypes, InPlace, Inside, At
  <2> QED BY <1>1, <1>2, <1>11, <2>1, StutterTyped DEF PlainNode, NodeRaises, TypeOK
<1>12. CASE CompleteStep(w)
  <2>1. E BY <1>12, LabelFacts DEF CompleteStep, Advance, Become, TypeOK, ExecutorTypes, InPlace, Inside, At
  <2>2. StepTypes' BY <1>12 DEF CompleteStep, TypeOK, StepTypes, StepRows, ExecutorTypes, InPlace, Inside, At
  <2> QED BY <1>1, <1>2, <1>12, <2>1, <2>2, StutterTyped DEF CompleteStep, TypeOK
<1>13. CASE Finish(w) \/ FailRun(w) \/ AbandonTouch(w)
  <2>1. E BY <1>13, LeaveTyped, LabelFacts DEF Finish, FailRun, AbandonTouch, LastTouch, TypeOK, ExecutorTypes, Inside
  <2>2. RowTypes' BY <1>13, TouchTyped DEF Finish, FailRun, AbandonTouch, LastTouch, TypeOK, ExecutorTypes, InPlace, At
  <2> QED BY <1>1, <1>2, <1>13, <2>1, <2>2, StutterTyped DEF Finish, FailRun, AbandonTouch, TypeOK
<1>14. CASE AbandonRead(w)
  <2>1. E BY <1>14, LabelFacts DEF AbandonRead, Adopt, Leave, Become, TypeOK, ExecutorTypes, RowTypes, InPlace, Inside, At
  <2> QED BY <1>1, <1>2, <1>14, <2>1, StutterTyped DEF AbandonRead, TypeOK
<1> QED BY <1>3, <1>4, <1>5, <1>6, <1>7, <1>8, <1>9, <1>10, <1>11, <1>12, <1>13, <1>14, <1>14a DEF WalkAlone, Walk

LEMMA TypedStep == Typed /\ [Next]_vars => Typed'
<1> SUFFICES ASSUME Typed, [Next]_vars PROVE Typed'
  OBVIOUS
<1>1. CASE UNCHANGED vars BY <1>1, StutterTyped DEF vars, Typed, TypeOK, InPlace
<1>2. CASE Next
  BY <1>2, ProduceTyped, ExpiryTyped, BeginTyped, SweepTyped, DisturbTyped, WalkTyped
  DEF Next, Arq, WalkAlone
<1> QED BY <1>1, <1>2

(* Every reachable state is well typed.                                    *)
THEOREM TypeCorrect == Spec => []TypeOK
<1>1. Typed => TypeOK BY DEF Typed
<1> QED BY TypedInit, TypedStep, <1>1, PTL DEF Spec
-----------------------------------------------------------------------------
(* Money                                                                   *)

OthersStay(w) == \A u \in Executors \ {w} :
  /\ pc'[u] = pc[u] /\ run'[u] = run[u] /\ at'[u] = at[u]
  /\ u \in replay' <=> u \in replay
  /\ out'[u] = out[u]

InBody == {"getstep", "gate", "guard", "effect", "plain", "complete"}

LEMMA AccountedInit == Init => Accounted
BY DEF Init, Accounted, BodyFits, AttemptsAlone, AttemptsCount, EffectsCount, Attempt

(* A step that reaches no node body and leaves the step rows alone.        *)
LEMMA QuietAccounted ==
  ASSUME Typed, Accounted, NEW w \in Executors, UNCHANGED stepVars, OthersStay(w),
         pc'[w] \notin InBody, out'[w] = "clear"
  PROVE  Accounted'
<1> USE DEF Accounted
<1>1. \A u \in Executors : Attempt(u)' => u # w /\ Attempt(u)
  BY DEF Attempt, OthersStay, InBody
<1>2. BodyFits' BY DEF OthersStay, InBody, BodyFits
<1>3. AttemptsAlone' BY <1>1 DEF OthersStay, AttemptsAlone
<1>4. AttemptsCount' BY <1>1 DEF OthersStay, AttemptsCount
<1>5. EffectsCount' BY DEF EffectsCount
<1> QED BY <1>2, <1>3, <1>4, <1>5

LEMMA LeaveAccounted ==
  ASSUME Typed, Accounted, NEW w \in Executors, NEW l, Leave(w, l), l \notin InBody, UNCHANGED stepVars
  PROVE  Accounted'
<1>1. OthersStay(w) /\ pc'[w] \notin InBody /\ out'[w] = "clear"
  BY DEF Leave, Become, OthersStay, Typed, TypeOK, ExecutorTypes
<1> QED BY <1>1, QuietAccounted

LEMMA OutsideAccounted == ASSUME Accounted, UNCHANGED <<exec, stepVars>> PROVE Accounted'
BY DEF Accounted, BodyFits, AttemptsAlone, AttemptsCount, EffectsCount, Attempt

LEMMA EntryAccounted ==
  ASSUME Typed, Accounted, NEW w \in Executors,
         \/ \E r \in Runs : Deliver(w, r) \/ Invoke(w, r)
         \/ GetRun(w) \/ Claim(w) \/ Load(w) \/ EnterNode(w) \/ NodeRaises(w)
         \/ Finish(w) \/ FailRun(w) \/ AbandonRead(w) \/ AbandonTouch(w)
         \/ JobEnds(w) \/ Disturb(w)
  PROVE  Accounted'
<1> USE DEF Typed, TypeOK, ExecutorTypes
<1>0. pc[w] # "complete" => out[w] = "clear" BY DEF Accounted, BodyFits
<1>1. ASSUME NEW r \in Runs, Deliver(w, r) \/ Invoke(w, r) PROVE Accounted'
  <2>1. OthersStay(w) /\ pc'[w] = "get" /\ out'[w] = "clear" /\ UNCHANGED stepVars
    BY <1>0, <1>1 DEF Deliver, Invoke, Begin, At, Become, OthersStay
  <2> QED BY <2>1, QuietAccounted DEF InBody
<1>2. CASE GetRun(w) \/ AbandonRead(w)
  <2>1. /\ OthersStay(w) /\ pc'[w] \in {"claim", "atouch", "end"}
        /\ out'[w] = "clear" /\ UNCHANGED stepVars
    BY <1>0, <1>2 DEF GetRun, AbandonRead, Adopt, Leave, At, Become, OthersStay
  <2> QED BY <2>1, QuietAccounted DEF InBody
<1>3. CASE Claim(w) \/ EnterNode(w)
  <2>1. /\ OthersStay(w) /\ pc'[w] \in {"load", "claimstep", "end"}
        /\ out'[w] = "clear" /\ UNCHANGED stepVars
    BY <1>0, <1>3 DEF Claim, EnterNode, OwnedTouch, Leave, At, Become, OthersStay
  <2> QED BY <2>1, QuietAccounted DEF InBody
<1>4. CASE Load(w) \/ NodeRaises(w)
  <2>1. /\ OthersStay(w) /\ pc'[w] \in {"node", "fail"}
        /\ out'[w] = "clear" /\ UNCHANGED stepVars
    BY <1>0, <1>4 DEF Load, NodeRaises, Goto, At, Become, OthersStay
  <2> QED BY <2>1, QuietAccounted DEF InBody
<1>5. CASE Finish(w) \/ FailRun(w) \/ AbandonTouch(w) \/ JobEnds(w) \/ Disturb(w)
  <2>1. PICK l \in {"end", "idle", "aread"} : Leave(w, l)
    BY <1>5 DEF Finish, FailRun, AbandonTouch, LastTouch, JobEnds, Disturb, CallRaises,
       Cancel, InvokeTimeout, Crash
  <2>2. UNCHANGED stepVars
    BY <1>5 DEF Finish, FailRun, AbandonTouch, JobEnds, Disturb, CallRaises,
       Cancel, InvokeTimeout, Crash
  <2> QED BY <2>1, <2>2, LeaveAccounted DEF InBody
<1> QED BY <1>1, <1>2, <1>3, <1>4, <1>5

(* The INSERT that wins makes its executor the only one with an attempt;   *)
(* the one that loses finds a RUNNING row that only replays may enter.     *)
LEMMA ClaimStepAccounted ==
  ASSUME Typed, Accounted, NEW w \in Executors, ClaimStep(w) PROVE Accounted'
<1> USE DEF Accounted
<1> DEFINE r == run[w]
           k == at[w]
<1>0. r \in Runs /\ k \in Steps /\ pc[w] = "claimstep" /\ out[w] = "clear"
  BY DEF ClaimStep, Typed, TypeOK, ExecutorTypes, InPlace, Inside, At, BodyFits
<1>1. OthersStay(w) /\ UNCHANGED <<run, at, out, effects>>
  BY DEF ClaimStep, Become, OthersStay, Typed, TypeOK, ExecutorTypes
<1>2. CASE step[r][k] = "none"
  <2>1. /\ step' = [step EXCEPT ![r][k] = "running"]
        /\ w \notin replay' /\ pc'[w] = NodeBody(k)
    BY <1>0, <1>2 DEF ClaimStep, Become, Typed, TypeOK, ExecutorTypes
  <2>2. /\ step'[r][k] = "running"
        /\ \A q \in Runs, j \in Steps : q # r \/ j # k => step'[q][j] = step[q][j]
    BY <1>0, <2>1 DEF Typed, TypeOK, StepTypes
  <2>3. \A u \in Executors \ {w} : Attempt(u)' =>
           Attempt(u) /\ (run[u] # r \/ at[u] # k)
    BY <1>1, <1>2 DEF Attempt, OthersStay, AttemptsCount
  <2>4. BodyFits' BY <1>0, <1>1, <2>1 DEF BodyFits, OthersStay, NodeBody
  <2>5. AttemptsAlone' BY <1>1, <2>3 DEF AttemptsAlone, OthersStay
  <2>6. AttemptsCount'
    <3> SUFFICES ASSUME NEW u \in Executors, Attempt(u)'
                 PROVE  (/\ step[run[u]][at[u]] \in {"running", "declined"}
                         /\ effects[run[u]][at[u]] = IF out[u] = "bought" THEN 1 ELSE 0)'
      BY DEF AttemptsCount
    <3>1. CASE u = w
      BY <1>0, <1>1, <1>2, <2>2, <3>1 DEF EffectsCount
    <3>2. CASE u # w
      <4>1. Attempt(u) /\ (run[u] # r \/ at[u] # k) BY <2>3, <3>2
      <4>2. run[u] \in Runs /\ at[u] \in Steps
        BY <4>1 DEF Attempt, Typed, TypeOK, ExecutorTypes
      <4> QED BY <1>1, <2>2, <4>1, <4>2 DEF AttemptsCount
    <3> QED BY <3>1, <3>2
  <2>7. EffectsCount' BY <1>0, <1>1, <2>2 DEF EffectsCount
  <2> QED BY <2>4, <2>5, <2>6, <2>7
<1>3. CASE step[r][k] # "none"
  <2>1. UNCHANGED step /\ w \in replay' /\ pc'[w] = "getstep"
    BY <1>0, <1>3 DEF ClaimStep, Become, Typed, TypeOK, ExecutorTypes
  <2>2. \A u \in Executors : Attempt(u)' => u # w /\ Attempt(u)
    BY <1>1, <2>1 DEF Attempt, OthersStay
  <2>3. BodyFits' BY <1>0, <1>1, <2>1 DEF BodyFits, OthersStay
  <2>4. AttemptsAlone' BY <1>1, <2>2 DEF AttemptsAlone
  <2>5. AttemptsCount' BY <1>1, <2>1, <2>2 DEF AttemptsCount
  <2>6. EffectsCount' BY <1>1, <2>1 DEF EffectsCount
  <2> QED BY <2>3, <2>4, <2>5, <2>6
<1> QED BY <1>2, <1>3

(* A replay leaves a committed step behind or re-enters its body flagged,  *)
(* and the guard lets no flagged executor through to the purchase.         *)
LEMMA BodyAccounted ==
  ASSUME Typed, Accounted, NEW w \in Executors, GetStep(w) \/ Guard(w) \/ PlainNode(w)
  PROVE  Accounted'
<1> USE DEF Accounted
<1>1. UNCHANGED <<run, replay, out, stepVars>> /\ OthersStay(w)
  BY DEF GetStep, Gate, Guard, PlainNode, Goto, Advance, Become, OthersStay, Typed, TypeOK, ExecutorTypes
<1>2. BodyFits'
  BY <1>1 DEF GetStep, Gate, Guard, PlainNode, Goto, Advance, Become, At, NodeBody,
     BodyFits, OthersStay, Typed, TypeOK, ExecutorTypes
<1>3. \A u \in Executors : Attempt(u)' => Attempt(u) /\ at'[u] = at[u]
  BY <1>1 DEF GetStep, Gate, Guard, PlainNode, Goto, Advance, Become, At, NodeBody,
     BodyFits, OthersStay, Attempt, Typed, TypeOK, ExecutorTypes
<1>4. AttemptsAlone' BY <1>1, <1>3 DEF AttemptsAlone
<1>5. AttemptsCount' BY <1>1, <1>3 DEF AttemptsCount
<1>6. EffectsCount' BY <1>1 DEF EffectsCount
<1> QED BY <1>2, <1>4, <1>5, <1>6

(* The gate lets an attempt through or makes it, or a replay, decline.     *)
LEMMA GateAccounted ==
  ASSUME Typed, Accounted, NEW w \in Executors, Gate(w) PROVE Accounted'
<1> USE DEF Accounted
<1>0. /\ pc[w] = "gate" /\ at[w] \in BudgetSteps /\ out[w] = "clear"
      /\ pc'[w] \in {"guard", "complete"}
      /\ out'[w] = IF pc'[w] = "complete" THEN "declined" ELSE "clear"
  BY DEF Gate, At, Become, BodyFits, Typed, TypeOK, ExecutorTypes
<1>1. UNCHANGED <<run, at, replay, stepVars>> /\ OthersStay(w)
  BY DEF Gate, Become, OthersStay, Typed, TypeOK, ExecutorTypes
<1>2. BodyFits' BY <1>0, <1>1 DEF BodyFits, OthersStay
<1>3. \A u \in Executors : Attempt(u)' =>
        Attempt(u) /\ (out'[u] = "bought" <=> out[u] = "bought")
  BY <1>0, <1>1 DEF OthersStay, Attempt
<1>4. AttemptsAlone' BY <1>1, <1>3 DEF AttemptsAlone
<1>5. AttemptsCount' BY <1>1, <1>3 DEF AttemptsCount
<1>6. EffectsCount' BY <1>1 DEF EffectsCount
<1> QED BY <1>2, <1>4, <1>5, <1>6

LEMMA PurchaseAccounted ==
  ASSUME Typed, Accounted, NEW w \in Executors, Purchase(w) PROVE Accounted'
<1> USE DEF Accounted
<1> DEFINE r == run[w]
           k == at[w]
<1>0. /\ r \in Runs /\ k \in Steps /\ pc[w] = "effect" /\ out[w] = "clear"
      /\ Attempt(w) /\ effects[r][k] = 0 /\ step[r][k] \in {"running", "declined"}
  BY DEF Purchase, Typed, TypeOK, ExecutorTypes, InPlace, Inside, At, BodyFits, Attempt, AttemptsCount
<1>1. OthersStay(w) /\ UNCHANGED <<run, at, replay, step>> /\ pc'[w] \in {"complete", "fail"}
  BY DEF Purchase, Become, OthersStay, Typed, TypeOK, ExecutorTypes
<1>2. \A u \in Executors : Attempt(u)' =>
        Attempt(u) /\ (u = w \/ run[u] # r \/ at[u] # k)
  BY <1>0, <1>1 DEF Attempt, OthersStay, AttemptsAlone
<1>3. AttemptsAlone' BY <1>1, <1>2 DEF AttemptsAlone
<1>4. CASE effects' = [effects EXCEPT ![r][k] = @ + 1]
           /\ (\/ pc'[w] = "complete" /\ out'[w] = "bought"
               \/ pc'[w] = "fail" /\ out'[w] = "clear")
  <2>1. /\ effects'[r][k] = 1
        /\ \A q \in Runs, j \in Steps : q # r \/ j # k => effects'[q][j] = effects[q][j]
    BY <1>0, <1>4 DEF Typed, TypeOK, StepTypes
  <2>2. BodyFits' BY <1>0, <1>1, <1>4 DEF BodyFits, OthersStay
  <2>3. AttemptsCount'
    <3> SUFFICES ASSUME NEW u \in Executors, Attempt(u)'
                 PROVE  (/\ step[run[u]][at[u]] \in {"running", "declined"}
                         /\ effects[run[u]][at[u]] = IF out[u] = "bought" THEN 1 ELSE 0)'
      BY DEF AttemptsCount
    <3>1. CASE u = w BY <1>0, <1>1, <1>4, <2>1, <3>1 DEF Attempt
    <3>2. CASE u # w
      <4>1. Attempt(u) /\ (run[u] # r \/ at[u] # k) BY <1>2, <3>2
      <4>2. run[u] \in Runs /\ at[u] \in Steps
        BY <4>1 DEF Attempt, Typed, TypeOK, ExecutorTypes
      <4> QED BY <1>1, <2>1, <3>2, <4>1, <4>2 DEF AttemptsCount, OthersStay
    <3> QED BY <3>1, <3>2
  <2>4. EffectsCount' BY <1>0, <1>1, <2>1 DEF EffectsCount, Attempt
  <2> QED BY <1>3, <2>2, <2>3, <2>4
<1>5. CASE UNCHANGED <<effects, out>> /\ pc'[w] = "complete"
  <2>1. BodyFits' BY <1>0, <1>1, <1>5 DEF BodyFits, OthersStay, Attempt
  <2>2. AttemptsCount' BY <1>1, <1>2, <1>5 DEF AttemptsCount
  <2>3. EffectsCount' BY <1>1, <1>5 DEF EffectsCount
  <2> QED BY <1>3, <2>1, <2>2, <2>3
<1> QED BY <1>0, <1>4, <1>5 DEF Purchase, Become, Typed, TypeOK, ExecutorTypes

(* A commit overwrites the row whoever makes it.  An attempt reports what  *)
(* the marketplace did and ends; a replay can only write a refusal, over   *)
(* which the attempt, if there is one still, goes on.                      *)
LEMMA CompleteAccounted ==
  ASSUME Typed, Accounted, NEW w \in Executors, CompleteStep(w) PROVE Accounted'
<1> USE DEF Accounted
<1> DEFINE r == run[w]
           k == at[w]
<1>0. r \in Runs /\ k \in Steps /\ pc[w] = "complete" /\ out[w] \in Outcomes
  BY DEF CompleteStep, Typed, TypeOK, ExecutorTypes, InPlace, Inside, At
<1>1. OthersStay(w) /\ UNCHANGED <<run, replay, effects>>
      /\ pc'[w] \in {"finish", "node"} /\ out'[w] = "clear"
  BY DEF CompleteStep, Advance, Become, OthersStay, Typed, TypeOK, ExecutorTypes
<1>2. /\ step'[r][k] = out[w]
      /\ \A q \in Runs, j \in Steps : q # r \/ j # k => step'[q][j] = step[q][j]
  BY <1>0 DEF CompleteStep, Typed, TypeOK, StepTypes
<1>3. \A u \in Executors : Attempt(u)' => u # w /\ Attempt(u) /\ at'[u] = at[u]
  BY <1>1 DEF Attempt, OthersStay
<1>4. /\ out[w] = "bought" => effects[r][k] = 1
      /\ out[w] = "clear" => effects[r][k] = 0
      /\ out[w] = "declined" => k \in BudgetSteps
      /\ out[w] # "declined" => \A u \in Executors : Attempt(u)' => run[u] # r \/ at[u] # k
  <2>1. CASE out[w] = "declined" BY <2>1 DEF BodyFits
  <2>2. CASE out[w] # "declined" /\ k \in MoneySteps
    <3>1. Attempt(w) BY <1>0, <2>2 DEF Attempt, BodyFits
    <3> QED BY <1>0, <1>3, <2>2, <3>1 DEF AttemptsAlone, AttemptsCount
  <2>3. CASE out[w] # "declined" /\ k \notin MoneySteps
    <3>1. effects[r][k] = 0 /\ out[w] # "bought" BY <1>0, <2>3 DEF EffectsCount, BodyFits
    <3> QED BY <1>0, <1>3, <2>3, <3>1 DEF Attempt
  <2> QED BY <2>1, <2>2, <2>3
<1>5. BodyFits' BY <1>1 DEF BodyFits, OthersStay
<1>6. AttemptsAlone' BY <1>1, <1>3 DEF AttemptsAlone
<1>7. AttemptsCount'
  <2> SUFFICES ASSUME NEW u \in Executors, Attempt(u)'
               PROVE  (/\ step[run[u]][at[u]] \in {"running", "declined"}
                       /\ effects[run[u]][at[u]] = IF out[u] = "bought" THEN 1 ELSE 0)'
    BY DEF AttemptsCount
  <2>1. u # w /\ Attempt(u) /\ at'[u] = at[u] /\ run'[u] = run[u] /\ out'[u] = out[u]
    BY <1>1, <1>3 DEF OthersStay
  <2>2. run[u] \in Runs /\ at[u] \in Steps BY <2>1 DEF Attempt, Typed, TypeOK, ExecutorTypes
  <2>3. step'[run[u]][at[u]] \in {"running", "declined"}
    <3>1. CASE run[u] = r /\ at[u] = k BY <1>2, <1>4, <3>1
    <3>2. CASE run[u] # r \/ at[u] # k BY <1>2, <2>1, <2>2, <3>2 DEF AttemptsCount
    <3> QED BY <3>1, <3>2
  <2> QED BY <1>1, <2>1, <2>3 DEF AttemptsCount
<1>8. EffectsCount'
  <2> SUFFICES ASSUME NEW q \in Runs, NEW j \in Steps
               PROVE  (/\ effects[q][j] <= 1
                       /\ j \notin MoneySteps => effects[q][j] = 0
                       /\ step[q][j] \in {"none", "clear"} => effects[q][j] = 0
                       /\ step[q][j] = "bought" => effects[q][j] = 1
                       /\ step[q][j] = "declined" => j \in BudgetSteps)'
    BY DEF EffectsCount
  <2>1. CASE q = r /\ j = k BY <1>0, <1>1, <1>2, <1>4, <2>1 DEF EffectsCount
  <2>2. CASE q # r \/ j # k BY <1>1, <1>2, <2>2 DEF EffectsCount
  <2> QED BY <2>1, <2>2
<1> QED BY <1>5, <1>6, <1>7, <1>8

LEMMA AccountedStep == Typed /\ Accounted /\ [Next]_vars => Accounted'
<1> SUFFICES ASSUME Typed, Accounted, [Next]_vars PROVE Accounted'
  OBVIOUS
<1>1. CASE UNCHANGED vars BY <1>1, OutsideAccounted DEF vars
<1>2. ASSUME NEW r \in Runs, Produce(r) PROVE Accounted'
  BY <1>2, OutsideAccounted DEF Produce, FireTrigger, CreateRun, ProducerEnqueues, ProducerDies
<1>3. ASSUME NEW r \in Runs, Arq(r) PROVE Accounted'
  BY <1>3, OutsideAccounted, EntryAccounted DEF Arq, GiveUp, InProgressExpires, ResultExpires
<1>4. ASSUME NEW r \in Runs, NEW k \in Steps, GuardExpires(r, k) PROVE Accounted'
  BY <1>4, OutsideAccounted DEF GuardExpires
<1>5. ASSUME NEW w \in Executors, NEW r \in Runs, Invoke(w, r) PROVE Accounted'
  BY <1>5, EntryAccounted
<1>6. ASSUME NEW w \in Executors, Walk(w) PROVE Accounted'
  BY <1>6, EntryAccounted, ClaimStepAccounted, BodyAccounted, GateAccounted, PurchaseAccounted,
     CompleteAccounted DEF Walk
<1>7. ASSUME NEW w \in Executors, Disturb(w) PROVE Accounted'
  BY <1>7, EntryAccounted
<1>8. CASE ListStalePending BY <1>8, OutsideAccounted DEF ListStalePending
<1>9. ASSUME NEW r \in Runs, SweepEnqueues(r) \/ ListStaleRunning(r) \/ CloseAbandoned(r)
      PROVE Accounted'
  BY <1>9, OutsideAccounted DEF SweepEnqueues, ListStaleRunning, CloseAbandoned
<1> QED BY <1>1, <1>2, <1>3, <1>4, <1>5, <1>6, <1>7, <1>8, <1>9 DEF Next

(* No step of any run pays twice, over every crash, redelivery, expired    *)
(* guard key and paused executor (fast_buy.execute).                       *)
THEOREM PurchaseOnce == Spec => []AtMostOnePurchase
<1>1. Init => Typed /\ Accounted BY TypedInit, AccountedInit
<1>2. Typed /\ Accounted /\ [Next]_vars => (Typed /\ Accounted)'
  BY TypedStep, AccountedStep
<1>3. Accounted => AtMostOnePurchase BY DEF Accounted, EffectsCount, AtMostOnePurchase
<1> QED BY <1>1, <1>2, <1>3, PTL DEF Spec

(* What a committed step reports is what the marketplace did, unless it is *)
(* the refusal of the budget gate.                                         *)
THEOREM StepsTellTheTruth == Spec => []TruthfulSteps
<1>1. Init => Typed /\ Accounted BY TypedInit, AccountedInit
<1>2. Typed /\ Accounted /\ [Next]_vars => (Typed /\ Accounted)'
  BY TypedStep, AccountedStep
<1>3. Accounted => TruthfulSteps BY DEF Accounted, EffectsCount, TruthfulSteps
<1> QED BY <1>1, <1>2, <1>3, PTL DEF Spec
-----------------------------------------------------------------------------
(* The version as a fencing token                                          *)

HoldersStay(w) == \A u \in Executors \ {w} :
  pc'[u] = pc[u] /\ run'[u] = run[u] /\ ver'[u] = ver[u]

(* Its next write to the row, if any, relies on its copy of the version.   *)
Holds(w) == pc[w] \in Walking \cup {"claim", "atouch"}

LEMMA FencedInit == Init => Fenced
BY DEF Init, Fenced, RowFits, HolderFits, OneOwner, Owner, Walking

(* A touch that wins makes every other copy of the version stale.          *)
LEMMA TouchFenced ==
  ASSUME Typed, Fenced, NEW r \in Runs, NEW v \in Nat, NEW n,
         NEW s \in {"running", "completed", "failed"}, TouchWins(r, v, n, s),
         UNCHANGED <<owed, jobs, sweep>>,
         UNCHANGED closing \/ closing' = [closing EXCEPT ![r] = -1]
  PROVE  /\ version'[r] = v + 1 /\ status'[r] = s
         /\ \A q \in Runs \ {r} : version'[q] = version[q] /\ status'[q] = status[q]
         /\ RowFits'
<1>1. /\ version'[r] = v + 1 /\ status'[r] = s /\ version[r] = v
      /\ \A q \in Runs \ {r} : version'[q] = version[q] /\ status'[q] = status[q]
  BY DEF TouchWins, Typed, TypeOK, RowTypes
<1>2. RowFits'
  <2> SUFFICES ASSUME NEW q \in Runs PROVE
        (/\ status[q] \in {"absent", "pending"} <=> version[q] = 0
         /\ closing[q] <= version[q]
         /\ closing[q] = version[q] => status[q] = "running"
         /\ owed[q] > 0 \/ q \in jobs \/ q \in sweep => status[q] # "absent")'
    BY DEF RowFits
  <2>1. closing'[q] = closing[q] \/ (q = r /\ closing'[q] = -1)
    BY DEF Typed, TypeOK, SweepTypes
  <2>2. closing[q] <= version[q] /\ closing[q] \in Nat \cup {-1} /\ version[q] \in Nat
    BY DEF Fenced, RowFits, Typed, TypeOK, SweepTypes, RowTypes
  <2>3. CASE q = r BY <1>1, <2>1, <2>2, <2>3
  <2>4. CASE q # r BY <1>1, <2>1, <2>2, <2>4 DEF Fenced, RowFits
  <2> QED BY <2>3, <2>4
<1> QED BY <1>1, <1>2

(* No executor's step but its own touch of the row.                        *)
LEMMA OwnTouchFenced ==
  ASSUME Typed, Fenced, NEW w \in Executors, NEW n,
         NEW s \in {"running", "completed", "failed"}, TouchWins(run[w], ver[w], n, s),
         UNCHANGED <<owed, jobs, sweep, closing, run>>, HoldersStay(w), pc'[w] # "idle",
         \/ ver'[w] = 0 /\ ~Holds(w)'
         \/ ver'[w] = ver[w] + 1 /\ s = "running" /\ pc'[w] # "claim"
  PROVE  Fenced'
<1> DEFINE r == run[w]
           v == ver[w]
<1>0. r \in Runs /\ v \in Nat /\ v = version[r]
  BY DEF Typed, TypeOK, ExecutorTypes, TouchWins
<1>1. /\ version'[r] = v + 1 /\ status'[r] = s
      /\ \A q \in Runs \ {r} : version'[q] = version[q] /\ status'[q] = status[q]
      /\ RowFits'
  BY <1>0, TouchFenced
<1>2. \A u \in Executors \ {w} : /\ ver'[u] = ver[u] /\ pc'[u] = pc[u] /\ run'[u] = run[u]
                                 /\ ver[u] <= version[run[u]] /\ ver[u] \in Nat
                                 /\ run[u] \in Runs
  BY DEF HoldersStay, Fenced, HolderFits, Typed, TypeOK, ExecutorTypes
<1>3. \A u \in Executors \ {w} : run[u] = r => ver'[u] < version'[r]
  BY <1>0, <1>1, <1>2
<1>4. HolderFits'
  <2> SUFFICES ASSUME NEW u \in Executors PROVE
        (/\ ver[u] <= version[run[u]]
         /\ pc[u] = "idle" => ver[u] = 0
         /\ pc[u] # "idle" => status[run[u]] # "absent"
         /\ pc[u] \in Walking => ver[u] > 0
         /\ ver[u] = version[run[u]] =>
              /\ pc[u] \in Walking \cup {"atouch"} => status[run[u]] = "running"
              /\ pc[u] = "claim" => status[run[u]] # "completed")'
    BY DEF HolderFits
  <2>1. CASE u = w BY <1>0, <1>1, <2>1 DEF Holds
  <2>2. CASE u # w /\ run[u] = r BY <1>0, <1>1, <1>2, <1>3, <2>2 DEF Fenced, HolderFits
  <2>3. CASE u # w /\ run[u] # r BY <1>1, <1>2, <2>3 DEF Fenced, HolderFits
  <2> QED BY <2>1, <2>2, <2>3
<1>5. OneOwner'
  <2> SUFFICES ASSUME NEW q \in Runs, NEW u1 \in Executors, NEW u2 \in Executors,
                      Owner(u1, q)', Owner(u2, q)'
               PROVE  u1 = u2
    BY DEF OneOwner
  <2>1. CASE q = r BY <1>2, <1>3, <2>1 DEF Owner
  <2>2. CASE q # r
    <3>1. u1 # w /\ u2 # w BY <2>2 DEF Owner
    <3>2. Owner(u1, q) /\ Owner(u2, q) BY <1>1, <1>2, <2>2, <3>1 DEF Owner
    <3> QED BY <3>2 DEF Fenced, OneOwner
  <2> QED BY <2>1, <2>2
<1> QED BY <1>1, <1>4, <1>5 DEF Fenced

(* A step of an executor that leaves the rows alone.                       *)
LEMMA StillFenced ==
  ASSUME Typed, Fenced, NEW w \in Executors, UNCHANGED <<rowVars, owed, sweep, closing>>,
         jobs' \subseteq jobs, HoldersStay(w), run'[w] \in Runs,
         pc'[w] # "idle" => status[run'[w]] # "absent",
         \/ ver'[w] = 0 /\ ~Holds(w)'
         \/ /\ ver'[w] = version[run'[w]] /\ pc'[w] = "claim"
            /\ status[run'[w]] # "completed"
         \/ /\ ver'[w] = version[run'[w]] /\ pc'[w] = "atouch"
            /\ status[run'[w]] = "running"
         \/ /\ ver'[w] = ver[w] /\ run'[w] = run[w]
            /\ pc[w] \in Walking /\ pc'[w] \in Walking
  PROVE  Fenced'
<1>0. /\ ver[w] \in Nat /\ run[w] \in Runs /\ "claim" \notin Walking /\ "idle" \notin Walking
      /\ "atouch" \notin Walking /\ \A r \in Runs : version[r] \in Nat
  BY DEF Typed, TypeOK, ExecutorTypes, RowTypes, Walking
<1>1. RowFits' BY DEF Fenced, RowFits
<1>2. HolderFits'
  <2> SUFFICES ASSUME NEW u \in Executors PROVE
        (/\ ver[u] <= version[run[u]]
         /\ pc[u] = "idle" => ver[u] = 0
         /\ pc[u] # "idle" => status[run[u]] # "absent"
         /\ pc[u] \in Walking => ver[u] > 0
         /\ ver[u] = version[run[u]] =>
              /\ pc[u] \in Walking \cup {"atouch"} => status[run[u]] = "running"
              /\ pc[u] = "claim" => status[run[u]] # "completed")'
    BY DEF HolderFits
  <2>1. CASE u # w BY <2>1 DEF HoldersStay, Fenced, HolderFits
  <2>2. CASE u = w BY <1>0, <2>2 DEF Fenced, HolderFits, Holds
  <2> QED BY <2>1, <2>2
<1>3. OneOwner'
  <2>1. \A u \in Executors, r \in Runs : Owner(u, r)' => Owner(u, r)
    BY <1>0 DEF Owner, HoldersStay, Holds
  <2> QED BY <2>1 DEF Fenced, OneOwner
<1> QED BY <1>1, <1>2, <1>3 DEF Fenced

LEMMA OutsideFenced ==
  ASSUME Typed, Fenced,
         \/ \E r \in Runs : \/ Produce(r) \/ GiveUp(r) \/ InProgressExpires(r)
                            \/ ResultExpires(r) \/ SweepEnqueues(r)
                            \/ ListStaleRunning(r) \/ CloseAbandoned(r)
                             \/ \E k \in Steps : GuardExpires(r, k)
         \/ ListStalePending
  PROVE  Fenced'
<1> USE DEF Fenced
<1>1. ASSUME NEW r \in Runs, Produce(r) PROVE Fenced'
  <2> USE DEF Produce, FireTrigger, CreateRun, ProducerEnqueues, ProducerDies, CreateIfAbsent, Enqueue
  <2>1. /\ UNCHANGED <<version, closing, sweep, exec>>
        /\ \A q \in Runs : \/ status'[q] = status[q]
                           \/ status[q] = "absent" /\ status'[q] = "pending"
    BY <1>1 DEF Typed, TypeOK, RowTypes
  <2>2. \A q \in Runs : owed'[q] > 0 \/ q \in jobs' =>
           owed[q] > 0 \/ q \in jobs \/ (q = r /\ status'[q] # "absent")
    BY <1>1 DEF Typed, TypeOK, RowTypes, ProducerTypes
  <2>3. RowFits' BY <2>1, <2>2 DEF RowFits
  <2>4. HolderFits'
    BY <2>1 DEF HolderFits, Typed, TypeOK, ExecutorTypes
  <2>5. OneOwner' BY <2>1 DEF OneOwner, Owner
  <2> QED BY <2>3, <2>4, <2>5
<1>2. CASE \/ \E r \in Runs : \/ GiveUp(r) \/ InProgressExpires(r) \/ ResultExpires(r)
                              \/ SweepEnqueues(r) \/ \E k \in Steps : GuardExpires(r, k)
           \/ ListStalePending
  <2> USE DEF GiveUp, FinishJob, InProgressExpires, ResultExpires, SweepEnqueues, Enqueue,
              ListStalePending, GuardExpires
  <2>1. UNCHANGED <<rowVars, exec, closing, owed>> BY <1>2
  <2>2. \A q \in Runs : q \in jobs' \/ q \in sweep' =>
           q \in jobs \/ q \in sweep \/ status[q] = "pending"
    BY <1>2
  <2>3. RowFits' BY <2>1, <2>2 DEF RowFits
  <2>4. HolderFits' /\ OneOwner' BY <2>1 DEF HolderFits, OneOwner, Owner
  <2> QED BY <2>3, <2>4
<1>3. ASSUME NEW r \in Runs, ListStaleRunning(r) PROVE Fenced'
  <2>1. UNCHANGED <<rowVars, exec, jobs, owed, sweep>> BY <1>3 DEF ListStaleRunning
  <2>2. \A q \in Runs : closing'[q] = IF q = r THEN version[q] ELSE closing[q]
    BY <1>3 DEF ListStaleRunning, Typed, TypeOK, SweepTypes
  <2>3. RowFits' BY <1>3, <2>1, <2>2 DEF ListStaleRunning, RowFits, Typed, TypeOK, RowTypes
  <2>4. HolderFits' /\ OneOwner' BY <2>1 DEF HolderFits, OneOwner, Owner
  <2> QED BY <2>3, <2>4
<1>4. ASSUME NEW r \in Runs, CloseAbandoned(r) PROVE Fenced'
  <2>1. UNCHANGED <<exec, jobs, owed, sweep>> /\ closing' = [closing EXCEPT ![r] = -1]
    BY <1>4 DEF CloseAbandoned
  <2>2. CASE TouchLoses(r, closing[r])
    <3>1. \A q \in Runs : closing'[q] = closing[q] \/ closing'[q] = -1
      BY <2>1 DEF Typed, TypeOK, SweepTypes
    <3>2. RowFits' BY <2>1, <2>2, <3>1 DEF TouchLoses, RowFits, Typed, TypeOK, RowTypes
    <3> QED BY <2>1, <2>2, <3>2 DEF TouchLoses, HolderFits, OneOwner, Owner
  <2>3. CASE TouchWins(r, closing[r], cur[r], "failed")
    <3>0. closing[r] \in Nat /\ version[r] = closing[r]
      BY <1>4, <2>3 DEF CloseAbandoned, TouchWins, Typed, TypeOK, RowTypes
    <3>1. /\ version'[r] = version[r] + 1
          /\ \A q \in Runs \ {r} : version'[q] = version[q] /\ status'[q] = status[q]
          /\ status'[r] = "failed" /\ RowFits'
      BY <2>1, <2>3, <3>0, TouchFenced
    <3>2. \A u \in Executors : run[u] \in Runs /\ ver[u] \in Nat /\ ver[u] <= version[run[u]]
      BY DEF HolderFits, Typed, TypeOK, ExecutorTypes
    <3>3. HolderFits'
      <4> SUFFICES ASSUME NEW u \in Executors PROVE
            (/\ ver[u] <= version[run[u]]
             /\ pc[u] = "idle" => ver[u] = 0
             /\ pc[u] # "idle" => status[run[u]] # "absent"
             /\ pc[u] \in Walking => ver[u] > 0
             /\ ver[u] = version[run[u]] =>
                  /\ pc[u] \in Walking \cup {"atouch"} => status[run[u]] = "running"
                  /\ pc[u] = "claim" => status[run[u]] # "completed")'
        BY DEF HolderFits
      <4>1. CASE run[u] = r BY <2>1, <3>0, <3>1, <3>2, <4>1 DEF HolderFits
      <4>2. CASE run[u] # r BY <2>1, <3>1, <3>2, <4>2 DEF HolderFits
      <4> QED BY <4>1, <4>2
    <3>4. \A u \in Executors, q \in Runs : Owner(u, q)' => Owner(u, q)
      BY <2>1, <3>0, <3>1, <3>2 DEF Owner
    <3> QED BY <3>1, <3>3, <3>4 DEF OneOwner
  <2> QED BY <1>4, <2>2, <2>3 DEF CloseAbandoned
<1> QED BY <1>1, <1>2, <1>3, <1>4

LEMMA LeaveHolds ==
  ASSUME Typed, NEW w \in Executors, NEW l \in {"end", "idle", "aread"}, Leave(w, l)
  PROVE  /\ HoldersStay(w) /\ run' = run /\ pc'[w] = l
         /\ ver'[w] = 0 /\ ~Holds(w)'
BY DEF Leave, Become, HoldersStay, Holds, Walking, Typed, TypeOK, ExecutorTypes

LEMMA BeginFenced ==
  ASSUME Typed, Fenced, NEW w \in Executors, NEW r \in Runs, Deliver(w, r) \/ Invoke(w, r)
  PROVE  Fenced'
<1>1. /\ HoldersStay(w) /\ run'[w] = r /\ pc'[w] = "get" /\ ver'[w] = 0 /\ ~Holds(w)'
      /\ UNCHANGED <<owed, sweep, closing, jobs>>
  BY DEF Deliver, Invoke, Begin, At, Become, HoldersStay, Holds, Walking,
         Fenced, HolderFits, Typed, TypeOK, ExecutorTypes
<1>2. CASE Deliver(w, r)
  <2>1. status[r] # "absent" /\ UNCHANGED rowVars
    BY <1>2 DEF Deliver, Fenced, RowFits
  <2> QED BY <1>1, <2>1, StillFenced
<1>3. CASE Invoke(w, r)
  <2>1. /\ UNCHANGED version /\ status[r] = "absent"
        /\ \A q \in Runs : status'[q] = IF q = r THEN "pending" ELSE status[q]
    BY <1>3 DEF Invoke, CreateIfAbsent, Typed, TypeOK, RowTypes
  <2>2. RowFits' BY <1>1, <2>1 DEF Fenced, RowFits
  <2>3. \A u \in Executors \ {w} : pc'[u] = pc[u] /\ run'[u] = run[u] /\ ver'[u] = ver[u]
    BY <1>1 DEF HoldersStay
  <2>4. \A u \in Executors : run[u] \in Runs /\ ver[u] \in Nat BY DEF Typed, TypeOK, ExecutorTypes
  <2>5. HolderFits'
    <3> SUFFICES ASSUME NEW u \in Executors PROVE
          (/\ ver[u] <= version[run[u]]
           /\ pc[u] = "idle" => ver[u] = 0
           /\ pc[u] # "idle" => status[run[u]] # "absent"
           /\ pc[u] \in Walking => ver[u] > 0
           /\ ver[u] = version[run[u]] =>
                /\ pc[u] \in Walking \cup {"atouch"} => status[run[u]] = "running"
                /\ pc[u] = "claim" => status[run[u]] # "completed")'
      BY DEF HolderFits
    <3>1. CASE u = w BY <1>1, <2>1, <3>1 DEF Holds, Typed, TypeOK, RowTypes
    <3>2. CASE u # w BY <2>1, <2>3, <2>4, <3>2 DEF Fenced, HolderFits
    <3> QED BY <3>1, <3>2
  <2>6. \A u \in Executors, q \in Runs : Owner(u, q)' => Owner(u, q)
    BY <1>1, <2>1, <2>3 DEF Owner, Holds
  <2> QED BY <2>2, <2>5, <2>6 DEF Fenced, OneOwner
<1> QED BY <1>2, <1>3

LEMMA WalkFenced ==
  ASSUME Typed, Fenced, NEW w \in Executors, Walk(w) \/ Disturb(w)
  PROVE  Fenced'
<1> USE DEF At
<1>0. /\ run[w] \in Runs /\ ver[w] \in Nat
      /\ pc[w] # "idle" => status[run[w]] # "absent"
  BY DEF Fenced, HolderFits, Typed, TypeOK, ExecutorTypes
<1>1. CASE JobEnds(w) \/ Disturb(w)
  <2>1. PICK l \in {"end", "idle", "aread"} : Leave(w, l)
    BY <1>1 DEF JobEnds, Disturb, CallRaises, Cancel, InvokeTimeout, Crash
  <2>2. /\ UNCHANGED <<rowVars, owed, sweep, closing>> /\ jobs' \subseteq jobs /\ pc[w] # "idle"
    BY <1>1 DEF JobEnds, FinishJob, Disturb, CallRaises, Cancel, InvokeTimeout, Crash, Active, Walking
  <2> QED BY <1>0, <2>1, <2>2, LeaveHolds, StillFenced
<1>2. CASE Finish(w) \/ FailRun(w) \/ AbandonTouch(w)
  <2>1. Leave(w, "end") /\ UNCHANGED <<owed, jobs, sweep, closing>> /\ pc[w] # "idle"
    BY <1>2 DEF Finish, FailRun, AbandonTouch, LastTouch
  <2>2. CASE TouchLoses(run[w], ver[w])
    BY <1>0, <2>1, <2>2, LeaveHolds, StillFenced DEF TouchLoses
  <2>3. ASSUME NEW n, NEW s \in {"completed", "failed"}, TouchWins(run[w], ver[w], n, s)
        PROVE  Fenced'
    BY <2>1, <2>3, LeaveHolds, OwnTouchFenced
  <2> QED BY <1>2, <2>2, <2>3 DEF Finish, FailRun, AbandonTouch, LastTouch
<1>3. CASE Claim(w) \/ EnterNode(w)
  <2>1. PICK l \in {"load", "claimstep"} : \E n : OwnedTouch(w, n, l)
    BY <1>3 DEF Claim, EnterNode
  <2>2. UNCHANGED <<owed, jobs, sweep, closing>> /\ pc[w] # "idle"
    BY <1>3 DEF Claim, EnterNode
  <2>3. CASE TouchLoses(run[w], ver[w]) /\ Leave(w, "end")
    BY <1>0, <2>2, <2>3, LeaveHolds, StillFenced DEF TouchLoses
  <2>4. ASSUME NEW n, TouchWins(run[w], ver[w], n, "running"),
               ver' = [ver EXCEPT ![w] = @ + 1], Become(w, l), UNCHANGED run
        PROVE  Fenced'
    <3>1. HoldersStay(w) /\ ver'[w] = ver[w] + 1 /\ pc'[w] \in {"load", "claimstep"}
      BY <2>4 DEF Become, HoldersStay, Typed, TypeOK, ExecutorTypes
    <3> QED BY <2>2, <2>4, <3>1, OwnTouchFenced
  <2> QED BY <2>1, <2>3, <2>4 DEF OwnedTouch
<1>4. CASE GetRun(w) \/ AbandonRead(w)
  <2>1. UNCHANGED <<rowVars, owed, jobs, sweep, closing, run>> /\ pc[w] # "idle"
    BY <1>4 DEF GetRun, AbandonRead, Leave, Adopt
  <2>2. CASE Leave(w, "end") BY <1>0, <2>1, <2>2, LeaveHolds, StillFenced
  <2>3. ASSUME NEW n, NEW l \in {"claim", "atouch"}, Adopt(w, l, n),
               IF l = "claim" THEN status[run[w]] # "completed" ELSE status[run[w]] = "running"
        PROVE  Fenced'
    <3>1. HoldersStay(w) /\ ver'[w] = version[run[w]] /\ pc'[w] = l
      BY <2>3 DEF Adopt, Become, HoldersStay, Typed, TypeOK, ExecutorTypes
    <3> QED BY <1>0, <2>1, <2>3, <3>1, StillFenced
  <2> QED BY <1>4, <2>2, <2>3 DEF GetRun, AbandonRead
<1>5. CASE \/ Load(w) \/ ClaimStep(w) \/ GetStep(w) \/ Gate(w) \/ Guard(w) \/ Purchase(w)
           \/ PlainNode(w) \/ NodeRaises(w) \/ CompleteStep(w)
  <2>1. PICK l \in Walking : Become(w, l)
    BY <1>5 DEF Load, ClaimStep, GetStep, Gate, Guard, Purchase, PlainNode, NodeRaises, CompleteStep,
                Goto, Advance, NodeBody, Become, Walking
  <2>2. UNCHANGED <<rowVars, owed, jobs, sweep, closing, run, ver>> /\ pc[w] \in Walking
    BY <1>5 DEF Load, ClaimStep, GetStep, Gate, Guard, Purchase, PlainNode, NodeRaises, CompleteStep,
                Goto, Walking
  <2>3. HoldersStay(w) /\ pc'[w] = l /\ pc[w] # "idle"
    BY <2>1, <2>2 DEF Become, HoldersStay, Typed, TypeOK, ExecutorTypes, Walking
  <2> QED BY <1>0, <2>1, <2>2, <2>3, StillFenced
<1> QED BY <1>1, <1>2, <1>3, <1>4, <1>5 DEF Walk

LEMMA FencedStep == Typed /\ Fenced /\ [Next]_vars => Fenced'
<1> SUFFICES ASSUME Typed, Fenced, [Next]_vars PROVE Fenced'
  OBVIOUS
<1>1. CASE UNCHANGED vars BY <1>1 DEF vars, Fenced, RowFits, HolderFits, OneOwner, Owner
<1>2. CASE Next
  BY <1>2, OutsideFenced, BeginFenced, WalkFenced DEF Next, Arq
<1> QED BY <1>1, <1>2

(* Two executors never both hold the version that lets them advance a run. *)
THEOREM OnlyOneOwner == Spec => []OneOwner
<1>1. Init => Typed /\ Fenced BY TypedInit, FencedInit
<1>2. Typed /\ Fenced /\ [Next]_vars => (Typed /\ Fenced)' BY TypedStep, FencedStep
<1>3. Fenced => OneOwner BY DEF Fenced
<1> QED BY <1>1, <1>2, <1>3, PTL DEF Spec

-----------------------------------------------------------------------------
(* The order of the chain                                                  *)

LEMMA OrderedInit == Init => Ordered
BY DEF Init, Ordered, BehindIsDone, CompletedMeansCommitted

(* Each column moves to where everything behind it is committed, and never *)
(* back to COMPLETED.                                                      *)
LEMMA MovesOrdered ==
  ASSUME Typed, Ordered,
         \A r \in Runs, k \in Steps : Done(r, k) => Done(r, k)',
         \A r \in Runs, k \in Steps : k < cur'[r] =>
            \/ k < cur[r] \/ Done(r, k)'
            \/ \E u \in Executors : run[u] = r /\ k < at[u],
         \A u \in Executors, k \in Steps : k < at'[u] =>
            \/ run'[u] = run[u] /\ k < at[u]
            \/ run'[u] = run[u] /\ Done(run[u], k)'
            \/ k < cur[run'[u]] /\ run'[u] = run[u],
         \A r \in Runs : status'[r] = "completed" =>
            \/ status[r] = "completed"
            \/ \E u \in Executors : run[u] = r /\ at[u] = NSteps + 1
  PROVE  Ordered'
<1>0. \A u \in Executors : run[u] \in Runs BY DEF Typed, TypeOK, ExecutorTypes
<1>1. (\A u \in Executors, k \in Steps : k < at[u] => Done(run[u], k))'
  BY <1>0 DEF Ordered, BehindIsDone
<1>2. (\A r \in Runs, k \in Steps : k < cur[r] => Done(r, k))'
  BY <1>0 DEF Ordered, BehindIsDone
<1>3. CompletedMeansCommitted'
  <2> SUFFICES ASSUME NEW r \in Runs, status'[r] = "completed", NEW k \in Steps PROVE Done(r, k)'
    BY DEF CompletedMeansCommitted
  <2>1. CASE status[r] = "completed" BY <2>1 DEF Ordered, CompletedMeansCommitted
  <2>2. ASSUME NEW u \in Executors, run[u] = r, at[u] = NSteps + 1 PROVE Done(r, k)'
    BY <2>2 DEF Ordered, BehindIsDone
  <2> QED BY <2>1, <2>2
<1> QED BY <1>1, <1>2, <1>3 DEF Ordered, BehindIsDone

LEMMA DoneStays == ASSUME Typed, [Next]_vars PROVE
  \A r \in Runs, k \in Steps : Done(r, k) => Done(r, k)'
<1> SUFFICES ASSUME NEW r \in Runs, NEW k \in Steps, Done(r, k) PROVE Done(r, k)'
  OBVIOUS
<1> USE DEF Done
<1>1. CASE UNCHANGED step BY <1>1
<1>2. ASSUME NEW w \in Executors, ClaimStep(w) PROVE Done(r, k)'
  <2>1. CASE UNCHANGED step BY <2>1
  <2>2. CASE step[run[w]][at[w]] = "none" /\ step' = [step EXCEPT ![run[w]][at[w]] = "running"]
    <3>1. run[w] # r \/ at[w] # k BY <2>2
    <3>2. step'[r][k] = step[r][k] BY <2>2, <3>1 DEF Typed, TypeOK, StepTypes
    <3> QED BY <3>2
  <2> QED BY <1>2, <2>1, <2>2 DEF ClaimStep
<1>3. ASSUME NEW w \in Executors, CompleteStep(w) PROVE Done(r, k)'
  <2>1. step' = [step EXCEPT ![run[w]][at[w]] = out[w]] /\ out[w] \in Outcomes
    BY <1>3 DEF CompleteStep, Typed, TypeOK, ExecutorTypes
  <2>2. step'[r][k] \in {step[r][k], out[w]} BY <2>1 DEF Typed, TypeOK, StepTypes
  <2> QED BY <2>1, <2>2
<1> QED BY <1>1, <1>2, <1>3
  DEF vars, Next, Produce, Arq, FireTrigger, CreateRun, ProducerEnqueues, ProducerDies, GiveUp,
      InProgressExpires, ResultExpires, Deliver, GuardExpires, Invoke, Walk, Disturb, GetRun, Claim,
      Load, EnterNode, GetStep, Gate, Guard, Purchase, PlainNode, NodeRaises, Finish, FailRun, AbandonRead,
      AbandonTouch, JobEnds, CallRaises, Cancel, InvokeTimeout, Crash, ListStalePending, SweepEnqueues,
      ListStaleRunning, CloseAbandoned

(* What a step does to the two columns that say where a run stands.        *)
LEMMA TouchMoves ==
  ASSUME Typed, NEW r \in Runs, NEW v, NEW n, NEW s, TouchWins(r, v, n, s) \/ TouchLoses(r, v)
  PROVE  /\ \A q \in Runs \ {r} : cur'[q] = cur[q] /\ status'[q] = status[q]
         /\ cur'[r] \in {n, cur[r]} /\ status'[r] \in {s, status[r]}
BY DEF TouchWins, TouchLoses, Typed, TypeOK, RowTypes

LEMMA StandStill ==
  ASSUME Typed, Ordered, [Next]_vars, UNCHANGED <<cur, run>>,
         \A r \in Runs : status'[r] = "completed" => status[r] = "completed",
         \A u \in Executors : at'[u] = at[u] \/ at'[u] = NoNode \/ at'[u] = LoadNode
  PROVE  Ordered'
BY DoneStays, MovesOrdered

LEMMA OrderedStep == Typed /\ Ordered /\ [Next]_vars => Ordered'
<1> SUFFICES ASSUME Typed, Ordered, [Next]_vars PROVE Ordered'
  OBVIOUS
<1> USE DoneStays
<1>0. \A u \in Executors : run[u] \in Runs /\ at[u] \in Int BY DEF Typed, TypeOK, ExecutorTypes
<1>1. CASE UNCHANGED vars BY <1>1, StandStill DEF vars
<1>2. ASSUME NEW r \in Runs, Produce(r) PROVE Ordered'
  <2>1. UNCHANGED <<cur, exec>> /\ \A q \in Runs : status'[q] = "completed" => status[q] = "completed"
    BY <1>2 DEF Produce, FireTrigger, CreateRun, ProducerEnqueues, ProducerDies, CreateIfAbsent,
                Typed, TypeOK, RowTypes
  <2> QED BY <2>1, StandStill
<1>3. CASE \/ \E r \in Runs : \/ GiveUp(r) \/ InProgressExpires(r) \/ ResultExpires(r)
                              \/ SweepEnqueues(r) \/ ListStaleRunning(r)
                              \/ \E k \in Steps : GuardExpires(r, k)
           \/ ListStalePending
  <2>1. UNCHANGED <<rowVars, exec>>
    BY <1>3 DEF GiveUp, InProgressExpires, ResultExpires, SweepEnqueues, ListStaleRunning,
                GuardExpires, ListStalePending
  <2> QED BY <2>1, StandStill
<1>4. ASSUME NEW r \in Runs, CloseAbandoned(r) PROVE Ordered'
  <2>1. UNCHANGED <<cur, exec>> /\ \A q \in Runs : status'[q] = "completed" => status[q] = "completed"
    BY <1>4 DEF CloseAbandoned, TouchWins, TouchLoses, Typed, TypeOK, RowTypes
  <2> QED BY <2>1, StandStill
<1>5. ASSUME NEW w \in Executors, NEW r \in Runs, Deliver(w, r) \/ Invoke(w, r) PROVE Ordered'
  <2>1. /\ UNCHANGED <<cur, at>> /\ at[w] = NoNode
        /\ \A u \in Executors \ {w} : run'[u] = run[u]
        /\ \A q \in Runs : status'[q] = "completed" => status[q] = "completed"
    BY <1>5 DEF Deliver, Invoke, CreateIfAbsent, Begin, At, InPlace, Typed, TypeOK, RowTypes, ExecutorTypes
  <2> QED BY <2>1, MovesOrdered
<1>6. ASSUME NEW w \in Executors,
             \/ JobEnds(w) \/ Disturb(w) \/ Load(w) \/ ClaimStep(w) \/ Gate(w) \/ Guard(w)
             \/ Purchase(w) \/ PlainNode(w) \/ NodeRaises(w)
      PROVE  Ordered'
  <2>1. UNCHANGED <<rowVars, run>>
    BY <1>6 DEF JobEnds, Disturb, CallRaises, Cancel, InvokeTimeout, Crash, Leave, Load, ClaimStep,
                Gate, Guard, Purchase, PlainNode, NodeRaises, Goto
  <2>2. at' = at \/ at' = [at EXCEPT ![w] = NoNode] \/ at' = [at EXCEPT ![w] = LoadNode]
    BY <1>6 DEF JobEnds, Disturb, CallRaises, Cancel, InvokeTimeout, Crash, Leave, Load, ClaimStep,
                Gate, Guard, Purchase, PlainNode, NodeRaises, Goto
  <2>3. \A u \in Executors : at'[u] = at[u] \/ at'[u] = NoNode \/ at'[u] = LoadNode
    BY <2>2 DEF Typed, TypeOK, ExecutorTypes
  <2> QED BY <2>1, <2>3, StandStill
<1>7. ASSUME NEW w \in Executors, GetRun(w) \/ AbandonRead(w) PROVE Ordered'
  <2>1. UNCHANGED <<rowVars, run>> BY <1>7 DEF GetRun, AbandonRead, Leave, Adopt
  <2>2. /\ \A u \in Executors \ {w} : at'[u] = at[u]
        /\ at'[w] \in {NoNode, 1, cur[run[w]]}
    BY <1>7 DEF GetRun, AbandonRead, Leave, Adopt, Typed, TypeOK, ExecutorTypes
  <2>3. \A k \in Steps : ~(k < 1) /\ ~(k < NoNode) OBVIOUS
  <2> QED BY <1>0, <2>1, <2>2, <2>3, MovesOrdered
<1>8. ASSUME NEW w \in Executors, Claim(w) \/ EnterNode(w) PROVE Ordered'
  <2>1. /\ UNCHANGED run /\ \A u \in Executors : at'[u] \in {at[u], NoNode}
    BY <1>8 DEF Claim, EnterNode, OwnedTouch, Leave, Typed, TypeOK, ExecutorTypes
  <2>2. /\ \A q \in Runs \ {run[w]} : cur'[q] = cur[q] /\ status'[q] = status[q]
        /\ cur'[run[w]] \in {cur[run[w]], at[w]}
        /\ status'[run[w]] \in {"running", status[run[w]]}
    BY <1>0, <1>8, TouchMoves DEF Claim, EnterNode, OwnedTouch
  <2> QED BY <1>0, <2>1, <2>2, MovesOrdered
<1>9. ASSUME NEW w \in Executors, GetStep(w) \/ CompleteStep(w) PROVE Ordered'
  <2>1. UNCHANGED <<rowVars, run>> BY <1>9 DEF GetStep, CompleteStep
  <2>2. \A u \in Executors \ {w} : at'[u] = at[u]
    BY <1>9 DEF GetStep, CompleteStep, Advance, Typed, TypeOK, ExecutorTypes
  <2>3. at'[w] = at[w] \/ (at'[w] = at[w] + 1 /\ step'[run[w]][at[w]] \in Outcomes)
    <3>1. CASE GetStep(w)
      BY <3>1 DEF GetStep, Advance, Done, Typed, TypeOK, ExecutorTypes
    <3>2. CASE CompleteStep(w)
      <4>1. at[w] \in Steps /\ out[w] \in Outcomes /\ at'[w] = at[w] + 1
            /\ step' = [step EXCEPT ![run[w]][at[w]] = out[w]]
        BY <3>2 DEF CompleteStep, Advance, At, InPlace, Inside, Typed, TypeOK, ExecutorTypes
      <4> QED BY <1>0, <4>1 DEF Done, Typed, TypeOK, StepTypes
    <3> QED BY <1>9, <3>1, <3>2
  <2>4. \A k \in Steps : k < at'[w] => k < at[w] \/ Done(run[w], k)'
    BY <1>0, <2>1, <2>3 DEF Done
  <2> QED BY <1>0, <2>1, <2>2, <2>4, MovesOrdered
<1>10. ASSUME NEW w \in Executors, Finish(w) \/ FailRun(w) \/ AbandonTouch(w) PROVE Ordered'
  <2>1. /\ UNCHANGED run /\ \A u \in Executors : at'[u] \in {at[u], NoNode}
        /\ Finish(w) => at[w] = NSteps + 1
    BY <1>10 DEF Finish, FailRun, AbandonTouch, LastTouch, Leave, At, InPlace, Typed, TypeOK, ExecutorTypes
  <2>2. /\ \A q \in Runs \ {run[w]} : cur'[q] = cur[q] /\ status'[q] = status[q]
        /\ cur'[run[w]] \in {cur[run[w]], at[w], NoNode}
        /\ status'[run[w]] \in {"failed", status[run[w]]} \/ Finish(w)
    BY <1>0, <1>10, TouchMoves DEF Finish, FailRun, AbandonTouch, LastTouch
  <2> QED BY <1>0, <2>1, <2>2, MovesOrdered
<1> QED
  BY <1>1, <1>2, <1>3, <1>4, <1>5, <1>6, <1>7, <1>8, <1>9, <1>10 DEF Next, Arq, Walk

(* COMPLETED is written only over a chain whose every step is committed.   *)
THEOREM CompletedIsWhole == Spec => []CompletedMeansCommitted
<1>1. Init => Typed /\ Ordered BY TypedInit, OrderedInit
<1>2. Typed /\ Ordered /\ [Next]_vars => (Typed /\ Ordered)' BY TypedStep, OrderedStep
<1>3. Ordered => CompletedMeansCommitted BY DEF Ordered
<1> QED BY <1>1, <1>2, <1>3, PTL DEF Spec

-----------------------------------------------------------------------------
(* What the abandoned-run sweep selected has no owner, and gets none but   *)
(* by a touch that makes the selected version stale: true of a run whose   *)
(* owner cannot be silent past every timeout.                              *)
Unwatched == \A r \in Runs : closing[r] = version[r] => \A w \in Executors : ~Owner(w, r)

LEMMA OwnersAreLeft ==
  ASSUME Typed, NEW w \in Executors, HoldersStay(w), NEW r \in Runs, version'[r] = version[r],
         NEW u \in Executors, Owner(u, r)',
         \/ pc'[w] \notin Walking
         \/ pc[w] \in Walking /\ pc'[w] \in Walking /\ run'[w] = run[w] /\ ver'[w] = ver[w]
  PROVE  Owner(u, r)
BY DEF HoldersStay, Owner

LEMMA OwnersStay ==
  ASSUME Typed, [Next]_vars, NEW r \in Runs, version'[r] = version[r],
         NEW u \in Executors, Owner(u, r)'
  PROVE  Owner(u, r)
<1> USE DEF At
<1>1. ASSUME UNCHANGED <<pc, run, ver>> PROVE Owner(u, r)
  BY <1>1 DEF Owner
<1>2. ASSUME NEW w \in Executors, NEW l \in {"end", "idle", "aread"}, Leave(w, l) PROVE Owner(u, r)
  <2>1. HoldersStay(w) /\ pc'[w] \notin Walking BY <1>2, LeaveHolds DEF Walking
  <2> QED BY <2>1, OwnersAreLeft
<1>3. ASSUME NEW w \in Executors, NEW q \in Runs, Deliver(w, q) \/ Invoke(w, q) PROVE Owner(u, r)
  <2>1. HoldersStay(w) /\ pc'[w] \notin Walking
    BY <1>3 DEF Deliver, Invoke, Begin, Become, HoldersStay, Walking, Typed, TypeOK, ExecutorTypes
  <2> QED BY <2>1, OwnersAreLeft
<1>4. ASSUME NEW w \in Executors, Claim(w) \/ EnterNode(w) PROVE Owner(u, r)
  <2>1. PICK l \in {"load", "claimstep"} : \E n : OwnedTouch(w, n, l)
    BY <1>4 DEF Claim, EnterNode
  <2>2. CASE Leave(w, "end") BY <1>2, <2>2
  <2>3. ASSUME NEW n, TouchWins(run[w], ver[w], n, "running"),
               ver' = [ver EXCEPT ![w] = @ + 1], Become(w, l), UNCHANGED run
        PROVE  Owner(u, r)
    <3>1. version'[run[w]] = version[run[w]] + 1 /\ run[w] \in Runs /\ version[run[w]] \in Nat
      BY <2>3 DEF TouchWins, Typed, TypeOK, RowTypes, ExecutorTypes
    <3>2. run[w] # r BY <3>1
    <3>3. u # w BY <2>3, <3>2 DEF Owner
    <3>4. pc'[u] = pc[u] /\ ver'[u] = ver[u]
      BY <2>3, <3>3 DEF Become, Typed, TypeOK, ExecutorTypes
    <3> QED BY <2>3, <3>4 DEF Owner
  <2> QED BY <2>1, <2>2, <2>3 DEF OwnedTouch
<1>5. ASSUME NEW w \in Executors, GetRun(w) \/ AbandonRead(w) PROVE Owner(u, r)
  <2>1. CASE Leave(w, "end") BY <1>2, <2>1
  <2>2. ASSUME NEW n, NEW l \in {"claim", "atouch"}, Adopt(w, l, n) PROVE Owner(u, r)
    <3>1. HoldersStay(w) /\ pc'[w] \notin Walking
      BY <2>2 DEF Adopt, Become, HoldersStay, Walking, Typed, TypeOK, ExecutorTypes
    <3> QED BY <3>1, OwnersAreLeft
  <2> QED BY <1>5, <2>1, <2>2 DEF GetRun, AbandonRead
<1>6. ASSUME NEW w \in Executors,
             \/ Load(w) \/ ClaimStep(w) \/ GetStep(w) \/ Gate(w) \/ Guard(w) \/ Purchase(w)
             \/ PlainNode(w) \/ NodeRaises(w) \/ CompleteStep(w)
      PROVE  Owner(u, r)
  <2>1. PICK l \in Walking : Become(w, l)
    BY <1>6 DEF Load, ClaimStep, GetStep, Gate, Guard, Purchase, PlainNode, NodeRaises, CompleteStep,
                Goto, Advance, NodeBody, Become, Walking
  <2>2. UNCHANGED <<run, ver>> /\ pc[w] \in Walking
    BY <1>6 DEF Load, ClaimStep, GetStep, Gate, Guard, Purchase, PlainNode, NodeRaises, CompleteStep,
                Goto, Walking
  <2>3. HoldersStay(w) /\ pc'[w] = l
    BY <2>1, <2>2 DEF Become, HoldersStay, Typed, TypeOK, ExecutorTypes
  <2> QED BY <2>1, <2>2, <2>3, OwnersAreLeft
<1>7. ASSUME NEW w \in Executors, \/ JobEnds(w) \/ Disturb(w)
                                  \/ Finish(w) \/ FailRun(w) \/ AbandonTouch(w)
      PROVE  Owner(u, r)
  BY <1>2, <1>7 DEF JobEnds, Disturb, CallRaises, Cancel, InvokeTimeout, Crash,
                    Finish, FailRun, AbandonTouch, LastTouch
<1>8. ASSUME \/ \E q \in Runs : \/ Produce(q) \/ GiveUp(q) \/ InProgressExpires(q) \/ ResultExpires(q)
                                \/ SweepEnqueues(q) \/ ListStaleRunning(q) \/ CloseAbandoned(q)
                                \/ \E k \in Steps : GuardExpires(q, k)
             \/ ListStalePending \/ UNCHANGED vars
      PROVE  UNCHANGED <<pc, run, ver>>
  BY <1>8 DEF Produce, FireTrigger, CreateRun, ProducerEnqueues, ProducerDies, GiveUp,
     InProgressExpires, ResultExpires, SweepEnqueues, ListStaleRunning, CloseAbandoned, GuardExpires,
     ListStalePending, vars
<1> QED BY <1>1, <1>3, <1>4, <1>5, <1>6, <1>7, <1>8 DEF Next, Walk, Arq

(* A version only grows, and a selection is of the version there is.       *)
LEMMA VersionsGrow ==
  ASSUME Typed, [Next]_vars, NEW r \in Runs
  PROVE  /\ version'[r] \in {version[r], version[r] + 1}
         /\ closing'[r] \in {closing[r], -1} \/ ListStaleRunning(r)
<1>1. ASSUME NEW q \in Runs, NEW v, NEW n, NEW s, TouchWins(q, v, n, s) \/ TouchLoses(q, v)
      PROVE  version'[r] \in {version[r], version[r] + 1}
  BY <1>1 DEF TouchWins, TouchLoses, Typed, TypeOK, RowTypes
<1>2. ASSUME NEW w \in Executors, Walk(w) \/ Disturb(w)
      PROVE  version'[r] \in {version[r], version[r] + 1} /\ UNCHANGED closing
  <2>1. run[w] \in Runs BY DEF Typed, TypeOK, ExecutorTypes
  <2>2. CASE Claim(w) \/ EnterNode(w) \/ Finish(w) \/ FailRun(w) \/ AbandonTouch(w)
    BY <1>1, <2>1, <2>2 DEF Claim, EnterNode, OwnedTouch, Finish, FailRun, AbandonTouch, LastTouch
  <2>3. CASE ~(Claim(w) \/ EnterNode(w) \/ Finish(w) \/ FailRun(w) \/ AbandonTouch(w))
    <3>1. UNCHANGED <<version, closing>>
      BY <1>2, <2>3 DEF Walk, Disturb, GetRun, Load, ClaimStep, GetStep, Gate, Guard, Purchase, PlainNode,
         NodeRaises, CompleteStep, AbandonRead, JobEnds, CallRaises, Cancel, InvokeTimeout, Crash
    <3> QED BY <3>1
  <2> QED BY <2>2, <2>3
<1>3. ASSUME NEW q \in Runs, CloseAbandoned(q) \/ ListStaleRunning(q)
      PROVE  /\ version'[r] \in {version[r], version[r] + 1}
             /\ closing'[r] \in {closing[r], -1} \/ ListStaleRunning(r)
  BY <1>1, <1>3 DEF CloseAbandoned, ListStaleRunning, Typed, TypeOK, SweepTypes
<1>4. ASSUME \/ \E q \in Runs : \/ Produce(q) \/ Arq(q) \/ SweepEnqueues(q)
                                \/ \E k \in Steps : GuardExpires(q, k)
                                \/ \E w \in Executors : Invoke(w, q)
             \/ ListStalePending \/ UNCHANGED vars
      PROVE  UNCHANGED <<version, closing>>
  BY <1>4 DEF Produce, FireTrigger, CreateRun, ProducerEnqueues, ProducerDies, Arq, GiveUp, Deliver,
     InProgressExpires, ResultExpires, SweepEnqueues, GuardExpires, Invoke, CreateIfAbsent,
     ListStalePending, vars
<1> QED BY <1>2, <1>3, <1>4 DEF Next

LEMMA WhoClosesRuns ==
  ASSUME Typed, [Next]_vars, NEW r \in Runs, closing[r] # -1, closing'[r] = -1
  PROVE  \E q \in Runs : CloseAbandoned(q)
<1>1. closing' # closing
  OBVIOUS
<1>2. ASSUME NEW q \in Runs, ListStaleRunning(q) PROVE FALSE
  BY <1>2 DEF ListStaleRunning, Typed, TypeOK, RowTypes, SweepTypes
<1>3. ASSUME NEW w \in Executors, Walk(w) \/ Disturb(w) PROVE UNCHANGED closing
  BY <1>3 DEF Walk, Disturb, GetRun, Claim, Load, EnterNode, ClaimStep, GetStep, Gate, Guard, Purchase,
     PlainNode, NodeRaises, CompleteStep, Finish, FailRun, AbandonRead, AbandonTouch, JobEnds,
     CallRaises, Cancel, InvokeTimeout, Crash
<1>4. ASSUME \/ \E q \in Runs : \/ Produce(q) \/ Arq(q) \/ SweepEnqueues(q)
                                \/ \E k \in Steps : GuardExpires(q, k)
                                \/ \E w \in Executors : Invoke(w, q)
             \/ ListStalePending \/ UNCHANGED vars
      PROVE  UNCHANGED closing
  BY <1>4 DEF Produce, FireTrigger, CreateRun, ProducerEnqueues, ProducerDies, Arq, GiveUp, Deliver,
     InProgressExpires, ResultExpires, SweepEnqueues, GuardExpires, Invoke,
     ListStalePending, vars
<1> QED BY <1>1, <1>2, <1>3, <1>4 DEF Next

LEMMA UnwatchedStep ==
  ASSUME ~Pauses, Typed, Fenced, Unwatched, [Next]_vars
  PROVE  Unwatched'
<1> SUFFICES ASSUME NEW r \in Runs, closing'[r] = version'[r], NEW w \in Executors, Owner(w, r)'
             PROVE  FALSE
  BY DEF Unwatched
<1>1. /\ version[r] \in Nat /\ closing[r] \in Nat \cup {-1} /\ closing[r] <= version[r]
  BY DEF Typed, TypeOK, RowTypes, SweepTypes, Fenced, RowFits
<1>2. CASE ListStaleRunning(r)
  <2>1. ~Owner(w, r) /\ version' = version
    BY <1>2 DEF ListStaleRunning, Pause
  <2> QED BY <2>1, OwnersStay
<1>3. CASE closing'[r] \in {closing[r], -1}
  <2>1. version'[r] = version[r] /\ closing[r] = version[r]
    BY <1>1, <1>3, VersionsGrow
  <2> QED BY <2>1, OwnersStay DEF Unwatched
<1> QED BY <1>2, <1>3, VersionsGrow

(* The abandoned-run sweep closes no run that came back to life between    *)
(* its SELECT and its write (close_abandoned_running_runs), as long as no  *)
(* live executor is silent past every timeout.                             *)
THEOREM LivingAreSpared == ASSUME ~Pauses PROVE Spec => SweepSparesTheLiving
<1> DEFINE A == \A r \in Runs : (closing[r] # -1 /\ closing'[r] = -1 /\ status'[r] # status[r]) =>
                  \A w \in Executors : ~Owner(w, r)
<1>1. Init => Unwatched
  BY DEF Init, Unwatched, Owner, Walking
<1>2. Typed /\ Fenced /\ Unwatched /\ [Next]_vars => Unwatched'
  BY UnwatchedStep
<1>3. Typed /\ Fenced /\ Unwatched /\ [Next]_vars => [A]_vars
  <2> SUFFICES ASSUME Typed, Fenced, Unwatched, [Next]_vars, NEW r \in Runs,
                      closing[r] # -1, closing'[r] = -1, status'[r] # status[r]
               PROVE  closing[r] = version[r]
    BY DEF Unwatched
  <2>1. \E q \in Runs : CloseAbandoned(q)
    BY WhoClosesRuns
  <2> QED BY <2>1 DEF CloseAbandoned, TouchWins, TouchLoses, Typed, TypeOK, RowTypes, SweepTypes
<1>4. Init => Typed /\ Fenced BY TypedInit, FencedInit
<1>5. Typed /\ Fenced /\ [Next]_vars => (Typed /\ Fenced)' BY TypedStep, FencedStep
<1> QED BY <1>1, <1>2, <1>3, <1>4, <1>5, PTL DEF Spec, SweepSparesTheLiving

-----------------------------------------------------------------------------
(* RunLifecycle implements RunPromise, and a completed run is final: the   *)
(* two results that need the four invariants at once.  StepShape says what *)
(* any step does to the rows; both proofs case on it.                      *)
Inv == Typed /\ Accounted /\ Fenced /\ Ordered

LEMMA InvInit == Init => Inv
BY TypedInit, AccountedInit, FencedInit, OrderedInit DEF Inv

LEMMA InvStep == Inv /\ [Next]_vars => Inv'
BY TypedStep, AccountedStep, FencedStep, OrderedStep DEF Inv

(* How a row moves: it is created, or a touch that won starts the run,     *)
(* again perhaps, or settles one that is running.                          *)
Moves(r, s) ==
  /\ status' = [status EXCEPT ![r] = s]
  /\ \A q \in Runs \ {r} : version'[q] = version[q] /\ cur'[q] = cur[q]
  /\ \/ status[r] = "absent" /\ s = "pending"
     \/ status[r] \in {"pending", "running", "failed"} /\ s = "running"
     \/ status[r] = "running" /\ s = "failed"
     \/ status[r] = "running" /\ s = "completed" /\ \A k \in Steps : Done(r, k)

RowStep == /\ UNCHANGED stepVars
           /\ \E r \in Runs, s \in {"pending", "running", "failed", "completed"} : Moves(r, s)

LEMMA Created ==
  ASSUME Typed, NEW r \in Runs, CreateIfAbsent(r), UNCHANGED stepVars
  PROVE  UNCHANGED <<rowVars, stepVars>> \/ RowStep
<1>1. CASE status[r] = "absent"
  <2>1. Moves(r, "pending") BY <1>1 DEF CreateIfAbsent, Moves
  <2> QED BY <2>1 DEF RowStep
<1>2. CASE status[r] # "absent"
  <2>1. status' = status BY <1>2 DEF CreateIfAbsent, Typed, TypeOK, RowTypes
  <2> QED BY <2>1 DEF CreateIfAbsent
<1> QED BY <1>1, <1>2

LEMMA Touched ==
  ASSUME Typed, NEW r \in Runs, NEW v, NEW n, NEW s \in {"running", "failed", "completed"},
         TouchWins(r, v, n, s) \/ TouchLoses(r, v), UNCHANGED stepVars,
         v = version[r] =>
            \/ status[r] \in {"pending", "running", "failed"} /\ s = "running"
            \/ status[r] = "running" /\ s = "failed"
            \/ status[r] = "running" /\ s = "completed" /\ \A k \in Steps : Done(r, k)
  PROVE  UNCHANGED <<rowVars, stepVars>> \/ RowStep
<1>1. CASE TouchLoses(r, v) BY <1>1 DEF TouchLoses
<1>2. CASE TouchWins(r, v, n, s)
  <2>1. Moves(r, s) BY <1>2 DEF TouchWins, Moves, Typed, TypeOK, RowTypes
  <2> QED BY <2>1 DEF RowStep
<1> QED BY <1>1, <1>2

(* A step of the system moves one row, or commits or spends on one step,   *)
(* or neither.                                                             *)
LEMMA StepShape ==
  ASSUME Inv, [Next]_vars
  PROVE  \/ UNCHANGED <<rowVars, stepVars>>
         \/ RowStep
         \/ UNCHANGED rowVars /\ \E w \in Executors : ClaimStep(w) \/ Purchase(w) \/ CompleteStep(w)
<1> USE DEF Inv
<1> DEFINE Shape == \/ UNCHANGED <<rowVars, stepVars>> \/ RowStep
                    \/ UNCHANGED rowVars /\ \E w \in Executors : ClaimStep(w) \/ Purchase(w) \/ CompleteStep(w)
<1>1. CASE UNCHANGED vars BY <1>1 DEF vars
<1>2. ASSUME NEW r \in Runs, Produce(r) PROVE Shape
  BY <1>2, Created DEF Produce, FireTrigger, CreateRun, ProducerEnqueues, ProducerDies
<1>3. ASSUME NEW w \in Executors, NEW r \in Runs, Invoke(w, r) PROVE Shape
  BY <1>3, Created DEF Invoke
<1>4. ASSUME NEW r \in Runs, CloseAbandoned(r) PROVE Shape
  <2>1. closing[r] = version[r] => status[r] = "running" BY DEF Fenced, RowFits
  <2> QED BY <1>4, <2>1, Touched DEF CloseAbandoned
<1>5. ASSUME NEW w \in Executors,
             Claim(w) \/ EnterNode(w) \/ Finish(w) \/ FailRun(w) \/ AbandonTouch(w)
      PROVE  Shape
  <2>0. run[w] \in Runs BY DEF Typed, TypeOK, ExecutorTypes
  <2>1. ver[w] = version[run[w]] =>
          /\ pc[w] \in Walking \cup {"atouch"} => status[run[w]] = "running"
          /\ pc[w] = "claim" => status[run[w]] \in {"pending", "running", "failed"}
    BY <2>0 DEF Fenced, HolderFits, Typed, TypeOK, RowTypes
  <2>2. pc[w] = "finish" => \A k \in Steps : Done(run[w], k)
    BY DEF Ordered, BehindIsDone, Typed, InPlace
  <2>3. UNCHANGED stepVars
    BY <1>5 DEF Claim, EnterNode, Finish, FailRun, AbandonTouch
  <2>4. CASE Claim(w) BY <2>0, <2>1, <2>3, <2>4, Touched DEF Claim, OwnedTouch, At
  <2>5. CASE EnterNode(w)
    BY <2>0, <2>1, <2>3, <2>5, Touched DEF EnterNode, OwnedTouch, At, Walking
  <2>6. CASE Finish(w)
    BY <2>0, <2>1, <2>2, <2>3, <2>6, Touched DEF Finish, LastTouch, At, Walking
  <2>7. CASE FailRun(w) BY <2>0, <2>1, <2>3, <2>7, Touched DEF FailRun, LastTouch, At, Walking
  <2>8. CASE AbandonTouch(w) BY <2>0, <2>1, <2>3, <2>8, Touched DEF AbandonTouch, LastTouch, At
  <2> QED BY <1>5, <2>4, <2>5, <2>6, <2>7, <2>8
<1>6. ASSUME NEW w \in Executors, ClaimStep(w) \/ Purchase(w) \/ CompleteStep(w) PROVE Shape
  BY <1>6 DEF ClaimStep, Purchase, CompleteStep
<1>7. ASSUME NEW w \in Executors, \/ GetRun(w) \/ Load(w) \/ GetStep(w) \/ Gate(w)
                                  \/ Guard(w) \/ PlainNode(w) \/ NodeRaises(w)
      PROVE  UNCHANGED <<rowVars, stepVars>>
  BY <1>7 DEF GetRun, Load, GetStep, Gate, Guard, PlainNode, NodeRaises
<1>8. ASSUME NEW w \in Executors, AbandonRead(w) \/ JobEnds(w) \/ Disturb(w)
      PROVE  UNCHANGED <<rowVars, stepVars>>
  BY <1>8 DEF AbandonRead, JobEnds, Disturb, CallRaises, Cancel, InvokeTimeout, Crash
<1>9. ASSUME \/ \E r \in Runs : Arq(r) \/ SweepEnqueues(r) \/ ListStaleRunning(r)
             \/ ListStalePending \/ \E r \in Runs, k \in Steps : GuardExpires(r, k)
      PROVE  UNCHANGED <<rowVars, stepVars>>
  BY <1>9 DEF Arq, GiveUp, InProgressExpires, ResultExpires, Deliver, SweepEnqueues,
              ListStaleRunning, ListStalePending, GuardExpires
<1>10. ASSUME NEW w \in Executors, Walk(w) PROVE Shape
  BY <1>5, <1>6, <1>7, <1>8, <1>10 DEF Walk
<1> HIDE DEF Inv, Shape
<1>11. Next \/ UNCHANGED vars
  OBVIOUS
<1>12. Shape
  BY <1>1, <1>2, <1>3, <1>4, <1>8, <1>9, <1>10, <1>11 DEF Next, Shape
<1> QED BY <1>12 DEF Shape

(* Who spends or commits works for a run that was started, and spends only *)
(* on a step that is not paid, and not committed but as declined.          *)
LEMMA SpendFacts ==
  ASSUME Inv, NEW w \in Executors, Purchase(w)
  PROVE  /\ run[w] \in Runs /\ at[w] \in Steps /\ effects[run[w]][at[w]] = 0
         /\ \/ step[run[w]][at[w]] = "declined"
            \/ ~Done(run[w], at[w]) /\ status[run[w]] \in {"running", "failed"}
<1> USE DEF Inv
<1>1. run[w] \in Runs /\ at[w] \in Steps /\ pc[w] = "effect"
  BY DEF Purchase, At, Typed, InPlace, Inside, TypeOK, ExecutorTypes
<1>2. Attempt(w) /\ out[w] # "bought" BY <1>1 DEF Accounted, BodyFits, Attempt
<1>3. step[run[w]][at[w]] \in {"running", "declined"} /\ effects[run[w]][at[w]] = 0
  BY <1>2 DEF Accounted, AttemptsCount
<1>4. version[run[w]] > 0
  BY <1>1 DEF Fenced, HolderFits, Walking, Typed, TypeOK, ExecutorTypes, RowTypes
<1>5. status[run[w]] \notin {"absent", "pending"} BY <1>1, <1>4 DEF Fenced, RowFits
<1>6. step[run[w]][at[w]] = "running" => status[run[w]] # "completed"
  BY <1>1 DEF Ordered, CompletedMeansCommitted, Done
<1> QED BY <1>1, <1>3, <1>5, <1>6 DEF Done, Typed, TypeOK, RowTypes

LEMMA CommitFacts ==
  ASSUME Inv, NEW w \in Executors, CompleteStep(w)
  PROVE  /\ run[w] \in Runs /\ at[w] \in Steps /\ out[w] \in Outcomes
         /\ Done(run[w], at[w]) \/ status[run[w]] \in {"running", "failed"}
<1> USE DEF Inv
<1>1. run[w] \in Runs /\ at[w] \in Steps /\ pc[w] = "complete" /\ out[w] \in Outcomes
  BY DEF CompleteStep, At, Typed, InPlace, Inside, TypeOK, ExecutorTypes
<1>2. version[run[w]] > 0
  BY <1>1 DEF Fenced, HolderFits, Walking, Typed, TypeOK, ExecutorTypes, RowTypes
<1>3. status[run[w]] \notin {"absent", "pending"} BY <1>1, <1>2 DEF Fenced, RowFits
<1>4. status[run[w]] = "completed" => Done(run[w], at[w])
  BY <1>1 DEF Ordered, CompletedMeansCommitted
<1> QED BY <1>1, <1>3, <1>4 DEF Typed, TypeOK, RowTypes

(* A completed run is never claimed, failed or closed again, nor charged   *)
(* but at a step a replay declined.                                        *)
THEOREM CompletedStays == Spec => CompletedIsFinal
<1> DEFINE A == \A r \in Runs : status[r] = "completed" =>
                  /\ UNCHANGED <<status[r], version[r], cur[r]>>
                  /\ \A k \in Steps : step[r][k] = "declined" \/ UNCHANGED effects[r][k]
<1>1. Inv /\ [Next]_vars => [A]_vars
  <2> SUFFICES ASSUME Inv, [Next]_vars PROVE A
    OBVIOUS
  <2>1. CASE UNCHANGED <<rowVars, stepVars>> BY <2>1
  <2>2. CASE RowStep
    <3>1. PICK r \in Runs, s \in {"pending", "running", "failed", "completed"} : Moves(r, s)
      BY <2>2 DEF RowStep
    <3>2. status[r] # "completed" BY <3>1 DEF Moves
    <3> QED BY <2>2, <3>1, <3>2 DEF RowStep, Moves, Inv, Typed, TypeOK, RowTypes
  <2>3. ASSUME UNCHANGED rowVars, NEW w \in Executors, ClaimStep(w) \/ CompleteStep(w) PROVE A
    BY <2>3 DEF ClaimStep, CompleteStep
  <2>4. ASSUME UNCHANGED rowVars, NEW w \in Executors, Purchase(w) PROVE A
    <3>1. status[run[w]] # "completed" \/ step[run[w]][at[w]] = "declined"
      BY <2>4, SpendFacts
    <3>2. \A r \in Runs, k \in Steps : r # run[w] \/ k # at[w] => effects'[r][k] = effects[r][k]
      BY <2>4 DEF Purchase, Inv, Typed, TypeOK, StepTypes
    <3> QED BY <2>4, <3>1, <3>2
  <2> QED BY <2>1, <2>2, <2>3, <2>4, StepShape
<1> QED BY <1>1, InvInit, InvStep, PTL DEF Spec, CompletedIsFinal

-----------------------------------------------------------------------------
(* The refinement                                                          *)

LEMMA PromiseInit == Init => Promise!Init
BY DEF Init, Promise!Init, Promise!Steps, Committed, Declined, Done

LEMMA PromiseStep == Inv /\ [Next]_vars => [Promise!Next]_(Promise!vars)
<1> SUFFICES ASSUME Inv, [Next]_vars PROVE Promise!Next \/ UNCHANGED Promise!vars
  OBVIOUS
<1> USE DEF Promise!vars
<1>1. CASE UNCHANGED <<rowVars, stepVars>> BY <1>1 DEF Committed, Declined, Done
<1>2. CASE RowStep
  <2>1. PICK r \in Runs, s \in {"pending", "running", "failed", "completed"} : Moves(r, s)
    BY <1>2 DEF RowStep
  <2>2. UNCHANGED <<Committed, Declined, effects>> BY <1>2 DEF RowStep, Committed, Declined, Done
  <2>3. CASE status[r] = "absent" /\ s = "pending"
    BY <2>1, <2>2, <2>3 DEF Moves, Promise!Next, Promise!Create
  <2>4. CASE status[r] \in {"pending", "failed"} /\ s = "running"
    BY <2>1, <2>2, <2>4 DEF Moves, Promise!Next, Promise!Start
  <2>5. CASE status[r] = "running" /\ s = "running"
    <3>1. status' = status BY <2>1, <2>5 DEF Moves, Inv, Typed, TypeOK, RowTypes
    <3> QED BY <2>2, <3>1
  <2>6. CASE status[r] = "running" /\ s = "failed"
    BY <2>1, <2>2, <2>6 DEF Moves, Promise!Next, Promise!Fail
  <2>7. CASE status[r] = "running" /\ s = "completed" /\ \A k \in Steps : Done(r, k)
    <3>1. Committed[r] = Promise!Steps BY <2>7 DEF Committed, Promise!Steps
    <3> QED BY <2>1, <2>2, <2>7, <3>1 DEF Moves, Promise!Next, Promise!Complete
  <2> QED BY <2>1, <2>3, <2>4, <2>5, <2>6, <2>7 DEF Moves
<1>3. ASSUME UNCHANGED rowVars, NEW w \in Executors, ClaimStep(w) PROVE UNCHANGED Promise!vars
  <2>1. run[w] \in Runs /\ at[w] \in Steps
    BY <1>3 DEF ClaimStep, At, Inv, Typed, InPlace, Inside, TypeOK, ExecutorTypes
  <2>2. \A r \in Runs, k \in Steps :
          (Done(r, k)' <=> Done(r, k)) /\ (step'[r][k] = "declined" <=> step[r][k] = "declined")
    <3>1. CASE UNCHANGED step BY <3>1 DEF Done
    <3>2. CASE /\ step[run[w]][at[w]] = "none"
               /\ step' = [step EXCEPT ![run[w]][at[w]] = "running"]
      <4>1. \A r \in Runs, k \in Steps :
              step'[r][k] = IF r = run[w] /\ k = at[w] THEN "running" ELSE step[r][k]
        BY <2>1, <3>2 DEF Inv, Typed, TypeOK, StepTypes
      <4> QED BY <2>1, <3>2, <4>1 DEF Done
    <3> QED BY <1>3, <3>1, <3>2 DEF ClaimStep
  <2>3. Committed' = Committed /\ Declined' = Declined BY <2>2 DEF Committed, Declined
  <2> QED BY <1>3, <2>3 DEF ClaimStep
<1>4. ASSUME UNCHANGED rowVars, NEW w \in Executors, Purchase(w)
      PROVE  Promise!Next \/ UNCHANGED Promise!vars
  <2>1. UNCHANGED <<status, Committed, Declined>> BY <1>4 DEF Purchase, Committed, Declined, Done
  <2>2. \/ UNCHANGED effects
        \/ effects' = [effects EXCEPT ![run[w]][at[w]] = 1]
    <3>1. effects[run[w]][at[w]] + 1 = 1 BY <1>4, SpendFacts
    <3> QED BY <1>4, <3>1 DEF Purchase
  <2>3. \/ at[w] \in Declined[run[w]]
        \/ at[w] \notin Committed[run[w]] /\ status[run[w]] \in {"running", "failed"}
    BY <1>4, SpendFacts DEF Committed, Declined
  <2>4. CASE effects' = [effects EXCEPT ![run[w]][at[w]] = 1]
    <3>1. Promise!Spend(run[w], at[w]) BY <1>4, <2>1, <2>3, <2>4, SpendFacts DEF Promise!Spend
    <3> QED BY <1>4, <3>1, SpendFacts DEF Promise!Next, Promise!Steps
  <2> QED BY <2>1, <2>2, <2>4
<1>5. ASSUME UNCHANGED rowVars, NEW w \in Executors, CompleteStep(w) PROVE Promise!Next
  <2> DEFINE r == run[w]
             k == at[w]
  <2>0. UNCHANGED <<status, effects>> BY <1>5 DEF CompleteStep
  <2>1. \A q \in Runs, j \in Steps : step'[q][j] = IF q = r /\ j = k THEN out[w] ELSE step[q][j]
    <3>1. step' = [step EXCEPT ![r][k] = out[w]] BY <1>5 DEF CompleteStep
    <3> QED BY <1>5, <3>1, CommitFacts DEF Inv, Typed, TypeOK, StepTypes
  <2>2. Committed' = [Committed EXCEPT ![r] = @ \cup {k}]
    <3>1. ASSUME NEW q \in Runs
          PROVE  {j \in Steps : Done(q, j)'} =
                   {j \in Steps : Done(q, j)} \cup (IF q = r THEN {k} ELSE {})
      BY <1>5, <2>1, CommitFacts DEF Done
    <3>2. Committed' = [q \in Runs |-> Committed[q] \cup (IF q = r THEN {k} ELSE {})]
      BY <3>1 DEF Committed
    <3> QED BY <3>2 DEF Committed
  <2>3. \/ Declined' = [Declined EXCEPT ![r] = @ \cup {k}]
        \/ Declined' = [Declined EXCEPT ![r] = @ \ {k}]
    <3> DEFINE Told(q, old) ==
                 IF q = r THEN IF out[w] = "declined" THEN old \cup {k} ELSE old \ {k} ELSE old
    <3>0. Declined = [q \in Runs |-> Declined[q]] BY DEF Declined
    <3>1. ASSUME NEW q \in Runs
          PROVE  {j \in Steps : step'[q][j] = "declined"} =
                   Told(q, {j \in Steps : step[q][j] = "declined"})
      BY <1>5, <2>1, CommitFacts
    <3>2. Declined' = [q \in Runs |-> Told(q, Declined[q])]
      BY <3>1 DEF Declined
    <3>3. CASE out[w] = "declined"
      <4>1. Declined' = [q \in Runs |-> Declined[q] \cup (IF q = r THEN {k} ELSE {})]
        BY <3>2, <3>3
      <4> QED BY <3>0, <4>1
    <3>4. CASE out[w] # "declined"
      <4>1. Declined' = [q \in Runs |-> Declined[q] \ (IF q = r THEN {k} ELSE {})]
        BY <3>2, <3>4
      <4> QED BY <3>0, <4>1
    <3> QED BY <3>3, <3>4
  <2>4. k \in Committed[r] \/ status[r] \in {"running", "failed"}
    BY <1>5, CommitFacts DEF Committed
  <2>5. Promise!Commit(r, k) BY <2>0, <2>2, <2>3, <2>4 DEF Promise!Commit
  <2> QED BY <1>5, <2>5, CommitFacts DEF Promise!Next, Promise!Steps
<1> QED BY <1>1, <1>2, <1>3, <1>4, <1>5, StepShape

(* RunLifecycle implements the abstract promise.                           *)
THEOREM KeepsThePromise == Spec => PromiseSpec
<1> QED BY InvInit, InvStep, PromiseInit, PromiseStep, PTL DEF Spec, PromiseSpec, Promise!Spec
=============================================================================
