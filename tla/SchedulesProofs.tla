---------------------------- MODULE SchedulesProofs ----------------------------
(***************************************************************************)
(* Theorems about Schedules for any flows, triggers, requests, events,     *)
(* bounds and tables to start from: one automation per preset, no event    *)
(* lost on the way to its flows, no tick lost to a resync.                 *)
(***************************************************************************)
EXTENDS Schedules, FiniteSetTheorems, TLAPS

(* Where a request can be, and with what ask.                              *)
Stages == {"find", "collided", "create", "update", "compile", "store"} \X {"deploy", "launch"}
     \cup {<<"create", "create">>, <<"update", "edit">>, <<"compile", "compile">>,
           <<"store", "compile">>, <<"unschedule", "deploy">>, <<"launch", "launch">>,
           <<"untrigger", "delete">>, <<"drop", "delete">>}
     \cup {"lookup", "attach"} \X {"deploy", "attach"}
Labels == {"find", "create", "collided", "update", "compile", "store", "unschedule", "lookup",
           "attach", "launch", "untrigger", "drop"}
Requests == [ask : Asks, flow : Flows \cup {None}, version : 0..MaxVersion, at : Labels]
Job == [flow : Flows, due : Times \cup {None}]

FlowRows == flows \in [Flows -> Flow \cup {None}] /\ irs \in [Flows -> Seq(1..MaxVersion)]
TriggerRows ==
  DOMAIN triggers = Trigs /\ \A t \in Trigs : triggers[t] # None => triggers[t].flow \in Flows
JobRows ==
  /\ jobs \in [Trigs -> Job \cup {None}]
  /\ snapshot # None => \A t \in Trigs : snapshot[t] # None => snapshot[t].flow \in Flows
FireRows == fires \in [Producers -> Firing \cup {None}]
Counts ==
  /\ clock \in Times /\ DOMAIN matched = 1..MaxEvents
  /\ left \in [{"asks", "dues", "events", "faults"} -> Nat]
  /\ emitted \in Nat /\ cursor \in Nat /\ cursor <= emitted /\ emitted + left["events"] <= MaxEvents
ReqRows ==
  /\ DOMAIN req = Reqs
  /\ \A r \in Reqs : req[r] # None =>
       /\ req[r] \in Requests /\ <<req[r].at, req[r].ask.op>> \in Stages
       /\ req[r].at \notin {"find", "create", "collided"} => req[r].flow \in Flows
       /\ req[r].at = "store" => req[r].version # 0
InboxRows == inbox # None => cursor < emitted /\ \A hit \in inbox : hit[2] \in Flows

Typed == FlowRows /\ TriggerRows /\ JobRows /\ FireRows /\ Counts /\ ReqRows /\ InboxRows

-----------------------------------------------------------------------------
USE ScheduleAssumption

LEMMA WhoWritesTables ==
  ASSUME [Next]_vars
  PROVE  \/ UNCHANGED tables
         \/ \E r \in Reqs : \/ Create(r) \/ Update(r) \/ Store(r) \/ Drop(r)
                            \/ Unschedule(r) \/ Attach(r) \/ Untrigger(r)
  BY DEF Next, Serve, Step, vars, events, sched, bounds, Receive, Fail, Find, Compile,
     Lookup, Launch, ReadGraph, ReadVars, Insert, ComesDue, Fire,
     Boot, SyncReads, SyncWrites, SyncFails, Crash, Pass, Emit, Handle, Route, Acknowledge

LEMMA WhoWritesJobs ==
  ASSUME [Next]_vars
  PROVE  \/ UNCHANGED <<jobs, snapshot>> \/ SyncReads \/ SyncWrites \/ SyncFails \/ Crash
         \/ \E t \in Trigs : ComesDue(t) \/ Fire(t)
  BY ZenonT(60) DEF Next, Serve, Step, vars, tables, events, sched, bounds, Receive, Fail, Find, Compile,
     Create, Update, Store, Drop, Unschedule, Attach, Untrigger, Lookup, Launch, ReadGraph, ReadVars,
     Insert, Boot, Pass, Emit, Handle, Route, Acknowledge

LEMMA WhoWritesFires ==
  ASSUME [Next]_vars
  PROVE  \/ UNCHANGED fires \/ Crash \/ Route \/ \E t \in Trigs : Fire(t)
         \/ \E r \in Reqs : Fail(r) \/ Launch(r)
         \/ \E x \in Producers : Step(x)
  BY DEF Next, Serve, vars, tables, events, sched, bounds, Receive, Find, Compile,
     Create, Update, Store, Drop, Unschedule, Attach, Untrigger, Lookup, ComesDue,
     Boot, SyncReads, SyncWrites, SyncFails, Pass, Emit, Handle, Acknowledge

LEMMA WhoWritesRequests ==
  ASSUME [Next]_vars
  PROVE  \/ UNCHANGED req \/ \E r \in Reqs : Receive(r) \/ Fail(r) \/ Serve(r)
         \/ \E x \in Producers : Step(x)
  BY DEF Next, vars, tables, events, sched, bounds, ComesDue, Fire,
     Boot, SyncReads, SyncWrites, SyncFails, Crash, Pass, Emit, Handle, Route, Acknowledge

LEMMA WhoCounts ==
  ASSUME [Next]_vars
  PROVE  \/ UNCHANGED <<clock, emitted, cursor, matched, left>>
         \/ UNCHANGED <<clock, emitted, cursor, matched>> /\ \E b \in {"asks", "dues", "faults"} : Spend(b)
         \/ Pass \/ Emit \/ Handle \/ Acknowledge
<1>1. ASSUME NEW r \in Reqs, Receive(r) \/ Fail(r) \/ Serve(r)
      PROVE  \/ UNCHANGED <<clock, emitted, cursor, matched, left>>
             \/ UNCHANGED <<clock, emitted, cursor, matched>> /\ \E b \in {"asks", "dues", "faults"} : Spend(b)
  BY <1>1 DEF Serve, events, bounds, Receive, Fail, Find, Compile, Create, Update, Store, Drop,
     Unschedule, Attach, Untrigger, Lookup, Launch
<1>2. ASSUME NEW x \in Producers, Step(x) PROVE UNCHANGED <<clock, emitted, cursor, matched, left>>
  BY <1>2 DEF Step, ReadGraph, ReadVars, Insert, events, bounds
<1>3. ASSUME \/ Boot \/ SyncReads \/ SyncWrites \/ SyncFails \/ Crash \/ Route \/ UNCHANGED vars
             \/ \E t \in Trigs : ComesDue(t) \/ Fire(t)
      PROVE  \/ UNCHANGED <<clock, emitted, cursor, matched, left>>
             \/ UNCHANGED <<clock, emitted, cursor, matched>> /\ \E b \in {"asks", "dues", "faults"} : Spend(b)
  BY <1>3 DEF vars, events, bounds, Boot, SyncReads, SyncWrites, SyncFails, Crash, Route, ComesDue, Fire
<1> QED BY <1>1, <1>2, <1>3 DEF Next

-----------------------------------------------------------------------------
(* A request at a label has the ask and the flow that go with it.          *)
LEMMA AtLabel ==
  ASSUME ReqRows, NEW r \in Reqs, NEW l, At(r, l)
  PROVE  /\ req[r] \in Requests /\ req[r].at = l /\ <<l, req[r].ask.op>> \in Stages
         /\ req[r].ask \in Asks /\ req[r].ask.needs \in BOOLEAN
         /\ req[r].flow \in Flows \cup {None} /\ req[r].version \in 0..MaxVersion
         /\ l \notin {"find", "create", "collided"} => req[r].flow \in Flows
         /\ l = "store" => req[r].version # 0
  BY AsksAssumption DEF ReqRows, At, Requests

LEMMA FreshIsUnused == ASSUME NEW ids, Unused(ids) # {} PROVE Fresh(ids) \in ids \ born
  BY DEF Fresh, Unused

LEMMA FlowRowsStep == ASSUME Typed, [Next]_vars PROVE FlowRows'
<1>0. FlowRows /\ ReqRows
  BY DEF Typed
<1>1. ASSUME NEW r \in Reqs, Create(r) PROVE FlowRows'
  <2>1. CASE UNCHANGED flows
    BY <1>0, <1>1, <2>1 DEF FlowRows, Create
  <2>2. CASE \E f : flows' = [flows EXCEPT ![f] = [version |-> 1, preset |-> req[r].ask.op # "create", needs |-> req[r].ask.needs]]
    <3>1. req[r].ask.needs \in BOOLEAN
      BY <1>0, <1>1, AtLabel DEF Create
    <3>2. PICK f : flows' = [flows EXCEPT ![f] = [version |-> 1, preset |-> req[r].ask.op # "create", needs |-> req[r].ask.needs]]
      BY <2>2
    <3>3. 1 \in 1..MaxVersion
      OBVIOUS
    <3> QED BY <1>0, <1>1, <3>1, <3>2, <3>3 DEF FlowRows, Create, Flow
  <2> QED BY <1>1, <2>1, <2>2 DEF Create
<1>2. ASSUME NEW r \in Reqs, Update(r) PROVE FlowRows'
  <2>1. CASE UNCHANGED flows
    BY <1>0, <1>2, <2>1 DEF FlowRows, Update
  <2>2. CASE ~UNCHANGED flows
    <3>1. /\ flows[req[r].flow] # None /\ flows[req[r].flow].version < MaxVersion
          /\ flows' = [flows EXCEPT ![req[r].flow].version = @ + 1, ![req[r].flow].needs = req[r].ask.needs]
      BY <1>2, <2>2 DEF Update
    <3>2. req[r].ask.needs \in BOOLEAN /\ req[r].flow \in Flows
      BY <1>0, <1>2, AtLabel DEF Update
    <3>3. PICK row : row = flows[req[r].flow]
      OBVIOUS
    <3>4. row \in Flow /\ row.version < MaxVersion
      BY <1>0, <3>1, <3>2, <3>3 DEF FlowRows
    <3>5. PICK n : n = row.version + 1
      OBVIOUS
    <3>6. n \in 1..MaxVersion
      <4>1. row.version \in 1..MaxVersion
        BY <3>4 DEF Flow
      <4> QED BY <3>4, <3>5, <4>1
    <3>7. [row EXCEPT !.version = n, !.needs = req[r].ask.needs] \in Flow
      BY <3>2, <3>4, <3>6 DEF Flow
    <3>8. flows' = [flows EXCEPT ![req[r].flow] = [row EXCEPT !.version = n, !.needs = req[r].ask.needs]]
      BY <1>0, <3>1, <3>2, <3>3, <3>5 DEF FlowRows
    <3> QED BY <1>0, <1>2, <3>2, <3>7, <3>8 DEF FlowRows, Update
  <2> QED BY <2>1, <2>2
<1>3. ASSUME NEW r \in Reqs, Store(r) PROVE FlowRows'
  <2>0. At(r, "store")
    BY <1>3 DEF Store
  <2>1. req[r].version \in 0..MaxVersion /\ req[r].version # 0 /\ req[r].flow \in Flows
    BY <1>0, <2>0, AtLabel
  <2>2. PICK ir : ir = irs[req[r].flow]
    OBVIOUS
  <2>3. ir \in Seq(1..MaxVersion)
    BY <1>0, <2>1, <2>2 DEF FlowRows
  <2>4. Append(ir, req[r].version) \in Seq(1..MaxVersion)
    <3>1. req[r].version \in 1..MaxVersion
      BY <2>1
    <3> QED BY <2>3, <3>1
  <2>5. irs' = [irs EXCEPT ![req[r].flow] = Append(ir, req[r].version)] /\ UNCHANGED flows
    BY <1>3, <2>2 DEF Store
  <2> QED BY <1>0, <2>4, <2>5 DEF FlowRows
<1>4. ASSUME NEW r \in Reqs, Drop(r) PROVE FlowRows'
  <2>1. <<>> \in Seq(1..MaxVersion)
    OBVIOUS
  <2> QED BY <1>0, <1>4, <2>1 DEF FlowRows, Drop
<1>5. ASSUME \/ UNCHANGED tables \/ \E r \in Reqs : Unschedule(r) \/ Attach(r) \/ Untrigger(r)
      PROVE  FlowRows'
  BY <1>0, <1>5 DEF FlowRows, Unschedule, Attach, Untrigger, tables
<1> QED BY <1>1, <1>2, <1>3, <1>4, <1>5, WhoWritesTables

LEMMA TriggerRowsStep == ASSUME Typed, [Next]_vars PROVE TriggerRows'
<1>0. TriggerRows /\ ReqRows
  BY DEF Typed
<1>1. ASSUME NEW r \in Reqs, Attach(r) PROVE TriggerRows'
  <2>1. req[r].flow \in Flows
    BY <1>0, <1>1, AtLabel DEF Attach
  <2> QED BY <1>0, <1>1, <2>1 DEF TriggerRows, Attach
<1>2. ASSUME \E r \in Reqs : Unschedule(r) \/ Untrigger(r) PROVE TriggerRows'
  BY <1>0, <1>2 DEF TriggerRows, Unschedule, Untrigger
<1>3. ASSUME \/ UNCHANGED tables \/ \E r \in Reqs : Create(r) \/ Update(r) \/ Store(r) \/ Drop(r)
      PROVE  TriggerRows'
  BY <1>0, <1>3 DEF TriggerRows, Create, Update, Store, Drop, tables
<1> QED BY <1>1, <1>2, <1>3, WhoWritesTables

LEMMA JobRowsStep == ASSUME Typed, [Next]_vars PROVE JobRows'
<1>0. JobRows /\ TriggerRows /\ Counts
  BY DEF Typed
<1>1. CASE UNCHANGED <<jobs, snapshot>>
  BY <1>0, <1>1 DEF JobRows
<1>2. CASE SyncReads
  BY <1>0, <1>2 DEF JobRows, TriggerRows, SyncReads
<1>3. CASE SyncWrites
  <2>1. \A t \in Trigs : Live(t) => Added(t) \in Job
    BY <1>0, <1>3 DEF JobRows, SyncWrites, Live, Added, Job
  <2> QED BY <1>0, <1>3, <2>1 DEF JobRows, SyncWrites
<1>4. CASE SyncFails \/ Crash
  BY <1>0, <1>4 DEF JobRows, SyncFails, Crash
<1>5. ASSUME NEW t \in Trigs, ComesDue(t) \/ Fire(t) PROVE JobRows'
  <2>1. jobs[t] \in Job /\ clock \in Times
    BY <1>0, <1>5 DEF JobRows, ComesDue, Fire, Counts
  <2>2. PICK job : job = jobs[t]
    OBVIOUS
  <2>3. \A d \in Times \cup {None} : [job EXCEPT !.due = d] \in Job
    BY <2>1, <2>2 DEF Job
  <2>4. \E d \in Times \cup {None} : jobs' = [jobs EXCEPT ![t] = [job EXCEPT !.due = d]]
    BY <1>5, <2>1, <2>2 DEF ComesDue, Fire
  <2> QED BY <1>0, <1>5, <2>3, <2>4 DEF JobRows, ComesDue, Fire
<1> QED BY <1>1, <1>2, <1>3, <1>4, <1>5, WhoWritesJobs

LEMMA Begins ==
  ASSUME FireRows, NEW x \in Producers, NEW f \in Flows, NEW key \in Keys, Begin(x, f, key)
  PROVE  /\ FireRows' /\ fires'[x] \in Firing /\ fires'[x] # None
         /\ fires'[x].flow = f /\ fires'[x].key = key
         /\ \A y \in Producers \ {x} : fires'[y] = fires[y]
<1>1. [flow |-> f, key |-> key, at |-> "ir", ir |-> 0, vars |-> 0] \in Firing
  BY DEF Firing
<1> QED BY <1>1 DEF Begin, FireRows

(* A step of a fire ends it, or goes on to the next label.                 *)
LEMMA StepIs ==
  ASSUME Typed, NEW x \in Producers, Step(x)
  PROVE  \/ Insert(x) \/ Stops(x)
         \/ \E v \in 0..MaxVersion, l \in {"vars", "insert"} :
               \/ fires' = [fires EXCEPT ![x].at = l, ![x].ir = v]
               \/ fires' = [fires EXCEPT ![x].at = l, ![x].vars = v]
<1>0. FireRows /\ FlowRows
  BY DEF Typed
<1>1. ASSUME fires[x] # None PROVE fires[x].flow \in Flows
  BY <1>0, <1>1 DEF FireRows, Firing
<1>2. ReadGraph(x) => Stops(x) \/ \E v \in 0..MaxVersion : fires' = [fires EXCEPT ![x].at = "vars", ![x].ir = v]
  <2> SUFFICES ASSUME ReadGraph(x), ~Stops(x)
               PROVE  \E v \in 0..MaxVersion : fires' = [fires EXCEPT ![x].at = "vars", ![x].ir = v]
    OBVIOUS
  <2>1. fires[x] # None /\ \E v \in LatestIr(fires[x].flow) : fires' = [fires EXCEPT ![x].at = "vars", ![x].ir = v]
    BY DEF ReadGraph
  <2>2. irs[fires[x].flow] \in Seq(1..MaxVersion)
    BY <1>0, <1>1, <2>1 DEF FlowRows
  <2>3. \A v \in LatestIr(fires[x].flow) : v \in 0..MaxVersion
    BY <2>2 DEF LatestIr, Compiled
  <2> QED BY <2>1, <2>3
<1>3. ReadVars(x) => Stops(x) \/ \E v \in 0..MaxVersion : fires' = [fires EXCEPT ![x].at = "insert", ![x].vars = v]
  <2> SUFFICES ASSUME ReadVars(x), ~Stops(x)
               PROVE  \E v \in 0..MaxVersion : fires' = [fires EXCEPT ![x].at = "insert", ![x].vars = v]
    OBVIOUS
  <2>1. fires[x] # None /\ fires' = [fires EXCEPT ![x].at = "insert",
           ![x].vars = IF flows[fires[x].flow] = None THEN 0 ELSE flows[fires[x].flow].version]
    BY DEF ReadVars
  <2>2. flows[fires[x].flow] \in Flow \cup {None}
    BY <1>0, <1>1, <2>1 DEF FlowRows
  <2>3. (IF flows[fires[x].flow] = None THEN 0 ELSE flows[fires[x].flow].version) \in 0..MaxVersion
    BY <2>2 DEF Flow
  <2> QED BY <2>1, <2>3
<1> QED BY <1>2, <1>3 DEF Step

LEMMA Continues ==
  ASSUME FireRows, NEW x \in Producers, fires[x] # None,
         NEW v \in 0..MaxVersion, NEW l \in {"vars", "insert"},
         \/ fires' = [fires EXCEPT ![x].at = l, ![x].ir = v]
         \/ fires' = [fires EXCEPT ![x].at = l, ![x].vars = v]
  PROVE  /\ FireRows' /\ fires'[x] # None
         /\ fires'[x].flow = fires[x].flow /\ fires'[x].key = fires[x].key
<1>1. PICK fire : fire = fires[x]
  OBVIOUS
<1>2. fire \in Firing
  BY <1>1 DEF FireRows
<1>3. [fire EXCEPT !.at = l, !.ir = v] \in Firing /\ [fire EXCEPT !.at = l, !.vars = v] \in Firing
  BY <1>2 DEF Firing
<1>4. fires' = [fires EXCEPT ![x] = [fire EXCEPT !.at = l, !.ir = v]]
      \/ fires' = [fires EXCEPT ![x] = [fire EXCEPT !.at = l, !.vars = v]]
  BY <1>1 DEF FireRows
<1>5. PICK new \in Firing : fires' = [fires EXCEPT ![x] = new] /\ new.flow = fire.flow /\ new.key = fire.key
  BY <1>2, <1>3, <1>4 DEF Firing
<1> QED BY <1>1, <1>5 DEF FireRows

LEMMA FireRowsStep == ASSUME Typed, [Next]_vars PROVE FireRows'
<1>0. FireRows /\ FlowRows /\ JobRows /\ ReqRows /\ InboxRows /\ Counts
  BY DEF Typed
<1>1. clock \in 0..(MaxClock + MaxEvents)
  BY <1>0 DEF Counts, Times
<1>2. CASE UNCHANGED fires \/ Crash
  BY <1>0, <1>2 DEF FireRows, Crash
<1>3. ASSUME Route PROVE FireRows'
  <2>1. PICK hit \in inbox : Begin(Router, hit[2], <<"seq", cursor + 1>>)
    BY <1>3 DEF Route
  <2>2. hit[2] \in Flows /\ cursor < emitted
    BY <1>0, <1>3 DEF InboxRows, Route
  <2>3. cursor + 1 \in 0..(MaxClock + MaxEvents)
    BY <1>0, <2>2 DEF Counts
  <2>4. <<"seq", cursor + 1>> \in Keys
    BY <2>3 DEF Keys
  <2> QED BY <1>0, <2>1, <2>2, <2>4, Begins DEF Producers
<1>4. ASSUME NEW t \in Trigs, Fire(t) PROVE FireRows'
  <2>1. jobs[t].flow \in Flows /\ <<"at", clock>> \in Keys
    BY <1>0, <1>1, <1>4 DEF JobRows, Fire, Job, Keys
  <2> QED BY <1>0, <1>4, <2>1, Begins DEF Fire, FireRows, Producers
<1>5. ASSUME NEW r \in Reqs, Launch(r) PROVE FireRows'
  <2>1. req[r].flow \in Flows /\ <<"window", clock>> \in Keys
    BY <1>0, <1>1, <1>5, AtLabel DEF Launch, Keys
  <2> QED BY <1>0, <1>5, <2>1, Begins DEF Launch, Producers
<1>6. ASSUME NEW r \in Reqs, Fail(r) PROVE FireRows'
  BY <1>0, <1>6 DEF Fail, FireRows
<1>7. ASSUME NEW x \in Producers, Step(x) PROVE FireRows'
  <2>1. CASE Insert(x) \/ Stops(x)
    BY <1>0, <2>1 DEF Insert, Stops, FireRows
  <2>2. CASE \E v \in 0..MaxVersion, l \in {"vars", "insert"} :
               \/ fires' = [fires EXCEPT ![x].at = l, ![x].ir = v]
               \/ fires' = [fires EXCEPT ![x].at = l, ![x].vars = v]
    <3>1. fires[x] # None
      BY <1>7 DEF Step, ReadGraph, ReadVars, Insert
    <3> QED BY <1>0, <2>2, <3>1, Continues
  <2> QED BY <1>7, <2>1, <2>2, StepIs
<1> QED BY <1>2, <1>3, <1>4, <1>5, <1>6, <1>7, WhoWritesFires

LEMMA CountsStep == ASSUME Typed, [Next]_vars PROVE Counts'
<1>0. Counts
  BY DEF Typed
<1>1. CASE UNCHANGED <<clock, emitted, cursor, matched, left>>
  BY <1>0, <1>1 DEF Counts
<1>2. ASSUME UNCHANGED <<clock, emitted, cursor, matched>>, NEW b \in {"asks", "dues", "faults"}, Spend(b)
      PROVE  Counts'
  BY <1>0, <1>2 DEF Counts, Spend
<1>3. CASE Pass
  BY <1>0, <1>3 DEF Counts, Pass, Times, events
<1>4. CASE Emit
  <2>1. /\ left["events"] \in Nat \ {0} /\ left' = [left EXCEPT !["events"] = @ - 1]
        /\ left' \in [{"asks", "dues", "events", "faults"} -> Nat] /\ left'["events"] = left["events"] - 1
    BY <1>0, <1>4 DEF Counts, Emit, Spend
  <2> QED BY <1>0, <1>4, <2>1 DEF Counts, Emit
<1>5. CASE Handle
  BY <1>0, <1>5 DEF Counts, Handle, bounds
<1>6. CASE Acknowledge
  <2>1. cursor < emitted
    BY <1>6 DEF Typed, InboxRows, Acknowledge
  <2> QED BY <1>0, <1>6, <2>1 DEF Counts, Acknowledge, bounds
<1> QED BY <1>1, <1>2, <1>3, <1>4, <1>5, <1>6, WhoCounts

LEMMA InboxRowsStep == ASSUME Typed, [Next]_vars PROVE InboxRows'
<1>0. InboxRows /\ TriggerRows /\ Counts
  BY DEF Typed
<1>1. CASE Handle
  BY <1>0, <1>1 DEF InboxRows, TriggerRows, Handle
<1>2. CASE Route
  BY <1>0, <1>2 DEF InboxRows, Route
<1>3. CASE UNCHANGED <<inbox, cursor, emitted>> \/ inbox' = None
  BY <1>0, <1>3 DEF InboxRows
<1>4. CASE Emit
  BY <1>0, <1>4 DEF InboxRows, Emit, Counts
<1>5. [Next]_vars => UNCHANGED <<inbox, cursor, emitted>> \/ inbox' = None \/ Handle \/ Route \/ Emit
  <2>1. ASSUME NEW r \in Reqs, Receive(r) \/ Fail(r) \/ Serve(r) PROVE UNCHANGED <<inbox, cursor, emitted>>
    BY <2>1 DEF Serve, events, Receive, Fail, Find, Compile, Create, Update, Store, Drop,
       Unschedule, Attach, Untrigger, Lookup, Launch
  <2>2. ASSUME NEW x \in Producers, Step(x) PROVE UNCHANGED <<inbox, cursor, emitted>>
    BY <2>2 DEF Step, ReadGraph, ReadVars, Insert, Stops, events
  <2>3. ASSUME \/ Boot \/ SyncReads \/ SyncWrites \/ SyncFails \/ Crash \/ Pass \/ Acknowledge
               \/ UNCHANGED vars \/ \E t \in Trigs : ComesDue(t) \/ Fire(t)
        PROVE  UNCHANGED <<inbox, cursor, emitted>> \/ inbox' = None
    BY <2>3 DEF vars, events, Boot, SyncReads, SyncWrites, SyncFails, Crash, Pass, Acknowledge,
       ComesDue, Fire
  <2> QED BY <2>1, <2>2, <2>3 DEF Next
<1> QED BY <1>1, <1>2, <1>3, <1>4, <1>5

-----------------------------------------------------------------------------
(* A request is answered, or goes to its next label.                       *)
Moves(r, l, f, n) ==
  /\ DOMAIN req' = Reqs /\ \A q \in Reqs \ {r} : req'[q] = req[q]
  /\ req'[r] = [ask |-> req[r].ask, flow |-> f, version |-> n, at |-> l]

LEMMA GoesTo ==
  ASSUME ReqRows, NEW r \in Reqs, req[r] # None, NEW l \in Labels, Goto(r, l)
  PROVE  Moves(r, l, req[r].flow, req[r].version)
  BY DEF ReqRows, Requests, Goto, Moves

LEMMA MovesWell ==
  ASSUME ReqRows, NEW r \in Reqs, req[r] # None, NEW l \in Labels, NEW f \in Flows \cup {None},
         NEW n \in 0..MaxVersion, Moves(r, l, f, n),
         <<l, req[r].ask.op>> \in Stages, l \notin {"find", "create", "collided"} => f \in Flows,
         l = "store" => n # 0
  PROVE  ReqRows'
<1>1. req[r] \in Requests
  BY DEF ReqRows
<1>2. PICK new : new = req'[r]
  OBVIOUS
<1>3. /\ new = [ask |-> req[r].ask, flow |-> f, version |-> n, at |-> l]
      /\ DOMAIN req' = Reqs /\ \A q \in Reqs \ {r} : req'[q] = req[q]
  BY <1>2 DEF Moves
<1>4. new \in Requests
  BY <1>1, <1>3 DEF Requests
<1>5. /\ <<new.at, new.ask.op>> \in Stages
      /\ new.at = "store" => new.version # 0
      /\ new.at \notin {"find", "create", "collided"} => new.flow \in Flows
  BY <1>3
<1>6. ASSUME NEW q \in Reqs, req'[q] # None
      PROVE  /\ req'[q] \in Requests /\ <<req'[q].at, req'[q].ask.op>> \in Stages
             /\ req'[q].at \notin {"find", "create", "collided"} => req'[q].flow \in Flows
             /\ req'[q].at = "store" => req'[q].version # 0
  <2>1. CASE q = r
    BY <1>2, <1>4, <1>5, <2>1
  <2>2. CASE q # r
    BY <1>3, <1>6, <2>2 DEF ReqRows
  <2> QED BY <2>1, <2>2
<1> QED BY <1>3, <1>6 DEF ReqRows

LEMMA Answered ==
  ASSUME ReqRows, NEW r \in Reqs, Done(r) PROVE ReqRows'
  BY DEF ReqRows, Done

LEMMA ServeKeepsReq == ASSUME Typed, NEW r \in Reqs, Serve(r) PROVE ReqRows'
<1>0. ReqRows /\ FlowRows
  BY DEF Typed
<1>1. CASE Done(r) \/ UNCHANGED req
  BY <1>0, <1>1, Answered DEF ReqRows
<1>2. ASSUME Find(r), ~Done(r) PROVE ReqRows'
  <2>1. req[r] # None /\ req[r].ask.op \in {"deploy", "launch"} /\ req[r] \in Requests
    BY <1>0, <1>2, AtLabel DEF Find, At, Stages
  <2>2. CASE \E f \in OfPreset : req' = [req EXCEPT ![r].at = "update", ![r].flow = f]
    <3>1. PICK f \in OfPreset : req' = [req EXCEPT ![r].at = "update", ![r].flow = f]
      BY <2>2
    <3>2. f \in Flows /\ Moves(r, "update", f, req[r].version)
      BY <1>0, <2>1, <3>1 DEF OfPreset, Moves, ReqRows, Requests
    <3>3. "update" \in Labels /\ <<"update", req[r].ask.op>> \in Stages
      BY <2>1 DEF Labels, Stages
    <3> QED BY <1>0, <2>1, <3>2, <3>3, MovesWell DEF Requests
  <2>3. CASE Goto(r, "create")
    <3>1. "create" \in Labels /\ <<"create", req[r].ask.op>> \in Stages
      BY <2>1 DEF Labels, Stages
    <3>2. Moves(r, "create", req[r].flow, req[r].version)
      BY <1>0, <2>1, <2>3, <3>1, GoesTo
    <3> QED BY <1>0, <2>1, <3>1, <3>2, MovesWell DEF Requests
  <2> QED BY <1>2, <2>2, <2>3 DEF Find
<1>3. ASSUME Create(r), ~Done(r) PROVE ReqRows'
  <2>1. req[r] # None /\ req[r].ask.op \in {"deploy", "launch", "create"} /\ req[r] \in Requests
    BY <1>0, <1>3, AtLabel DEF Create, At, Stages
  <2>2. CASE Goto(r, "collided") /\ req[r].ask.op # "create"
    <3>1. "collided" \in Labels /\ <<"collided", req[r].ask.op>> \in Stages
      BY <2>1, <2>2 DEF Labels, Stages
    <3>2. Moves(r, "collided", req[r].flow, req[r].version)
      BY <1>0, <2>1, <2>2, <3>1, GoesTo
    <3> QED BY <1>0, <2>1, <3>1, <3>2, MovesWell DEF Requests
  <2>3. CASE /\ Unused(Flows) # {} /\ req[r].ask.op # "create"
             /\ req' = [req EXCEPT ![r].at = "compile", ![r].flow = Fresh(Flows)]
    <3>1. Fresh(Flows) \in Flows
      BY <2>3, FreshIsUnused
    <3>2. Moves(r, "compile", Fresh(Flows), req[r].version)
      BY <1>0, <2>1, <2>3 DEF Moves, ReqRows, Requests
    <3>3. "compile" \in Labels /\ <<"compile", req[r].ask.op>> \in Stages
      BY <2>1, <2>3 DEF Labels, Stages
    <3> QED BY <1>0, <2>1, <3>1, <3>2, <3>3, MovesWell DEF Requests
  <2> QED BY <1>3, <2>2, <2>3 DEF Create
<1>4. ASSUME Compile(r), ~Done(r) PROVE ReqRows'
  <2>1. req[r] # None /\ req[r] \in Requests /\ req[r].flow \in Flows /\ <<"compile", req[r].ask.op>> \in Stages
    BY <1>0, <1>4, AtLabel DEF Compile, At
  <2>2. flows[req[r].flow] \in Flow
    BY <1>0, <1>4, <2>1 DEF Compile, FlowRows
  <2>3. req' = [req EXCEPT ![r].at = "store", ![r].version = flows[req[r].flow].version]
    BY <1>4 DEF Compile
  <2>4. Moves(r, "store", req[r].flow, flows[req[r].flow].version)
    BY <1>0, <2>1, <2>3 DEF Moves, ReqRows, Requests
  <2>5. flows[req[r].flow].version \in 1..MaxVersion
    BY <2>2 DEF Flow
  <2>6. flows[req[r].flow].version \in 0..MaxVersion /\ flows[req[r].flow].version # 0
    BY <2>5
  <2>7. "store" \in Labels /\ <<"store", req[r].ask.op>> \in Stages
    BY <2>1 DEF Labels, Stages
  <2> QED BY <1>0, <2>1, <2>4, <2>6, <2>7, MovesWell
<1>5. ASSUME NEW k, At(r, k), NEW l, <<k, l>> \in {"update", "store", "unschedule", "lookup", "untrigger"}
               \X {"compile", "unschedule", "launch", "lookup", "attach", "drop"},
             Goto(r, l), <<l, req[r].ask.op>> \in Stages
      PROVE  ReqRows'
  <2>1. req[r] # None /\ req[r] \in Requests /\ req[r].flow \in Flows
    BY <1>0, <1>5, AtLabel DEF At
  <2>2. l \in Labels /\ l # "store"
    BY <1>5 DEF Labels
  <2>3. Moves(r, l, req[r].flow, req[r].version)
    BY <1>0, <1>5, <2>1, <2>2, GoesTo
  <2> QED BY <1>0, <1>5, <2>1, <2>2, <2>3, MovesWell DEF Requests
<1>6. ASSUME Update(r), ~Done(r) PROVE ReqRows'
  <2>1. At(r, "update") /\ Goto(r, "compile") /\ req[r].ask.op # "edit"
    BY <1>6 DEF Update
  <2>2. <<"compile", req[r].ask.op>> \in Stages
    BY ZenonT(60), <1>0, <2>1, AtLabel DEF Stages
  <2> QED BY <1>5, <2>1, <2>2
<1>7. ASSUME Store(r), ~Done(r) PROVE ReqRows'
  <2>1. At(r, "store")
    BY <1>7 DEF Store
  <2>2. req[r].ask.op \in {"deploy", "launch", "compile"}
    <3>1. <<"store", req[r].ask.op>> \in Stages
      BY <1>0, <2>1, AtLabel
    <3> QED BY <3>1 DEF Stages
  <2>3. \/ req[r].ask.op = "deploy" /\ Goto(r, "unschedule")
        \/ req[r].ask.op = "launch" /\ Goto(r, "launch")
    BY <1>7, <2>2 DEF Store
  <2>4. <<"unschedule", "deploy">> \in Stages /\ <<"launch", "launch">> \in Stages
    BY DEF Stages
  <2> QED BY <1>5, <2>1, <2>3, <2>4
<1>8. ASSUME Unschedule(r) \/ Lookup(r) \/ Untrigger(r), ~Done(r) PROVE ReqRows'
  <2>1. \/ At(r, "unschedule") /\ Goto(r, "lookup")
        \/ At(r, "lookup") /\ Goto(r, "attach")
        \/ At(r, "untrigger") /\ Goto(r, "drop")
    BY <1>8 DEF Unschedule, Lookup, Untrigger
  <2>2. PICK op : op = req[r].ask.op
    OBVIOUS
  <2>3. /\ At(r, "unschedule") => <<"unschedule", op>> \in Stages
        /\ At(r, "lookup") => <<"lookup", op>> \in Stages
        /\ At(r, "untrigger") => <<"untrigger", op>> \in Stages
    BY <1>0, <2>2, AtLabel
  <2>4. /\ <<"unschedule", op>> \in Stages => <<"lookup", op>> \in Stages
        /\ <<"lookup", op>> \in Stages => <<"attach", op>> \in Stages
        /\ <<"untrigger", op>> \in Stages => <<"drop", op>> \in Stages
    BY DEF Stages
  <2> QED BY <1>5, <2>1, <2>2, <2>3, <2>4
<1>9. Attach(r) \/ Drop(r) \/ Launch(r) => Done(r) \/ UNCHANGED req
  BY DEF Attach, Drop, Launch
<1> QED BY <1>1, <1>2, <1>3, <1>4, <1>6, <1>7, <1>8, <1>9 DEF Serve

LEMMA ReqRowsStep == ASSUME Typed, [Next]_vars PROVE ReqRows'
<1>0. ReqRows
  BY DEF Typed
<1>1. CASE UNCHANGED req
  BY <1>0, <1>1 DEF ReqRows
<1>2. ASSUME NEW r \in Reqs, Receive(r) PROVE ReqRows'
  <2>1. PICK ask \in Asks :
          req' = [req EXCEPT ![r] = [ask |-> ask, flow |-> ask.flow, version |-> 0, at |-> EntryOf(ask)]]
    BY <1>2 DEF Receive
  <2>2. /\ ask.op \in {"deploy", "launch", "create", "edit", "compile", "attach", "delete"}
        /\ ask.flow \in Flows \cup {None}
        /\ ask.op \in {"edit", "compile", "attach", "delete"} => ask.flow \in Flows
    BY AsksAssumption
  <2>3. /\ ask.op \in {"deploy", "launch"} => EntryOf(ask) = "find"
        /\ ask.op = "create"  => EntryOf(ask) = "create"
        /\ ask.op = "edit"    => EntryOf(ask) = "update"
        /\ ask.op = "compile" => EntryOf(ask) = "compile"
        /\ ask.op = "attach"  => EntryOf(ask) = "lookup"
        /\ ask.op = "delete"  => EntryOf(ask) = "untrigger"
    BY DEF EntryOf
  <2>4. EntryOf(ask) \in Labels /\ <<EntryOf(ask), ask.op>> \in Stages
    BY <2>2, <2>3 DEF Labels, Stages
  <2>5. EntryOf(ask) \notin {"find", "create", "collided"} => ask.flow \in Flows
    BY <2>2, <2>3
  <2>6. EntryOf(ask) # "store" /\ 0 \in 0..MaxVersion
    BY <2>2, <2>3
  <2>7. [ask |-> ask, flow |-> ask.flow, version |-> 0, at |-> EntryOf(ask)] \in Requests
    BY <2>2, <2>4, <2>6 DEF Requests
  <2> QED BY <1>0, <2>1, <2>4, <2>5, <2>6, <2>7 DEF ReqRows
<1>3. ASSUME NEW r \in Reqs, Fail(r) PROVE ReqRows'
  BY <1>0, <1>3, Answered DEF Fail
<1>4. ASSUME NEW r \in Reqs, Serve(r) PROVE ReqRows'
  BY <1>4, ServeKeepsReq
<1>5. ASSUME NEW x \in Producers, Step(x) PROVE ReqRows'
  <2>1. UNCHANGED req \/ (x \in Reqs /\ Done(x))
    BY <1>5 DEF Step, ReadGraph, ReadVars, Insert, Stops, Done
  <2> QED BY <1>0, <1>1, <2>1, Answered
<1> QED BY <1>1, <1>2, <1>3, <1>4, <1>5, WhoWritesRequests

LEMMA TypedStep == ASSUME Typed, [Next]_vars PROVE Typed'
  BY FlowRowsStep, TriggerRowsStep, JobRowsStep, FireRowsStep, CountsStep, ReqRowsStep, InboxRowsStep
  DEF Typed

LEMMA TypedInit == ASSUME Init PROVE Typed
<1>1. PICK s \in Starts :
        /\ flows = s.flows /\ irs = s.irs /\ triggers = s.triggers
        /\ left = [b \in {"asks", "dues", "events", "faults"} |-> s[b]]
  BY DEF Init
<1>2. FlowRows /\ TriggerRows
  BY <1>1, StartsAssumption DEF FlowRows, TriggerRows, TriggerDefinition
<1>3. JobRows /\ FireRows /\ ReqRows /\ InboxRows
  BY DEF Init, JobRows, FireRows, ReqRows, InboxRows
<1>4. Counts
  <2>1. s["asks"] \in Nat /\ s["dues"] \in Nat /\ s["faults"] \in Nat /\ s["events"] \in 0..MaxEvents
    BY StartsAssumption
  <2>2. left \in [{"asks", "dues", "events", "faults"} -> Nat] /\ left["events"] <= MaxEvents
    BY <1>1, <2>1
  <2> QED BY <2>2 DEF Counts, Init, Times
<1> QED BY <1>2, <1>3, <1>4 DEF Typed

LEMMA AlwaysTyped == Spec => []Typed
  BY TypedInit, TypedStep, PTL DEF Spec

-----------------------------------------------------------------------------
(* A tick that is due is not lost to a resync: of the writers of the job   *)
(* store a sync after the boot leaves a job that is there alone, and a     *)
(* fire that is neither late nor over another's leaves its run behind.     *)
KeepsTicks == \A t \in Trigs :
  (jobs[t] # None /\ jobs[t].due # None /\ jobs'[t] # None /\ jobs'[t].due = None)
    => \/ fires'[t] # None \/ clock - jobs[t].due > Grace \/ worker = "booting"

LEMMA TicksStep == ASSUME Typed, [Next]_vars PROVE KeepsTicks
<1>0. JobRows /\ FireRows /\ Counts
  BY DEF Typed
<1> SUFFICES ASSUME NEW t \in Trigs, jobs[t] # None, jobs[t].due # None, jobs'[t] # None,
                    jobs'[t].due = None
             PROVE  fires'[t] # None \/ clock - jobs[t].due > Grace \/ worker = "booting"
  BY DEF KeepsTicks
<1>1. CASE UNCHANGED <<jobs, snapshot>> \/ SyncReads \/ SyncFails \/ Crash
  BY <1>1 DEF SyncReads, SyncFails, Crash
<1>2. CASE SyncWrites
  BY <1>2 DEF SyncWrites
<1>3. ASSUME NEW u \in Trigs, ComesDue(u) PROVE FALSE
  BY <1>0, <1>3 DEF ComesDue, JobRows
<1>4. ASSUME NEW u \in Trigs, Fire(u), ~(clock - jobs[t].due > Grace) PROVE fires'[t] # None
  <2>1. u = t
    BY <1>0, <1>4 DEF Fire, JobRows
  <2>2. CASE fires[t] # None
    BY <1>4, <2>1, <2>2 DEF Fire
  <2>3. CASE fires[t] = None
    <3>1. Begin(t, jobs[t].flow, <<"at", clock>>)
      BY <1>4, <2>1, <2>3 DEF Fire
    <3>2. jobs[t].flow \in Flows /\ t \in Producers
      BY <1>0 DEF JobRows, Job, Producers
    <3>3. clock \in 0..(MaxClock + MaxEvents)
      BY <1>0 DEF Counts, Times
    <3>4. <<"at", clock>> \in Keys
      BY <3>3 DEF Keys
    <3> QED BY <1>0, <3>1, <3>2, <3>4, Begins
  <2> QED BY <2>2, <2>3
<1> QED BY <1>1, <1>2, <1>3, <1>4, WhoWritesJobs

(* The resync of a running worker loses no tick                            *)
(* (sync_jobs_from_triggers, rewrite_existing).                            *)
THEOREM TicksAreKept == Spec => ResyncLosesNoTick
<1>1. Typed /\ [Next]_vars => [KeepsTicks]_vars
  BY TicksStep
<1> QED BY <1>1, AlwaysTyped, PTL DEF Spec, ResyncLosesNoTick, KeepsTicks

-----------------------------------------------------------------------------
(* Whatever an id names is in use; there is one flow of the preset, one    *)
(* schedule of a flow no other request was at, and none at all while a     *)
(* deployment is between the two transactions of replace_schedule.         *)
Known ==
  /\ \A f \in Flows : flows[f] # None => f \in born
  /\ \A t \in Trigs : triggers[t] # None => triggers[t].flow \in born
  /\ \A r \in Reqs : At(r, "attach") => req[r].flow \in born
OneOfPreset == \A f, g \in OfPreset : f = g
OneSchedule == \A f \in OfPreset \ overlapped : \A t, u \in Schedules(f) : t = u
Cleared == \A r \in Reqs :
  (At(r, "lookup") \/ At(r, "attach")) /\ req[r].ask.op = "deploy" /\ req[r].flow \notin overlapped
    => Schedules(req[r].flow) = {}

Automations == Known /\ OneOfPreset /\ OneSchedule /\ Cleared

(* An action of a request leaves the others alone.                         *)
LEMMA OnlyItself ==
  ASSUME ReqRows, NEW q \in Reqs, Receive(q) \/ Fail(q) \/ Serve(q), NEW r \in Reqs, r # q
  PROVE  req'[r] = req[r]
<1>1. ASSUME NEW l, Goto(q, l) PROVE req'[r] = req[r]
  BY <1>1 DEF Goto, ReqRows
<1>2. ASSUME Done(q) \/ UNCHANGED req PROVE req'[r] = req[r]
  BY <1>2 DEF Done, ReqRows
<1>3. CASE Receive(q) \/ Fail(q)
  BY <1>2, <1>3 DEF Receive, Fail, ReqRows
<1>4. CASE Find(q) \/ Create(q) \/ Compile(q)
  <2>1. \/ \E f : req' = [req EXCEPT ![q].at = "update", ![q].flow = f]
        \/ \E f : req' = [req EXCEPT ![q].at = "compile", ![q].flow = f]
        \/ \E n : req' = [req EXCEPT ![q].at = "store", ![q].version = n]
        \/ \E k \in {"create", "collided"} : Goto(q, k)
        \/ Done(q)
    BY <1>4 DEF Find, Create, Compile
  <2> QED BY <1>1, <1>2, <2>1 DEF ReqRows
<1>5. CASE Store(q)
  <2>1. <<"store", req[q].ask.op>> \in Stages
    BY <1>5, AtLabel DEF Store
  <2>2. req[q].ask.op \in {"deploy", "launch", "compile"}
    BY <2>1 DEF Stages
  <2> QED BY <1>1, <1>2, <1>5, <2>2 DEF Store
<1>6. CASE Update(q) \/ Unschedule(q) \/ Lookup(q) \/ Untrigger(q) \/ Attach(q) \/ Drop(q) \/ Launch(q)
  BY <1>1, <1>2, <1>6 DEF Update, Unschedule, Lookup, Untrigger, Attach, Drop, Launch
<1> QED BY <1>3, <1>4, <1>5, <1>6 DEF Serve

(* Who comes to "lookup" and to "attach", and who stays there.             *)
LEMMA WhoArrives ==
  ASSUME Typed, [Next]_vars, NEW r \in Reqs, NEW l \in {"lookup", "attach"}, At(r, l)'
  PROVE  \/ req'[r] = req[r]
         \/ Receive(r) /\ req'[r].ask.op = "attach" /\ l = "lookup"
         \/ Unschedule(r) /\ l = "lookup" /\ req'[r].ask = req[r].ask /\ req'[r].flow = req[r].flow
         \/ Lookup(r) /\ l = "attach" /\ req'[r].ask = req[r].ask /\ req'[r].flow = req[r].flow
              /\ flows[req[r].flow] # None
<1>0. ReqRows /\ FlowRows
  BY DEF Typed
<1>1. UNCHANGED req => req'[r] = req[r]
  OBVIOUS
<1>2. ASSUME Receive(r) PROVE l = "lookup" /\ req'[r].ask.op = "attach"
  <2>1. PICK ask \in Asks :
          req' = [req EXCEPT ![r] = [ask |-> ask, flow |-> ask.flow, version |-> 0, at |-> EntryOf(ask)]]
    BY <1>2 DEF Receive
  <2>2. req'[r].ask = ask /\ req'[r].at = EntryOf(ask)
    BY <1>0, <2>1 DEF ReqRows
  <2>3. ask.op \in {"deploy", "launch", "create", "edit", "compile", "attach", "delete"}
    BY AsksAssumption
  <2>4. EntryOf(ask) \in {"lookup", "attach"} => EntryOf(ask) = "lookup" /\ ask.op = "attach"
    BY <2>3 DEF EntryOf
  <2> QED BY <2>2, <2>4 DEF At
<1>3. Done(r) => FALSE
  BY <1>0 DEF Done, ReqRows, At
<1>4. ASSUME Serve(r), req[r] # None
      PROVE  \/ req'[r] = req[r]
             \/ Unschedule(r) /\ l = "lookup" /\ req'[r].ask = req[r].ask /\ req'[r].flow = req[r].flow
             \/ Lookup(r) /\ l = "attach" /\ req'[r].ask = req[r].ask /\ req'[r].flow = req[r].flow
                  /\ flows[req[r].flow] # None
  <2>1. req[r] \in Requests
    BY <1>0, <1>4 DEF ReqRows
  <2>2. ASSUME NEW k, Goto(r, k)
        PROVE  req'[r].at = k /\ req'[r].ask = req[r].ask /\ req'[r].flow = req[r].flow /\ l = k
    BY <1>0, <2>1, <2>2 DEF Goto, ReqRows, Requests, At
  <2>3. CASE Find(r) \/ Create(r) \/ Compile(r)
    <3>1. \/ \E f : req' = [req EXCEPT ![r].at = "update", ![r].flow = f]
          \/ \E f : req' = [req EXCEPT ![r].at = "compile", ![r].flow = f]
          \/ \E n : req' = [req EXCEPT ![r].at = "store", ![r].version = n]
          \/ \E k \in {"create", "collided"} : Goto(r, k)
      BY <1>3, <2>3 DEF Find, Create, Compile
    <3>2. ASSUME NEW f, NEW k, req' = [req EXCEPT ![r].at = k, ![r].flow = f] PROVE k = l
      BY <1>0, <2>1, <3>2 DEF ReqRows, Requests, At
    <3>3. ASSUME NEW n, NEW k, req' = [req EXCEPT ![r].at = k, ![r].version = n] PROVE k = l
      BY <1>0, <2>1, <3>3 DEF ReqRows, Requests, At
    <3> QED BY <2>2, <3>1, <3>2, <3>3
  <2>4. CASE Update(r) \/ Untrigger(r) \/ Attach(r) \/ Drop(r) \/ Launch(r)
    <3>1. UNCHANGED req \/ Goto(r, "compile") \/ Goto(r, "drop")
      BY <1>3, <2>4 DEF Update, Untrigger, Attach, Drop, Launch
    <3> QED BY <1>1, <2>2, <3>1
  <2>5. CASE Store(r)
    <3>1. <<"store", req[r].ask.op>> \in Stages
      BY <1>0, <2>5, AtLabel DEF Store
    <3>2. req[r].ask.op \in {"deploy", "launch", "compile"}
      BY <3>1 DEF Stages
    <3>3. Goto(r, "unschedule") \/ Goto(r, "launch")
      BY <1>3, <2>5, <3>2 DEF Store
    <3> QED BY <2>2, <3>3
  <2>6. CASE Unschedule(r)
    BY <2>2, <2>6 DEF Unschedule
  <2>7. CASE Lookup(r)
    <3>1. Goto(r, "attach") /\ flows[req[r].flow] # None
      BY <1>3, <2>7 DEF Lookup
    <3> QED BY <2>2, <2>7, <3>1
  <2> QED BY <1>4, <2>3, <2>4, <2>5, <2>6, <2>7 DEF Serve
<1>5. ASSUME NEW q \in Reqs, q # r, Receive(q) \/ Fail(q) \/ Serve(q) PROVE req'[r] = req[r]
  BY <1>0, <1>5, OnlyItself
<1>6. ASSUME NEW x \in Producers, Step(x) PROVE req'[r] = req[r]
  <2>1. UNCHANGED req \/ (x \in Reqs /\ Done(x))
    BY <1>6 DEF Step, ReadGraph, ReadVars, Insert, Stops, Done
  <2> QED BY <1>0, <1>3, <2>1 DEF Done, ReqRows
<1>7. Fail(r) => FALSE
  BY <1>3 DEF Fail
<1>8. Serve(r) => req[r] # None
  BY DEF Serve, Find, Create, Update, Compile, Store, Unschedule, Lookup, Attach, Untrigger, Drop, Launch, At
<1> QED BY <1>1, <1>2, <1>4, <1>5, <1>6, <1>7, <1>8, WhoWritesRequests

LEMMA KnownStep == ASSUME Typed, Known, [Next]_vars PROVE Known'
<1>0. FlowRows /\ TriggerRows /\ ReqRows
  BY DEF Typed
<1>1. born \subseteq born'
  BY WhoWritesTables DEF tables, Create, Update, Store, Drop, Unschedule, Attach, Untrigger
<1>2. ASSUME NEW f \in Flows, flows'[f] # None PROVE f \in born'
  <2>1. CASE flows[f] # None
    BY <1>1, <2>1 DEF Known
  <2>2. CASE flows[f] = None
    <3>1. flows' # flows
      BY <1>2, <2>2
    <3>2. PICK r \in Reqs : Create(r) \/ Update(r)
      BY <3>1, WhoWritesTables, <1>0, <1>2, <2>2
      DEF tables, Store, Drop, Unschedule, Attach, Untrigger, FlowRows
    <3>3. CASE Create(r)
      BY <1>0, <1>2, <2>2, <3>1, <3>3 DEF Create, FlowRows
    <3>4. CASE Update(r)
      BY <1>0, <1>2, <2>2, <3>1, <3>4 DEF Update, FlowRows
    <3> QED BY <3>2, <3>3, <3>4
  <2> QED BY <2>1, <2>2
<1>3. ASSUME NEW t \in Trigs, triggers'[t] # None PROVE triggers'[t].flow \in born'
  <2>1. CASE triggers'[t] = triggers[t]
    BY <1>1, <1>3, <2>1 DEF Known
  <2>2. CASE triggers'[t] # triggers[t]
    <3>1. PICK r \in Reqs : Attach(r)
      BY <1>0, <1>3, <2>2, WhoWritesTables
      DEF tables, Create, Update, Store, Drop, Unschedule, Untrigger, TriggerRows
    <3>2. req[r].flow \in born
      BY <3>1 DEF Known, Attach
    <3>3. triggers'[t].flow = req[r].flow
      BY <1>0, <2>2, <3>1 DEF Attach, TriggerRows
    <3> QED BY <1>1, <3>2, <3>3
  <2> QED BY <2>1, <2>2
<1>4. ASSUME NEW r \in Reqs, At(r, "attach")' PROVE req'[r].flow \in born'
  <2>1. CASE req'[r] = req[r]
    BY <1>1, <1>4, <2>1 DEF Known, At
  <2>2. CASE req'[r].flow = req[r].flow /\ Lookup(r) /\ flows[req[r].flow] # None
    <3>1. req[r].flow \in Flows
      BY <1>0, <2>2, AtLabel DEF Lookup
    <3> QED BY <1>1, <2>2, <3>1 DEF Known
  <2> QED BY <1>4, <2>1, <2>2, WhoArrives
<1> QED BY <1>2, <1>3, <1>4 DEF Known

(* What becomes of the flows of the preset and of a flow's schedules.      *)
LEMMA PresetsChange ==
  ASSUME Typed, [Next]_vars
  PROVE  \/ OfPreset' \subseteq OfPreset
         \/ /\ OfPreset = {} /\ UNCHANGED triggers /\ overlapped' = overlapped
            /\ \E f \in Flows \ born : OfPreset' \subseteq {f}
<1>0. FlowRows /\ ReqRows
  BY DEF Typed
<1>1. ASSUME NEW r \in Reqs, Create(r), ~UNCHANGED flows
      PROVE  \/ OfPreset' \subseteq OfPreset
             \/ /\ OfPreset = {} /\ UNCHANGED triggers /\ overlapped' = overlapped
                /\ \E f \in Flows \ born : OfPreset' \subseteq {f}
  <2>1. PICK preset \in BOOLEAN : preset = (req[r].ask.op # "create")
    OBVIOUS
  <2>2. PICK f : f = Fresh(Flows)
    OBVIOUS
  <2>3. /\ Unused(Flows) # {}
        /\ preset => OfPreset = {}
        /\ flows' = [flows EXCEPT ![f] = [version |-> 1, preset |-> preset, needs |-> req[r].ask.needs]]
        /\ UNCHANGED triggers /\ overlapped' = overlapped
    BY <1>1, <2>1, <2>2 DEF Create
  <2>4. f \in Flows \ born
    BY <2>2, <2>3, FreshIsUnused
  <2>5. DOMAIN flows = Flows
    BY <1>0 DEF FlowRows
  <2>6. /\ \A g \in Flows \ {f} : flows'[g] = flows[g]
        /\ flows'[f] = [version |-> 1, preset |-> preset, needs |-> req[r].ask.needs]
    BY <2>3, <2>4, <2>5
  <2>7. flows'[f].preset = preset
    BY <2>6
  <2>8. CASE preset
    <3>1. OfPreset' \subseteq {f}
      BY <2>3, <2>4, <2>6, <2>8 DEF OfPreset
    <3> QED BY <2>3, <2>4, <2>8, <3>1
  <2>9. CASE ~preset
    BY <2>6, <2>7, <2>9 DEF OfPreset
  <2> QED BY <2>8, <2>9
<1>2. ASSUME NEW r \in Reqs, Update(r), ~UNCHANGED flows PROVE OfPreset' \subseteq OfPreset
  <2>0. At(r, "update")
    BY <1>2 DEF Update
  <2>1. req[r].flow \in Flows
    BY <1>0, <2>0, AtLabel
  <2>2. PICK row : row = flows[req[r].flow]
    OBVIOUS
  <2>3. row \in Flow /\ \E n : flows' = [flows EXCEPT ![req[r].flow] = [row EXCEPT !.version = n, !.needs = req[r].ask.needs]]
    BY <1>0, <1>2, <2>1, <2>2 DEF Update, FlowRows
  <2>4. flows[req[r].flow] # None
    BY <1>2 DEF Update
  <2>5. flows'[req[r].flow].preset = row.preset
    BY <1>0, <2>1, <2>3 DEF FlowRows, Flow
  <2>6. \A g \in Flows \ {req[r].flow} : flows'[g] = flows[g]
    BY <1>0, <2>3 DEF FlowRows
  <2> QED BY <2>1, <2>2, <2>4, <2>5, <2>6 DEF OfPreset
<1>3. ASSUME NEW r \in Reqs, Drop(r) PROVE OfPreset' \subseteq OfPreset
  BY <1>0, <1>3 DEF Drop, OfPreset, FlowRows
<1>4. UNCHANGED flows => OfPreset' \subseteq OfPreset
  BY DEF OfPreset
<1>5. \/ UNCHANGED flows \/ \E r \in Reqs : (Create(r) \/ Update(r) \/ Drop(r))
  BY WhoWritesTables DEF tables, Store, Unschedule, Attach, Untrigger
<1> QED BY <1>1, <1>2, <1>3, <1>4, <1>5

LEMMA SchedulesChange ==
  ASSUME Typed, [Next]_vars, NEW f \in Flows
  PROVE  \/ Schedules(f)' \subseteq Schedules(f) /\ (f \in overlapped => f \in overlapped')
         \/ Schedules(f)' = {}
         \/ \E r \in Reqs : Attach(r) /\ req[r].flow = f
<1>0. TriggerRows /\ ReqRows
  BY DEF Typed
<1>1. CASE UNCHANGED <<triggers, overlapped>>
  BY <1>1 DEF Schedules
<1>2. ASSUME NEW r \in Reqs, Unschedule(r)
      PROVE  \/ Schedules(f)' \subseteq Schedules(f) /\ (f \in overlapped => f \in overlapped')
             \/ Schedules(f)' = {}
  <2>2. f # req[r].flow => Schedules(f)' \subseteq Schedules(f) /\ (f \in overlapped => f \in overlapped')
    BY <1>2 DEF Unschedule, Schedules
  <2>3. CASE f = req[r].flow
    BY <1>2, <2>3 DEF Unschedule, Schedules
  <2> QED BY <2>2, <2>3
<1>3. ASSUME NEW r \in Reqs, Untrigger(r)
      PROVE  Schedules(f)' \subseteq Schedules(f) /\ (f \in overlapped => f \in overlapped')
  BY <1>3 DEF Untrigger, Schedules
<1>4. ASSUME NEW r \in Reqs, Attach(r), req[r].flow # f
      PROVE  Schedules(f)' \subseteq Schedules(f) /\ (f \in overlapped => f \in overlapped')
  BY <1>0, <1>4 DEF Attach, Schedules, TriggerRows
<1>5. \/ UNCHANGED <<triggers, overlapped>> \/ \E r \in Reqs : (Unschedule(r) \/ Untrigger(r) \/ Attach(r))
  BY WhoWritesTables DEF tables, Create, Update, Store, Drop
<1> QED BY <1>1, <1>2, <1>3, <1>4, <1>5

LEMMA ClearedStep == ASSUME Typed, Known, Cleared, [Next]_vars PROVE Cleared'
<1> SUFFICES ASSUME NEW r \in Reqs, NEW l \in {"lookup", "attach"}, At(r, l)',
                    req'[r].ask.op = "deploy", req'[r].flow \notin overlapped'
             PROVE  \A t \in Trigs : ~ (/\ triggers'[t] # None /\ triggers'[t].flow = req'[r].flow
                                        /\ triggers'[t].kind = "schedule")
  BY DEF Cleared, Schedules, At
<1>0. ReqRows /\ ReqRows'
  BY TypedStep DEF Typed
<1>1. PICK f : f = req'[r].flow
  OBVIOUS
<1>2. req'[r] # None /\ req'[r].at = l
  BY DEF At
<1>3. f \in Flows /\ f \notin overlapped'
  BY <1>0, <1>1, <1>2 DEF ReqRows
<1>4. CASE Unschedule(r) /\ req[r].flow = f
  BY <1>1, <1>4 DEF Unschedule, Schedules
<1>5. CASE Lookup(r) /\ req'[r].ask = req[r].ask /\ req[r].flow = f
  <2>1. UNCHANGED <<triggers, overlapped>> /\ At(r, "lookup")
    BY <1>5 DEF Lookup, tables
  <2>2. Schedules(f) = {}
    BY <1>3, <1>5, <2>1 DEF Cleared
  <2> QED BY <1>1, <2>1, <2>2 DEF Schedules
<1>6. CASE req'[r] = req[r]
  <2>1. At(r, l) /\ req[r].ask.op = "deploy" /\ req[r].flow = f
    BY <1>1, <1>2, <1>6 DEF At
  <2>2. f \notin overlapped => Schedules(f) = {}
    BY <2>1 DEF Cleared
  <2>3. ASSUME NEW q \in Reqs, Attach(q), req[q].flow = f PROVE FALSE
    <3>1. q # r
      BY <1>0, <1>2, <1>6, <2>3 DEF Attach, Done, ReqRows
    <3>2. req[r] # None /\ req[r].at \in {"lookup", "attach"}
      BY <2>1 DEF At
    <3>3. f \in overlapped'
      BY <2>1, <2>3, <3>1, <3>2 DEF Attach
    <3> QED BY <1>3, <3>3
  <2>4. Schedules(f)' = {}
    BY <1>3, <2>2, <2>3, SchedulesChange
  <2> QED BY <1>1, <2>4 DEF Schedules
<1> QED BY <1>1, <1>4, <1>5, <1>6, WhoArrives

LEMMA OneScheduleStep == ASSUME Typed, Automations, [Next]_vars PROVE OneSchedule'
<1> SUFFICES ASSUME NEW f \in Flows, f \in OfPreset', f \notin overlapped',
                    NEW t \in Schedules(f)', NEW u \in Schedules(f)'
             PROVE  t = u
  BY DEF OneSchedule, OfPreset
<1>0. ReqRows /\ TriggerRows
  BY DEF Typed
<1>1. ASSUME NEW r \in Reqs, Attach(r), req[r].flow = f PROVE t = u
  <2>1. /\ req[r].ask.op # "attach" /\ overlapped' = overlapped /\ At(r, "attach")
        /\ triggers' = [triggers EXCEPT ![Fresh(Trigs)] =
              [flow |-> f, kind |-> BodyOf(req[r].ask).kind, cron |-> BodyOf(req[r].ask).cron,
               event |-> BodyOf(req[r].ask).event]]
    BY <1>1 DEF Attach
  <2>2. <<"attach", req[r].ask.op>> \in Stages
    BY <1>0, <2>1, AtLabel
  <2>3. req[r].ask.op = "deploy"
    BY <2>1, <2>2 DEF Stages
  <2>4. Schedules(f) = {}
    BY <1>1, <2>1, <2>3 DEF Automations, Cleared
  <2>5. Schedules(f)' \subseteq {Fresh(Trigs)}
    BY <1>0, <2>1, <2>4 DEF Schedules, TriggerRows
  <2> QED BY <2>5
<1>2. CASE f \in OfPreset
  <2>1. f \notin overlapped => \A v, w \in Schedules(f) : v = w
    BY <1>2 DEF Automations, OneSchedule
  <2> QED BY <1>1, <2>1, SchedulesChange
<1>3. CASE f \notin OfPreset
  <2>1. f \notin born /\ UNCHANGED triggers
    BY <1>3, PresetsChange
  <2>2. Schedules(f)' = {}
    BY <2>1 DEF Automations, Known, Schedules
  <2> QED BY <2>2
<1> QED BY <1>2, <1>3

LEMMA AutomationsStep == ASSUME Typed, Automations, [Next]_vars PROVE Automations'
<1>1. OneOfPreset'
  BY PresetsChange DEF Automations, OneOfPreset
<1> QED BY <1>1, KnownStep, ClearedStep, OneScheduleStep DEF Automations

LEMMA AutomationsInit == ASSUME Init PROVE Automations
<1>1. PICK s \in Starts :
        /\ flows = s.flows /\ triggers = s.triggers
        /\ born = {f \in Flows : s.flows[f] # None} \cup {t \in Trigs : s.triggers[t] # None}
                 \cup {f \in Flows : \E t \in Trigs : s.triggers[t] # None /\ s.triggers[t].flow = f}
  BY DEF Init
<1>2. TriggerRows /\ \A r \in Reqs : req[r] = None
  BY TypedInit DEF Typed, Init
<1>3. Known /\ Cleared
  BY <1>1, <1>2 DEF Known, Cleared, TriggerRows, At
<1>4. \A f, g \in OfPreset : f = g /\ \A t, u \in Schedules(f) : t = u
  BY <1>1, StartsAssumption DEF OfPreset, Schedules
<1> QED BY <1>3, <1>4 DEF Automations, OneOfPreset, OneSchedule

LEMMA AtMostOne == ASSUME NEW S, \A x, y \in S : x = y PROVE Cardinality(S) <= 1
<1>1. CASE S = {}
  BY <1>1, FS_EmptySet
<1>2. CASE S # {}
  <2>1. PICK x : S = {x}
    BY <1>2
  <2>2. Cardinality({x}) = 1
    BY FS_Singleton
  <2> QED BY <2>1, <2>2
<1> QED BY <1>1, <1>2

(* However requests, retries and failures interleave: one flow of the      *)
(* preset, and one schedule of it unless another request overlapped        *)
(* (FlowService.deploy_from_preset, TriggerService.replace_schedule).      *)
THEOREM AutomationsAreOne == Spec => []OneAutomationPerPreset
<1>1. Automations => OneAutomationPerPreset
  BY AtMostOne DEF Automations, OneOfPreset, OneSchedule, OneAutomationPerPreset
<1> QED BY <1>1, AlwaysTyped, AutomationsInit, AutomationsStep, PTL DEF Spec

-----------------------------------------------------------------------------
(* The event at hand: every flow that had a trigger on it when it was read *)
(* has its run, or raised, or is still among the triggers to come, or is   *)
(* the one whose run is being put together under the event's key.          *)
Reached(f, s) == <<f, s>> \in missed \/ \E run \in runs : run.flow = f /\ run.key = <<"seq", s>>
InHand == fires[Router] # None => fires[Router].key = <<"seq", cursor + 1>>
Underway == inbox # None => \A f \in matched[cursor + 1] :
  \/ Reached(f, cursor + 1) \/ \E hit \in inbox : hit[2] = f
  \/ fires[Router] # None /\ fires[Router].flow = f
Delivered == InHand /\ Underway /\ HandledEventsReachedEveryFlow

LEMMA DeliveredStep == ASSUME Typed, Delivered, [Next]_vars PROVE Delivered'
<1>0. FireRows /\ Counts /\ InboxRows
  BY DEF Typed
<1>1. InHand /\ Underway /\ \A s \in 1..cursor : \A f \in matched[s] : Reached(f, s)
  BY DEF Delivered, HandledEventsReachedEveryFlow, Reached
<1>2. Router \in Producers /\ Router \notin Reqs /\ Router \notin Trigs
  BY DEF Producers
<1>3. SUFFICES InHand' /\ Underway' /\ \A s \in 1..cursor' : \A f \in matched'[s] : Reached(f, s)'
  BY DEF Delivered, HandledEventsReachedEveryFlow, Reached
<1>4. ASSUME runs \subseteq runs', missed \subseteq missed', NEW f, NEW s, Reached(f, s) PROVE Reached(f, s)'
  BY <1>4 DEF Reached
<1>5. ASSUME UNCHANGED <<inbox, cursor, matched>>, runs \subseteq runs', missed \subseteq missed',
             fires'[Router] = fires[Router]
      PROVE  InHand' /\ Underway' /\ \A s \in 1..cursor' : \A f \in matched'[s] : Reached(f, s)'
  BY <1>1, <1>4, <1>5 DEF InHand, Underway
<1>6. ASSUME UNCHANGED <<cursor, matched, runs, missed>>, inbox' = None, fires'[Router] = None
      PROVE  InHand' /\ Underway' /\ \A s \in 1..cursor' : \A f \in matched'[s] : Reached(f, s)'
  BY <1>1, <1>4, <1>6 DEF InHand, Underway
<1>7. CASE Crash
  <2>1. fires'[Router] = None
    BY <1>2, <1>7 DEF Crash
  <2> QED BY <1>6, <1>7, <2>1 DEF Crash
<1>8. CASE Handle
  <2>1. /\ inbox' = {<<t, triggers[t].flow>> : t \in {u \in Trigs : triggers[u] # None /\ triggers[u].kind = "event"}}
        /\ matched' = [matched EXCEPT ![cursor + 1] = {hit[2] : hit \in inbox'}]
        /\ UNCHANGED <<fires, cursor, runs, missed>> /\ cursor < emitted
    BY <1>8 DEF Handle
  <2>2. cursor \in Nat /\ cursor + 1 \in 1..MaxEvents /\ DOMAIN matched = 1..MaxEvents
    BY <1>0, <2>1 DEF Counts
  <2>3. matched'[cursor + 1] = {hit[2] : hit \in inbox'}
    BY <2>1, <2>2
  <2>4. \A s \in 1..cursor : matched'[s] = matched[s]
    BY <2>1, <2>2
  <2>5. InHand'
    BY <1>1, <2>1 DEF InHand
  <2>6. Underway'
    BY <2>1, <2>3 DEF Underway
  <2> QED BY <1>1, <1>4, <2>1, <2>4, <2>5, <2>6
<1>9. CASE Route
  <2>1. PICK hit \in inbox : inbox' = inbox \ {hit} /\ Begin(Router, hit[2], <<"seq", cursor + 1>>)
    BY <1>9 DEF Route
  <2>2. /\ UNCHANGED <<cursor, matched, runs, missed>> /\ inbox # None
        /\ fires[Router] = None
    BY <1>9 DEF Route
  <2>3. hit[2] \in Flows /\ cursor + 1 \in 0..(MaxClock + MaxEvents)
    BY <1>0, <2>1, <2>2 DEF InboxRows, Counts
  <2>4. <<"seq", cursor + 1>> \in Keys
    BY <2>3 DEF Keys
  <2>5. fires'[Router] # None /\ fires'[Router].flow = hit[2] /\ fires'[Router].key = <<"seq", cursor + 1>>
    BY <1>0, <1>2, <2>1, <2>3, <2>4, Begins
  <2>6. InHand'
    BY <2>2, <2>5 DEF InHand
  <2>7. Underway'
    BY <1>1, <1>4, <2>1, <2>2, <2>5 DEF Underway
  <2> QED BY <1>1, <1>4, <2>2, <2>6, <2>7
<1>10. CASE Acknowledge
  <2>1. inbox = {} /\ fires[Router] = None /\ inbox' = None /\ cursor' = cursor + 1
        /\ UNCHANGED <<fires, matched, runs, missed>>
    BY <1>10 DEF Acknowledge
  <2>2. \A f \in matched[cursor + 1] : Reached(f, cursor + 1)
    BY <1>1, <2>1 DEF Underway
  <2>3. \A s \in 1..cursor' : s \in 1..cursor \/ s = cursor + 1
    BY <1>0, <2>1 DEF Counts
  <2> QED BY <1>1, <1>4, <2>1, <2>2, <2>3 DEF InHand, Underway
<1>11. ASSUME NEW x \in Producers, Step(x)
       PROVE  InHand' /\ Underway' /\ \A s \in 1..cursor' : \A f \in matched'[s] : Reached(f, s)'
  <2>1. UNCHANGED <<inbox, cursor, matched>>
    BY <1>11 DEF Step, ReadGraph, ReadVars, Insert, Stops, events
  <2>2. runs \subseteq runs' /\ missed \subseteq missed'
    BY <1>11 DEF Step, ReadGraph, ReadVars, Insert, Stops, events
  <2>3. CASE x # Router
    <3>1. fires'[Router] = fires[Router]
      BY <1>0, <1>2, <1>11, <2>3 DEF Step, ReadGraph, ReadVars, Insert, Stops, FireRows
    <3> QED BY <1>5, <2>1, <2>2, <3>1
  <2>4. CASE x = Router /\ fires'[Router] = None
    <3>1. PICK fire : fire = fires[Router]
      OBVIOUS
    <3>2. fire # None /\ fire.key = <<"seq", cursor + 1>>
      BY <1>1, <1>11, <2>4, <3>1 DEF Step, ReadGraph, ReadVars, Insert, InHand
    <3>3. Reached(fire.flow, cursor + 1)'
      <4>1. CASE Stops(x)
        BY <2>1, <2>4, <3>1, <4>1 DEF Stops, Reached
      <4>2. CASE Insert(x)
        <5>0. PICK row : row = [flow |-> fire.flow, key |-> fire.key, ir |-> fire.ir, vars |-> fire.vars]
          OBVIOUS
        <5>1. \E run \in runs' : run.flow = fire.flow /\ run.key = fire.key
          <6>1. \/ \E q \in runs' : q.flow = fire.flow /\ q.key = fire.key
                \/ row \in runs'
            BY <2>4, <3>1, <4>2, <5>0 DEF Insert
          <6> QED BY <5>0, <6>1
        <5> QED BY <2>1, <3>2, <5>1 DEF Reached
      <4>3. CASE ~Stops(x) /\ ~Insert(x)
        <5>1. PICK v \in 0..MaxVersion, l \in {"vars", "insert"} :
                 \/ fires' = [fires EXCEPT ![x].at = l, ![x].ir = v]
                 \/ fires' = [fires EXCEPT ![x].at = l, ![x].vars = v]
          BY <1>11, <4>3, StepIs
        <5>2. fires[x] # None
          BY <2>4, <3>1, <3>2
        <5> QED BY <1>0, <2>4, <5>1, <5>2, Continues
      <4> QED BY <4>1, <4>2, <4>3
    <3>4. InHand' /\ Underway'
      BY <1>1, <1>4, <2>1, <2>2, <2>4, <3>1, <3>3 DEF InHand, Underway
    <3> QED BY <1>1, <1>4, <2>1, <2>2, <3>4
  <2>5. CASE x = Router /\ fires'[Router] # None
    <3>1. fires[Router] # None
      BY <1>11, <2>5 DEF Step, ReadGraph, ReadVars, Insert
    <3>2. ~Insert(x) /\ ~Stops(x)
      BY <1>0, <1>2, <2>5 DEF Insert, Stops, FireRows
    <3>3. fires'[Router].flow = fires[Router].flow /\ fires'[Router].key = fires[Router].key
      <4>1. PICK v \in 0..MaxVersion, l \in {"vars", "insert"} :
               \/ fires' = [fires EXCEPT ![x].at = l, ![x].ir = v]
               \/ fires' = [fires EXCEPT ![x].at = l, ![x].vars = v]
        BY <1>11, <3>2, StepIs
      <4> QED BY <1>0, <2>5, <3>1, <4>1, Continues
    <3>4. InHand' /\ Underway'
      BY <1>1, <1>4, <2>1, <2>2, <2>5, <3>1, <3>3 DEF InHand, Underway
    <3> QED BY <1>1, <1>4, <2>1, <2>2, <3>4
  <2> QED BY <2>3, <2>4, <2>5
<1>12. ASSUME NEW r \in Reqs, Receive(r) \/ Fail(r) \/ Serve(r)
       PROVE  InHand' /\ Underway' /\ \A s \in 1..cursor' : \A f \in matched'[s] : Reached(f, s)'
  <2>1. UNCHANGED <<inbox, cursor, matched, runs, missed>>
    BY <1>12 DEF Serve, events, Receive, Fail, Find, Compile, Create, Update, Store, Drop,
       Unschedule, Attach, Untrigger, Lookup, Launch
  <2>2. UNCHANGED fires \/ Fail(r) \/ Launch(r)
    BY <1>12 DEF Serve, Receive, Find, Compile, Create, Update, Store, Drop,
       Unschedule, Attach, Untrigger, Lookup
  <2>3. fires'[Router] = fires[Router]
    BY <1>0, <1>2, <2>2 DEF Fail, Launch, Begin, FireRows
  <2> QED BY <1>5, <2>1, <2>3
<1>13. ASSUME \/ Boot \/ SyncReads \/ SyncWrites \/ SyncFails \/ Pass \/ Emit \/ UNCHANGED vars
              \/ \E t \in Trigs : ComesDue(t) \/ Fire(t)
       PROVE  InHand' /\ Underway' /\ \A s \in 1..cursor' : \A f \in matched'[s] : Reached(f, s)'
  <2>1. UNCHANGED <<inbox, cursor, matched, runs, missed>>
    BY <1>13 DEF vars, events, Boot, SyncReads, SyncWrites, SyncFails, Pass, Emit, ComesDue, Fire
  <2>2. UNCHANGED fires \/ \E t \in Trigs : Fire(t)
    BY <1>13 DEF vars, Boot, SyncReads, SyncWrites, SyncFails, Pass, Emit, ComesDue
  <2>3. fires'[Router] = fires[Router]
    BY <1>0, <1>2, <2>2 DEF Fire, Begin, FireRows
  <2> QED BY <1>5, <2>1, <2>3
<1> QED BY <1>7, <1>8, <1>9, <1>10, <1>11, <1>12, <1>13 DEF Next

(* No event is done with before every flow that had a trigger on it when   *)
(* it was read has its run, save for flows whose own fire raised           *)
(* (FlowEventRouter.handle).                                               *)
THEOREM HandledIsDelivered == Spec => []HandledEventsReachedEveryFlow
<1>1. Init => Delivered
  BY DEF Init, Delivered, InHand, Underway, HandledEventsReachedEveryFlow, Producers
<1>2. Delivered => HandledEventsReachedEveryFlow
  BY DEF Delivered
<1> QED BY <1>1, <1>2, AlwaysTyped, DeliveredStep, PTL DEF Spec
=============================================================================
