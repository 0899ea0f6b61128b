------------------------------- MODULE Schedules -------------------------------
(***************************************************************************)
(* How a flow comes to fire with nobody at the keyboard: the flows and the *)
(* graphs compiled from them, the triggers that requests attach and take   *)
(* away, APScheduler's persistent job store that the worker matches to the *)
(* triggers once a minute, the router of marketplace events, and the runs  *)
(* the three of them insert.  Every repository call is a transaction of    *)
(* its own, so every call is a step; what becomes of a run after its row   *)
(* is there is RunLifecycle's.                                             *)
(***************************************************************************)
EXTENDS Integers, Sequences, FiniteSets

CONSTANTS
  Flows, Trigs,      \* ids, each used once
  Reqs, Asks,        \* concurrent API requests, and what they may ask
  Router, None,
  Starts,            \* the tables at the start and the bounds of what follows
  Grace,             \* misfire_grace_time, in ticks of the clock
  MaxVersion, MaxClock, MaxEvents  \* bounds

VARIABLES
  flows,     \* the flows table
  irs,       \* of each flow: the versions that were compiled, in the order of the rows
  triggers,  \* the triggers table
  jobs,      \* the job store: of each trigger id its flow, and since when it is due
  worker,    \* "down", "booting" until the first sync is done, "up"
  snapshot,  \* the trigger rows a sync has read and not yet applied
  fires,     \* of each producer: the run it is putting together
  inbox,     \* the router: the triggers the event at hand has still to reach
  cursor,    \* events handled, of `emitted`
  runs,      \* the rows of runs, by flow and key
  req,       \* the requests under way
  overlapped, \* history: flows given a schedule beside another, not instead of it
  matched,   \* history: the flows that an event's triggers named when it was read
  missed,    \* history: <<flow, event>> whose fire raised or found no graph
  born,      \* flow and trigger ids in use or used
  clock, emitted,
  left       \* bounds: the asks, dues, events and faults there may still be

tables == <<flows, irs, triggers, born, overlapped>>
events == <<inbox, cursor, matched, missed, emitted>>
sched  == <<jobs, worker, snapshot>>
bounds == <<clock, left>>
vars   == <<tables, sched, fires, events, runs, req, bounds>>

Producers == Trigs \cup Reqs \cup {Router}
Times == 0..MaxClock
Keys == {"at", "seq", "window"} \X (0..(MaxClock + MaxEvents))

(* A trigger is fired by the clock or by an event.  A crontab that does not *)
(* parse can only be a row of before create parsed it.                     *)
TriggerDefinition == [flow : Flows, kind : {"schedule"}, cron : {"good", "bad"}, event : {None}]
                \cup [flow : Flows, kind : {"event"}, cron : {None}, event : {"item_sold"}]
Flow == [version : 1..MaxVersion, preset : BOOLEAN, needs : BOOLEAN]
Firing == [flow : Flows, key : Keys, at : {"ir", "vars", "insert"},
           ir : 0..MaxVersion, vars : 0..MaxVersion]

ASSUME ScheduleAssumption ==
  /\ {Grace, MaxClock, MaxEvents} \subseteq Nat /\ MaxVersion \in Nat \ {0}
  /\ None \notin Flows \cup Trigs \cup Reqs \cup Firing /\ None # {}
  /\ Router \notin Trigs \cup Reqs /\ Trigs \cap Reqs = {}

(* Tables that requests left behind which were answered one by one: one    *)
(* flow per preset, by the unique index, and one schedule of it.           *)
ASSUME StartsAssumption == \A s \in Starts :
  /\ {s.asks, s.dues, s.faults} \subseteq Nat /\ s.events \in 0..MaxEvents
  /\ s.flows \in [Flows -> Flow \cup {None}] /\ s.irs \in [Flows -> Seq(1..MaxVersion)]
  /\ s.triggers \in [Trigs -> TriggerDefinition \cup {None}]
  /\ \A f, g \in {h \in Flows : s.flows[h] # None /\ s.flows[h].preset} :
       /\ f = g
       /\ \A t, u \in {v \in Trigs : s.triggers[v] # None /\ s.triggers[v].flow = f
                                     /\ s.triggers[v].kind = "schedule"} : t = u

(* A deployment finds its flow, a draft has none yet.                      *)
ASSUME AsksAssumption == \A ask \in Asks :
  /\ ask.op \in {"deploy", "launch", "create", "edit", "compile", "attach", "delete"}
  /\ ask.flow \in Flows \cup {None} /\ ask.needs \in BOOLEAN
  /\ ask.op \in {"edit", "compile", "attach", "delete"} => ask.flow \in Flows

TypeOK ==
  /\ flows \in [Flows -> Flow \cup {None}] /\ irs \in [Flows -> Seq(1..MaxVersion)]
  /\ triggers \in [Trigs -> TriggerDefinition \cup {None}]
  /\ jobs \in [Trigs -> [flow : Flows, due : Times \cup {None}] \cup {None}]
  /\ worker \in {"down", "booting", "up"}
  /\ snapshot \in [Trigs -> TriggerDefinition \cup {None}] \cup {None}
  /\ fires \in [Producers -> Firing \cup {None}]
  /\ inbox \in SUBSET (Trigs \X Flows) \cup {None} /\ emitted \in 0..MaxEvents /\ cursor \in 0..emitted
  /\ runs \subseteq [flow : Flows, key : Keys, ir : 0..MaxVersion, vars : 0..MaxVersion]
  /\ \A r, q \in runs : (r.flow = q.flow /\ r.key = q.key) => r = q
  /\ req \in [Reqs -> [ask : Asks, flow : Flows \cup {None}, version : 0..MaxVersion,
                       at : {"find", "create", "collided", "update", "compile", "store",
                             "unschedule", "lookup", "attach", "launch", "untrigger", "drop"}]
                      \cup {None}]
  /\ overlapped \subseteq Flows /\ born \subseteq Flows \cup Trigs
  /\ missed \subseteq Flows \X (1..MaxEvents) /\ matched \in [1..MaxEvents -> SUBSET Flows]
  /\ clock \in Times /\ left \in [{"asks", "dues", "events", "faults"} -> Nat]

Init ==
  /\ \E s \in Starts :
       /\ flows = s.flows /\ irs = s.irs /\ triggers = s.triggers
       /\ left = [b \in {"asks", "dues", "events", "faults"} |-> s[b]]
       /\ born = {f \in Flows : s.flows[f] # None} \cup {t \in Trigs : s.triggers[t] # None}
                 \cup {f \in Flows : \E t \in Trigs : s.triggers[t] # None /\ s.triggers[t].flow = f}
  /\ jobs = [t \in Trigs |-> None] /\ worker = "down" /\ snapshot = None
  /\ fires = [x \in Producers |-> None] /\ inbox = None /\ cursor = 0 /\ emitted = 0
  /\ runs = {} /\ req = [r \in Reqs |-> None] /\ overlapped = {}
  /\ matched = [s \in 1..MaxEvents |-> {}] /\ missed = {}
  /\ clock = 0

-----------------------------------------------------------------------------
At(r, label) == req[r] # None /\ req[r].at = label
Goto(r, label) == req' = [req EXCEPT ![r].at = label]
Done(r) == req' = [req EXCEPT ![r] = None]
(* One of the bounded things happens.                                     *)
Spend(b) == left[b] > 0 /\ left' = [left EXCEPT ![b] = @ - 1]
Schedules(f) == {t \in Trigs : triggers[t] # None /\ triggers[t].flow = f
                               /\ triggers[t].kind = "schedule"}

(* What a body must look like for TriggerService.create to store it.       *)
Accepts(body) ==
  /\ body.kind # "manual"
  /\ body.kind = "schedule" => body.cron # None
  /\ body.cron # "bad"
  /\ body.kind = "event" => body.event # None
  /\ body.cron = None \/ body.event = None

EntryOf(ask) == CASE ask.op \in {"deploy", "launch"} -> "find"
                  [] ask.op = "create"  -> "create"
                  [] ask.op = "edit"    -> "update"
                  [] ask.op = "compile" -> "compile"
                  [] ask.op = "attach"  -> "lookup"
                  [] ask.op = "delete"  -> "untrigger"

(* A route: create, update, compile and delete a flow, attach a trigger,   *)
(* deploy a preset that repeats ("deploy") or that runs once ("launch").   *)
Receive(r) ==
  /\ req[r] = None /\ fires[r] = None /\ Spend("asks")
  /\ \E ask \in Asks :
       req' = [req EXCEPT ![r] = [ask |-> ask, flow |-> ask.flow, version |-> 0,
                                  at |-> EntryOf(ask)]]
  /\ UNCHANGED <<tables, sched, fires, events, runs, clock>>

(* A statement fails, or the API dies: what is committed stays.            *)
Fail(r) ==
  /\ req[r] # None /\ Spend("faults")
  /\ Done(r) /\ fires' = [fires EXCEPT ![r] = None]
  /\ UNCHANGED <<tables, sched, events, runs, clock>>

(* A uuid4: never used before, one of those the bound leaves.              *)
Unused(ids) == ids \ born
Fresh(ids) == CHOOSE i \in Unused(ids) : TRUE
OfPreset == {f \in Flows : flows[f] # None /\ flows[f].preset}

(* deploy_from_preset: the tenant's flow of this preset, if there is one;  *)
(* after a collision there must be one.                                    *)
Find(r) ==
  /\ At(r, "find") \/ At(r, "collided")
  /\ IF OfPreset # {}
     THEN \E f \in OfPreset : req' = [req EXCEPT ![r].at = "update", ![r].flow = f]
     ELSE IF At(r, "find") THEN Goto(r, "create") ELSE Done(r)
  /\ UNCHANGED <<tables, sched, fires, events, runs, bounds>>

(* The unique index on the preset's key refuses a second flow.             *)
Create(r) == LET ask == req[r].ask preset == ask.op # "create" IN
  /\ At(r, "create")
  /\ IF preset /\ OfPreset # {} THEN Goto(r, "collided") /\ UNCHANGED <<flows, born>>
     ELSE LET f == Fresh(Flows) IN
       /\ Unused(Flows) # {}
       /\ flows' = [flows EXCEPT ![f] = [version |-> 1, preset |-> preset, needs |-> ask.needs]]
       /\ born' = born \cup {f}
       /\ IF preset THEN req' = [req EXCEPT ![r].at = "compile", ![r].flow = f] ELSE Done(r)
  /\ UNCHANGED <<irs, triggers, overlapped, sched, fires, events, runs, bounds>>

(* update_spec: the version grows with every publish.                      *)
Update(r) == LET f == req[r].flow IN
  /\ At(r, "update")
  /\ IF flows[f] = None THEN Done(r) /\ UNCHANGED flows                \* EntityNotFound
     ELSE /\ flows[f].version < MaxVersion
          /\ flows' = [flows EXCEPT ![f].version = @ + 1, ![f].needs = req[r].ask.needs]
          /\ IF req[r].ask.op = "edit" THEN Done(r) ELSE Goto(r, "compile")
  /\ UNCHANGED <<irs, triggers, born, overlapped, sched, fires, events, runs, bounds>>

(* compile reads the flow, and stores a graph of the version it read.      *)
Compile(r) == LET f == req[r].flow IN
  /\ At(r, "compile")
  /\ IF flows[f] = None THEN Done(r)
     ELSE req' = [req EXCEPT ![r].at = "store", ![r].version = flows[f].version]
  /\ UNCHANGED <<tables, sched, fires, events, runs, bounds>>
Store(r) == LET f == req[r].flow IN
  /\ At(r, "store")
  /\ irs' = [irs EXCEPT ![f] = Append(@, req[r].version)]
  /\ CASE req[r].ask.op = "compile" -> Done(r)
       [] req[r].ask.op = "deploy"  -> Goto(r, "unschedule")
       [] req[r].ask.op = "launch"  -> Goto(r, "launch")
  /\ UNCHANGED <<flows, triggers, born, overlapped, sched, fires, events, runs, bounds>>

(* get_latest_for_flow orders by version.                                  *)
Compiled(f) == {irs[f][i] : i \in DOMAIN irs[f]}
LatestIr(f) == {v \in Compiled(f) : \A w \in Compiled(f) : w <= v}

(* Mutant of Unschedule: a re-saved schedule is appended.                  *)
UnscheduleNone(r) == /\ At(r, "unschedule") /\ Goto(r, "lookup")
                     /\ UNCHANGED <<tables, sched, fires, events, runs, bounds>>

(* replace_schedule: the old schedules go in a transaction of their own.   *)
Unschedule(r) == LET f == req[r].flow IN
  /\ At(r, "unschedule") /\ Goto(r, "lookup")
  /\ triggers' = [t \in Trigs |-> IF t \in Schedules(f) THEN None ELSE triggers[t]]
  /\ overlapped' = overlapped \ {f}
  /\ UNCHANGED <<flows, irs, born, sched, fires, events, runs, bounds>>

BodyOf(ask) == IF ask.op = "deploy" THEN [kind |-> "schedule", cron |-> "good", event |-> None]
               ELSE ask.body

(* TriggerService.create: the flow must be there, then the body is judged. *)
Lookup(r) ==
  /\ At(r, "lookup")
  /\ IF flows[req[r].flow] = None \/ ~Accepts(BodyOf(req[r].ask))
     THEN Done(r) ELSE Goto(r, "attach")
  /\ UNCHANGED <<tables, sched, fires, events, runs, bounds>>

(* Nothing ties the row to the flow: it may be gone, or going.             *)
Attach(r) == LET f == req[r].flow body == BodyOf(req[r].ask) IN
  /\ At(r, "attach") /\ Done(r) /\ Unused(Trigs) # {}
  /\ LET t == Fresh(Trigs) IN
       /\ triggers' = [triggers EXCEPT ![t] = [flow |-> f, kind |-> body.kind,
                                               cron |-> body.cron, event |-> body.event]]
       /\ born' = born \cup {t}
  /\ overlapped' = IF req[r].ask.op = "attach"
                      \/ \E q \in Reqs \ {r} : req[q] # None /\ req[q].flow = f
                           /\ req[q].ask.op = "deploy" /\ req[q].at \in {"lookup", "attach"}
                   THEN overlapped \cup {f} ELSE overlapped
  /\ UNCHANGED <<flows, irs, sched, fires, events, runs, bounds>>

(* FlowService.delete: the triggers first.                                 *)
Untrigger(r) == LET f == req[r].flow IN
  /\ At(r, "untrigger") /\ Goto(r, "drop")
  /\ triggers' = [t \in Trigs |-> IF triggers[t] # None /\ triggers[t].flow = f
                                  THEN None ELSE triggers[t]]
  /\ UNCHANGED <<flows, irs, born, overlapped, sched, fires, events, runs, bounds>>
(* Then, in one transaction, the graphs and the flow.                      *)
Drop(r) == LET f == req[r].flow IN
  /\ At(r, "drop") /\ Done(r)
  /\ flows' = [flows EXCEPT ![f] = None] /\ irs' = [irs EXCEPT ![f] = <<>>]
  /\ UNCHANGED <<triggers, born, overlapped, sched, fires, events, runs, bounds>>

-----------------------------------------------------------------------------
(* A run is put together in three steps, whoever wants it: the latest      *)
(* graph, the flow's declared defaults, the row.                           *)
Begin(x, f, key) ==
  fires' = [fires EXCEPT ![x] = [flow |-> f, key |-> key, at |-> "ir", ir |-> 0, vars |-> 0]]

(* RunService.prepare_run, for a preset that runs once: a key per window.  *)
Launch(r) ==
  /\ At(r, "launch") /\ fires[r] = None
  /\ Begin(r, req[r].flow, <<"window", clock>>)
  /\ UNCHANGED <<tables, sched, events, runs, req, bounds>>

(* Mutant of Stops: an exception of one flow leaves the router's loop.     *)
StopsAll(x) ==
  /\ fires' = [fires EXCEPT ![x] = None]
  /\ req' = IF x \in Reqs THEN [req EXCEPT ![x] = None] ELSE req
  /\ IF x = Router THEN /\ missed' = missed \cup {<<fires[x].flow, cursor + 1>>}
                        /\ inbox' = {}
                   ELSE UNCHANGED <<missed, inbox>>

(* A fire ends: the request is answered, the job is over, the router goes  *)
(* on to the next trigger, having logged what was raised.                  *)
Stops(x) ==
  /\ fires' = [fires EXCEPT ![x] = None]
  /\ req' = IF x \in Reqs THEN [req EXCEPT ![x] = None] ELSE req
  /\ missed' = IF x = Router THEN missed \cup {<<fires[x].flow, cursor + 1>>} ELSE missed
  /\ UNCHANGED inbox

ReadGraph(x) ==
  /\ fires[x] # None /\ fires[x].at = "ir"
  /\ IF irs[fires[x].flow] = <<>> THEN Stops(x)                \* FlowNotCompiled
     ELSE /\ \E v \in LatestIr(fires[x].flow) :
               fires' = [fires EXCEPT ![x].at = "vars", ![x].ir = v]
          /\ UNCHANGED <<req, missed, inbox>>
  /\ UNCHANGED <<tables, sched, cursor, matched, emitted, runs, bounds>>

(* resolve_unattended_vars, and resolve_params in prepare_run: a required  *)
(* parameter without a default raises.  A flow that is gone has no         *)
(* parameters to a trigger and is EntityNotFound to a request.             *)
ReadVars(x) == LET flow == flows[fires[x].flow] IN
  /\ fires[x] # None /\ fires[x].at = "vars"
  /\ IF (flow # None /\ flow.needs) \/ (flow = None /\ x \in Reqs) THEN Stops(x)
     ELSE /\ fires' = [fires EXCEPT ![x].at = "insert",
                                    ![x].vars = IF flow = None THEN 0 ELSE flow.version]
          /\ UNCHANGED <<req, missed, inbox>>
  /\ UNCHANGED <<tables, sched, cursor, matched, emitted, runs, bounds>>

(* create_if_absent: a key the flow has used already is deduplicated.      *)
Insert(x) == LET fire == fires[x] IN
  /\ fire # None /\ fire.at = "insert"
  /\ runs' = IF \E q \in runs : q.flow = fire.flow /\ q.key = fire.key THEN runs
             ELSE runs \cup {[flow |-> fire.flow, key |-> fire.key, ir |-> fire.ir,
                              vars |-> fire.vars]}
  /\ fires' = [fires EXCEPT ![x] = None]
  /\ req' = IF x \in Reqs THEN [req EXCEPT ![x] = None] ELSE req
  /\ UNCHANGED <<tables, sched, events, bounds>>

-----------------------------------------------------------------------------
(* The worker's main: the scheduler starts, and fires what is due from the *)
(* persistent store before the first sync has read a row.                  *)
Boot ==
  /\ worker = "down" /\ worker' = "booting"
  /\ UNCHANGED <<tables, jobs, snapshot, fires, events, runs, req, bounds>>

(* sync_jobs_from_triggers, as far as its only await.                      *)
SyncReads ==
  /\ worker # "down" /\ snapshot = None
  /\ worker = "booting" => \A t \in Trigs : jobs[t] # None => jobs[t].due = None
  /\ snapshot' = [t \in Trigs |-> IF triggers[t] # None /\ triggers[t].kind = "schedule"
                                  THEN triggers[t] ELSE None]
  /\ UNCHANGED <<tables, jobs, worker, fires, events, runs, req, bounds>>

Live(t) == snapshot[t] # None /\ snapshot[t].cron = "good"
Added(t) == [flow |-> snapshot[t].flow, due |-> None]

(* Mutants of SyncWrites: every job is rewritten each minute; nothing is   *)
(* taken down; an unparseable crontab ends the sync.                       *)
SyncRewrites ==
  /\ snapshot # None /\ snapshot' = None /\ worker' = "up"
  /\ jobs' = [t \in Trigs |-> IF Live(t) THEN Added(t) ELSE None]
  /\ UNCHANGED <<tables, fires, events, runs, req, bounds>>
SyncOnlyAdds ==
  /\ snapshot # None /\ snapshot' = None /\ worker' = "up"
  /\ jobs' = [t \in Trigs |-> IF jobs[t] = None /\ Live(t) THEN Added(t) ELSE jobs[t]]
  /\ UNCHANGED <<tables, fires, events, runs, req, bounds>>

(* The rest of the sync, without an await: what is missing is added, at    *)
(* boot what is there is rewritten, what has no row is removed.  A row     *)
(* whose crontab does not parse is passed over.                            *)
SyncWrites ==
  /\ snapshot # None /\ snapshot' = None /\ worker' = "up"
  /\ jobs' = [t \in Trigs |-> IF ~Live(t) THEN None
                              ELSE IF jobs[t] = None \/ worker = "booting" THEN Added(t)
                              ELSE jobs[t]]
  /\ UNCHANGED <<tables, fires, events, runs, req, bounds>>

(* The database is away: a resync is logged and tried again in a minute,   *)
(* the sync at boot takes the worker down.                                 *)
SyncFails ==
  /\ snapshot # None /\ Spend("faults")
  /\ snapshot' = None /\ worker' = IF worker = "booting" THEN "down" ELSE worker
  /\ UNCHANGED <<tables, jobs, fires, events, runs, req, clock>>

(* A component of the worker fails, or the process dies: the store stays.  *)
Crash ==
  /\ worker # "down" /\ Spend("faults")
  /\ worker' = "down" /\ snapshot' = None /\ inbox' = None
  /\ fires' = [x \in Producers |-> IF x \in Reqs THEN fires[x] ELSE None]
  /\ UNCHANGED <<tables, jobs, cursor, matched, missed, emitted, runs, req, clock>>

Pass == /\ clock < MaxClock /\ clock' = clock + 1
        /\ UNCHANGED <<tables, sched, fires, events, runs, req, left>>

(* The next time of a crontab has come, whether or not a worker is there.  *)
ComesDue(t) ==
  /\ Spend("dues")
  /\ jobs[t] # None /\ jobs[t].due = None
  /\ jobs' = [jobs EXCEPT ![t].due = clock]
  /\ UNCHANGED <<tables, worker, snapshot, fires, events, runs, req, clock>>

(* APScheduler: one instance of a job at a time, and a job that is later   *)
(* than the grace is a misfire.  run_scheduled_flow keys by the second.    *)
Fire(t) ==
  /\ worker # "down" /\ jobs[t] # None /\ jobs[t].due # None
  /\ jobs' = [jobs EXCEPT ![t].due = None]
  /\ IF clock - jobs[t].due > Grace \/ fires[t] # None THEN UNCHANGED fires
     ELSE Begin(t, jobs[t].flow, <<"at", clock>>)
  /\ UNCHANGED <<tables, worker, snapshot, events, runs, req, bounds>>

-----------------------------------------------------------------------------
Emit == /\ Spend("events") /\ emitted' = emitted + 1
        /\ UNCHANGED <<tables, sched, fires, inbox, cursor, matched, missed, runs, req, clock>>

(* The engine hands the router the event after the last it finished, again *)
(* if the worker died on it; FlowEventRouter.handle reads the triggers of  *)
(* every tenant.                                                           *)
Handle ==
  /\ worker # "down" /\ inbox = None /\ cursor < emitted
  /\ inbox' = {<<t, triggers[t].flow>> : t \in
               {u \in Trigs : triggers[u] # None /\ triggers[u].kind = "event"}}
  /\ matched' = [matched EXCEPT ![cursor + 1] = {hit[2] : hit \in inbox'}]
  /\ UNCHANGED <<tables, sched, fires, cursor, missed, emitted, runs, req, bounds>>

(* One trigger after the other, as it was when Handle read it.             *)
Route ==
  /\ inbox # None /\ fires[Router] = None
  /\ \E hit \in inbox :
       inbox' = inbox \ {hit} /\ Begin(Router, hit[2], <<"seq", cursor + 1>>)
  /\ UNCHANGED <<tables, sched, cursor, matched, missed, emitted, runs, req, bounds>>

Acknowledge ==
  /\ inbox = {} /\ fires[Router] = None /\ inbox' = None /\ cursor' = cursor + 1
  /\ UNCHANGED <<tables, sched, fires, matched, missed, emitted, runs, req, bounds>>

-----------------------------------------------------------------------------
Serve(r) == \/ Find(r) \/ Create(r) \/ Update(r) \/ Compile(r) \/ Store(r) \/ Unschedule(r)
            \/ Lookup(r) \/ Attach(r) \/ Untrigger(r) \/ Drop(r) \/ Launch(r)
Step(x) == ReadGraph(x) \/ ReadVars(x) \/ Insert(x)
Next == \/ \E r \in Reqs : Receive(r) \/ Fail(r) \/ Serve(r)
        \/ \E x \in Producers : Step(x)
        \/ \E t \in Trigs : ComesDue(t) \/ Fire(t)
        \/ Boot \/ SyncReads \/ SyncWrites \/ SyncFails \/ Crash \/ Pass
        \/ Emit \/ Handle \/ Route \/ Acknowledge

(* The container restarts a worker that exits, its loop syncs each minute. *)
Fairness == WF_vars(Boot) /\ WF_vars(SyncReads) /\ WF_vars(SyncWrites)
            /\ \A t \in Trigs : WF_vars(Fire(t))
Spec == Init /\ [][Next]_vars /\ Fairness

-----------------------------------------------------------------------------
(* One flow per preset, and one schedule per preset's flow unless another  *)
(* request was between replace_schedule's two transactions or attached a   *)
(* trigger of its own since (FlowService.deploy_from_preset,               *)
(* TriggerService.replace_schedule).                                       *)
OneAutomationPerPreset ==
  /\ Cardinality(OfPreset) <= 1
  /\ \A f \in OfPreset \ overlapped : Cardinality(Schedules(f)) <= 1

(* An event that the router is done with has its run for every flow that   *)
(* had a trigger on it, deaths and redeliveries included, save for flows   *)
(* whose own fire raised (FlowEventRouter.handle).                         *)
HandledEventsReachedEveryFlow ==
  \A s \in 1..cursor : \A f \in matched[s] :
    <<f, s>> \in missed \/ \E run \in runs : run.flow = f /\ run.key = <<"seq", s>>

(* A tick that is due is lost to a misfire, to a fire still going, to the  *)
(* removal of its job or to a boot, never to the minute-by-minute resync   *)
(* (sync_jobs_from_triggers, rewrite_existing).                            *)
ResyncLosesNoTick ==
  [][\A t \in Trigs : (jobs[t] # None /\ jobs[t].due # None
                        /\ jobs'[t] # None /\ jobs'[t].due = None)
       => \/ fires'[t] # None \/ clock - jobs[t].due > Grace \/ worker = "booting"]_vars

(* Once nobody edits triggers any more, the job store comes to hold a job   *)
(* for every schedule and for nothing else, and stays so: whatever raced    *)
(* the syncs, an unparseable row of another tenant and restarts             *)
(* notwithstanding (_resync_schedule_jobs, sync_jobs_from_triggers).        *)
JobsComeToMatch ==
  <>[](\A t \in Trigs : jobs[t] # None <=> triggers[t] # None /\ triggers[t].cron = "good")

=============================================================================
