# A TLA+ development of auto-lzt

auto-lzt runs *flows*, graphs of nodes that read a marketplace and buy, sell
and reprice on it.  A flow is written by hand, by a form, or imported; it is
compiled to an IR; a *run* of it is started by a schedule, a market event, a
button or an API call, and a worker walks the graph.  What may go wrong is
mostly money: a lot bought twice after a crash, a budget spent twice by two
branches, a run nobody finishes, a rehearsal that buys.  This directory holds
models of the parts where that is decided, the TLC configurations that check
them on small instances, and machine-checked proofs of what matters most.

Paths are relative to the repository's root; `app/` is `src/app/` when a path in
`PROJECT.json` is meant.

1. Inventory. 2. Modules. 3. What the runs check. 4. What is proved.
5. What is not modelled. 6. Where the code and its text disagree. 7. What is next.

## 1. Inventory

| component | state it keeps | operations | what is hard in it |
|---|---|---|---|
| Run engine: `worker/runtime.py` (`execute_run`), `worker/arq_settings.py`, `domain/flow_engine/repo.py` | `runs` (status, version, current_node_id), `run_steps`, Redis guard keys, arq's job, in-progress and result keys | create, enqueue, deliver, claim, touch, claim_step, complete_step, fail, cancel, two sweeps | redelivery, executors believed dead, a crash between effect and record, stale reads in sweeps |
| Flow interpreter: `worker/runtime.py` (`_run_chain`, `_run_fanout_body`, `_run_fork`) | the frames of live coroutines, step rows by (node, iteration key), step budget, abort boxes | enter, claim, execute, commit, route, fan out, fork, join, abort, goto, resume | keys of revisited nodes, abort across nested forks, resumption in the middle |
| Token pool: `domain/account/pool.py` | per tenant: one cached pool, its lease count, its lock | lease, release, invalidate, build, close, forget the lock | use after close, cancellation at an await, a lock dropped with waiters |
| Account service: `domain/account/service.py`, `exclusion.py`, `repo.py` | account rows, row locks, the pools built from them | add, backfill, reactivate, relabel, refresh, delete, exclude, quarantine | invalidation before commit, a stale rebuild, check-then-delete |
| Purchase: `catalog/nodes/fast_buy.py`, `domain/purchases` | guard keys, the ledger, the run's budget | gate, guard, buy, record, report | check-then-act between branches, a lost ledger write, replays |
| Effect nodes: `catalog/nodes/`, `domain/market/adapter.py`, `service.py`, `flow_engine/idempotency.py` | guard keys, step rows, exclusion | guard, resolve the account, call, read the answer | a key burned by an attempt that failed, a key that expires, batches that half succeed |
| Egress: `domain/egress` | none | check a URL, resolve, connect | an answer that changes between check and use |
| Producers: `scheduler/jobs.py`, `events/router.py`, `triggers/firing.py`, `api/run_routes.py`, `api/flow_routes.py` | rows under a unique (flow_id, run_key) | fire, create, enqueue, invoke inline | a row without a job, duplicate fires, an inline walk that times out |
| Triggers and job store: `domain/triggers/service.py`, `scheduler/schedule_trigger.py` | trigger rows, APScheduler's persistent jobs | attach, replace_schedule, delete, sync, fire | two stores that drift, replacement in two transactions |
| Flow service and compiler: `flow_engine/service.py`, `compiler.py`, `spec.py`, `dryrun.py` | flows, IRs, composite blocks; `socket.connect` during a rehearsal | publish, compile, import, rehearse, deploy, resolve parameters | name capture in blocks, cycles through error edges, a patch of the whole process |
| Presets and panel: `domain/panel` | none | forms to graphs | a limit of the form that the graph does not enforce |
| Plugin runtime: `plugin_runtime/` | folders on disk, loaded plugins, their tasks | install, update, remove, discover, hooks, quarantine, shutdown | crashes between renames, overlapping installs, hooks that hang |
| Tasks and streams: `domain/tasks`, `flow_engine/events.py`, `core/streaming.py`, `api/task_routes.py` | a capped replay buffer, subscriptions, stream slots | publish, replay, subscribe, list, run now | events between replay and subscription, slots that leak, pages under edits |
| Modules registry: `domain/modules` | the index while it is fetched | index, fetch, check, import | the index, the bytes and the nodes are of different moments |
| HTTP API, bot, CLI, database, frontend | see `PROJECT.json` | | thin or external |

How they meet.  A producer inserts a `runs` row (PENDING), then pushes an arq job
named after the run.  arq delivers it at least once; the executor *claims* the
row by bumping its version, and from then on every write of the row is
conditional on the version the executor holds.  For each node the interpreter
claims a step row, calls the node's `execute`, and completes the step row, and
every start and end is published to the streams.  A node with an effect goes
through the idempotency guard first and leases a client from the token pool,
which is built from the account rows.  Two cron sweeps mend what was lost: one
enqueues old PENDING rows, one closes old RUNNING rows; a third brings
APScheduler's jobs in line with the trigger rows once a minute.

What makes each correct: a step buys at most once over all executors; a
committed step records what happened; a completed run is whole and final; every
run settles; a graph is walked entirely or stops where it was told to; a client
in use is open, and what a pool rotates is what Postgres says, up to known
windows; a budget is overrun by a known amount only; an effect is repeated no
oftener than its key is lost; a flow fires as its triggers say, once each; what
is compiled is the graph that was drawn; what a form promises the graph keeps;
a plugin folder is never half of one; a viewer misses only what it may miss.

## 2. Modules

| module | what it is |
|---|---|
| `RunPromise` | Abstract: runs are created, started, settle; steps spend once and stay committed |
| `RunLifecycle` | Producers, arq, executors, sweeps over one row per run; implements `RunPromise` |
| `RunLifecycleProofs` | TLAPS: its invariants, the refinement |
| `FlowInterpreter`, `FlowInterpreterProofs` | The walk of any graph by one executor at a time |
| `TokenPool` | One tenant's cache, leases and locks, over asyncio |
| `AccountRotation` | One tenant's rows, requests and exclusions against two processes' pools |
| `AccountPoolsProofs` | TLAPS: both of them |
| `PurchaseBudget`, `PurchaseBudgetProofs` | `FastBuyNode.execute` in the branches of one run |
| `EffectNodes`, `EffectNodesProofs` | Any one effect node: guard, account, wire, answer, egress, crashes |
| `Schedules`, `SchedulesProofs` | Flows, triggers, APScheduler, the event router, deploys |
| `FlowCompiler` | `compile` as an operator: blocks, checks, references, cycles |
| `LogicNodes` | Values, paths and the pure nodes, as operators |
| `PresetFlows` | Parameters; what the forms and the autobuy template build |
| `FlowWalk` | One walk of a compiled graph, against the market or the rehearsal's doubles |
| `FlowAuthoring` | The requests that publish, compile, import, deploy and run |
| `PluginRuntime`, `PluginRuntimeProofs` | Install service, update checker, manager |
| `EventStreams` | Publishing, replay, streams, slots |
| `TaskCards` | Pages of the task list, run-now |
| `ModuleRegistry` | Index, fetch, validation, import; the registry's CI |
| `GatewayProofs` | TLAPS: streams, cards, registry |
| `MC...` | Instances for TLC |

`RunLifecycle` and `FlowInterpreter` cut the runtime along its two questions:
*who may walk* (the flow is a chain of `NSteps` nodes; executors are many) and
*what is walked* (the flow is any graph; executors follow one another).
`EffectNodes` and `PurchaseBudget` open the node that `RunLifecycle` treats as
guard and effect.  `FlowAuthoring` EXTENDS `FlowWalk`, `PresetFlows`,
`FlowCompiler` and `LogicNodes`: a preset is built, compiled, deployed and
walked by the operators of the module that models each.

Where two components meet without sharing state, an MC module puts them side by
side (`MCAccountPools`: rows and one pool from inside; `MCEffectNodes`: one
effect and many purchases; `MCGateway`: streams, pages, registry).  Its variable
`scene` chooses one per behaviour, so that state spaces add up.

### RunLifecycle

One action per await of the code, since coroutines and processes interleave at
awaits and nowhere else.  `pc[w]` is the call the executor `w` is about to make:

| `pc` | code |
|---|---|
| `get`, `claim` | `runs.get`, `runs.claim` at the head of `execute_run` |
| `load` | `flows.get`, target-market selection; may fail, which writes the pseudo step `load` |
| `node` | the `touch` on entering a node |
| `claimstep`, `getstep` | `claim_step`; if it did not insert, `get_step`: COMPLETED is replayed, RUNNING sets `step_replay` |
| `gate`, `guard`, `effect`, `plain` | the budget gate of a buying node that has a budget, its guard, the purchase; any other node |
| `complete` | `complete_step` |
| `finish`, `fail` | the last touch of a walk |
| `aread`, `atouch` | `_fail_abandoned_run` after a cancellation |
| `end` | the job returns to arq, which finishes it |

`TouchWins`/`TouchLoses` is `UPDATE ... WHERE version = v`.  A step row is
`"none"`, `"running"`, or COMPLETED with what it reports: `"bought"`, `"clear"`
or, from the budget gate, `"declined"`.  The gate comes before the guard and does
not look at `step_replay`, so a replay may commit `"declined"` whatever the
attempt before it did, or while that attempt is still to pay; whether the gate
declines is left open here, the ledger being `PurchaseBudget`'s.  `effects` is the marketplace's own count of purchases, which no code
reads and every money property is about.  arq (external) is its three keys and a
try counter; the keys' times to live become actions that may fire at any time,
except that `InProgressExpires` and `ListStaleRunning` under a *living* executor
need `Pauses`: the in-progress key outlives `job_timeout`, and arq cancels the
job at that timeout, so only a process that was suspended can be overtaken.
Faults (`MaxFaults`): a producer that dies between row and push, a call that
raises, a cancellation, an API timeout, a crash, a pause.  Guard keys and result
keys expire at any time, without being counted as a fault.

### FlowInterpreter

A live `_run_chain` is a *frame* named by its iteration key, a sequence of
`<<"item", x>>` and `<<"fork", label>>` parts.  A frame that runs a fan-out or a
fork waits (`"items"`, `"branches"`) for its children to reach `"ret"`.  Results
are kept as the set `known` of nodes whose output a frame can refer to; a fork
copies it into each branch and adds only the join to its own.  A node's outcome
is the edge label it selects, `"stop"` when its stop condition matches (or when
no edge has the label: the chain ends there too), or an exception; a fan-out
without a `body` edge fails.  `Crash` forgets everything but the run row and the step rows;
`Start` takes the run up as `execute_run` does: at `current_node_id`, with empty
results, and a FAILED run like any other.  The history variable `astray` records
that a step failed in a frame that is not the top chain: `current_node_id` then
names a node inside a body or a branch.  The graph is a variable, chosen by
`Init` from `Graphs` and never changed.  Two things are left out: keys are sequences and never collide, where
the code's strings may (an item called `visit2`); and `known` is by node, so a
fan-out body that reads the previous item's value of a node skipped for this one
is not told apart.

### TokenPool and AccountRotation

`TokenPool` models asyncio.Lock as CPython implements it: `release()` marks the
lock free and resolves the first waiter's future; until the loop runs that
waiter, the lock *is free and has a waiter*.  `Body` is what a task does from
taking the lock to its next await.  Entries are numbered in the order they are
built.

In `AccountRotation` a request is one transaction: `pend[r]` is what it wrote
and holds locked, `due[r]` the call it is about to make, and commit happens when
the route returns, *after* the service invalidated the pool.  A ciphertext
carries its key version, a digest is equal for equal tokens.  `cached[p]` is
what process `p`'s pool rotates and quarantines, `building[p]` the rows a build
has read and not yet published.  `excused[p]` records the accounts whose change
the pool of `p` cannot have seen, which is how the stale windows are named
instead of being excluded from the model.  pylzt (external) quarantines a token
in its pool on the first AuthFailed (`"refused"`); a node that uses the raw
client, or whose call fails in another way, never reports it to
`exclude_account`, so the row stays active.  That is the fifth window.

### EffectNodes and PurchaseBudget

A node is a *program*: the sequence of things its `execute` does (`"guard"`,
`"account"`, `"check"`, `"send"` ...), for the order decides whether a refused
attempt has burned the key.  `kid` is where each child of a batch stands; other
nodes have one.  A scenario of `Starts` fixes the node, its account (pinned,
pooled, sealed), the form of its input, and how many crashes, lost keys and
shifts of the market or the resolver the world is allowed.  `Declining`,
`CallWith` and `Bought` are the adapter's error map.

`PurchaseBudget` follows `fast_buy` in the order of the code: the gate reads the
ledger, the guard looks at Redis and at `step_replay`, `Buy` may be refused, may
pay, or may pay and lose the answer; `Record` writes the ledger, fails to, or
writes and loses the answer (`"blind"`); `Commit` is the runtime's, with the
template's stop condition (`MoveOn`).  A key is a lot and a *frame*: the branch's,
or the run's own.  A failure writes the branch's node as the row's
`current_node_id` (`Fail`), and the next execution starts there as the top chain,
without iteration key: another row, another guard key, no `step_replay`.
`top` is the branch where that happened.  That chain fails again when it comes to
the join, or, `Unresolved`, when its lot is named by a step it has not seen.

### Schedules

Every repository call is a transaction of its own and so a step: `req[r]` is a
request between two of them, `fires[x]` a producer (job, request or router)
between creating and pushing.  `snapshot` is what a sync has read and not yet
applied.  `jobs` outlives the worker; `Boot` rewrites it, the minute-by-minute
resync does not.  `Deploy` is get-or-create under the unique preset key, an
edit, then `replace_schedule`'s two transactions.

### FlowCompiler, LogicNodes, PresetFlows, FlowWalk, FlowAuthoring

Pure parts are operators: `FlowCompiler` maps a spec and a lookup of blocks to
an IR or a refusal, node ids being sequences of names so that inlining under a
call is prefixing; `LogicNodes` gives each `logic.*` node on tagged values, with
what texts spell and how they sort in a table; `PresetFlows` builds the shipped
graphs; `FlowWalk` walks a compiled graph and collects its acts.
`FlowAuthoring` is the state machine around them: a client's request compiles,
stores, deploys, or rehearses.  A rehearsal takes `socket.connect` away and puts
back what it found; only one that sleeps lets another request in.

### PluginRuntime

`disk[n]` is the folder, `<name>.new` and `<name>.old`; an install reads the
entry and the archive before it takes the lock, and swaps by two renames inside
it, each a step that may fail and that a crash may follow; `cut[n]` is history,
the swaps of `n` that ended with no folder live since one was placed.  `boot` is
the manager, phase by phase; it lists plugins by their place in what was found,
since two may have one name.  `Conduct` says what each published version does
(imports, hooks, keys, tasks).  The update checker is the client `Bot`; the call
it gives up after 30 s goes on as the client `Late`.  A worker shuts its manager
down even where the start failed (`worker/__main__.py:181`), the API and the bot
do not.

### EventStreams, TaskCards, ModuleRegistry

A publish is an append to the capped buffer and then a broadcast, two writes; a
stream reads the buffer after its last event id, then subscribes, then follows.
One channel is watched, the tenant's feed or one run's.  A walk over pages
carries a cursor while tasks come and go, several in one instant; a click fires
under a key made of the task and the window of the clock.  An import fetches the
index (one request for all who ask), the bytes, compares, validates, saves.  A
node registry is a map from types to classes, with what a class asks of its
inputs; the process and the CI each have one of several.

## 3. What the runs check

| run | instance | what it shows |
|---|---|---|
| `run_safety` | 1 run, 2 executors that may be paused, 2 steps (the second buys within a budget), 2 faults, 2 tries | types; one purchase; truthful steps; one owner; refinement of `RunPromise` (whose `Complete` needs every step committed, and which makes completed final) |
| `run_live` | 1 run, pushed or invoked, 1 executor, 2 faults, two producer calls, fair | PENDING is picked up; RUNNING settles; the sweep spares the living; completed is final |
| `walks` | one of five graphs: a loop (fan-out, self edge that may raise, goto); nested forks with an abort beside a fan-out that may raise; a goto back over committed steps, taken up again; a nested fork whose branches meet before their join while the branch beside it aborts; a fan-out without a body; crashes, and failed runs taken up again; fair | completed is closed, unless a body or a branch failed before; committed is not repeated; branches are isolated; nothing starts after an abort; termination |
| `account_pools` | 2 requests, 3 rows, 2 processes, 1 exclusion, 1 saved flow; or 3 tasks, 3 pools, 3 locks, 1 cancellation, fair | stored tokens are unique; five stale windows and no other; no deadlock of rows, digests and locks; no use after close; waiters are served |
| `effects` | every effect node, account and form, 1 crash, lost keys; or 2 branches of 2 lots, prices 1..2, budget 3, 2 crashes or executions again | effects are not repeated; no call outlives its step; inward addresses are never reached; overrun at most one lot for each chain but one; honest ledger |
| `schedules` | 2 requests out of 7 kinds, 4 flows, 5 triggers, 2 events, one fault, fair | one automation per preset; events reach every flow; the resync loses no tick; jobs come to match triggers |
| `authoring` | graphs of 3 nodes, blocks nested past the limit, batches, every preset form, 12 sets of autobuy parameters, imports of 2 clients | inlining keeps the graph; compiled graphs are sound; no run goes beyond what was asked; the network comes back |
| `plugins` | 2 plugins of 3 versions, 2 people and the checker, crashes, faults at every step, a call given up; starts of every mix of conduct and names, fair | folders stay whole until the second swap cut short; opened is closed once, a worker that fails in POST_INIT excepted; updates catch up unless a pip hangs |
| `gateway` | 2 runs, 2 browsers, a buffer of 2, 1 slot, 1 fault; 3 tasks, 3 clicks; modules merged while they are imported | streams miss only what they may, and end; pages and clicks; imports were reviewed |

Three more runs (`chosen_accounts`, `walk_resume`, `account_delete`) state what
the repository's own text says and find it violated by what the code does
(section 6).  The largest of all takes about three minutes.  Only `RunLifecycle`
runs its type invariant, which the proofs need; the `TypeOK` of the other modules
document their states and the runs check what is deeper.

Every property of a passing run has a mutant of a definition it depends on (the
operators commented "Mutant"), under which TLC finds it violated: a guard that
forgets `step_replay`, an owner that re-reads the version, a swap that removes
before it renames, a resync that rewrites, a join that merges its branches.

Bounds, and why they suffice.

* One run in `RunLifecycle`: rows of different runs share no state.  Two
  executors: the races are between one that holds the version and one that held
  it, and the proofs hold for any number.  `run_live` has one, which a crash
  brings back as a new incarnation: when executors obey their timeouts, arq's
  in-progress key admits one at a time, and the question is whether anybody ever
  comes.  Two steps: one committed and one not, so that a walk can be resumed
  past the first; the buying one is the last, so that the run can complete over a
  declined one while an attempt at it is under way.  Two faults: one that strands
  a run, one that strikes its recovery.
* Two items, two branches, two levels of forks: every comparison of the
  interpreter is between an item and the next, a branch and its sibling, a box
  and the enclosing one.  The small graphs `Back` and `Meet` are the shortest
  that reach the exceptions `CompletedIsClosed` (for gotos) and
  `BranchesAreIsolated` make (section 6); `Fork`, whose fan-out body may raise,
  reaches the other one of `CompletedIsClosed`, and `Bare` is the one fan-out
  that cannot run.
* Two requests and one worker in `AccountRotation`, `Schedules`,
  `PluginRuntime`: the races are of one that reads and one that writes between;
  the checker, the router and the syncs are further actors beside them.  Three
  rows: the one added, one it may collide with, one whose key is gone.
* A buffer of two: full after the third event of a run, so that the cap bites.
  A window of two ticks of a clock of three instants: clicks in one window, in
  neighbouring ones, and a window apart.
* Blocks three deep against `MaxDepth = 2`; graphs of three nodes hold every
  cycle through plain, error and goto edges of up to that length.
* `MaxSteps` of the interpreter is chosen so that a walk can end normally and
  can also run into the budget.  The remaining `Max...` constants and the fields
  of `left` bound what the code leaves unbounded and appear in guards only.
  Where they end every behaviour the configuration says
  `CHECK_DEADLOCK FALSE`.

Fairness.

* `RunLifecycle`: a started coroutine goes on (`WF` of `Walk`), arq polls its
  queue, TTLs run out, both cron sweeps fire (`worker/arq_settings.py`,
  `cron_jobs`).  `SF` of `SweepEnqueues`: each sweep pushes every row it
  selected.  Nothing obliges a producer to exist or a fault to happen.
* `FlowInterpreter`: the event loop runs a ready coroutine; a job is redelivered.
* `TokenPool`: the event loop runs every ready task, and a leased block ends.
  Leasing, invalidating and cancelling are not fair.
* `Schedules`: a worker that is down is started, and the resync, a cron job of
  the worker, reads and writes; a due job fires.  Requests and events are not.
* `PluginRuntime`: the checker ticks and fetches its entries, a request that was
  begun goes on, a start goes on (hooks have a budget, requests a timeout).  pip
  has none and is waited for under the lock (`install_service.py:89-103`), so
  nothing makes it end: that none hangs is a hypothesis of `UpdatesCatchUp`.
  Installing and publishing are not fair.
* `EventStreams`: a stream that was opened reads, is delivered to, and has its
  heartbeat, after which it looks at the run.  Opening and leaving are not.

## 4. What is proved

For *every* value of the constants that satisfies the modules' assumptions.

`RunLifecycle` (`LifecycleAssumption`), any number of runs, executors, steps,
tries, producer calls and faults, with or without pauses:

| theorem | statement |
|---|---|
| `TypeCorrect` | `Spec => []TypeOK` |
| `PurchaseOnce` | `Spec => []AtMostOnePurchase` |
| `StepsTellTheTruth` | `Spec => []TruthfulSteps` |
| `OnlyOneOwner` | `Spec => []OneOwner` |
| `CompletedIsWhole` | `Spec => []CompletedMeansCommitted` |
| `CompletedStays` | `Spec => CompletedIsFinal` |
| `LivingAreSpared` | `~Pauses => (Spec => SweepSparesTheLiving)` |
| `KeepsThePromise` | `Spec => PromiseSpec` |

None of the properties is inductive.  The argument has four layers, each an
invariant that uses the ones before:

* `Typed`: `TypeOK`, and an executor inside a node is at one of the steps
  (`InPlace`).
* `Accounted`: for each step of each run, the purchases made, the executor that
  is about to purchase, and the step row are tied together.  The heart of it is
  that only the executor whose `claim_step` *inserted* the row can reach
  `effect` (anybody later sees `step_replay` and is refused), that the row is
  never deleted, and so that at most one executor in the whole history gets
  there.  A replay that the gate declines may write over the row before that
  executor pays, or after, but no row of its own making says more than that it
  declined.  The Redis guard plays no part, which is why its expiry is harmless;
  neither does the version lock, which is why a paused executor is.
* `Fenced`: no executor holds a version greater than the row's, and of those
  that hold the current one, with the right to walk, there is one.  A win bumps
  the version, so every other copy becomes stale.
* `Ordered`: every step before the node the row names, and before the node an
  executor is at, is committed.  Hence an executor that reaches the end, resumed
  from wherever, has a whole run behind it, and the completing write, fenced,
  is a true one.

`LivingAreSpared` adds that a row which the sweep has selected, and nobody has
written since, has no executor that holds its version (`Unwatched`).  `~Pauses` is
what makes that true when the row is read: a suspended process would break it,
which is why the property is checked and proved for executors that obey their
timeouts.

The refinement maps each step: a `CompleteStep` that changes a row to
`Commit`, a `Purchase` to `Spend`, a winning claim to `Start` (or a stutter when
the row was RUNNING), a finishing touch to `Complete`, closings to `Fail`, all
else to stutters; with `committed` the steps whose row is COMPLETED and `declined`
those of them whose row is the gate's refusal.  Two clauses of the promise are
weaker for that refusal: a declined step may still pay, once, and it is the one
way in which a completed run may (`CompletedIsFinal`).

`PurchaseBudget` (`BudgetAssumption`), any number of branches, lots, crashes and
executions of a failed run, and any budget:

| theorem | statement |
|---|---|
| `BudgetTypeCorrect` | `BudgetSpec => []BudgetTypeOK` |
| `LedgerTellsTheTruth` | `BudgetSpec => []LedgerIsHonest` |
| `PaidAgainOnlyIfLost` | `BudgetSpec => PaidOnce` |
| `OverrunIsOneLotEach` | `BudgetSpec => []OverrunIsBounded` |

`PaidOnce` says what is true of a second payment: under one key there is none, and
a lot that was paid in a branch is paid again only on the run's own chain, while
the branch's row of it is RUNNING.  `fast_buy.py` (comment at 268) promises more
than that; section 6.

The invariant adds to the types that a branch between claim and commit is at one
of its lots with a claimed row (`Claimed`), that rows are of chains that walked
(`Walked`), that what is about to be recorded was paid and what is about to be
committed as bought is recorded (`Honest`), that a lot that was paid has a claimed
row while a branch that may still buy stands before an unpaid one (`Unpaid`), that
a chain has claimed no lot behind one it did not pass, and the run's own chain
begins at the lot its branch failed at (`InOrder`), and that a lot reported as not
bought was not paid for (`Unsold`).

The overrun is a sum, and the argument is about who may owe the ledger
something.  A chain whose payment the ledger did not get stops at that lot for
good, in this execution and in every later one, so it owes one lot at most; a
chain is *at risk* if it owes one or is past the gate, and the branch a failed run
was taken up in is at risk from then on, for its lot may have been paid twice and
recorded once.  What is recorded plus one dearest lot for each chain at risk stays
within the bound (`Covered`): the gate, which reads the ledger, lets a chain
through only while the ledger leaves room for its lot; a failure puts a branch at
risk and adds a chain, the run's own, to those the bound allows for.  Each payment
the ledger misses is answered for by a chain at risk, and no chain answers for two
(`EachAnswersForOne`).  The sum itself
is a fold over the lots, about which no induction principle can be instantiated;
it is shown equal to the number of *coins*, the pairs of a lot and one unit of
its price, by looking at a smallest set of lots for which it is not
(`FS_StrictSubsetOrderingWellFounded`), and of coins one can say that a set is
finite and how many a step adds.

`TokenPool` (`PoolAssumption`: finitely many tasks), any number of tasks, pools,
locks and cancellations:

| theorem | statement |
|---|---|
| `NeverClosedUnderABorrower` | `Spec => []NoUseAfterClose` |

The invariant says where a task may hold a pool (`HoldsByPlace`), that a
published or borrowed pool is open and one being closed is retired with a count
of zero (`Sheltered`), and that no pool's count is below the number of its
holders (`Counted`).  `Recount` is the one lemma about cardinality: a step of one
task keeps the count right if the leases move at least as much as it does.
Neither the lock's mutual exclusion nor its queue is needed, which is why
forgetting a lock that has waiters does no harm to safety; a cancelled holder
makes the count too large, never too small, which is why it leaks and does not
break.

`AccountRotation` (`RotationAssumption`), any number of requests, accounts,
exclusions and rollbacks:

| theorem | statement |
|---|---|
| `AddedAreUnique` | `DistinctLegacies => (AccountsSpec => []AddedTokensAreUnique)` |
| `StaleInWindowsOnly` | `AccountsSpec => []OnlyTheseWindowsAreStale` |

An account has up to two *versions* at a time, the committed row and that of the
transaction that has it locked.  The first invariant is about versions: a digest
is that of the row's token, and no two versions of different accounts carry one
readable token (`NoTwins`).  A row without a digest is invisible to the unique
index; what keeps two of them apart from a new one is that every request that
adds either still has that row on its list of rows to backfill, or has gone past
(`Listed`).  `DistinctLegacies`, that the rows of before revision 0014 were
distinct, is the exception the docstring of `_backfill_token_hashes` makes.

The second invariant says which row a transaction may give another status
(`SteadyAt`: the one account it is about), that the API has no pool between a
change's invalidation and its commit unless a build came between, which is a
named window (`QuietAt`), and that of every account not excused the pool and the
build under way say what Postgres says, but for tokens the client itself has
quarantined (`ToldAt`).

`FlowInterpreter` (`GraphAssumption`), any graph, however deep its forks and
fan-outs nest and wherever its gotos lead, any number of crashes, failures and resumptions.
The assumption is what the compiler sees to: finitely many nodes, gotos to nodes
there are, and no cycle of edges but from a node to itself (`_assert_acyclic`).
It asks for no `body`: no check in the compiler does.

| theorem | statement |
|---|---|
| `NeverRepeated` | `Spec => CommittedIsNotRepeated` |
| `Isolated` | `Spec => []BranchesAreIsolated` |
| `NothingStarts` | `Spec => NothingStartsAfterAbort` |
| `RunsAreClosed` | `Spec => []CompletedIsClosed` |

The first rests on an invariant about keys: a coroutine between the claim of its
step and the commit of it is at a row that exists and is not committed
(`Uncommitted`).  It survives the steps
of the *other* coroutines because no two of them are ever at one row: a frame's
name ends in an item or a branch, never in a visit, so the key of a visit gives
the frame back (`StepsDiffer`), and whatever a step routes to, its own frame is
not inside a step afterwards and nobody else has entered one (`LeavesOnly`, one
lemma per way of routing).  This is where the model's reading of the keys as
injective is used.

The next two rest on a second one, `TInv`, which says that the live frames are
a tree: each was started by the one before it in its name, which waits for it,
and whoever is waited for is there (`Tree`).  What a frame knows was committed
at a key that leads into no branch the frame is not inside, or is a join
(`Sound`): when a fork collects its branches it adds the join alone, and it does
so only if none of them was told to stop.  Whoever set an abort box rests in it
still (`Boxes`), and a frame rests once it was told to stop; that the *whole* run
stands still then takes the tree: a fork whose branch set the box waits for the
others, and does not go on but by aborting its own.

The last is about the graph as a whole: that a walk which has come to its end has
left nothing out on the way.  A *position* is a node and the name of a frame, and
a committed result leads to positions (`Targets`): the next node of the chain,
the first of each branch or item, the node behind a fan-out.  The invariant never
speaks of paths.  It says that *every* set of positions which holds what the live
frames stand at and is closed under what is committed holds all that is still
owed (`Covered`), owed being the entry and what the committed steps lead to as
long as it is not committed itself.  It says so of the walk of now (`Ahead`); of
the walk that the next executor would begin at `current_node_id`, whose set must
hold the walk of now as well (`Anew`); and of a completed run, which has no walk,
that nothing is owed (`Paid`).  A walk that was never taken up again needs no
closure, for it stands at what is owed.  Each step of a frame takes one position
off the walk and puts on what it leads to; when the last frame has gone the empty
set is such a set, and nothing is owed.  A branch stops short of its join, which
the fork passes on (`Beyond`, `StopsAtJoin`), and of a run that was told to abort
nothing is claimed.

The invariant under it, `FInv`, says which rows there can be.  A row is a visit
that some frame has counted (`RowsFit`), and a chain comes to a node a second time
only by that node's own edge or after a goto back (`Ordered`): from any other
node there is no way back, which is where acyclicity is used (`NoWayBack`: of the
nodes on a way there and back, one would have to lead out of them all).

A failure of the top chain is to this argument what a crash is: the row names the
node the chain was inside, for it was touched on the way in (`Touched`), or the
one it was about to enter, which is all the walk was at.  A failure deeper down
is not.  A failed row's `current_node_id` names the node that raised, however
deep inside a fork or a fan-out it was; an executor that takes the row up again
starts there as the top chain, and may complete the run with the rest of the
graph never executed.  `CompletedIsClosed` excepts a run with such a failure in
its past (`astray`): without the exception TLC finds one.

`EffectNodes` (`EffectNodesAssumption`), any scenarios, children, prices, answers
and numbers of crashes and lost keys:

| theorem | statement |
|---|---|
| `NeverRepeatedByTheStep` | `Spec => []EffectsAreNotRepeated` |
| `EveryCallIsAwaited` | `Spec => []NoCallOutlivesItsStep` |
| `OnlyPublicIsReached` | `Spec => []InwardIsNeverReached` |

`ProgramShape` reads off the eight programs that ask a guard that they ask it
once, before the one request they make, and make it last.  The invariant then
counts: what a child has done, plus one if it is past the guard and not yet on
the wire (`Armed`), is at most its key, if held, plus the keys that were lost
(`PaidFor`).  For the two nodes that trust the step's row it is that they are
armed in the first attempt only, and have done nothing before they send
(`FirstAttemptOnly`), which no lost key disturbs.

For the second, no child of a step is on the wire unless the step is running or
its timeout has cut it off.  For the third, the address a request is about to
connect to is one that its own check has cleared, whatever the resolver answered
before and after (`AnswersAssumption`: an answer is a sequence of addresses).

`Schedules` (`ScheduleAssumption`, `StartsAssumption`, `AsksAssumption`), any
flows, triggers, requests, events, instants and tables to start from, the tables
being those that requests answered one by one leave behind:

| theorem | statement |
|---|---|
| `AutomationsAreOne` | `Spec => []OneAutomationPerPreset` |
| `HandledIsDelivered` | `Spec => []HandledEventsReachedEveryFlow` |
| `TicksAreKept` | `Spec => ResyncLosesNoTick` |

All three stand on `Typed`, which also says at which label a request of each
kind can be.  One automation: the flow of a preset, once created, is the one
every later lookup finds (the unique index), and a request between unscheduling
and attaching left no schedule behind, unless another was between the two as
well, which the property excepts.  Handled events: what was matched when the
event was read has its run, or is still on the router's list, or is the fire
under way (`Underway`, `InHand`).  Ticks: the resync writes a job only where
there is none or where the trigger is gone, whatever changed since it read.

The gateway's three components, each under its own specification
(`StreamsSpec`, `CardsSpec`, `RegistrySpec`; they share no state):

| theorem | statement |
|---|---|
| `CaughtUpIsComplete` | `StreamsSpec => []ViewersSeeTheRun` |
| `EveryTaskIsDelivered` | `CardsSpec => []WalksMissNothing` |
| `RunNowIsCounted` | `CardsSpec => []ClicksAreCounted` |
| `EveryImportWasReviewed` | `RegistrySpec => []ImportsWereReviewed` |

`EventStreams` (`StreamsAssumption`), any runs, browsers, history and length of
buffer.  Everything pushed so far is, for each browser, *covered*: seen, trimmed
from the buffer, in the gap between replay and subscription, or overtaken by a
later event between its two writes (`Covered`).  The invariant says this of the part of
the history each stage is responsible for: a stream that replays, of all before
the frames it still holds (`Replaying`); one that is live, of all but what was
broadcast and lies in its queue (`Following`); one that is away, of all up to its
last event id (`Resumable`).

`TaskCards` (`CardsAssumption`), any tasks, page sizes, windows and clicks.  What
was delivered is not ahead of the cursor, what stayed was delivered or is still
ahead (`DeliveredIsBehind`, `Awaited`), and the order of pages is strict
(`BeforeOrders`), so that equal instants are no matter.  A run's key names a task
and a window, and a key has one run (`OneRunPerKey`): clicks within one length
of a window fall into two windows at most, clicks a window apart never into one.

`ModuleRegistry`, any callers, modules, contents and node sets.
A caller that waits for a graph holds a ref the index *once* listed (`Waiting`);
the module may have been replaced since.  What ties the import to the review is
the checksum in the ref, with the history of what CI passed, which only grows.
CI and the process compile against the classes each has then: what the one
accepts (`Accepts`) the other may refuse, because a type is missing, asks for an
input that is not given, or may not be a batch's child.  With the same classes
for all that the graph names both come to one verdict, although the process
lays the directory out again from the ref (`OnlyForTheNodes`).

`PluginRuntime` (`PluginAssumption`), any names, people, versions, plugins'
conduct, hosts, faults and crashes:

| theorem | statement |
|---|---|
| `PluginsAreNotLost` | `Spec => []FoldersStayWhole` |
| `HooksArePaired` | `Spec => []OpenedPluginsAreClosedOnce` |

The service's lock puts one install at a time past it (`OneInside`), so what that
install put in the staging folder is still there when it swaps (`Staged`), and its
bytes are those of the version it was asked for because the digest was compared
before the lock.  Outside the two renames a plugin that is owed is live, or in the
backup after one swap that was cut short, or nowhere after two (`Held`, `OnDisk`);
between them it is in the staging folder.  The count is as low as the code allows:
after one such swap only the backup is left, and the next one begins by deleting
it (`install_service.py:143`).  Removals are not under the lock and still do no
harm, since what they take is no longer owed.

The second theorem's invariant (`HInv`) reads the manager's two passes off its
cursor.  While plugins are opened, those before it were opened and those from it
on were not (`Starting`), a survivor is open and whatever else was opened has been
closed by its quarantine (`Surviving`).  While they are closed, those behind the
cursor were closed, by this or before; if the list is the survivors', by this
alone (`Ending`).  What makes the exception of the property exact is that the
worker's list, when its start ends in POST_INIT, still has the plugin the cursor
was at, which no survivor is (`AtCursor`).

Only model-checked:

* Liveness under fairness (`PendingIsPickedUp`, `RunningSettles`,
  `WaitersAreServed`, `Terminates`, `JobsComeToMatch`, `UpdatesCatchUp`,
  `FinishedRunsEndTheirStreams`) and `SomeRequestGoesOn`, which speaks of
  ENABLED: beyond the prover.
* What `FlowAuthoring` checks (`InliningKeepsTheGraph`, `CompiledGraphsAreSound`,
  `NothingBeyondWhatWasAsked`, `NothingStaysBlocked`): its modules compute with
  RECURSIVE operators, which are beyond the prover too.

## 5. What is not modelled

`PROJECT.json` has a row for each component.

* **Telegram bot, command line, frontend**: user interfaces over the same API;
  they keep no state the engine reads.
* **Tables of an external API**: which filters a category has
  (`market/filters.py`), the curated lists (`market/curated.py`), the
  introspection of the client's methods.  They are data, not behaviour.
* **API shell**: authentication, health probes, error rendering, the request
  limiter of an external library.
* **Panel lists and presets that plugins add**; on a task card the health, the
  last run and the next time, which are shown and never acted upon.
* **Traces and their pruning**: nothing reads them back.
* **Migrations**: they run once, before the system starts.
* **Strings of iteration keys** and the per-item reading of a skipped node's old
  result (`FlowInterpreter`, above).
* **Timing**: TTLs, timeouts and cron periods are actions that may happen, under
  the fairness above; nothing depends on how long a second is, except in
  `TaskCards` (windows) and `Schedules` (grace), which have a clock.

## 6. Where the code and its text disagree

Each of these has a run whose counterexample shows it.

* `chosen_accounts`: a preset hands the chosen accounts to
  `logic.for_each_account`, which has no input and takes every active account.
* `walk_resume`: a resumed run has no results of the steps before its
  `current_node_id`, and a node that reads them fails the run.
* `account_delete`: the check for flows that pin an account and its deletion are
  two statements; a flow saved between them is not seen.

Met while modelling, and part of the models, without a run of their own:

* FAILED is not final: a redelivered job or a repeated POST starts the run again
  (`worker/runtime.py:364`; compare `api/run_routes.py:78`).
* After a failure inside a fan-out body `current_node_id` names the body's node;
  executed again, the run starts inside it and completes with items never walked
  (`worker/runtime.py:420`); `CompletedIsClosed` excepts such a run.
* A fork inside a branch that is told to stop finds its branches at rest short
  of their join.  If they rest before different nodes the run ends as FAILED; if
  they rest before one, that node is taken for the join and the fork's output
  filed under it (`worker/runtime.py:866`), where no node runs any more to read it.
* A run that crashed inside a goto loop and is taken up again counts its visits
  from one: it meets the rows of the first time round, replays their results in
  the place of new ones, and may complete with a successor never run
  (`worker/runtime.py:594`; compare `ARCHITECTURE.md:21`).
* A task cancelled while it waits for the lock in order to release never counts
  itself out; its retired pool stays open (`account/pool.py:147`).
* A replay whose own payment used up the budget is answered `purchased: False`
  by the gate, before the guard that refuses to say so (`fast_buy.py:244`); the
  run may complete on it before the first attempt, paused, has paid
  (`TruthfulSteps`, `CompletedIsFinal` and `RunPromise` except such a step).
* A purchase in a fork branch whose outcome was lost fails the run there, with the
  branch's node as `current_node_id` (`worker/runtime.py:420`).  Executed again,
  the run starts at that node outside the fork: its step has another key, so
  neither the guard nor `step_replay` knows the lot, and it may be bought a second
  time, which the comment in `fast_buy.py:268-283` says cannot happen
  (`PaidOnce` says when it does, `OverrunIsBounded` how far it goes).
* `replace_schedule` deletes and creates in two transactions: two at once leave
  two schedules, a failure between them none (`triggers/service.py:67`).
* Two rehearsals at once leave `socket.connect` blocked for good
  (`flow_engine/dryrun.py:34-45`), and one that sleeps cuts off every other
  request meanwhile.
* The rehearsal's market has no double for search, bump_thread and fast_buy: a
  flow with one of them cannot be imported.
* The autobuy preset gives `fast_buy` no `max_price` (`panel/presets.py`,
  `build_autobuy_flow`): its ceiling is the search's alone, and a lot repriced
  after it was found is bought at its new price.  The autobuy *template* does
  pass its ceiling on, and `NothingBeyondWhatWasAsked` is about that one.
* Nobody hands the compiler the tenant's blocks (`flow_engine/service.py:121`,
  `flow_routes.py:263`): a flow that uses one is refused everywhere, though
  `service.py:259` speaks of the callers that provide them.  The requests of
  `FlowAuthoring` do the same; blocks are checked by calling the compiler with
  the lookup its signature asks for (`CompileAlone` and the scenarios of
  `MCAuthoring`).
* A batch child that outlives its node's timeout is cut off in the middle of its
  call.
* A stream loses what is published between its replay and its subscription, and
  what another worker's append overtook; `task_routes.py:158` calls the
  reconnect lossless.
* No code sets a trigger inactive, so a paused task cannot occur; no code
  publishes TASK_CHANGED.
* Two swaps of one plugin that are cut short leave it nowhere: a second rename
  that raises has its staging folder deleted by the except branch
  (`install_service.py:212`), the next swap deletes the backup (`:143`), though
  the module's docstring (`:11-13`) rules out an update that ends in "the plugin
  is gone" (`FoldersStayWhole` says how often it takes).
* A worker whose start ends in POST_INIT runs the SHUTDOWN hooks of plugins that
  were never opened, and once more those of quarantined ones (`manager.py:323`,
  `:355`), which the docstring of `post_init` (`:297-300`) calls a thing of the
  past.
* pip runs without a limit under the service's lock; one that hangs stops every
  other install (`install_service.py:89-103`).
* `_gate_flow` asks the top-level nodes for unknown types and for capabilities,
  the children of batches only when they are compiled (`modules/validator.py:190`,
  `compiler.py:312`): an unknown child is `compile_failed`, and a class that is
  both batchable and REFLECTIVE would be admitted as a child, though
  `modules/validator.py:8-12` says it is caught the moment it declares itself.
  None of the shipped classes is both.
* A folder plugin that registers a key twice keeps every later start from
  succeeding (`plugin_runtime/manager.py`).

## 7. What is next

* `Schedules` composed with `RunLifecycle`: from the tick to the settled run.
* The strings of iteration keys, as a function that may collide.
