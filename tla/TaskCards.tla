------------------------------ MODULE TaskCards ------------------------------
(***************************************************************************)
(* The panel's tasks.  A task is a projection: a schedule trigger joined   *)
(* with its flow.  A reader walks the pages newest first behind a cursor   *)
(* while schedules are added and removed under it; run-now reads the task, *)
(* then fires its flow under a key made of the task and of the window the  *)
(* clock is in.                                                            *)
(*                                                                         *)
(* Left out: the health and the last run that a card shows, cron parsing   *)
(* (next_fire_at is shown, never acted upon), the base64 of the cursor,    *)
(* the names; and a paused task, because no code ever writes a trigger's   *)
(* active flag false.                                                      *)
(***************************************************************************)
EXTENDS Integers, FiniteSets

CONSTANTS Flows,
          TaskIds, RunIds, \* uuids, integers: a random id may sort anywhere
          Limits,          \* page sizes a request may ask for
          MaxPageSize,     \* MAX_PAGE_SIZE
          Window,          \* RUN_NOW_WINDOW_S
          Clicks,          \* requests to run now
          Bounds,          \* bound: what a behaviour may use, records [ids, limits, clicks, runs, flows]
          MaxNow           \* bound: the clock

ASSUME CardsAssumption ==
    /\ TaskIds \subseteq Int
    /\ MaxPageSize \in Nat \ {0} /\ Window \in Nat \ {0}
    /\ \A b \in Bounds : /\ b.ids \subseteq TaskIds /\ b.limits \subseteq Int
                          /\ b.clicks \subseteq Clicks /\ b.flows \subseteq Flows

VARIABLES use,      \* the bound chosen, one of Bounds
          now,
          flows,    \* flows that exist and are compiled
          tasks,    \* schedule triggers: [id, flow, created]
          given,    \* ids given out
          ran,      \* runs: [id, key, flow]
          walk,     \* the reader: [at |-> "idle" | "more" | "done", cursor, got], got per task:
            \* the times it was delivered
          stayed,   \* history: tasks that were there for the whole walk so far
          click     \* per request: [at |-> "idle" | "read" | "fired" | "refused", task, flow, run, time]

cardVars == <<use, now, flows, tasks, given, ran, walk, stayed, click>>

CardsInit ==
    /\ use \in Bounds
    /\ now = 0 /\ flows = use.flows /\ tasks = {} /\ given = {} /\ ran = {}
    /\ walk = [at |-> "idle", cursor |-> <<>>, got |-> [id \in TaskIds |-> 0]]
    /\ stayed = {}
    /\ click = [k \in Clicks |-> [at |-> "idle"]]

-----------------------------------------------------------------------------
(* The projection.                                                         *)

\* SQL's comparison of pairs.
Before(a, b) == a[1] < b[1] \/ (a[1] = b[1] /\ a[2] < b[2])
KeyOf(row) == <<row.created, row.id>>

\* The join: a schedule whose flow is gone is no task.
Rows == {t \in tasks : t.flow \in flows}

\* Mutant: the time alone is compared.
AfterByTime(cursor) == {t \in Rows : cursor = <<>> \/ t.created < cursor[1]}

\* The rows after a cursor: the pair is compared, not the time alone.
After(cursor) == {t \in Rows : cursor = <<>> \/ Before(KeyOf(t), cursor)}

PageSize(limit) == IF limit < 1 THEN 1 ELSE IF limit > MaxPageSize THEN MaxPageSize ELSE limit

\* The newest rows after a cursor, as many as were asked for.
Pages(cursor, limit) ==
    LET rows == After(cursor)
        size == PageSize(limit)
        newest(items) == \A t \in items, u \in rows \ items : Before(KeyOf(u), KeyOf(t))
    IN  IF Cardinality(rows) > size
        THEN {items \in SUBSET rows : Cardinality(items) = size /\ newest(items)}
        ELSE {rows}

-----------------------------------------------------------------------------
(* What happens to the rows.                                               *)

TickCards ==
    /\ now < MaxNow
    /\ now' = now + 1
    /\ UNCHANGED <<use, flows, tasks, given, ran, walk, stayed, click>>

\* A schedule is added; several may share one instant.
AddTask(id, f) ==
    /\ id \notin given /\ f \in flows
    /\ given' = given \union {id}
    /\ tasks' = tasks \union {[id |-> id, flow |-> f, created |-> now]}
    /\ UNCHANGED <<use, now, flows, ran, walk, stayed, click>>

\* delete_by_flow: the schedules of a flow go, for good or to be replaced.
DropTasks(f) ==
    /\ \E t \in tasks : t.flow = f
    /\ tasks' = {t \in tasks : t.flow # f}
    /\ stayed' = stayed \ {t.id : t \in {u \in tasks : u.flow = f}}
    /\ UNCHANGED <<use, now, flows, given, ran, walk, click>>

\* The flow and its compiled form go after them.
DropFlow(f) ==
    /\ f \in flows
    /\ \A t \in tasks : t.flow # f
    /\ flows' = flows \ {f}
    /\ UNCHANGED <<use, now, tasks, given, ran, walk, stayed, click>>

-----------------------------------------------------------------------------
(* The reader.                                                             *)

\* GET /tasks/list: the first page or the one behind next_cursor.  limit + 1
\* rows are asked for; the surplus says that there is more.
NextPage(limit) ==
    /\ walk.at # "done"
    /\ \E items \in Pages(walk.cursor, limit) :
          LET got == [id \in TaskIds |-> IF \E t \in items : t.id = id
                                         THEN walk.got[id] + 1 ELSE walk.got[id]]
          IN  IF Cardinality(After(walk.cursor)) > PageSize(limit)
              THEN \E last \in items :
                      /\ \A t \in items \ {last} : Before(KeyOf(last), KeyOf(t))
                      /\ walk' = [at |-> "more", cursor |-> KeyOf(last), got |-> got]
              ELSE walk' = [at |-> "done", cursor |-> <<>>, got |-> got]
    /\ stayed' = IF walk.at = "idle" THEN {t.id : t \in Rows} ELSE stayed
    /\ UNCHANGED <<use, now, flows, tasks, given, ran, click>>

-----------------------------------------------------------------------------
(* run-now.                                                                *)

\* get_task: a task that is gone is refused.
ReadTask(k, t) ==
    /\ click[k].at = "idle"
    /\ click' = [click EXCEPT ![k] = IF t \in Rows THEN [at |-> "read", task |-> t.id, flow |-> t.flow]
                                                   ELSE [at |-> "refused"]]
    /\ UNCHANGED <<use, now, flows, tasks, given, ran, walk, stayed>>

\* Mutant: windows twice as long as announced.
BucketTooLong(time) == time \div (2 * Window)

Bucket(time) == time \div Window

\* create_run under the key: the run that has it, or a new one.  A flow that was
\* deleted since is refused.
Fire(k, id) ==
    /\ click[k].at = "read"
    /\ LET f == click[k].flow
           key == <<click[k].task, Bucket(now)>>
           same == {r \in ran : r.flow = f /\ r.key = key}
           run == IF same = {} THEN [id |-> id, key |-> key, flow |-> f]
                  ELSE CHOOSE r \in same : TRUE
       IN  IF f \in flows
           THEN /\ same = {} => \A r \in ran : r.id # id
                /\ ran' = ran \union {run}
                /\ click' = [click EXCEPT ![k] = [at |-> "fired", task |-> click[k].task,
                                                  run |-> run.id, time |-> now]]
           ELSE /\ click' = [click EXCEPT ![k] = [at |-> "refused"]]
                /\ UNCHANGED ran
    /\ UNCHANGED <<use, now, flows, tasks, given, walk, stayed>>

CardsNext ==
    \/ TickCards
    \/ \E f \in Flows : DropTasks(f) \/ DropFlow(f) \/ \E id \in use.ids : AddTask(id, f)
    \/ \E limit \in use.limits : NextPage(limit)
    \/ \E k \in use.clicks : \/ \E t \in tasks : ReadTask(k, t)
                             \/ \E id \in use.runs : Fire(k, id)

-----------------------------------------------------------------------------
(* Properties.                                                             *)

\* A walk over the pages delivers no task twice, and delivers every task that
\* was there from its first page to its last, whatever was added or removed in
\* between and however many tasks share one instant.
WalksMissNothing ==
    /\ \A id \in TaskIds : walk.got[id] <= 1
    /\ walk.at = "done" => \A id \in stayed : walk.got[id] = 1

\* Clicks on one task within the length of a window start two runs at most (the
\* windows are fixed, a double-click may straddle two), and clicks a window
\* apart are never taken for one.
ClicksAreCounted ==
    LET fired(id) == {k \in Clicks : click[k].at = "fired" /\ click[k].task = id}
    IN  \A id \in TaskIds : \A a \in fired(id) :
            /\ \A b \in fired(id) : click[b].time >= click[a].time + Window
                                        => click[a].run # click[b].run
            /\ Cardinality({click[b].run : b \in {c \in fired(id) :
                                click[c].time \in click[a].time..(click[a].time + Window - 1)}}) <= 2

=============================================================================
