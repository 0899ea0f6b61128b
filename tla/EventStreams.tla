---------------------------- MODULE EventStreams ----------------------------
(***************************************************************************)
(* How the panel learns what its runs are doing.                           *)
(*                                                                         *)
(* A worker that moves a run appends an event to a capped replay buffer in *)
(* Redis and then publishes it (RedisEventTransport.publish, two writes    *)
(* with an await between).  A browser trades its key for a token, opens a  *)
(* stream if the installation still has a slot (StreamLimiter), is sent    *)
(* what the buffer holds after the last event it knows, is subscribed, and *)
(* follows (RedisEventTransport.subscribe inside sse_frames).  It may      *)
(* leave at any moment and come back with its last event id.               *)
(*                                                                         *)
(* One channel is watched, chosen by Init: the tenant's task feed, which   *)
(* carries the start and the end of every run and is never closed by the   *)
(* server, or the channel of one run, which carries its steps and is       *)
(* closed once the run is over.                                            *)
(*                                                                         *)
(* Left out: the day after which an idle buffer expires, undecodable       *)
(* payloads (nothing writes one), the text of the frames.                  *)
(***************************************************************************)
EXTENDS Integers, SequencesExt

CONSTANTS Runs, Clients,
          Casts,        \* bound: who takes part, records [feed, runs, clients]
          StreamCap,    \* settings.max_concurrent_streams, the limiter's max_streams
          BufferMaxLen, \* _BUFFER_MAX_LEN
          MaxSteps,     \* bound: steps of the watched run
          MaxConnects,  \* bound: connections one browser opens
          MaxFaults     \* bound: failed Redis writes and workers that die

ASSUME StreamsAssumption ==
    /\ "tasks" \notin Runs
    /\ BufferMaxLen \in Nat \ {0}
    /\ \A k \in Casts : k.feed \in Runs \union {"tasks"}

VARIABLES cast,      \* who takes part: runs, browsers, and the channel watched
          status,    \* runs.status, per run
          stepped,   \* steps the watched run has announced
          saying,    \* per run: the event its worker is publishing, and the next write
          buffer,    \* {channel}:buffer, newest first
          opened,    \* StreamLimiter._open
          at,        \* where each browser's connection stands
          queue,     \* frames a connection has yet to send
          lastId,    \* Last-Event-ID of each browser: <<>> or <<event>>
          connects, faults, dead,
          lingering, \* bodies whose client left and whose finally is still to run
          unbegun,   \* slots taken by requests whose body never began
          pushed, aired, trimmed, seen, gap, stale  \* history

streamVars == <<cast, status, stepped, saying, buffer, opened, at, queue, lastId, connects,
                faults, dead, lingering, unbegun, pushed, aired, trimmed, seen, gap, stale>>
workVars   == <<status, stepped, saying, dead>>
redisVars  == <<buffer, pushed, aired, trimmed>>
clientVars == <<lastId, connects, seen, stale>>
slotVars   == <<opened, lingering, unbegun>>

Terminal == {"completed", "failed"}
feed == cast.feed   \* "tasks", or the run whose channel is watched
Bodies   == {c \in Clients : at[c] \in {"replaying", "live", "checking"}}

StreamsInit ==
    /\ cast \in Casts
    /\ status = [r \in Runs |-> "pending"]
    /\ stepped = 0
    /\ saying = [r \in Runs |-> <<>>]
    /\ buffer = <<>>
    /\ opened = 0 /\ lingering = 0 /\ unbegun = 0 /\ faults = 0
    /\ at = [c \in Clients |-> "away"]
    /\ queue = [c \in Clients |-> <<>>]
    /\ lastId = [c \in Clients |-> <<>>]
    /\ connects = [c \in Clients |-> 0]
    /\ dead = {}
    /\ pushed = <<>> /\ aired = <<>> /\ trimmed = {}
    /\ seen = [c \in Clients |-> {}] /\ gap = [c \in Clients |-> {}]
    /\ stale = [c \in Clients |-> {}]

-----------------------------------------------------------------------------
(* The workers: what moves a run, and what is said of it.                  *)

\* The row moves; every card drawn from the earlier row is out of date.
Moves(r, s) ==
    /\ status' = [status EXCEPT ![r] = s]
    /\ stale' = [c \in Clients |-> stale[c] \union {r}]

\* Begin publishing an event; the lifecycle of a run is said on the tenant's
\* channel only.
Says(r, what) ==
    saying' = [saying EXCEPT ![r] = IF feed = "tasks" THEN <<<<r, what>>, "push">> ELSE <<>>]

\* execute_run claims the row and then says it started.
Claim(r) ==
    /\ r \in cast.runs \ dead /\ status[r] = "pending"
    /\ Moves(r, "running")
    /\ Says(r, "started")
    /\ UNCHANGED <<cast, stepped, dead, redisVars, slotVars, lastId, connects, seen, at, queue, faults, gap>>

\* A step of the watched run is over.
Step(r) ==
    /\ r = feed /\ r \notin dead /\ status[r] = "running" /\ saying[r] = <<>>
    /\ stepped < MaxSteps
    /\ stepped' = stepped + 1
    /\ saying' = [saying EXCEPT ![r] = <<<<r, stepped + 1>>, "push">>]
    /\ UNCHANGED <<cast, status, dead, redisVars, slotVars, clientVars, at, queue, faults, gap>>

\* Mutant: the end is said before the terminal touch is committed.
FinishSaysFirst(r) ==
    /\ r \notin dead /\ status[r] = "running" /\ saying[r] = <<>>
    /\ IF feed # "tasks" \/ <<r, "finished">> \in ToSet(pushed)
       THEN /\ \E s \in Terminal : Moves(r, s)
            /\ UNCHANGED saying
       ELSE /\ Says(r, "finished")
            /\ UNCHANGED <<status, stale>>
    /\ UNCHANGED <<cast, stepped, dead, redisVars, slotVars, lastId, connects, seen, at, queue,
                   faults, gap>>

\* The terminal touch is committed, then the end is said.
Finish(r) ==
    /\ r \notin dead /\ status[r] = "running" /\ saying[r] = <<>>
    /\ \E s \in Terminal : Moves(r, s)
    /\ Says(r, "finished")
    /\ UNCHANGED <<cast, stepped, dead, redisVars, slotVars, lastId, connects, seen, at, queue, faults, gap>>

\* lpush and ltrim; a reader asks for the newest BufferMaxLen only, so the
\* instant between the two shows nothing.
Push(r) ==
    /\ saying[r] # <<>> /\ saying[r][2] = "push"
    /\ LET e == saying[r][1]
           longer == <<e>> \o buffer
       IN  /\ buffer' = SubSeq(longer, 1, IF Len(longer) > BufferMaxLen THEN BufferMaxLen
                                                                       ELSE Len(longer))
           /\ trimmed' = trimmed \union (ToSet(longer) \ ToSet(buffer'))
           /\ pushed' = Append(pushed, e)
    /\ saying' = [saying EXCEPT ![r][2] = "air"]
    /\ UNCHANGED <<cast, status, stepped, dead, aired, slotVars, clientVars, at, queue, faults,
                   gap>>

\* publish: every subscribed connection has the message, nobody else ever will.
Air(r) ==
    /\ saying[r] # <<>> /\ saying[r][2] = "air"
    /\ LET e == saying[r][1]
       IN  /\ aired' = Append(aired, e)
           /\ queue' = [c \in Clients |-> IF at[c] \in {"live", "checking"}
                                          THEN Append(queue[c], e) ELSE queue[c]]
           /\ gap' = [c \in Clients |-> IF at[c] = "replaying" THEN gap[c] \union {e} ELSE gap[c]]
    /\ saying' = [saying EXCEPT ![r] = <<>>]
    /\ UNCHANGED <<cast, status, stepped, dead, buffer, pushed, trimmed, slotVars, clientVars, at,
                   faults>>

\* A write fails: publish gives up the event and the run goes on.
PublishFails(r) ==
    /\ saying[r] # <<>> /\ faults < MaxFaults
    /\ faults' = faults + 1
    /\ saying' = [saying EXCEPT ![r] = <<>>]
    /\ UNCHANGED <<cast, status, stepped, dead, redisVars, slotVars, clientVars, at, queue, gap>>

\* The worker process is gone with whatever it was about to say.
WorkerDies(r) ==
    /\ r \notin dead /\ status[r] = "running" /\ faults < MaxFaults
    /\ faults' = faults + 1
    /\ dead' = dead \union {r}
    /\ saying' = [saying EXCEPT ![r] = <<>>]
    /\ UNCHANGED <<cast, status, stepped, redisVars, slotVars, clientVars, at, queue, gap>>

\* The sweep of abandoned runs fails the row and says nothing.
CloseAbandoned(r) ==
    /\ r \in dead /\ status[r] = "running"
    /\ Moves(r, "failed")
    /\ UNCHANGED <<cast, stepped, saying, dead, redisVars, slotVars, lastId, connects, seen,
                   at, queue, faults, gap>>

-----------------------------------------------------------------------------
(* The browsers and their streams.                                         *)

\* POST .../stream-token with the key, GET .../stream with the token: verify,
\* then limiter.open.  The slot is taken before a byte of the body is written; a
\* request over the cap is refused and changes nothing.
Open(c) ==
    /\ c \in cast.clients /\ at[c] = "away" /\ connects[c] < MaxConnects
    /\ opened < StreamCap
    /\ opened' = opened + 1
    /\ at' = [at EXCEPT ![c] = "taken"]
    /\ connects' = [connects EXCEPT ![c] = @ + 1]
    /\ UNCHANGED <<cast, workVars, redisVars, lingering, unbegun, lastId, seen, stale, queue, faults, gap>>

\* Mutant: the replay starts one event too late.
ReplayTooLate(last) ==
    LET chronological == Reverse(buffer)
        after == {i \in 1..Len(chronological) : last = <<chronological[i]>>}
    IN  SubSeq(chronological, IF after = {} THEN 1 ELSE 2 + CHOOSE i \in after : TRUE,
               Len(chronological))

\* What the buffer holds after the event the browser names; all of it when it
\* names none, or one that the buffer no longer has.
Replay(last) ==
    LET chronological == Reverse(buffer)
        after == {i \in 1..Len(chronological) : last = <<chronological[i]>>}
    IN  SubSeq(chronological, 1 + (IF after = {} THEN 0 ELSE CHOOSE i \in after : TRUE),
               Len(chronological))

\* The body begins: lrange.  Nothing is subscribed yet.
Read(c) ==
    /\ at[c] = "taken"
    /\ at' = [at EXCEPT ![c] = "replaying"]
    /\ queue' = [queue EXCEPT ![c] = Replay(lastId[c])]
    /\ UNCHANGED <<cast, workVars, redisVars, slotVars, clientVars, faults, gap>>

\* One frame reaches the browser, which keeps its id and redraws from the rows.
Deliver(c) ==
    /\ at[c] \in {"replaying", "live"} /\ queue[c] # <<>>
    /\ LET e == Head(queue[c])
       IN  /\ lastId' = [lastId EXCEPT ![c] = <<e>>]
           /\ seen' = [seen EXCEPT ![c] = @ \union {e}]
           /\ stale' = [stale EXCEPT ![c] = @ \ {e[1]}]
    /\ queue' = [queue EXCEPT ![c] = Tail(@)]
    /\ UNCHANGED <<cast, workVars, redisVars, slotVars, connects, at, faults, gap>>

\* The replay is out: pubsub.subscribe.
Join(c) ==
    /\ at[c] = "replaying" /\ queue[c] = <<>>
    /\ at' = [at EXCEPT ![c] = "live"]
    /\ UNCHANGED <<cast, workVars, redisVars, slotVars, clientVars, queue, faults, gap>>

\* A heartbeat's silence on a run's stream: is_closed is asked, which awaits
\* the database while the pending read goes on.  (The task feed has no
\* is_closed: its heartbeat changes nothing.)
Heartbeat(c) ==
    /\ feed # "tasks" /\ at[c] = "live" /\ queue[c] = <<>>
    /\ at' = [at EXCEPT ![c] = "checking"]
    /\ UNCHANGED <<cast, workVars, redisVars, slotVars, clientVars, queue, faults, gap>>

\* Mutant: only a run that succeeded is over.
CheckedForSuccess(c) ==
    /\ at[c] = "checking"
    /\ IF status[feed] = "completed"
       THEN /\ at' = [at EXCEPT ![c] = "away"]
            /\ queue' = [queue EXCEPT ![c] = <<>>]
            /\ opened' = opened - 1
       ELSE /\ at' = [at EXCEPT ![c] = "live"]
            /\ UNCHANGED <<queue, opened>>
    /\ UNCHANGED <<cast, workVars, redisVars, lingering, unbegun, clientVars, faults, gap>>

\* The answer: a finished run ends the stream, whatever arrived while the
\* question was out; otherwise the stream goes on.
Checked(c) ==
    /\ at[c] = "checking"
    /\ IF status[feed] \in Terminal
       THEN /\ at' = [at EXCEPT ![c] = "away"]
            /\ queue' = [queue EXCEPT ![c] = <<>>]
            /\ opened' = opened - 1
       ELSE /\ at' = [at EXCEPT ![c] = "live"]
            /\ UNCHANGED <<queue, opened>>
    /\ UNCHANGED <<cast, workVars, redisVars, lingering, unbegun, clientVars, faults, gap>>

\* The browser goes away in the middle of a stream: the body's finally is due.
Leave(c) ==
    /\ c \in Bodies
    /\ at' = [at EXCEPT ![c] = "away"]
    /\ queue' = [queue EXCEPT ![c] = <<>>]
    /\ lingering' = lingering + 1
    /\ UNCHANGED <<cast, workVars, redisVars, opened, unbegun, clientVars, faults, gap>>

\* ... before the body began: a generator that never ran has no finally to run.
LeaveUnbegun(c) ==
    /\ at[c] = "taken"
    /\ at' = [at EXCEPT ![c] = "away"]
    /\ unbegun' = unbegun + 1
    /\ UNCHANGED <<cast, workVars, redisVars, opened, lingering, clientVars, queue, faults, gap>>

\* _release_when_done's finally, for a body whose client left.
Release ==
    /\ lingering > 0
    /\ lingering' = lingering - 1
    /\ opened' = opened - 1
    /\ UNCHANGED <<cast, workVars, redisVars, unbegun, clientVars, at, queue, faults, gap>>

StreamsNext ==
    \/ \E r \in Runs : \/ Claim(r) \/ Step(r) \/ Finish(r) \/ Push(r) \/ Air(r)
                       \/ PublishFails(r) \/ WorkerDies(r) \/ CloseAbandoned(r)
    \/ \E c \in Clients : \/ Open(c) \/ Read(c) \/ Deliver(c)
                          \/ Join(c) \/ Heartbeat(c) \/ Checked(c) \/ Leave(c) \/ LeaveUnbegun(c)
    \/ Release

\* The event loop runs a body it has begun to serve; the silence of a heartbeat
\* comes to a stream nobody speaks on.  Workers and browsers owe nothing.
StreamsFairness ==
    \A c \in Clients : /\ WF_streamVars(Read(c)) /\ WF_streamVars(Deliver(c))
                       /\ WF_streamVars(Join(c)) /\ WF_streamVars(Heartbeat(c))
                       /\ WF_streamVars(Checked(c))

-----------------------------------------------------------------------------
(* Properties.                                                             *)

\* Types; the buffer keeps to its cap and a browser names at most one event.
StreamsTypeOK ==
    /\ cast \in Casts
    /\ status \in [Runs -> {"pending", "running"} \union Terminal]
    /\ stepped \in 0..MaxSteps
    /\ \A r \in Runs : saying[r] = <<>> \/ (saying[r][1][1] = r /\ saying[r][2] \in {"push", "air"})
    /\ Len(buffer) <= BufferMaxLen
    /\ opened \in Nat /\ lingering \in Nat /\ unbegun \in Nat /\ faults \in 0..MaxFaults
    /\ at \in [Clients -> {"away", "taken", "replaying", "live", "checking"}]
    /\ connects \in [Clients -> 0..MaxConnects]
    /\ dead \subseteq Runs
    /\ \A c \in Clients : /\ Len(lastId[c]) <= 1
                          /\ ToSet(queue[c]) \union seen[c] \union gap[c] \subseteq ToSet(pushed)

\* A connection that follows and has nothing left to read or to be told.
Quiet(c) == at[c] = "live" /\ queue[c] = <<>> /\ \A r \in Runs : saying[r] = <<>>

\* e was appended before an event the browser has seen, and published after it
\* or not at all.
Overtaken(e, c) ==
    LET place(s, x) == CHOOSE i \in 1..Len(s) : s[i] = x
    IN  \E f \in seen[c] \intersect ToSet(aired) :
            /\ place(pushed, e) < place(pushed, f)
            /\ e \in ToSet(aired) => place(aired, e) > place(aired, f)

\* What a browser that has caught up shows.  The replay and Last-Event-ID lose
\* no event, except: one the cap pushed out of the buffer, one published between
\* the replay's read and the subscription, one whose publish failed half way,
\* and one that another worker's event overtook between the two writes.  And on
\* the task feed a run whose last move was told is drawn as it is: an event
\* follows the commit it is about, so what is refetched then is never older.
ViewersSeeTheRun ==
    \A c \in Clients : Quiet(c) =>
        /\ \A e \in ToSet(pushed) \ seen[c] :
              e \in trimmed \/ e \in gap[c] \/ e \notin ToSet(aired) \/ Overtaken(e, c)
        /\ feed = "tasks" => \A r \in stale[c] :
              <<r, IF status[r] \in Terminal THEN "finished" ELSE "started">> \notin seen[c]

\* A run that is over ends the streams that watch it, those that were reading
\* its history first included.
FinishedRunsEndTheirStreams ==
    \A c \in Clients : (feed # "tasks" /\ status[feed] \in Terminal) ~> (at[c] = "away")

=============================================================================
