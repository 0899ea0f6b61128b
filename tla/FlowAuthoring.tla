--------------------------- MODULE FlowAuthoring ---------------------------
(***************************************************************************)
(* The requests by which flows come to be, in one API process: publish and *)
(* compile, import (compile, rehearse, store), a composite block, a preset *)
(* that is deployed, and a run that somebody starts.                       *)
(*                                                                         *)
(* A rehearsal replaces socket.connect for the whole process and puts back *)
(* what it found.  The process is one thread: a rehearsal that never       *)
(* sleeps is over before anybody else moves, one that sleeps (wait_until)  *)
(* lets every other request in.                                            *)
(***************************************************************************)
EXTENDS FlowWalk

CONSTANTS
    Clients,        \* requests that are served at the same time
    Starts          \* the situations explored: [asks, world], with asks[c] a
                    \* sequence of requests

VARIABLES
    case,       \* the situation
    todo,       \* client -> its requests that are not answered yet
    at,         \* client -> where the first of them stands
    flows,      \* name -> the spec stored under it
    irs,        \* name -> the latest IR of it
    blocks,     \* the composite blocks stored
    compiled,   \* every compilation: [spec, lookup, ir]
    runs,       \* [flow, declared, ask, vars, ir, end] of every run, end the walk or Pending
    connect,    \* socket.connect: "real", or the client whose stub it is
    found,      \* client -> what its rehearsal found there and will put back
    overlapped  \* two rehearsals were under way at once

vars == <<case, todo, at, flows, irs, blocks, compiled, runs, connect, found, overlapped>>

Real == "real"
Pending == [ok |-> FALSE, pending |-> TRUE]
NoBlocks == <<>>

Ask(c)   == Head(todo[c])
Asks(c, kind, where) == todo[c] # <<>> /\ Ask(c).kind = kind /\ at[c] = where

Init ==
    /\ case \in Starts
    /\ todo = case.asks
    /\ at = [c \in Clients |-> "arrived"]
    /\ flows = <<>> /\ irs = <<>>
    /\ blocks = {} /\ compiled = {} /\ runs = {}
    /\ connect = Real
    /\ found = [c \in Clients |-> Real]
    /\ overlapped = FALSE

\* The request of c is answered, well or badly.
Answer(c) ==
    /\ todo' = [todo EXCEPT ![c] = Tail(@)]
    /\ at' = [at EXCEPT ![c] = "arrived"]

GoesTo(c, where) == at' = [at EXCEPT ![c] = where] /\ UNCHANGED todo

Stored(f, name, x) == (name :> x) @@ f

-----------------------------------------------------------------------------
\* import_flow: the version, the compiler, the rehearsal without variables,
\* and only then the flow.
RehearsalOf(spec) == WalkFrom(Compile(spec, NoBlocks), <<>>, Rehearsal)

Import(c) ==
    /\ Asks(c, "import", "arrived")
    /\ LET spec == Ask(c).spec
           ir   == Compile(spec, NoBlocks)
       IN  \/ /\ Ask(c).version # 1 \/ ~ir.ok
              /\ Answer(c)
              /\ UNCHANGED <<connect, found, overlapped>>
           \/ /\ Ask(c).version = 1 /\ ir.ok
              /\ ~RehearsalOf(spec).slept
              /\ IF RehearsalOf(spec).ok THEN GoesTo(c, "storing") ELSE Answer(c)
              /\ UNCHANGED <<connect, found, overlapped>>
           \/ /\ Ask(c).version = 1 /\ ir.ok
              /\ RehearsalOf(spec).slept
              /\ found' = [found EXCEPT ![c] = connect]
              /\ connect' = c
              /\ overlapped' = (overlapped \/ \E d \in Clients : at[d] = "rehearsing")
              /\ GoesTo(c, "rehearsing")
    /\ compiled' = IF Ask(c).version = 1
                   THEN compiled \cup {[spec |-> Ask(c).spec, lookup |-> NoBlocks,
                                        ir |-> Compile(Ask(c).spec, NoBlocks)]}
                   ELSE compiled
    /\ UNCHANGED <<case, flows, irs, blocks, runs>>

\* Mutant: a rehearsal that fails does not put connect back.
FailedRehearsalKeepsTheStub(c) ==
    /\ Asks(c, "import", "rehearsing")
    /\ IF RehearsalOf(Ask(c).spec).ok
       THEN connect' = found[c] /\ GoesTo(c, "storing")
       ELSE Answer(c) /\ UNCHANGED connect
    /\ UNCHANGED <<case, flows, irs, blocks, compiled, runs, found, overlapped>>

\* The rehearsal is over, green or not; the stub goes either way.
EndRehearsal(c) ==
    /\ Asks(c, "import", "rehearsing")
    /\ connect' = found[c]
    /\ IF RehearsalOf(Ask(c).spec).ok THEN GoesTo(c, "storing") ELSE Answer(c)
    /\ UNCHANGED <<case, flows, irs, blocks, compiled, runs, found, overlapped>>

Store(c) ==
    /\ Asks(c, "import", "storing")
    /\ flows' = Stored(flows, Ask(c).name, Ask(c).spec)
    /\ Answer(c)
    /\ UNCHANGED <<case, irs, blocks, compiled, runs, connect, found, overlapped>>

\* create_flow and update_flow: the spec as it is.
Save(c) ==
    /\ Asks(c, "save", "arrived")
    /\ flows' = Stored(flows, Ask(c).name, Ask(c).spec)
    /\ Answer(c)
    /\ UNCHANGED <<case, irs, blocks, compiled, runs, connect, found, overlapped>>

\* FlowService.compile.  Every route compiles without a lookup, so a flow with
\* a block in it is always refused here.
CompileFlow(name) ==
    LET ir == Compile(flows[name], NoBlocks) IN
    /\ compiled' = compiled \cup {[spec |-> flows[name], lookup |-> NoBlocks, ir |-> ir]}
    /\ irs' = IF ir.ok THEN Stored(irs, name, ir) ELSE irs

CompileSaved(c) ==
    /\ Asks(c, "compile", "arrived")
    /\ IF Ask(c).name \in DOMAIN flows THEN CompileFlow(Ask(c).name)
       ELSE UNCHANGED <<compiled, irs>>
    /\ Answer(c)
    /\ UNCHANGED <<case, flows, blocks, runs, connect, found, overlapped>>

\* compile_flow as a library: with the lookup that the routes do not pass.
CompileWithBlocks(c) ==
    /\ Asks(c, "inline", "arrived")
    /\ compiled' = compiled \cup {[spec |-> Ask(c).spec, lookup |-> Ask(c).lookup,
                                   ir |-> Compile(Ask(c).spec, Ask(c).lookup)]}
    /\ Answer(c)
    /\ UNCHANGED <<case, flows, irs, blocks, runs, connect, found, overlapped>>

\* TemplateService.create: the inner graph of a block is compiled on its own,
\* and may call no block itself.
CreateBlock(c) ==
    /\ Asks(c, "block", "arrived")
    /\ blocks' = IF Compile(Ask(c).spec, NoBlocks).ok THEN blocks \cup {Ask(c).spec} ELSE blocks
    /\ Answer(c)
    /\ UNCHANGED <<case, flows, irs, compiled, runs, connect, found, overlapped>>

\* deploy_preset: the form, the graph, the flow of this preset; then its
\* compilation, in a step of its own.
Deploy(c) ==
    /\ Asks(c, "deploy", "arrived")
    /\ LET built == BuildPreset(Ask(c).name, Ask(c).form) IN
       IF built.ok THEN /\ flows' = Stored(flows, Ask(c).name, built.spec)
                        /\ GoesTo(c, "deployed")
       ELSE Answer(c) /\ UNCHANGED flows
    /\ UNCHANGED <<case, irs, blocks, compiled, runs, connect, found, overlapped>>

CompileDeployed(c) ==
    /\ Asks(c, "deploy", "deployed")
    /\ CompileFlow(Ask(c).name)
    /\ Answer(c)
    /\ UNCHANGED <<case, flows, blocks, runs, connect, found, overlapped>>

\* RunService.create_run: the IR, the flow's parameters, the row.
StartRun(c) ==
    /\ Asks(c, "run", "arrived")
    /\ LET name == Ask(c).name
           r == Resolve(flows[name].params, DefaultToDryRun(flows[name].params, Ask(c).given))
       IN  IF name \notin DOMAIN irs THEN Answer(c) /\ UNCHANGED runs
           ELSE IF ~r.ok THEN Answer(c) /\ UNCHANGED runs
           ELSE /\ runs' = runs \cup {[flow |-> name, declared |-> flows[name].params,
                                       ask |-> Ask(c), vars |-> r.vars,
                                       ir |-> irs[name], end |-> Pending]}
                /\ Answer(c)
    /\ UNCHANGED <<case, flows, irs, blocks, compiled, connect, found, overlapped>>

\* A worker, in another process, walks a run to its end.
Work ==
    /\ \E r \in runs :
         /\ r.end = Pending
         /\ runs' = (runs \ {r}) \cup {[r EXCEPT !.end = WalkFrom(r.ir, r.vars, case.world)]}
    /\ UNCHANGED <<case, todo, at, flows, irs, blocks, compiled, connect, found, overlapped>>

Over == /\ \A c \in Clients : todo[c] = <<>>
        /\ \A r \in runs : r.end # Pending
        /\ UNCHANGED vars

Next ==
    \/ \E c \in Clients :
         \/ Import(c) \/ EndRehearsal(c) \/ Store(c)
         \/ Save(c) \/ CompileSaved(c) \/ CompileWithBlocks(c)
         \/ CreateBlock(c) \/ Deploy(c) \/ CompileDeployed(c)
         \/ StartRun(c)
    \/ Work
    \/ Over

Spec == Init /\ [][Next]_vars

-----------------------------------------------------------------------------
TypeOK ==
    /\ todo \in [Clients -> Seq(UNION {Range(case.asks[c]) : c \in Clients})]
    /\ at \in [Clients -> {"arrived", "rehearsing", "storing", "deployed"}]
    /\ connect \in Clients \cup {Real}
    /\ found \in [Clients -> Clients \cup {Real}]
    /\ DOMAIN irs \subseteq DOMAIN flows
    /\ overlapped \in BOOLEAN

-----------------------------------------------------------------------------
(***************************************************************************)
(* What a flow with blocks means, read from the outside in: a path is the  *)
(* chain of calls that leads to a level.                                   *)
(***************************************************************************)

Named(level, id) == CHOOSE n \in Range(level.nodes) : n.id = id

RECURSIVE LevelAt(_, _)
LevelAt(k, p) == IF p = NoId THEN k.spec
                 ELSE k.lookup[Named(LevelAt(k, Front(p)), <<Last(p)>>).type]

CallsAt(k, p) == {p \o n.id : n \in {m \in Range(LevelAt(k, p).nodes) : IsBlock(m)}}

RECURSIVE LevelsBelow(_, _)
LevelsBelow(k, p) == {p} \cup UNION {LevelsBelow(k, q) : q \in CallsAt(k, p)}

\* Where control goes that is sent to `id` at the level p.
RECURSIVE Lands(_, _, _)
Lands(k, p, id) == IF IsBlock(Named(LevelAt(k, p), id))
                   THEN Lands(k, p \o id, LevelAt(k, p \o id).entry) ELSE p \o id

\* Where a node leads: along its own edges, or, at an exit of a block, along
\* those of the call.
RECURSIVE Exits(_, _, _)
Exits(k, p, n) ==
    IF DOMAIN n.edges # {} THEN [l \in DOMAIN n.edges |-> Lands(k, p, n.edges[l])]
    ELSE IF p = NoId THEN n.edges
    ELSE Exits(k, Front(p), Named(LevelAt(k, Front(p)), <<Last(p)>>))

RECURSIVE Handler(_, _, _)
Handler(k, p, n) ==
    IF n.onError # NoId THEN Lands(k, p, n.onError)
    ELSE IF p = NoId \/ DOMAIN n.edges # {} THEN NoId
    ELSE Handler(k, Front(p), Named(LevelAt(k, Front(p)), <<Last(p)>>))

\* Where a value comes from: through the outputs of a block inwards, through
\* a parameter outwards.
RECURSIVE Source(_, _, _)
Source(k, p, i) ==
    CASE i[1] = "ref" ->
           IF ~IsBlock(Named(LevelAt(k, p), i[2])) THEN <<"port", p \o i[2], i[3], i[4]>>
           ELSE LET o == LevelAt(k, p \o i[2]).outputs[i[3]] IN
                Source(k, p \o i[2], <<"ref", o[1], o[2], i[4], i[5]>>)
      [] i[1] = "param" /\ p # NoId ->
           Source(k, Front(p), Named(LevelAt(k, Front(p)), <<Last(p)>>).in[i[2]])
      [] OTHER -> Compiled(i)

\* Inlining changes nothing but the names: the compiled graph has a node for
\* each plain node of each level, and its entry, its edges, its error edges
\* and its wires are those of the nested blocks.  (compiler.py:180-269)
InliningKeepsTheGraph ==
    \A k \in compiled : k.ir.ok =>
      LET levels == LevelsBelow(k, NoId)
          plain(p) == {n \in Range(LevelAt(k, p).nodes) : ~IsBlock(n)}
      IN  /\ DOMAIN k.ir.nodes = UNION {{p \o n.id : n \in plain(p)} : p \in levels}
          /\ k.ir.entry = Lands(k, NoId, k.spec.entry)
          /\ \A p \in levels : \A n \in plain(p) :
               LET m == k.ir.nodes[p \o n.id] IN
               /\ m.edges = Exits(k, p, n)
               /\ m.onError = Handler(k, p, n)
               /\ m.in = [x \in DOMAIN n.in |-> Source(k, p, n.in[x])]

\* A ring: nodes each of which leads to another of them.
HasRing(nodes) ==
    \E S \in SUBSET {n.id : n \in Range(nodes)} :
      /\ S # {}
      /\ \A n \in Range(nodes) : n.id \in S =>
           \E t \in S \ {n.id} : t \in Range(n.edges) \/ t = n.onError

\* A compiled graph leads nowhere but into itself: every edge, error edge and
\* goto ends at a node of it, every wire starts at one or at the variables, and
\* no block is left in it.  And a graph without blocks that is well formed
\* otherwise is refused for a cycle if it has one, be it through an error edge,
\* and only then.  (compiler.py:54-110, :370-395)
CompiledGraphsAreSound ==
    \A k \in compiled :
      /\ k.ir.ok =>
           LET ids == DOMAIN k.ir.nodes IN
           /\ k.ir.entry \in ids
           /\ \A id \in ids :
                LET n == k.ir.nodes[id] IN
                /\ Range(n.edges) \cup {n.onError, n.stop} \subseteq ids \cup {NoId}
                /\ \A i \in Range(n.in) : i[1] = "port" => i[2] \in ids \cup {VarsNode}
                /\ n.type \notin BlockTypes
      /\ LET ids == {n.id : n \in Range(k.spec.nodes)} IN
         /\ \A n \in Range(k.spec.nodes) : ~IsBlock(n) /\ ValidNode(n, ids)
         /\ k.spec.entry \in ids
         /\ Cardinality(ids) = Len(k.spec.nodes)
         => (k.ir.ok <=> ~HasRing(k.spec.nodes))

Ended == {r \in runs : r.end # Pending}

Bought(r) == SelectSeq(r.end.acts, LAMBDA a : a.does = "buy")

\* The forms that were sent in, by preset.
FormOf(key) ==
    (CHOOSE q \in UNION {Range(case.asks[c]) : c \in Clients} :
       q.kind = "deploy" /\ q.name = key).form

Presets == {"autobump", "thread-bump", "autobuy"}

\* No run goes beyond what it was asked: a flow with a dry_run switch buys only
\* for one who turned the switch off in so many words, whatever the flow's own
\* default says; no lot costs more than the ceiling of its order, not even one
\* whose price was raised after it was found, nor all of them more than the
\* budget, and a ceiling that is no number admits nothing; and a preset's flow
\* runs to its end with no more acts per account than its form allows.
\* (service.py:129-142, fast_buy.py:232-335, compare.py:65-88, math.py:55-69,
\* presets.py:75-292, preset_registry.py:106-278)
NothingBeyondWhatWasAsked ==
    \A r \in Ended :
      /\ (\E p \in r.declared : p.key = "dry_run") /\ Bought(r) # <<>>
         => /\ "dry_run" \in DOMAIN r.ask.given
            /\ r.ask.given["dry_run"] = Bool(FALSE)
      /\ "order" \in DOMAIN r.ask =>
           /\ \A k \in DOMAIN Bought(r) : Bought(r)[k].price <= r.ask.order.ceiling
           /\ Spent(Bought(r)) <= r.ask.order.budget
      /\ r.flow \in Presets =>
           /\ r.end.ok
           /\ \A a \in Range(r.end.acts) :
                LET his == SelectSeq(r.end.acts, LAMBDA b : b.account = a.account) IN
                Len(his) <= IF r.flow = "thread-bump" THEN Len(FormOf(r.flow).threads)
                            ELSE FormOf(r.flow).max

\* The network comes back: when no rehearsal is under way, connect is the real
\* one, unless two rehearsals were under way at once.  (dryrun.py:34-45)
NothingStaysBlocked ==
    ~overlapped => \/ connect = Real
                   \/ at[connect] = "rehearsing"

\* What the form says (preset_registry.py:134-138, presets.py:57-72): the
\* accounts that were chosen are the ones that act.
OnlyTheChosenAct ==
    \A r \in Ended : r.flow \in Presets =>
      LET chosen == Range(FormOf(r.flow).accounts) IN
      chosen # {} => \A a \in Range(r.end.acts) : a.account \in chosen

=============================================================================
