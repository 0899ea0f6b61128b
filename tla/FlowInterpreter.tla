--------------------------- MODULE FlowInterpreter ---------------------------
(***************************************************************************)
(* How one executor walks a compiled graph: chains, fan-out bodies, forks  *)
(* and joins, self-loops, stop conditions (abort and goto), the step       *)
(* budget, and a walk resumed after a crash from the RunStep rows.  Who    *)
(* may walk a run is the subject of RunLifecycle: here there is one        *)
(* executor at a time, and its touches win.                                *)
(*                                                                         *)
(* A coroutine _run_chain is a frame, named by its iteration key: the      *)
(* sequence of fan-out items and fork labels that lead to it.  The string  *)
(* the code composes from those parts is taken to be injective: items are  *)
(* distinct and look like no "fork:" or "visit" part.  A result is the     *)
(* edge label it selects, or "stop" when the node's stop condition matches.*)
(***************************************************************************)
EXTENDS Integers, Sequences, FiniteSets

CONSTANTS
  Graphs,      \* the compiled graphs a run may be of
  MaxSteps     \* max_steps_per_run

None == "none"  \* no node: the end of a chain, a NULL current_node_id

(* Nodes that lead to one another are one node: the compiler allows a node *)
(* an edge to itself, and no other cycle (compiler.py, _assert_acyclic).   *)
Acyclic(g) == \A S \in SUBSET g.nodes : S # {} =>
  \E n \in S : \A l \in DOMAIN g.edges[n] : g.edges[n][l] \notin S \ {n}

(* What the compiler sees to.  No label is called "stop": that is a node's *)
(* stop condition.                                                         *)
ASSUME GraphAssumption ==
  /\ \A g \in Graphs :
       /\ IsFiniteSet(g.nodes) /\ g.entry \in g.nodes /\ None \notin g.nodes /\ Acyclic(g)
       /\ \A n \in g.nodes : \A l \in DOMAIN g.edges[n] : l # "stop" /\ g.edges[n][l] \in g.nodes
       /\ \A n \in g.nodes : /\ g.stop[n].action \in {"none", "abort", "goto"}
                             /\ g.stop[n].target \in IF g.stop[n].action = "goto" THEN g.nodes ELSE {None}
                             /\ Len(g.items[n]) \in Nat
       /\ g.raising \subseteq g.nodes /\ g.starts \in Nat
  /\ MaxSteps \in Nat

VARIABLES
  graph,        \* what the run was compiled to
  status, cur,  \* the run row
  rows,         \* RunStep rows: <<node, key>> -> [done, res, ran]
  frames,       \* the live coroutines: key -> frame
  budget,       \* step_budget[0]
  asked,        \* abort boxes that are set, each named by its fork's frame
  aborted,      \* has a stop condition asked to abort, in this execution?
  starts,       \* executors so far
  astray        \* history: has a step failed inside a frame that is not the top
                \* chain?  Whoever takes the run up starts there all the same.

vars == <<graph, status, cur, rows, frames, budget, asked, aborted, starts, astray>>

Nodes   == graph.nodes
Entry   == graph.entry
Kind    == graph.kind     \* node -> "plain", "fanout", "fork" or "join"
Edges   == graph.edges    \* node -> [label -> node]
Items   == graph.items    \* fan-out node -> sequence of its items
Stop    == graph.stop     \* node -> [action: "none", "abort", "goto"; target: node]
Needs   == graph.needs    \* node -> the nodes whose output its inputs refer to
Raising == graph.raising  \* nodes whose execute may raise
MaxStarts == graph.starts \* bound: executors the run meets in its life

(* The edge to follow, None when the node has no such edge.                *)
Next_(n, l) == IF l \in DOMAIN Edges[n] THEN Edges[n][l] ELSE None

(* A label the node has no edge for ends the chain: "next", if it has none.*)
Outcomes(n) ==
  {"next"} \cup (IF Kind[n] = "plain" THEN DOMAIN Edges[n] ELSE {})
           \cup (IF Stop[n].action = "none" THEN {} ELSE {"stop"})

Frame(n, known) == [at |-> n, pc |-> "enter", visits |-> [m \in Nodes |-> 0],
                    known |-> known, replay |-> FALSE, res |-> "next", item |-> 0,
                    last |-> FALSE, stopped |-> None, aborted |-> FALSE]

TypeOK ==
  /\ status \in {"pending", "running", "completed", "failed"}
  /\ cur \in Nodes \cup {None}
  /\ \A s \in DOMAIN rows : s[1] \in Nodes /\ rows[s].ran \in Nat
  /\ \A f \in DOMAIN frames :
       /\ frames[f].at \in Nodes \cup {None}
       /\ frames[f].pc \in {"enter", "claim", "exec", "commit", "items", "branches", "ret"}
       /\ frames[f].known \subseteq Nodes
       /\ frames[f].pc # "enter" /\ frames[f].pc # "ret" => frames[f].at \in Nodes
  /\ budget \in 0..MaxSteps /\ starts \in 0..MaxStarts
  /\ aborted \in BOOLEAN /\ astray \in BOOLEAN

Init == /\ graph \in Graphs
        /\ status = "pending" /\ cur = None
        /\ rows = <<>> /\ frames = <<>>
        /\ budget = 0 /\ asked = {} /\ aborted = FALSE
        /\ starts = 0 /\ astray = FALSE

-----------------------------------------------------------------------------
(* Frames                                                                  *)

Prefix(g, f) == Len(g) <= Len(f) /\ SubSeq(f, 1, Len(g)) = g
Under(f) == {g \in DOMAIN frames : Prefix(f, g) /\ g # f}
Without(F) == [g \in DOMAIN frames \ F |-> frames[g]]

ForkParts(f) == {i \in 1..Len(f) : f[i][1] = "fork"}
IsBranch(f) == f # <<>> /\ f[Len(f)][1] = "fork"
Least(S) == CHOOSE i \in S : \A j \in S : i <= j
Greatest(S) == CHOOSE i \in S : \A j \in S : i >= j

(* Mutant of BoxOf: a nested fork makes a box of its own.                  *)
PrivateBox(f) == SubSeq(f, 1, Greatest(ForkParts(f)) - 1)

(* A nested fork shares the box of the outermost one.                      *)
BoxOf(f) == SubSeq(f, 1, Least(ForkParts(f)) - 1)

(* Asked of every chain a fork encloses, fan-out bodies included.          *)
StopAsked(f) == ForkParts(f) # {} /\ BoxOf(f) \in asked

(* The iteration key of the current visit.                                 *)
VisitKey(f, v) == IF v > 1 THEN Append(f, <<"visit", v>>) ELSE f
StepOf(f) == LET c == frames[f] IN <<c.at, VisitKey(f, c.visits[c.at])>>

(* F with k set to v, whether k was there or not.                          *)
Put(F, k, v) == [x \in DOMAIN F \cup {k} |-> IF x = k THEN v ELSE F[x]]

SetFrame(f, c) == frames' = [frames EXCEPT ![f] = c]

-----------------------------------------------------------------------------
(* How a walk ends                                                         *)

(* Mutant of Fail: the exception ends the walk, the row stays RUNNING.     *)
FailSilently(f, n) == /\ frames' = <<>> /\ cur' = n /\ astray' = (astray \/ f # <<>>)
                      /\ UNCHANGED <<status, asked, aborted>>

(* RunFailed in frame f: the TaskGroups cancel every sibling, and the row  *)
(* names the step that raised, whatever its depth.                         *)
Fail(f, n) == /\ status' = "failed" /\ cur' = n /\ frames' = <<>>
              /\ astray' = (astray \/ f # <<>>)
              /\ UNCHANGED <<asked, aborted>>

Finish == status' = "completed" /\ cur' = None /\ frames' = <<>> /\ UNCHANGED astray

(* _AbortRun unwinds to the nearest branch, which records it and rests; on *)
(* the linear path it completes the run.                                   *)
Abort(f) ==
  /\ aborted' = TRUE
  /\ IF ForkParts(f) = {} THEN Finish /\ UNCHANGED asked
     ELSE LET b == SubSeq(f, 1, Greatest(ForkParts(f))) IN
          /\ frames' = [Without(Under(b)) EXCEPT ![b].pc = "ret", ![b].aborted = TRUE]
          /\ asked' = asked \cup {BoxOf(f)}
          /\ UNCHANGED <<status, cur, astray>>

-----------------------------------------------------------------------------
(* Routing after a result: fresh, or replayed from its row                 *)

Onward(f, c, target) == SetFrame(f, [c EXCEPT !.at = target, !.pc = "enter"])

(* Mutant of NextItem: leaves the loop one item early.                     *)
NextItemShort(fr, f, c, i) == LET n == c.at IN
  IF i >= Len(Items[n]) \/ StopAsked(f)
  THEN [fr EXCEPT ![f] = [c EXCEPT !.at = Next_(n, "after"), !.pc = "enter"]]
  ELSE Put([fr EXCEPT ![f] = [c EXCEPT !.pc = "items", !.item = i]],
           Append(f, <<"item", Items[n][i]>>), Frame(Edges[n]["body"], c.known))

(* The frames after fr when f turns to item i of its fan-out, or past the  *)
(* last one, or out of the loop because a sibling branch asked to stop.    *)
NextItem(fr, f, c, i) == LET n == c.at IN
  IF i > Len(Items[n]) \/ StopAsked(f)
  THEN [fr EXCEPT ![f] = [c EXCEPT !.at = Next_(n, "after"), !.pc = "enter"]]
  ELSE Put([fr EXCEPT ![f] = [c EXCEPT !.pc = "items", !.item = i]],
           Append(f, <<"item", Items[n][i]>>), Frame(Edges[n]["body"], c.known))

Branch(f, l) == Append(f, <<"fork", l>>)

(* Each branch starts from its own copy of the results.                    *)
StartBranches(f, c) == LET labels == DOMAIN Edges[c.at] IN
  frames' = [g \in DOMAIN frames \cup {Branch(f, l) : l \in labels} |->
               IF g = f THEN [c EXCEPT !.pc = "branches"]
               ELSE IF g \in DOMAIN frames THEN frames[g]
               ELSE Frame(Edges[c.at][g[Len(g)][2]], c.known)]

Route(f, res) ==
  LET n == frames[f].at
      c == [frames[f] EXCEPT !.known = @ \cup {n}, !.last = TRUE, !.res = "next",
                             !.replay = FALSE]
  IN IF res = "stop" /\ Stop[n].action = "abort" THEN Abort(f)
     ELSE IF res # "stop" /\ Kind[n] = "fanout" /\ "body" \notin DOMAIN Edges[n] THEN Fail(f, n)
     ELSE /\ CASE res = "stop" -> Onward(f, c, Stop[n].target)
               [] res # "stop" /\ Kind[n] = "fork" -> StartBranches(f, c)
               [] res # "stop" /\ Kind[n] = "fanout" -> frames' = NextItem(frames, f, c, 1)
               [] OTHER -> Onward(f, c, Next_(n, res))
          /\ UNCHANGED <<status, cur, asked, aborted, astray>>

-----------------------------------------------------------------------------
(* execute_run: from the row's current node, with an empty results dict,   *)
(* a fresh budget and fresh visit counts.  Only COMPLETED is refused.      *)
Start ==
  /\ frames = <<>> /\ status # "completed" /\ starts < MaxStarts
  /\ status' = "running" /\ starts' = starts + 1
  /\ frames' = Put(<<>>, <<>>, Frame(IF cur = None THEN Entry ELSE cur, {}))
  /\ budget' = MaxSteps /\ asked' = {} /\ aborted' = FALSE
  /\ UNCHANGED <<cur, rows, astray>>

(* The process dies and another executor is to come.                       *)
Crash ==
  /\ frames # <<>> /\ starts < MaxStarts
  /\ frames' = <<>>
  /\ UNCHANGED <<status, cur, rows, budget, asked, aborted, starts, astray>>

Return(f, at) == SetFrame(f, [frames[f] EXCEPT !.pc = "ret", !.stopped = at])

(* The head of the loop, in the order of the code: end of the chain, abort *)
(* flag, join, budget; then the touch, of the top chain only.              *)
Enter(f) == LET c == frames[f]  n == c.at IN
  /\ c.pc = "enter" /\ UNCHANGED <<rows, starts>>
  /\ \/ /\ n = None
        /\ IF f = <<>> THEN Finish ELSE Return(f, None) /\ UNCHANGED <<status, cur, astray>>
        /\ UNCHANGED <<budget, asked, aborted>>
     \/ /\ n # None /\ (StopAsked(f) \/ (IsBranch(f) /\ Kind[n] = "join"))
        /\ Return(f, n)
        /\ UNCHANGED <<status, cur, budget, asked, aborted, astray>>
     \/ /\ n # None /\ ~StopAsked(f) /\ ~(IsBranch(f) /\ Kind[n] = "join")
        /\ IF budget = 0 THEN Fail(f, n) /\ UNCHANGED budget
           ELSE /\ budget' = budget - 1
                /\ SetFrame(f, [c EXCEPT !.pc = "claim", !.visits[n] = @ + 1])
                /\ cur' = IF f = <<>> THEN n ELSE cur
                /\ UNCHANGED <<status, asked, aborted, astray>>

(* Mutant of Claim: a COMPLETED row is executed like a RUNNING one.        *)
ClaimAgain(f) == LET c == frames[f]  s == StepOf(f)  old == s \in DOMAIN rows IN
  /\ c.pc = "claim" /\ UNCHANGED <<budget, starts>>
  /\ rows' = IF old THEN rows ELSE Put(rows, s, [done |-> FALSE, res |-> "next", ran |-> 0])
  /\ SetFrame(f, [c EXCEPT !.pc = "exec", !.replay = old])
  /\ UNCHANGED <<status, cur, asked, aborted, astray>>

(* claim_step, get_step, and the inputs.                                   *)
Claim(f) == LET c == frames[f]  s == StepOf(f)  old == s \in DOMAIN rows IN
  /\ c.pc = "claim" /\ UNCHANGED <<budget, starts>>
  /\ rows' = IF old THEN rows ELSE Put(rows, s, [done |-> FALSE, res |-> "next", ran |-> 0])
  /\ IF old /\ rows[s].done THEN Route(f, rows[s].res)
     ELSE IF ~(Needs[c.at] \subseteq c.known) THEN Fail(f, c.at)
     ELSE /\ SetFrame(f, [c EXCEPT !.pc = "exec", !.replay = old])
          /\ UNCHANGED <<status, cur, asked, aborted, astray>>

(* instance.execute: a result, or an exception.  JoinNode.execute asserts. *)
Execute(f) == LET c == frames[f] IN
  /\ c.pc = "exec" /\ UNCHANGED <<budget, starts>>
  /\ rows' = [rows EXCEPT ![StepOf(f)].ran = @ + 1]
  /\ \/ /\ Kind[c.at] # "join"
        /\ \E r \in Outcomes(c.at) : SetFrame(f, [c EXCEPT !.pc = "commit", !.res = r])
        /\ UNCHANGED <<status, cur, asked, aborted, astray>>
     \/ c.at \in Raising \cup {n \in Nodes : Kind[n] = "join"} /\ Fail(f, c.at)

(* complete_step, then the routing.                                        *)
Commit(f) == LET c == frames[f] IN
  /\ c.pc = "commit" /\ UNCHANGED <<budget, starts>>
  /\ rows' = [rows EXCEPT ![StepOf(f)] = [@ EXCEPT !.done = TRUE, !.res = c.res]]
  /\ Route(f, c.res)

(* The body chain of the current item is over; it shared our results.      *)
BodyEnds(f) == LET c == frames[f]
                   b == Append(f, <<"item", Items[c.at][c.item]>>) IN
  /\ c.pc = "items" /\ frames[b].pc = "ret"
  /\ frames' = NextItem(Without({b}), f, [c EXCEPT !.known = frames[b].known], c.item + 1)
  /\ UNCHANGED <<status, cur, rows, budget, asked, aborted, starts, astray>>

(* Mutant of Join: the results of the branches are merged.                 *)
JoinMerges(f) ==
  LET c == frames[f]
      B == {Branch(f, l) : l \in DOMAIN Edges[c.at]}
      ids == {frames[b].stopped : b \in B} \ {None}
      j == CHOOSE n \in ids : TRUE
  IN /\ c.pc = "branches" /\ \A b \in B : frames[b].pc = "ret"
     /\ UNCHANGED <<rows, budget, starts>>
     /\ IF \E b \in B : frames[b].aborted THEN Abort(f)
        ELSE IF Cardinality(ids) # 1 THEN Fail(f, c.at)
        ELSE /\ frames' = [Without(B) EXCEPT ![f] =
                  [c EXCEPT !.known = UNION {frames[b].known : b \in B} \cup {j},
                            !.at = Next_(j, "next"), !.pc = "enter"]]
             /\ UNCHANGED <<status, cur, asked, aborted, astray>>

(* Every branch is at rest: an abort is raised again, anything but one     *)
(* join, or a branch without a result, fails the run.                      *)
Join(f) ==
  LET c == frames[f]
      B == {Branch(f, l) : l \in DOMAIN Edges[c.at]}
      ids == {frames[b].stopped : b \in B} \ {None}
      j == CHOOSE n \in ids : TRUE
  IN /\ c.pc = "branches" /\ \A b \in B : frames[b].pc = "ret"
     /\ UNCHANGED <<rows, budget, starts>>
     /\ IF \E b \in B : frames[b].aborted THEN Abort(f)
        ELSE IF Cardinality(ids) # 1 \/ \E b \in B : ~frames[b].last THEN Fail(f, c.at)
        ELSE /\ frames' = [Without(B) EXCEPT ![f] =
                  [c EXCEPT !.known = @ \cup {j}, !.at = Next_(j, "next"), !.pc = "enter"]]
             /\ UNCHANGED <<status, cur, asked, aborted, astray>>

-----------------------------------------------------------------------------
Walk(f) == \/ Enter(f) \/ Claim(f) \/ Execute(f) \/ Commit(f)
           \/ BodyEnds(f) \/ Join(f)

Next == UNCHANGED graph /\ (Start \/ Crash \/ \E f \in DOMAIN frames : Walk(f))

Spec == Init /\ [][Next]_vars

(* The event loop runs every ready coroutine; a job is redelivered.        *)
FairSpec == /\ Spec
            /\ WF_vars(UNCHANGED graph /\ Start)
            /\ WF_vars(UNCHANGED graph /\ \E f \in DOMAIN frames : Walk(f))

-----------------------------------------------------------------------------
(* Properties                                                              *)

Base(k) == IF k # <<>> /\ k[Len(k)][1] = "visit" THEN SubSeq(k, 1, Len(k) - 1) ELSE k
Visited(n, k) == n = None \/ Kind[n] = "join" \/ \E s \in DOMAIN rows :
                   s[1] = n /\ Base(s[2]) = k /\ rows[s].done

(* A goto has led the walk back.                                           *)
WentBack == \E s \in DOMAIN rows : rows[s].res = "stop" /\ Stop[s[1]].action = "goto"

(* A run that completes without having been asked to stop has left nothing *)
(* out: whatever a committed step routes to is committed too, on every     *)
(* item of every fan-out and on every branch of every fork, however often  *)
(* the walk crashed or failed in its top chain and was taken up again      *)
(* (runtime.py, "resume").  Two walks are excepted.  Taken up inside a     *)
(* goto loop the visits are counted from one again, so that an old visit   *)
(* is replayed in the place of the one to come.  Taken up where a body or  *)
(* a branch failed, the walk starts inside it, as a top chain: what was    *)
(* left of the fan-out, and the other branches, are never walked.          *)
CompletedIsClosed ==
  status = "completed" /\ ~aborted /\ ~astray /\ (starts = 1 \/ ~WentBack) =>
  /\ Visited(Entry, <<>>)
  /\ \A s \in DOMAIN rows : LET n == s[1]  k == Base(s[2])  r == rows[s].res IN
       rows[s].done =>
         CASE r = "stop" -> Visited(Stop[n].target, k)
           [] r # "stop" /\ Kind[n] = "fork" -> \A l \in DOMAIN Edges[n] :
                Visited(Edges[n][l], Branch(k, l))
           [] r # "stop" /\ Kind[n] = "fanout" ->
                /\ Visited(Next_(n, "after"), k)
                /\ \A i \in 1..Len(Items[n]) :
                     Visited(Edges[n]["body"], Append(k, <<"item", Items[n][i]>>))
           [] OTHER -> LET t == Next_(n, r) IN
                IF t # None /\ Kind[t] = "join" /\ IsBranch(k)
                THEN Visited(Next_(t, "next"), SubSeq(k, 1, Len(k) - 1))
                ELSE Visited(t, k)

(* A committed step is the authority: its effect is never executed again   *)
(* and its result never rewritten, by any branch, revisit or resumption.   *)
CommittedIsNotRepeated ==
  [][\A s \in DOMAIN rows : rows[s].done => rows'[s] = rows[s]]_vars

(* Once a branch has asked to abort, no frame of the fork, at any depth,   *)
(* enters another node: the siblings finish the one they are inside.       *)
NothingStartsAfterAbort == [][aborted =>
  \A f \in DOMAIN frames \cap DOMAIN frames' :
     frames[f].pc = "enter" => frames'[f].pc # "claim"]_vars

(* What a frame can refer to was produced on its own path: by an enclosing *)
(* chain or a fan-out body, never inside a branch that is not its own; a   *)
(* join is all that is seen of a finished fork (runtime.py, _run_fork).    *)
(* A frame that was told to stop enters no node, and is left out: a fork   *)
(* inside it takes the node its branches rest before for their join.       *)
BranchesAreIsolated == \A f \in DOMAIN frames : ~StopAsked(f) => \A n \in frames[f].known :
  \/ Kind[n] = "join"
  \/ \E s \in DOMAIN rows :
       /\ s[1] = n /\ rows[s].done
       /\ \A i \in ForkParts(s[2]) : i <= Len(f) /\ SubSeq(f, 1, i) = SubSeq(s[2], 1, i)

(* Every execution ends, completed or failed, whatever loop of gotos and   *)
(* self-edges the graph holds: the budget is one for all its chains.       *)
Terminates == (status = "running") ~> (status \in {"completed", "failed"})

(* A run picked up again continues from its last committed step            *)
(* (ARCHITECTURE.md, "resume-after-restart"): no node having raised, it    *)
(* does not fail.                                                          *)
ResumeDoesNotFail == status # "failed"
=============================================================================
