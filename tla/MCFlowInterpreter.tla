-------------------------- MODULE MCFlowInterpreter --------------------------
(* Graphs for FlowInterpreter.  A node's first letter says what it is: F a *)
(* fan-out over two items, K a fork, J a join, any other a plain node.     *)
EXTENDS FlowInterpreter

Names == {"A", "B", "C", "P", "Q", "R", "S", "T", "W", "Z",
          "F", "K", "K2", "J", "J2", "M"}
MCKind == [n \in Names |-> CASE n = "F" -> "fanout" [] n \in {"K", "K2"} -> "fork"
                             [] n \in {"J", "J2"} -> "join" [] OTHER -> "plain"]
NoStop == [n \in Names |-> [action |-> "none", target |-> None]]
NoNeeds == [n \in Names |-> {}]
Leaf == <<>>
To(n) == [next |-> n]

Plain(entry, edges, lives) ==
  [nodes |-> DOMAIN edges, entry |-> entry, kind |-> MCKind, edges |-> edges,
   items |-> [n \in Names |-> <<"x", "y">>], stop |-> NoStop, needs |-> NoNeeds,
   raising |-> {}, starts |-> lives]

(* A chain with a fan-out whose body goes on or ends (a label without an   *)
(* edge), a self-loop whose node may raise in the top chain, and a goto    *)
(* back to the start: without the step budget it need not end.             *)
LoopEdges == [A |-> To("F"), F |-> [body |-> "B", after |-> "W"],
              B |-> [yes |-> "C"], C |-> Leaf,
              W |-> [again |-> "W", next |-> "R"], R |-> Leaf]
Loop == [Plain("A", LoopEdges, 3) EXCEPT !.stop["R"] = [action |-> "goto", target |-> "A"],
                                         !.raising = {"W"}]

(* A fork: one branch a chain with a fan-out whose body may raise, the     *)
(* other a fork itself, with a node that may abort; a step after the join. *)
ForkEdges == [K |-> [a |-> "P", b |-> "K2"],
              P |-> To("F"), F |-> [body |-> "B", after |-> "J"], B |-> Leaf,
              K2 |-> [c |-> "Q", d |-> "S"], Q |-> To("J2"), S |-> To("J2"),
              J2 |-> To("T"), T |-> To("J"), J |-> To("Z"), Z |-> Leaf]
Fork == [Plain("K", ForkEdges, 2) EXCEPT
           !.stop["Q"] = [action |-> "abort", target |-> None],
           !.needs["F"] = {"P"}, !.needs["T"] = {"J2"}, !.needs["Z"] = {"J"},
           !.raising = {"B"}]

(* A goto back to the start, which a walk that crashed may take up again   *)
(* at the node it left by.                                                 *)
BackEdges == [A |-> [next |-> "B", done |-> "R"], B |-> To("C"), R |-> Leaf, C |-> Leaf]
Back == [Plain("A", BackEdges, 2) EXCEPT !.stop["B"] = [action |-> "goto", target |-> "A"]]

(* A nested fork whose branches meet at M before their join, while the     *)
(* branch beside it may abort: they come to rest before M.                 *)
MeetEdges == [K |-> [a |-> "P", b |-> "K2"], P |-> To("J"),
              K2 |-> [c |-> "Q", d |-> "S"], Q |-> To("M"), S |-> To("M"),
              M |-> To("J2"), J2 |-> To("J"), J |-> To("Z"), Z |-> Leaf]
Meet == [Plain("K", MeetEdges, 1) EXCEPT !.stop["P"] = [action |-> "abort", target |-> None]]

(* A fan-out that was given no body: it fails once it is committed.        *)
Bare == Plain("A", [A |-> To("F"), F |-> [after |-> "R"], R |-> Leaf], 2)

Walks == {Loop, Fork, Back, Meet, Bare}

(* Two steps, the second reading the first.                                *)
PairEdges == [A |-> To("B"), B |-> Leaf]
Pair == {[Plain("A", PairEdges, 2) EXCEPT !.needs["B"] = {"A"}]}
=============================================================================
