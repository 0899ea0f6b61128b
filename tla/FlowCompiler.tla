---------------------------- MODULE FlowCompiler ----------------------------
(***************************************************************************)
(* The compiler: a validated FlowSpec becomes a FlowIR or is refused.      *)
(*                                                                         *)
(* A node id is a sequence of names: <<"buy">> as its author wrote it,     *)
(* <<"call", "buy">> once the composite block `call` is inlined            *)
(* (`call::buy`).  A node of a spec is a record                            *)
(*   [id, type, in, edges, onError, stop, halt, kids]                      *)
(* with `in` a function from ports to inputs and `edges` one from labels   *)
(* to ids; `onError` and `stop` (where a goto leads) are an id or NoId,    *)
(* `halt` is the output that aborts the run, `kids` are the children of a  *)
(* batch.  An input is a tuple:                                            *)
(*   <<"lit", value>>  <<"vars", name>>  <<"param", name>>  <<"env", name>>*)
(*   <<"ref", id, port, path, well-formed>>                                *)
(* where "vars" and "param" are the literals {{vars.name}}, {{param.name}}.*)
(***************************************************************************)
EXTENDS Integers, SequencesExt

CONSTANTS
    NodeTypes,      \* the registry: type -> [required, batchable, kind]
    BlockTypes,     \* the types `custom.<template id>`
    MaxDepth,       \* _MAX_COMPOSITE_DEPTH
    MaxKids         \* batch_max_children

NoId     == <<>>
VarsNode == <<"vars">>
Rejected == [ok |-> FALSE]

IsBlock(n) == n.type \in BlockTypes

-----------------------------------------------------------------------------
(***************************************************************************)
(* Inlining the composite blocks.                                          *)
(***************************************************************************)

\* Where control that is sent to the block `id` of this level really enters.
Entering(entries, id) == IF id \in DOMAIN entries THEN entries[id] ELSE id

\* A ref to an output the block declares means the inner port behind it.
ReadingFrom(outputs, i) ==
    IF i[1] = "ref" /\ <<i[2], i[3]>> \in DOMAIN outputs
    THEN LET o == outputs[<<i[2], i[3]>>] IN <<"ref", o[1], o[2], i[4], i[5]>>
    ELSE i

\* A node of this level that is no block: its references to blocks are
\* redirected.
Redirected(n, entries, outputs) ==
    [n EXCEPT !.in      = [p \in DOMAIN n.in |-> ReadingFrom(outputs, n.in[p])],
              !.edges   = [l \in DOMAIN n.edges |-> Entering(entries, n.edges[l])],
              !.onError = Entering(entries, n.onError)]

\* An input of an inner node: a parameter is what the caller wired to it, a
\* ref to a sibling gets the caller's prefix.
Rewired(i, call) ==
    CASE i[1] = "param" -> call.in[i[2]]
      [] i[1] = "ref" /\ i[2] # VarsNode -> [i EXCEPT ![2] = call.id \o i[2]]
      [] OTHER -> i

\* Mutant: the error edge of the call is lost at the exits of the block.
InlinedWithoutHandler(n, call) ==
    LET leaf == DOMAIN n.edges = {} IN
    [id |-> call.id \o n.id, type |-> n.type,
     in |-> [p \in DOMAIN n.in |-> Rewired(n.in[p], call)],
     edges |-> IF leaf THEN call.edges ELSE [l \in DOMAIN n.edges |-> call.id \o n.edges[l]],
     onError |-> IF n.onError # NoId THEN call.id \o n.onError ELSE NoId,
     stop |-> NoId, halt |-> "", kids |-> <<>>]

\* An inner node in its caller's place.  The exits of the block are the nodes
\* without edges of their own, and they leave along the caller's edges.
\* Neither a goto nor the children of a batch survive this.
Inlined(n, call) ==
    LET leaf == DOMAIN n.edges = {} IN
    [id      |-> call.id \o n.id,
     type    |-> n.type,
     in      |-> [p \in DOMAIN n.in |-> Rewired(n.in[p], call)],
     edges   |-> IF leaf THEN call.edges
                 ELSE [l \in DOMAIN n.edges |-> call.id \o n.edges[l]],
     onError |-> IF n.onError # NoId THEN call.id \o n.onError
                 ELSE IF leaf THEN call.onError ELSE NoId,
     stop    |-> NoId,
     halt    |-> "",
     kids    |-> <<>>]

Unwired(n, call) ==
    \E p \in DOMAIN n.in : n.in[p][1] = "param" /\ n.in[p][2] \notin DOMAIN call.in

\* The flat graph.  `lookup` has the templates, `visited` the chain of blocks
\* that led here.
RECURSIVE Expand(_, _, _, _)
Expand(nodes, entry, lookup, visited) ==
    LET calls == {i \in DOMAIN nodes : IsBlock(nodes[i])}
        known(i) == nodes[i].type \notin Range(visited) /\ nodes[i].type \in DOMAIN lookup
        inner == [i \in calls |->
                    LET t == lookup[nodes[i].type] IN
                    Expand(t.nodes, t.entry, lookup, Append(visited, nodes[i].type))]
        last(id) == CHOOSE i \in calls : nodes[i].id = id
                                         /\ \A j \in calls : nodes[j].id = id => j <= i
        entries == [id \in {nodes[i].id : i \in calls} |-> id \o inner[last(id)].entry]
        offers == UNION {{<<nodes[i].id, o>> : o \in DOMAIN lookup[nodes[i].type].outputs}
                         : i \in calls}
        outputs == [o \in offers |->
                      LET made == lookup[nodes[last(o[1])].type].outputs[o[2]] IN
                      <<o[1] \o made[1], made[2]>>]
        plain == SelectSeq(nodes, LAMBDA n : ~IsBlock(n))
        spliced(i) == [k \in DOMAIN inner[i].nodes |-> Inlined(inner[i].nodes[k], nodes[i])]
    IN  IF \/ Len(visited) > MaxDepth
           \/ \E i \in calls : ~known(i)
        THEN Rejected
        ELSE IF \E i \in calls : \/ ~inner[i].ok
                                 \/ \E n \in Range(inner[i].nodes) : Unwired(n, nodes[i])
        THEN Rejected
        ELSE [ok    |-> TRUE,
              entry |-> Entering(entries, entry),
              nodes |-> [k \in DOMAIN plain |-> Redirected(plain[k], entries, outputs)]
                        \o FlattenSeq([k \in DOMAIN nodes |->
                                         IF k \in calls THEN spliced(k) ELSE <<>>])]

-----------------------------------------------------------------------------
(***************************************************************************)
(* The checks of one node, and what of it goes into the IR.                *)
(***************************************************************************)

\* A ref must name a node of the flat graph and carry a path that parses;
\* the ports of that node are not looked at.
Resolves(i, ids) == i[1] = "ref" => i[2] \in ids /\ i[5]

Compiled(i) ==
    CASE i[1] = "ref"  -> <<"port", i[2], i[3], i[4]>>
      [] i[1] = "vars" -> <<"port", VarsNode, i[2], <<>> >>
      [] i[1] = "env"  -> <<"env", i[2]>>
      [] OTHER         -> <<"value", IF i[1] = "param" THEN <<"str", i[2]>> ELSE i[2]>>

\* ConditionNode.validate_compile, CompareNode's, and what every other node
\* class has: nothing.  Every operator but is_null needs a right side, and a
\* literal pattern has to parse.
ValidOperands(n) ==
    LET right == IF NodeTypes[n.type].kind = "condition" THEN "right" ELSE "b"
        op    == IF "op" \in DOMAIN n.in THEN n.in["op"] ELSE <<"none">>
    IN  NodeTypes[n.type].kind \in {"condition", "compare"} =>
          /\ op # <<"lit", <<"str", "is_null">> >> => right \in DOMAIN n.in
          /\ op = <<"lit", <<"str", "regex">> >> =>
               n.in[right] # <<"lit", <<"str", "bad pattern">> >>

\* What a node needs as a leaf: a known type and its inputs.
ValidLeaf(n, ids) ==
    /\ n.type \in DOMAIN NodeTypes
    /\ \A p \in DOMAIN n.in : Resolves(n.in[p], ids)
    /\ NodeTypes[n.type].required \subseteq DOMAIN n.in
    /\ ValidOperands(n)

ValidKids(n, ids) ==
    /\ Len(n.kids) <= MaxKids
    /\ \A i, j \in DOMAIN n.kids : n.kids[i].id = n.kids[j].id => i = j
    /\ \A k \in Range(n.kids) :
         /\ DOMAIN k.edges = {} /\ k.onError = NoId
         /\ ValidLeaf(k, ids)
         /\ NodeTypes[k.type].batchable

\* Mutant: nobody looks where a goto leads.
ValidNodeButTheGoto(n, ids) ==
    /\ ValidLeaf(n, ids)
    /\ Range(n.edges) \subseteq ids
    /\ n.onError \in ids \cup {NoId}
    /\ ValidKids(n, ids)

ValidNode(n, ids) ==
    /\ ValidLeaf(n, ids)
    /\ Range(n.edges) \subseteq ids
    /\ n.onError \in ids \cup {NoId}
    /\ n.stop \in ids \cup {NoId}
    /\ ValidKids(n, ids)

-----------------------------------------------------------------------------
(***************************************************************************)
(* The depth-first search with three colours.  A node may lead back to     *)
(* itself (wait_until does), and a goto is no edge here.                   *)
(***************************************************************************)

\* Mutant: the error edge is no edge.
TargetsOfEdges(n) == Range(n.edges) \ {VarsNode, n.id, NoId}

Targets(n) == (Range(n.edges) \cup {n.onError}) \ {VarsNode, n.id, NoId}

Cycle == {NoId}

RECURSIVE Visit(_, _, _, _)
Visit(next, id, visiting, done) ==
    IF done = Cycle \/ id \in done THEN done
    ELSE IF id \in visiting THEN Cycle
    ELSE LET after == FoldSet(LAMBDA t, d : Visit(next, t, visiting \cup {id}, d), done, next[id])
         IN  IF after = Cycle THEN Cycle ELSE after \cup {id}

Acyclic(nodes) ==
    LET next == [id \in {n.id : n \in Range(nodes)} |->
                   Targets(CHOOSE n \in Range(nodes) : n.id = id)]
    IN  FoldSet(LAMBDA id, d : Visit(next, id, {}, d), {}, DOMAIN next) # Cycle

-----------------------------------------------------------------------------
\* compile_flow.
IRNode(n) ==
    [type    |-> n.type,
     in      |-> [p \in DOMAIN n.in |-> Compiled(n.in[p])],
     edges   |-> n.edges,
     onError |-> n.onError,
     halt    |-> n.halt,
     stop    |-> n.stop,
     kids    |-> [k \in DOMAIN n.kids |-> n.id \o n.kids[k].id]]

Compile(spec, lookup) ==
    LET flat == Expand(spec.nodes, spec.entry, lookup, <<>>)
        ids  == {n.id : n \in Range(flat.nodes)}
        \* the node that has this id
        the(id) == CHOOSE n \in Range(flat.nodes) : n.id = id
    IN  IF ~flat.ok THEN Rejected
        ELSE IF /\ Cardinality(ids) = Len(flat.nodes)
                /\ flat.entry \in ids
                /\ \A n \in Range(flat.nodes) : ValidNode(n, ids)
                /\ Acyclic(flat.nodes)
        THEN [ok |-> TRUE, entry |-> flat.entry, nodes |-> [id \in ids |-> IRNode(the(id))]]
        ELSE Rejected
=============================================================================
