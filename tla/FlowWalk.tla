------------------------------ MODULE FlowWalk ------------------------------
(***************************************************************************)
(* What a compiled flow does when it is walked once, from its entry to its *)
(* end: the values on its wires and the calls it makes.  The same walk is  *)
(* a run against the marketplace and the rehearsal of an import against    *)
(* doubles; a `world` is one or the other.  Crashes, retries, forks and    *)
(* gotos of the interpreter are the subject of FlowInterpreter.            *)
(*                                                                         *)
(* A world is [dry, accounts, lots, offers, asks, refused]: the tenant's   *)
(* active accounts, the lots each has listed, what a search finds as pairs *)
(* <<lot, price>>, what the seller asks for a lot when it is bought, and   *)
(* the lots the marketplace will not sell to us.                           *)
(***************************************************************************)
EXTENDS PresetFlows

NoAccount == "no account"

\* build_dryrun_deps: one account, the rest of the market only as far as the
\* double has a method for it.  The lots of its account stand on a page that
\* nobody asks for.
Rehearsal == [dry |-> TRUE, accounts |-> <<"rehearsal account">>,
              lots |-> [a \in {"rehearsal account"} |-> <<>>],
              offers |-> <<>>, asks |-> <<>>, refused |-> {}]

HasNoDouble == {"search", "buy", "thread", "dynamic"}

-----------------------------------------------------------------------------
(***************************************************************************)
(* The nodes that touch the marketplace.  An act is                        *)
(* [does, account, lot, price].                                            *)
(***************************************************************************)

FanOut(items, port) ==
    Gives([fanout |-> <<"list", items>>, port |-> Str(port), count |-> Nr(Len(items))], "body")

ForEachAccountNode(world) ==
    FanOut([k \in DOMAIN world.accounts |-> Str(world.accounts[k])], "account_id")

ForEachLotNode(in) ==
    LET ids == in["item_ids"] IN
    IF ids[1] # "list" THEN Failed
    ELSE IF \E k \in DOMAIN ids[2] : ids[2][k][1] # "num" \/ ~IsWhole(ids[2][k]) THEN Failed
    ELSE FanOut(ids[2], "item_id")

GetMyLotsNode(account, world) ==
    IF account = NoAccount THEN Failed
    ELSE LET lots == world.lots[account] IN
         Gives([item_ids |-> <<"list", [k \in DOMAIN lots |-> Nr(lots[k])]>>,
                count |-> Nr(Len(lots))], "next")

\* The marketplace filters by price, so a dearer lot is not found at all.
SearchNode(in, world) ==
    LET found == SelectSeq(world.offers, LAMBDA o : o[2] * Unit <= Coerced(in["max_price"])[2]) IN
    IF ~IsFraction(in["max_price"]) THEN Failed
    ELSE IF Coerced(in["max_price"])[2] <= 0 THEN Failed
    ELSE Gives([item_ids |-> <<"list", [k \in DOMAIN found |-> Nr(found[k][1])]>>,
                count |-> Nr(Len(found)),
                cheapest_price |-> Nr(IF found = <<>> THEN 0
                                      ELSE Min({found[k][2] : k \in DOMAIN found}))], "next")

ActOnLotNode(in, port, account, mustBePinned) ==
    IF ~IsWhole(in[port]) \/ (mustBePinned /\ account = NoAccount) THEN Failed
    ELSE Gives([item_id |-> in[port]], "next")

\* A new price, or a discount of a current one; the schema cannot say "one of
\* the two", so the node does.
RepriceNode(in) ==
    LET price == Port(in, "price") IN
    IF price = None /\ None \in {Port(in, "decay_pct"), Port(in, "current_price")} THEN Failed
    ELSE IF ~IsWhole(in["item_id"]) \/ (price # None /\ ~IsWhole(price)) THEN Failed
    ELSE Gives([item_id |-> in["item_id"]], "next")

\* Whole numbers, and a budget only beside a ceiling.
ValidPurchase(in) ==
    LET ceiling == Port(in, "max_price")
        budget  == Port(in, "run_budget")
    IN  /\ IsWhole(in["item_id"])
        /\ Port(in, "dry_run") \in Truths \cup Lies \cup {None}
        /\ ceiling # None => IsWhole(ceiling)
        /\ budget # None => ceiling # None /\ IsWhole(budget)

\* A rehearsed purchase ends before the money; a real one is checked against
\* the budget of the run, then against the price the seller asks now.
FastBuyNode(in, spent, world) ==
    LET dry     == Port(in, "dry_run") \in Truths \cup {None}
        ceiling == Port(in, "max_price")
        budget  == Port(in, "run_budget")
        lot     == Whole(in["item_id"])
        result(bought, price, out) ==
            Gives([item_id |-> in["item_id"], price |-> Nr(price), purchased |-> Bool(bought),
                   budget_exhausted |-> Bool(out)], "next")
    IN  IF ~ValidPurchase(in)
        THEN Failed
        ELSE IF dry THEN result(FALSE, 0, FALSE)
        ELSE IF budget # None /\ spent + Whole(ceiling) > Whole(budget) THEN result(FALSE, 0, TRUE)
        ELSE IF \/ lot \in world.refused
                \/ ceiling # None /\ world.asks[lot] > Whole(ceiling)
        THEN result(FALSE, 0, FALSE)
        ELSE result(TRUE, world.asks[lot], FALSE)

Spent(acts) == FoldSeq(LAMBDA a, sum : sum + a.price, 0, acts)

\* execute() of the node's class.
Execute(kind, in, visits, s, world) ==
    CASE world.dry /\ kind \in HasNoDouble -> Failed
      [] kind = "condition" -> ConditionNode(in)
      [] kind = "compare"   -> CompareNode(in)
      [] kind = "math"      -> MathNode(in)
      [] kind = "bool_op"   -> BoolOpNode(in)
      [] kind = "switch"    -> SwitchNode(in)
      [] kind = "take"      -> TakeNode(in)
      [] kind = "concat"    -> ConcatNode(in)
      [] kind = "wait"      -> WaitNode(in, visits)
      [] kind = "accounts"  -> ForEachAccountNode(world)
      [] kind = "each"      -> ForEachLotNode(in)
      [] kind = "lots"      -> GetMyLotsNode(s.account, world)
      [] kind = "search"    -> SearchNode(in, world)
      [] kind = "buy"       -> FastBuyNode(in, Spent(s.acts), world)
      [] kind = "reprice"   -> RepriceNode(in)
      [] kind = "bump"      -> ActOnLotNode(in, "item_id", s.account, FALSE)
      [] kind = "thread"    -> ActOnLotNode(in, "thread_id", s.account, TRUE)
      [] kind = "send"      -> Gives([sent |-> Bool(TRUE)], "next")
      [] OTHER              -> Failed

ActsOf(kind, r, account) ==
    LET act(price) == <<[does |-> kind, account |-> account, lot |-> Whole(r.out.item_id),
                         price |-> price]>>
    IN  IF kind = "buy" /\ r.out.purchased = Bool(TRUE) THEN act(Whole(r.out.price))
        ELSE IF kind \in {"bump", "thread", "reprice"} THEN act(0)
        ELSE <<>>

-----------------------------------------------------------------------------
(***************************************************************************)
(* The walk.                                                               *)
(***************************************************************************)

\* _make_resolver: a variable that was not provided and a node that has not
\* run yet are errors, an output a node did not give is a null.
ValueOf(i, s, vars) ==
    CASE i[1] = "value" -> i[2]
      [] i[1] = "env" -> NoValue
      [] i[1] = "port" /\ i[2] = VarsNode ->
           IF i[3] \in DOMAIN vars THEN AtPath(vars[i[3]], i[4]) ELSE NoValue
      [] i[1] = "port" /\ i[2] # VarsNode ->
           IF i[2] \in DOMAIN s.results THEN AtPath(Port(s.results[i[2]], i[3]), i[4])
           ELSE NoValue

Follow(edges, label) == IF label \in DOMAIN edges THEN edges[label] ELSE NoId

\* From the node `id`, with the walk so far in
\*   s = [ok, halted, slept, acts, results, account].
RECURSIVE Walk(_, _, _, _, _, _)
Walk(ir, vars, world, id, visits, s) ==
    IF id = NoId \/ ~s.ok \/ s.halted THEN s
    ELSE
    LET n    == ir.nodes[id]
        kind == NodeTypes[n.type].kind
        in   == [p \in DOMAIN n.in |-> ValueOf(n.in[p], s, vars)]
        r    == IF NoValue \in Range(in) THEN Failed ELSE Execute(kind, in, visits, s, world)
        done == [s EXCEPT !.results = (id :> r.out) @@ @,
                          !.acts = @ \o ActsOf(kind, r, s.account),
                          !.slept = @ \/ r.edge = "wait"]
        Item(t, item) ==
            Walk(ir, vars, world, n.edges["body"], 0,
                 [t EXCEPT !.results = (id :> ((r.out.port[2] :> item) @@ r.out)) @@ @,
                           !.account = IF r.out.port = Str("account_id") THEN item[2] ELSE @])
        on   == Follow(n.edges, r.edge)
    IN  IF ~r.ok
        THEN IF n.onError = NoId THEN [s EXCEPT !.ok = FALSE]
             ELSE Walk(ir, vars, world, n.onError, 0, s)
        ELSE IF n.halt # "" /\ Port(r.out, n.halt) = Bool(TRUE) THEN [done EXCEPT !.halted = TRUE]
        ELSE IF "fanout" \notin DOMAIN r.out
        THEN Walk(ir, vars, world, on, IF on = id THEN visits + 1 ELSE 0, done)
        ELSE IF "body" \notin DOMAIN n.edges THEN [done EXCEPT !.ok = FALSE]
        ELSE Walk(ir, vars, world, Follow(n.edges, "after"), 0,
                  [FoldLeft(Item, done, r.out.fanout[2]) EXCEPT !.account = s.account])

WalkFrom(ir, vars, world) ==
    Walk(ir, vars, world, ir.entry, 0,
         [ok |-> TRUE, halted |-> FALSE, slept |-> FALSE, acts |-> <<>>, results |-> <<>>,
          account |-> NoAccount])
=============================================================================
