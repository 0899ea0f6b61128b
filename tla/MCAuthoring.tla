---------------------------- MODULE MCAuthoring ----------------------------
(***************************************************************************)
(* Scenarios for FlowAuthoring.  Each is one situation of `Starts`: small  *)
(* graphs for the compiler in families that add up instead of multiplying, *)
(* forms for the presets, orders for the flows that spend money, and       *)
(* imports of two clients for the rehearsal.                               *)
(***************************************************************************)
EXTENDS FlowAuthoring

CONSTANTS c1, c2

-----------------------------------------------------------------------------
\* The registry, and the texts that stand on wires.
Type(kind, required, batchable) == [kind |-> kind, required |-> required, batchable |-> batchable]

MCNodeTypes == [t \in {"logic.condition", "logic.compare", "logic.math", "logic.bool_op",
                       "logic.switch", "logic.take", "logic.string_concat", "logic.wait_until",
                       "logic.for_each_account", "logic.for_each_lot", "logic.get_my_lots",
                       "market.search", "market.bump", "market.reprice", "market.fast_buy",
                       "forum.bump_thread", "tg.send_message", "logic.batch_submit", "plain"} |->
    CASE t = "logic.condition" -> Type("condition", {"left", "op"}, FALSE)
      [] t = "logic.compare" -> Type("compare", {"a", "op"}, FALSE)
      [] t = "logic.math" -> Type("math", {"a", "b", "op"}, FALSE)
      [] t = "logic.bool_op" -> Type("bool_op", {"a", "op"}, FALSE)
      [] t = "logic.switch" -> Type("switch", {"value", "cases"}, FALSE)
      [] t = "logic.take" -> Type("take", {"items", "count"}, FALSE)
      [] t = "logic.string_concat" -> Type("concat", {"a", "b"}, FALSE)
      [] t = "logic.wait_until" -> Type("wait", {"condition", "poll_interval_s", "timeout_s"}, FALSE)
      [] t = "logic.for_each_account" -> Type("accounts", {}, FALSE)
      [] t = "logic.for_each_lot" -> Type("each", {"item_ids"}, FALSE)
      [] t = "logic.get_my_lots" -> Type("lots", {}, FALSE)
      [] t = "market.search" -> Type("search", {"max_price"}, FALSE)
      [] t = "market.bump" -> Type("bump", {"item_id"}, TRUE)
      [] t = "market.reprice" -> Type("reprice", {"item_id", "currency"}, TRUE)
      [] t = "market.fast_buy" -> Type("buy", {"item_id"}, FALSE)
      [] t = "forum.bump_thread" -> Type("thread", {"thread_id"}, FALSE)
      [] t = "tg.send_message" -> Type("send", {"bot_token", "text"}, TRUE)
      [] OTHER -> Type("dynamic", {}, FALSE)]

MCBlockTypes == {"T", "U", "V", "W"}

MCTexts == [t \in {"", "3", "9 000", "text", "token"} |->
    CASE t = "" -> [rank |-> 1, number |-> NotANumber]
      [] t = "3" -> [rank |-> 2, number |-> <<30>>]
      [] t = "9 000" -> [rank |-> 3, number |-> NotANumber]
      [] t = "text" -> [rank |-> 4, number |-> NotANumber]
      [] t = "token" -> [rank |-> 5, number |-> NotANumber]]

MCTextFacts == {}

-----------------------------------------------------------------------------
\* The market: lots by price; the seller of lot 2 asks more at the till than
\* the search said, and lot 3 is refused in the second world.
World(asks, refused) ==
    [dry |-> FALSE, accounts |-> <<"a1", "a2">>, lots |-> [a1 |-> <<1, 2, 3>>, a2 |-> <<4>>],
     offers |-> <<<<1, 2>>, <<2, 3>>, <<3, 3>>, <<4, 5>>>>, asks |-> asks, refused |-> refused]

Steady == World(<<2, 3, 3, 5>>, {})
Raised == World(<<2, 4, 3, 5>>, {})
Torn   == World(<<2, 4, 3, 5>>, {1, 3})

Alone(asks, world) == [asks |-> [c \in {c1, c2} |-> IF c = c1 THEN asks ELSE <<>>], world |-> world]

Inline(nodes, entry, lookup) ==
    [kind |-> "inline", spec |-> FlowSpec(entry, nodes, {}), lookup |-> lookup]

Compiles(nodes, entry) == Alone(<<Inline(nodes, entry, NoBlocks)>>, Steady)

-----------------------------------------------------------------------------
\* Every graph of three nodes with an edge and an error edge each (the third
\* with fewer), to each other, to themselves and to a node that is missing.
Plain(id, next, onError) ==
    [Node(id, "plain", <<>>, IF next = "" THEN Nowhere ELSE Then(next)) EXCEPT
       !.onError = IF onError = "" THEN NoId ELSE <<onError>>]

Graphs3 == {Compiles(<<Plain("a", n1, e1), Plain("b", n2, e2), Plain("c", n3, e3)>>, "a") :
              n1 \in {"", "a", "b", "c", "z"}, e1 \in {"", "b", "c"}, n2 \in {"", "a", "b", "c"},
              e2 \in {"", "a", "c", "z"}, n3 \in {"", "a", "b"}, e3 \in {"", "a"}}

Gotos == {Compiles(<<Plain("a", "b", ""), [Plain("b", "", "") EXCEPT !.stop = <<g>>]>>, "a") :
            g \in {"a", "b", "z"}}

\* What a wire of a node may be, and what else is checked of a node.
Wires == {Lit(Nr(1)), Var("x"), Ref("a", "out"), Ref("z", "out"), <<"param", "p">>, <<"env", "E">>,
          <<"ref", <<"a">>, "out", <<>>, FALSE>>, <<"ref", VarsNode, "x", <<>>, TRUE>>}

Operands == {[left |-> Lit(Nr(1)), op |-> o] : o \in {Lit(Str("eq")), Lit(Str("is_null"))}}
            \cup {[left |-> Lit(Nr(1)), op |-> Lit(Str("regex")), right |-> Lit(Str(p))] :
                    p \in {"bad pattern", "text"}}
            \cup {[left |-> Lit(Nr(1))]}

Leaves ==
    {Compiles(<<Plain("a", "b", ""), Node(id, type, [x |-> w], <<>>)>>, entry) :
       w \in Wires, id \in {"a", "b"}, type \in {"plain", "unknown", "U"}, entry \in {"a", "z"}}
    \cup {Compiles(<<Node("a", "logic.condition", in, <<>>)>>, "a") : in \in Operands}

Kids ==
    {Compiles(<<[Plain("a", "b", "") EXCEPT !.kids = kids], Plain("b", "", "")>>, "a") :
       kids \in UNION {[1 .. n -> {Node(k, type, in, edges) :
                                     k \in {"k", "l"}, type \in {"market.bump", "plain"},
                                     in \in {[item_id |-> Lit(Nr(1))], [item_id |-> Ref("z", "o")], <<>>},
                                     edges \in {Nowhere, Then("b")}}] : n \in 1 .. 2}}
    \cup {Compiles(<<[Plain("a", "", "") EXCEPT
                        !.kids = [n \in 1 .. 3 |-> Node(IF n = 1 THEN "k" ELSE IF n = 2 THEN "l" ELSE "m",
                                                        "market.bump", [item_id |-> Lit(Nr(1))],
                                                        Nowhere)]]>>, "a")}

-----------------------------------------------------------------------------
\* Blocks: a caller a -> call -> b, and behind the call a block T of two nodes
\* that may be a call itself, down to one level too deep, and round.
Template(nodes, entry, outputs) == [nodes |-> nodes, entry |-> <<entry>>, outputs |-> outputs]

Call(id, type, in, next, onError) ==
    [Node(id, type, in, IF next = "" THEN Nowhere ELSE Then(next)) EXCEPT
       !.onError = IF onError = "" THEN NoId ELSE <<onError>>]

Lookup(second, edge, handler, wire) ==
    [T |-> Template(<<Call("p", "plain", <<>>, edge, handler),
                      Call("q", second, [x |-> wire], "", "")>>, "p",
                    [o |-> <<<<"p">>, "out">>]),
     U |-> Template(<<Call("u", "plain", [y |-> <<"param", "x">>], "", "")>>, "u",
                    [o |-> <<<<"u">>, "out">>]),
     V |-> Template(<<Call("v", "U", [x |-> <<"param", "x">>], "", "")>>, "v", <<>>),
     W |-> Template(<<Call("w", "V", [x |-> <<"param", "x">>], "", "")>>, "w", <<>>)]

Blocks ==
    {Alone(<<Inline(<<Call("a", "plain", [x |-> Ref("call", out)], first, ""),
                      Call("call", type, in, "b", h),
                      Call("b", "plain", [x |-> Ref("call", "o")], "", "")>>, entry, lk)>>, Steady) :
       out \in {"o", "none"}, first \in {"call", "b"}, type \in {"T", "V"}, in \in {[x |-> Ref("b", "out")], <<>>},
       h \in {"", "b"}, entry \in {"a", "call"},
       lk \in {Lookup(s, e, g, w) : s \in {"plain", "U", "V", "W", "T"}, e \in {"", "q"}, g \in {"", "q"},
                                    w \in {<<"param", "x">>, Ref("p", "out"), Lit(Nr(1))}}}

CreatedBlocks ==
    {Alone(<<[kind |-> "block", spec |-> FlowSpec("a", <<Call("a", type, <<>>, next, "")>>, {})]>>, Steady) :
       type \in {"plain", "T"}, next \in {"", "z"}}

-----------------------------------------------------------------------------
\* Imports.
Waits(condition, handler) ==
    FlowSpec("w", <<[Node("w", "logic.wait_until",
                          [condition |-> Lit(Bool(condition)), poll_interval_s |-> Lit(Nr(1)),
                           timeout_s |-> Lit(Nr(2))],
                          [wait |-> <<"w">>, done |-> <<"e">>]) EXCEPT
                       !.onError = IF handler THEN <<"e">> ELSE NoId],
                    Node("e", "logic.string_concat", [a |-> Lit(Str("text")), b |-> Lit(Nr(1))], <<>>)>>, {})

Imported == {Waits(FALSE, TRUE), Waits(FALSE, FALSE), Waits(TRUE, FALSE)}
OneOff   == {SniperSpec, FlowSpec("a", <<Plain("a", "z", "")>>, {})}

ImportOf(spec, name, version) ==
    [kind |-> "import", version |-> version, name |-> name, spec |-> spec]

Imports ==
    {[asks |-> [c \in {c1, c2} |-> IF c = c1 THEN <<ImportOf(s, "f", 1), ImportOf(t, "g", 1)>>
                                   ELSE <<ImportOf(u, "h", 1), [kind |-> "compile", name |-> "f"]>>],
      world |-> Steady] : s \in Imported, t \in Imported, u \in Imported}
    \cup {Alone(<<ImportOf(s, "f", v)>>, Steady) : s \in OneOff, v \in {1, 2}}

-----------------------------------------------------------------------------
\* Runs of presets and of flows that carry an order.
Forms == [accounts : {<<>>, <<"a1">>, <<"a2">>, <<"a1", "a2">>}, max : {0, 1, 2}, price : {0, 25, 30},
          threads : {<<>>, <<<<"id", 7>>, <<"link", 8>>>>, <<<<"id", 7>>, <<"junk">>>>}]
         \cup [accounts : {<<>>, <<"a1">>}, max : {2}, price : {30}, threads : {<<>>}, dry_run : BOOLEAN]

Deploys(forms) ==
    {Alone(<<[kind |-> "deploy", name |-> key, form |-> form],
             [kind |-> "run", name |-> key, given |-> <<>>]>>, world) :
       key \in Presets, form \in forms, world \in {Steady, Torn}}

Runs(spec, given, order, world) ==
    Alone(<<[kind |-> "save", name |-> "f", spec |-> spec], [kind |-> "compile", name |-> "f"],
            [kind |-> "run", name |-> "f", given |-> given, order |-> order]>>, world)

\* What is given for the parameters of the template.
Given(price, budget, dry) ==
    [k \in {"max_price"} \cup (IF budget = 0 THEN {} ELSE {"budget"})
                         \cup (IF dry = "unsaid" THEN {} ELSE {"dry_run"}) |->
       CASE k = "max_price" -> price [] k = "budget" -> Nr(budget) [] OTHER -> Bool(dry = "dry")]

Unsafe == [SniperSpec EXCEPT !.params = {IF p.key = "dry_run" THEN [p EXCEPT !.default = Bool(FALSE)] ELSE p :
                                           p \in @}]

Snipers ==
    {Runs(spec, Given(price, budget, dry) , [ceiling |-> 3, budget |-> IF budget = 0 THEN 10 ELSE budget], w) :
       spec \in {SniperSpec, Unsafe}, price \in {Nr(3), Str("3"), Num(25), Bool(TRUE), Str("9 000")},
       budget \in {0, 2, 3, 5}, dry \in {"unsaid", "dry", "live"}, w \in {Steady, Raised, Torn}}
    \cup {Runs(SniperSpec, [bot_token |-> Str("token")] @@ Given(Nr(3), 5, "live"),
               [ceiling |-> 3, budget |-> 5], w) : w \in {Raised, Torn}}
    \cup {Runs(SniperSpec, [unknown |-> Nr(1)], [ceiling |-> 3, budget |-> 10], Raised)}

\* Buy the first lot if the cheapest costs no more than the limit.
Gate(limit) ==
    FlowSpec("search", <<Node("search", "market.search", [max_price |-> Lit(Nr(9))], Then("gate")),
      Node("gate", "logic.compare", [a |-> Ref("search", "cheapest_price"), op |-> Lit(Str("lte")),
                                     b |-> Lit(limit)], Then("open")),
      Node("open", "logic.switch", [value |-> Ref("gate", "result"),
                                    cases |-> Lit(<<"list", <<<<"yes", Bool(TRUE)>>, <<"no", Bool(FALSE)>>>>>>)],
           [yes |-> <<"one">>, no |-> <<"not">>]),
      Node("one", "logic.take", [items |-> Ref("search", "item_ids"), count |-> Lit(Nr(1))], Then("each")),
      Node("each", "logic.for_each_lot", [item_ids |-> Ref("one", "items")], Body("buy")),
      Node("buy", "market.fast_buy", [item_id |-> Ref("each", "item_id"), dry_run |-> Lit(Bool(FALSE))], Nowhere),
      Node("not", "logic.bool_op", [op |-> Lit(Str("not")), a |-> Ref("gate", "result")], Nowhere)>>, {})

\* Look at as many lots as the budget would pay for.
Affords(op, budget, price) ==
    FlowSpec("cap", <<Node("cap", "logic.math", [op |-> Lit(Str(op)), a |-> Lit(Nr(budget)), b |-> Lit(Nr(price))],
                           Then("search")),
      Node("search", "market.search", [max_price |-> Lit(Nr(price))], Then("take")),
      Node("take", "logic.take", [items |-> Ref("search", "item_ids"), count |-> Ref("cap", "result")],
           Then("each")),
      Node("each", "logic.for_each_lot", [item_ids |-> Ref("take", "items")], Body("buy")),
      Node("buy", "market.fast_buy", [item_id |-> Ref("each", "item_id"), max_price |-> Lit(Nr(price)),
                                      dry_run |-> Lit(Bool(FALSE))], Nowhere)>>, {})

Ordered ==
    {Runs(Gate(limit), <<>>, [ceiling |-> IF limit = Nr(1) THEN 1 ELSE IF limit = Str("9 000") THEN 0 ELSE 3,
                              budget |-> 9], Steady) :
       limit \in {Nr(1), Nr(3), Str("3"), Str("9 000"), None}}
    \cup {Runs(Affords("idiv", b, p), <<>>, [ceiling |-> p, budget |-> IF b < 0 THEN 0 ELSE b], w) :
            b \in {-4, 0, 5, 7, 10}, p \in {-3, 0, 3, 5}, w \in {Steady, Raised}}

MCStarts == Graphs3 \cup Gotos \cup Leaves \cup Kids \cup Blocks \cup CreatedBlocks
            \cup Imports \cup Deploys(Forms) \cup Snipers \cup Ordered
DeployedStarts == Deploys(Forms)
=============================================================================
