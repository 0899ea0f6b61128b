---------------------------- MODULE PresetFlows -----------------------------
(***************************************************************************)
(* The flows nobody draws: what the panel's forms and the autobuy template *)
(* compile to, and how the parameters of a run become its variables.       *)
(***************************************************************************)
EXTENDS FlowCompiler, LogicNodes

-----------------------------------------------------------------------------
(***************************************************************************)
(* resolve_params: what a caller gave against what the flow declares.  A   *)
(* declared parameter is [key, control, default, required, least, most,    *)
(* options, shownIf], shownIf a pair <<key, value>> or <<>>; `given` is a  *)
(* function from keys to values.                                           *)
(***************************************************************************)

IsShown(p, given) ==
    \/ p.shownIf = <<>>
    \/ p.shownIf[1] \in DOMAIN given /\ given[p.shownIf[1]] = p.shownIf[2]

\* A toggle takes a Boolean, a number anything that spells one in its range,
\* a text what is no Boolean, and a choice one of its options.
Fits(p, v) ==
    CASE p.control = "toggle" -> v[1] = "bool"
      [] p.control = "number" -> /\ IsFraction(v)
                                 /\ Coerced(v)[2] \in p.least .. p.most
      [] OTHER -> /\ v[1] \notin {"bool", "none"}
                  /\ p.options # {} => v \in p.options

Chosen(p, given) == IF p.key \in DOMAIN given THEN given[p.key] ELSE p.default

\* A parameter that is not shown is neither checked nor set; one that is
\* neither given nor has a default is left out, if it may be.
Resolve(declared, given) ==
    LET shown == {p \in declared : IsShown(p, given)}
        set   == {p \in shown : Chosen(p, given) # None \/ p.key \in DOMAIN given}
        the(k) == CHOOSE p \in set : p.key = k
    IN  IF \/ DOMAIN given \ {p.key : p \in declared} # {}
           \/ \E p \in set : ~Fits(p, Chosen(p, given))
           \/ \E p \in shown \ set : p.required
        THEN Rejected
        ELSE [ok |-> TRUE, vars |-> [k \in {p.key : p \in set} |->
                                       IF the(k).control = "number"
                                       THEN Coerced(Chosen(the(k), given))
                                       ELSE Chosen(the(k), given)]]

\* Mutant: the flow's own default decides.
DefaultsOfTheFlow(declared, given) == given

\* A run that somebody starts by hand is dry unless they said otherwise.
DefaultToDryRun(declared, given) ==
    IF "dry_run" \in {p.key : p \in declared} \ DOMAIN given
    THEN [k \in DOMAIN given \cup {"dry_run"} |->
            IF k = "dry_run" THEN Bool(TRUE) ELSE given[k]]
    ELSE given

-----------------------------------------------------------------------------
(***************************************************************************)
(* The graphs of the panel's presets.                                      *)
(***************************************************************************)

Node(id, type, in, edges) ==
    [id |-> <<id>>, type |-> type, in |-> in, edges |-> edges, onError |-> NoId,
     stop |-> NoId, halt |-> "", kids |-> <<>>]

Lit(v)       == <<"lit", v>>
Var(k)       == <<"vars", k>>
Ref(id, port) == <<"ref", <<id>>, port, <<>>, TRUE>>
Then(id)     == [next |-> <<id>>]
Body(id)     == [body |-> <<id>>]
Nowhere      == <<>>

Ids(s) == Lit(<<"list", s>>)

FlowSpec(entry, nodes, params) == [entry |-> <<entry>>, nodes |-> nodes, params |-> params]

\* for-each-account -> get-my-lots -> take(N) -> for-each-lot -> bump [-> reprice]
BuildAutobump(a) ==
    IF a.accounts = <<>> THEN Rejected
    ELSE [ok |-> TRUE, spec |-> FlowSpec("accounts",
      <<Node("accounts", "logic.for_each_account", [account_ids |-> Ids(a.accounts)], Body("lots")),
        Node("lots", "logic.get_my_lots", <<>>, Then("limit")),
        Node("limit", "logic.take", [items |-> Ref("lots", "item_ids"), count |-> Lit(Nr(a.max))],
             Then("each_lot")),
        Node("each_lot", "logic.for_each_lot", [item_ids |-> Ref("limit", "items")], Body("bump")),
        Node("bump", "market.bump", [item_id |-> Ref("each_lot", "item_id")],
             IF a.reprice THEN Then("reprice") ELSE Nowhere)>>
      \o IF a.reprice
         THEN <<Node("reprice", "market.reprice",
                     [item_id |-> Ref("each_lot", "item_id"), currency |-> Lit(Str("rub"))],
                     Nowhere)>>
         ELSE <<>>, {})]

\* for-each-account -> for-each-thread -> bump-thread
BuildThreadBump(a) ==
    IF a.accounts = <<>> \/ a.threads = <<>> THEN Rejected
    ELSE [ok |-> TRUE, spec |-> FlowSpec("accounts",
      <<Node("accounts", "logic.for_each_account", [account_ids |-> Ids(a.accounts)],
             Body("each_thread")),
        Node("each_thread", "logic.for_each_lot", [item_ids |-> Ids(a.threads)],
             Body("bump_thread")),
        Node("bump_thread", "forum.bump_thread", [thread_id |-> Ref("each_thread", "item_id")],
             Nowhere)>>, {})]

\* [for-each-account ->] search -> take(N) -> for-each-lot -> fast-buy
BuildAutobuy(a) ==
    IF a.max < 1 THEN Rejected
    ELSE LET chain ==
      <<Node("search", "market.search", [max_price |-> Lit(Num(a.price))], Then("limit")),
        Node("limit", "logic.take", [items |-> Ref("search", "item_ids"), count |-> Lit(Nr(a.max))],
             Then("each_lot")),
        Node("each_lot", "logic.for_each_lot", [item_ids |-> Ref("limit", "items")], Body("buy")),
        Node("buy", "market.fast_buy",
             [item_id |-> Ref("each_lot", "item_id"), dry_run |-> Lit(Bool(a.dry_run))], Nowhere)>>
         accounts == Node("accounts", "logic.for_each_account",
                          [account_ids |-> Ids(a.accounts)], Body("search"))
    IN  [ok |-> TRUE, spec |-> IF a.accounts = <<>> THEN FlowSpec("search", chain, {})
                               ELSE FlowSpec("accounts", <<accounts>> \o chain, {})]

\* The threads of the form: a list of ids, or a text of ids and links cut at
\* its separators, where one token that cannot be read refuses the form.
\* A token is <<"id", n>>, <<"link", n>> (the number after /threads/) or
\* <<"junk">>.
ThreadsOf(field) ==
    IF \E k \in DOMAIN field : field[k][1] = "junk" THEN Rejected
    ELSE [ok |-> TRUE, ids |-> [k \in DOMAIN field |-> Nr(field[k][2])]]

AccountIds(s) == [k \in DOMAIN s |-> Str(s[k])]

\* What the forms accept.
AutobumpForm(form)   == form.accounts # <<>> /\ form.max \in 1 .. 1000
ThreadBumpForm(form) == form.accounts # <<>> /\ form.threads # <<>> /\ ThreadsOf(form.threads).ok
AutobuyForm(form)    == form.price > 0 /\ form.max \in 1 .. 100

\* From a form to its graph.  The autobump form has no reprice: nothing in its
\* graph knows what a lot costs.
BuildPreset(key, form) ==
    CASE key = "autobump" /\ AutobumpForm(form) ->
           BuildAutobump([accounts |-> AccountIds(form.accounts), max |-> form.max,
                          reprice |-> FALSE])
      [] key = "thread-bump" /\ ThreadBumpForm(form) ->
           BuildThreadBump([accounts |-> AccountIds(form.accounts),
                            threads |-> ThreadsOf(form.threads).ids])
      [] key = "autobuy" /\ AutobuyForm(form) ->
           BuildAutobuy([accounts |-> AccountIds(form.accounts), max |-> form.max,
                         price |-> form.price,
                         dry_run |-> IF "dry_run" \in DOMAIN form THEN form.dry_run ELSE TRUE])
      [] OTHER -> Rejected

-----------------------------------------------------------------------------
(***************************************************************************)
(* The autobuy template: search, cut, and buy while the budget lasts.      *)
(***************************************************************************)

Param(key, control, default, required) ==
    [key |-> key, control |-> control, default |-> default, required |-> required,
     least |-> 1, most |-> 100 * Unit, options |-> {}, shownIf |-> <<>>]

SniperParams ==
    {Param("max_price", "number", Nr(3), TRUE),
     Param("budget", "number", Nr(10), TRUE),
     Param("max_lots", "number", Nr(40), TRUE),
     Param("dry_run", "toggle", Bool(TRUE), TRUE),
     Param("bot_token", "text", Str(""), FALSE)}

HasTelegram(id, then) ==
    Node(id, "logic.condition",
         [left |-> Var("bot_token"), op |-> Lit(Str("ne")), right |-> Lit(Str(""))],
         [true |-> <<then>>])

SniperNodes ==
    <<Node("search", "market.search", [max_price |-> Var("max_price")], Then("take")),
      Node("take", "logic.take", [items |-> Ref("search", "item_ids"), count |-> Var("max_lots")],
           Then("loop")),
      Node("loop", "logic.for_each_lot", [item_ids |-> Ref("take", "items")],
           [body |-> <<"buy">>, after |-> <<"tg_run">>]),
      [Node("buy", "market.fast_buy",
            [item_id |-> Ref("loop", "item_id"), max_price |-> Var("max_price"),
             run_budget |-> Var("budget"), dry_run |-> Var("dry_run")], Then("bought"))
       EXCEPT !.halt = "budget_exhausted"],
      Node("bought", "logic.condition",
           [left |-> Ref("buy", "purchased"), op |-> Lit(Str("eq")), right |-> Lit(Bool(TRUE))],
           [true |-> <<"tg_lot">>]),
      HasTelegram("tg_lot", "lot_text"),
      Node("lot_text", "logic.string_concat",
           [a |-> Lit(Str("text")), b |-> Ref("buy", "item_id"), c |-> Ref("buy", "price")],
           Then("notify")),
      Node("notify", "tg.send_message",
           [bot_token |-> Var("bot_token"), text |-> Ref("lot_text", "result")], Nowhere),
      HasTelegram("tg_run", "run_text"),
      Node("run_text", "logic.string_concat",
           [a |-> Lit(Str("text")), b |-> Ref("take", "count")], Then("summary")),
      Node("summary", "tg.send_message",
           [bot_token |-> Var("bot_token"), text |-> Ref("run_text", "result")], Nowhere)>>

SniperSpec == FlowSpec("search", SniperNodes, SniperParams)
=============================================================================
