----------------------------- MODULE LogicNodes -----------------------------
(***************************************************************************)
(* The nodes that only compute: what a value on a wire is, how a path is   *)
(* walked into it, and what the logic.* nodes make of their inputs.        *)
(*                                                                         *)
(* A value is a tuple headed by its Python type: <<"none">>,               *)
(* <<"bool", b>>, <<"num", n>> with n in tenths (int and float differ for  *)
(* these nodes only in being whole), <<"str", text>>, and the JSON text of *)
(* a container, <<"list", s>> or <<"dict", f>>.  What a text spells and    *)
(* how texts sort and match is given by the table `Texts`.                 *)
(***************************************************************************)
EXTENDS Integers, Sequences

CONSTANTS
    Texts,          \* text -> [rank, number]: its place among texts, the
                    \* number it spells, <<n>> in tenths, or NotANumber
    TextFacts       \* <<op, container, needle>> that hold between texts

Unit == 10
NotANumber == <<>>

None    == <<"none">>
Bool(b) == <<"bool", b>>
Num(n)  == <<"num", n>>
Nr(n)   == <<"num", n * Unit>>
Str(t)  == <<"str", t>>

-----------------------------------------------------------------------------
\* resolve_path: the segments of a path, walked into the JSON text of a
\* container.  A list may be indexed from its end; a scalar has no inside.
NoValue == <<"error">>

Inside(v, seg) ==
    IF v[1] = "dict" /\ seg[1] = "field" /\ seg[2] \in DOMAIN v[2] THEN v[2][seg[2]]
    ELSE IF v[1] = "list" /\ seg[1] = "index" /\ seg[2] \in -Len(v[2]) .. Len(v[2]) - 1
    THEN v[2][IF seg[2] < 0 THEN Len(v[2]) + seg[2] + 1 ELSE seg[2] + 1]
    ELSE NoValue

AtPath(v, path) ==
    LET at[k \in 0 .. Len(path)] == IF k = 0 THEN v ELSE Inside(at[k - 1], path[k])
    IN  at[Len(path)]

-----------------------------------------------------------------------------
(***************************************************************************)
(* Comparisons.  True and False are numbers to Python, so they order with  *)
(* numbers; a number and a text do not order at all.                       *)
(***************************************************************************)

IsNumber(v) == v[1] \in {"num", "bool"}
AsNumber(v) == IF v[1] = "bool" THEN (IF v[2] THEN Unit ELSE 0) ELSE v[2]

Same(a, b) == IF IsNumber(a) /\ IsNumber(b) THEN AsNumber(a) = AsNumber(b) ELSE a = b

Orders(a, b) == \/ IsNumber(a) /\ IsNumber(b)
                \/ a[1] = "str" /\ b[1] = "str"

Below(a, b) == IF IsNumber(a) THEN AsNumber(a) < AsNumber(b)
               ELSE Texts[a[2]].rank < Texts[b[2]].rank

\* `in`: membership when the container is a JSON array, else a substring.
MemberOf(needle, c) ==
    IF c[1] = "list" THEN \E i \in DOMAIN c[2] : Same(c[2][i], needle)
    ELSE <<"in", c, needle>> \in TextFacts

OrderedOps == {"gt", "gte", "lt", "lte"}
BadPattern == Str("bad pattern")

\* evaluate: what op says of the two, or that it cannot be asked.  A null on
\* either side is False for every operator but is_null.
Evaluate(op, a, b) ==
    CASE op = "is_null" -> [ok |-> TRUE, says |-> a = None]
      [] op # "is_null" /\ None \in {a, b} -> [ok |-> TRUE, says |-> FALSE]
      [] op \in OrderedOps /\ None \notin {a, b} ->
           IF ~Orders(a, b) THEN [ok |-> FALSE]
           ELSE [ok |-> TRUE, says |-> CASE op = "lt"  -> Below(a, b)
                                         [] op = "gt"  -> Below(b, a)
                                         [] op = "lte" -> ~Below(b, a)
                                         [] op = "gte" -> ~Below(a, b)]
      [] op = "regex" /\ None \notin {a, b} ->
           IF b = BadPattern THEN [ok |-> FALSE]
           ELSE [ok |-> TRUE, says |-> <<"regex", a, b>> \in TextFacts]
      [] OTHER ->
           [ok |-> TRUE, says |-> CASE op = "eq"       -> Same(a, b)
                                    [] op = "ne"       -> ~Same(a, b)
                                    [] op = "in"       -> MemberOf(a, b)
                                    [] op = "contains" -> MemberOf(b, a)
                                    [] OTHER           -> <<op, a, b>> \in TextFacts]

\* _coerce_numeric, which logic.compare applies to both operands and
\* logic.condition to neither.
Coerced(v) == IF v[1] = "str" /\ Texts[v[2]].number # NotANumber
              THEN Num(Texts[v[2]].number[1]) ELSE v

-----------------------------------------------------------------------------
(***************************************************************************)
(* Input ports.  Pydantic reads a text that spells a number as that number *)
(* and refuses True where a number is meant.                               *)
(***************************************************************************)

IsFraction(v) == Coerced(v)[1] = "num"                              \* FractionalPort
IsWhole(v)    == IsFraction(v) /\ Coerced(v)[2] % Unit = 0          \* NumericPort
Whole(v)      == Coerced(v)[2] \div Unit

Truths == {Bool(TRUE), Nr(1), Str("true")}
Lies   == {Bool(FALSE), Nr(0), Str("false")}

-----------------------------------------------------------------------------
(***************************************************************************)
(* The nodes: from their ports to [ok, out, edge].  `in` has the wired     *)
(* ports only.                                                             *)
(***************************************************************************)

Failed == [ok |-> FALSE]
Gives(out, edge) == [ok |-> TRUE, out |-> out, edge |-> edge]
Port(in, p) == IF p \in DOMAIN in THEN in[p] ELSE None

ConditionNode(in) ==
    LET r == Evaluate(in["op"][2], in["left"], Port(in, "right")) IN
    IF ~r.ok THEN Failed
    ELSE Gives([result |-> Bool(r.says)], IF r.says THEN "true" ELSE "false")

CompareNode(in) ==
    LET r == Evaluate(in["op"][2], Coerced(in["a"]), Coerced(Port(in, "b"))) IN
    IF ~r.ok THEN Failed ELSE Gives([result |-> Bool(r.says)], "next")

\* Python's // rounds towards minus infinity.
FloorDiv(a, b) == IF b > 0 THEN a \div b ELSE (-a) \div (-b)

\* Mutant: a lot that fits in part is counted.
IDivRoundsUp(a, b) == Unit * (-FloorDiv(-a, b))

\* idiv: how many lots at the price b fit into the budget a.
IDiv(a, b) == Unit * FloorDiv(a, b)

MathNode(in) ==
    LET a == Coerced(in["a"])[2]
        b == Coerced(in["b"])[2]
        op == in["op"][2]
        result == CASE op = "add" -> a + b
                    [] op = "sub" -> a - b
                    [] op = "mul" -> (a * b) \div Unit
                    [] op = "mod" -> a - b * FloorDiv(a, b)
                    [] op = "div" -> FloorDiv(a * Unit, b)
                    [] op = "idiv" -> IDiv(a, b)
    IN  IF \/ ~IsFraction(in["a"]) \/ ~IsFraction(in["b"])
           \/ op \in {"mod", "div", "idiv"} /\ b = 0
        THEN Failed ELSE Gives([result |-> Num(result)], "next")

BoolOpNode(in) ==
    LET b == Port(in, "b") IN
    IF in["a"] \notin Truths \cup Lies \/ b \notin Truths \cup Lies \cup {None} THEN Failed
    ELSE Gives([result |-> Bool(CASE in["op"][2] = "not" -> in["a"] \notin Truths
                                  [] in["op"][2] = "and" -> in["a"] \in Truths /\ b \in Truths
                                  [] in["op"][2] = "or"  -> in["a"] \in Truths \/ b \in Truths)],
               "next")

\* The first label, in the order written, whose text the value spells.
SwitchNode(in) ==
    LET cases == in["cases"][2]
        hits == {k \in DOMAIN cases : cases[k][2] = in["value"]}
        first == CHOOSE k \in hits : \A j \in hits : k <= j
    IN  IF hits = {} THEN Failed
        ELSE Gives([result_edge |-> Str(cases[first][1])], cases[first][1])

\* Mutant: one more than asked for.
TakeOneMore(in) ==
    LET items == in["items"][2]
        kept == IF Whole(in["count"]) < Len(items)
                THEN SubSeq(items, 1, Whole(in["count"]) + 1) ELSE items
    IN  IF in["items"][1] # "list" \/ ~IsWhole(in["count"]) THEN Failed
        ELSE IF Whole(in["count"]) < 0 THEN Failed
        ELSE Gives([items |-> <<"list", kept>>, count |-> Nr(Len(kept)),
                    truncated |-> Bool(Len(items) > Len(kept))], "next")

TakeNode(in) ==
    LET items == in["items"][2]
        kept == IF Whole(in["count"]) < Len(items)
                THEN SubSeq(items, 1, Whole(in["count"])) ELSE items
    IN  IF in["items"][1] # "list" \/ ~IsWhole(in["count"]) THEN Failed
        ELSE IF Whole(in["count"]) < 0 THEN Failed
        ELSE Gives([items |-> <<"list", kept>>, count |-> Nr(Len(kept)),
                    truncated |-> Bool(Len(items) > Len(kept))], "next")

\* What goes through concatenation only as one text among others.
ConcatNode(in) == IF None \in {in[p] : p \in {"a", "b", "c"} \cap DOMAIN in} THEN Failed
                  ELSE Gives([result |-> Str("text")], "next")

\* One visit of a wait: done, once more after a sleep, or out of time.
WaitNode(in, visits) ==
    IF \/ in["condition"] \notin Truths \cup Lies
       \/ ~IsWhole(in["poll_interval_s"]) \/ ~IsWhole(in["timeout_s"]) THEN Failed
    ELSE IF Whole(in["poll_interval_s"]) <= 0 \/ Whole(in["timeout_s"]) <= 0 THEN Failed
    ELSE IF in["condition"] \in Truths THEN Gives([result |-> Bool(TRUE)], "done")
    ELSE IF visits * Whole(in["poll_interval_s"]) >= Whole(in["timeout_s"]) THEN Failed
    ELSE Gives([result |-> Bool(FALSE)], "wait")
=============================================================================
