--------------------------- MODULE MCEffectNodes ---------------------------
(* Steps that touch the world: one step of each kind under crashes and     *)
(* lost keys, and a run of many purchases that share a budget.  A          *)
(* behaviour is about one of the two, so that their state spaces add up.   *)
EXTENDS EffectNodes, PurchaseBudget, TLC

VARIABLE scene

Plainly == [kind |-> "bump", owner |-> "pinned", account |-> "ok", form |-> "plain", ceiling |-> 0,
            url |-> [scheme |-> "https", host |-> "api", port |-> 443], timed |-> FALSE,
            crashes |-> 1, losses |-> 0, shifts |-> 0]
With(kind, changes) == [f \in DOMAIN Plainly |->
    IF f = "kind" THEN kind ELSE IF f \in DOMAIN changes THEN changes[f] ELSE Plainly[f]]

Guarded == {"bump", "reprice", "thread", "relist", "dynamic", "buy"}
Forms(kind) ==
    CASE kind = "batch" -> {"plain", "unmapped", "ref"}
      [] kind = "reprice" -> {"plain", "half_discount"}
      [] kind = "dynamic" -> {"plain", "unknown_method"}
      [] kind = "search" -> {"plain", "not_json"}
      [] kind = "buy" -> {"plain", "dry"}
      [] OTHER -> {"plain"}

AllForms == {"plain", "half_discount", "unknown_method", "not_json", "dry"}

\* Every node with every account and form, one crash; then the guard's key lost between two
\* attempts; a seller who reprices under a ceiling; a resolver that changes its mind.
MCStarts ==
    {s \in {With(k, [owner |-> o, account |-> a, form |-> f]) :
        k \in Guarded \union Reads \union {"reply"}, o \in {"pinned", "pool"},
        a \in {"ok", "gone", "sealed"}, f \in AllForms} : s.form \in Forms(s.kind)}
    \union {With(k, [crashes |-> 2, losses |-> l]) : k \in Guarded, l \in {1, 2}}
    \union {With("batch", [form |-> f, losses |-> l, crashes |-> 2]) : f \in {"plain", "unmapped", "ref"}, l \in {0, 1}}
    \union {With("batch", [timed |-> TRUE]), With("batch", [account |-> "gone"])}
    \union {With("buy", [ceiling |-> 2, shifts |-> 2, owner |-> o, account |-> a]) :
              o \in {"pinned", "pool"}, a \in {"ok", "sealed"}}
    \union {With("request", [shifts |-> 2]),
            With("request", [url |-> [scheme |-> "https", host |-> "api", port |-> 9200]])}

Public == [is |-> "public", wraps |-> "none"]
MCAnswers == {<<Public>>, <<>>, <<Public, [is |-> "loopback", wraps |-> "none"]>>,
              <<[is |-> "public", wraps |-> "loopback"]>>, <<[is |-> "reserved", wraps |-> "public"]>>}
MCAllowed == {[host |-> "api", port |-> 443]}

\* The branches of the fork differ in nothing.
Symmetry == Permutations(Branches)

EffectsInit ==
    /\ scene \in {"step", "budget"}
    /\ Init /\ (scene = "budget" => step = Plainly)
    /\ BudgetInit

EffectsNext ==
    /\ scene' = scene
    /\ \/ scene = "step"   /\ Next       /\ UNCHANGED budgetVars
       \/ scene = "budget" /\ BudgetNext /\ UNCHANGED vars

EffectsSpec == EffectsInit /\ [][EffectsNext]_<<scene, vars, budgetVars>>
=============================================================================
