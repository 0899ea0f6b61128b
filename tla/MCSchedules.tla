----------------------------- MODULE MCSchedules -----------------------------
EXTENDS Schedules, TLC

CONSTANTS f1, f2, t1, t2, t3

Row(f, kind) == [flow |-> f, kind |-> kind,
                 cron |-> IF kind = "schedule" THEN "good" ELSE None,
                 event |-> IF kind = "event" THEN "item_sold" ELSE None]
Table(g) == [t \in Trigs |-> IF t \in DOMAIN g THEN g[t] ELSE None]

(* f1 is the preset's flow with its schedule; f2, drawn on the canvas, has *)
(* an event trigger and a crontab of before crontabs were parsed.  Or      *)
(* there is nothing yet.                                                   *)
Enabled(na, nd, ne, nf) ==
  [asks |-> na, dues |-> nd, events |-> ne, faults |-> nf,
   flows |-> [f \in Flows |-> IF f = f1 THEN [version |-> 1, preset |-> TRUE, needs |-> FALSE]
              ELSE IF f = f2 THEN [version |-> 1, preset |-> FALSE, needs |-> TRUE] ELSE None],
   irs |-> [f \in Flows |-> IF f \in {f1, f2} THEN <<1>> ELSE <<>>],
   triggers |-> Table(t1 :> Row(f1, "schedule") @@ t2 :> Row(f2, "event")
                      @@ t3 :> [Row(f2, "schedule") EXCEPT !.cron = "bad"])]
Empty == [asks |-> 2, dues |-> 0, events |-> 0, faults |-> 1, flows |-> [f \in Flows |-> None], irs |-> [f \in Flows |-> <<>>],
          triggers |-> Table(<<>>)]

Ask(op, f) == [op |-> op, flow |-> f, needs |-> FALSE]
OnSale == [kind |-> "event", cron |-> None, event |-> "item_sold"]
Bodies == {OnSale, [OnSale EXCEPT !.cron = "good"], [OnSale EXCEPT !.event = None, !.kind = "manual"]}

EveryAsk == {Ask("deploy", None), Ask("launch", None), Ask("create", None),
             Ask("compile", f1), Ask("delete", f1), [Ask("edit", f1) EXCEPT !.needs = TRUE]}
       \cup {[op |-> "attach", flow |-> f1, needs |-> FALSE, body |-> b] : b \in Bodies}
BothStarts == {Enabled(2, 0, 0, 1), Enabled(1, 2, 0, 1), Enabled(1, 0, 2, 1), Empty}
=============================================================================
