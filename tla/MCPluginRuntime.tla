-------------------------- MODULE MCPluginRuntime --------------------------
EXTENDS PluginRuntime, TLC

Good == [manifest |-> TRUE, deps |-> TRUE, imports |-> TRUE, hooks |-> "listed", reqs |-> "pinned",
         zip |-> "safe", pre |-> "ok", keys |-> <<"k">>, tabs |-> <<"t">>, post |-> "ok", spawns |-> TRUE]
Quiet == [Good EXCEPT !.keys = <<>>, !.tabs = <<>>]

\* alpha: a good one, one that hangs as it opens, one whose archive is unsafe. beta: a good one, one
\* whose key is taken, one that cannot be installed.
MCConduct == [alpha |-> <<Good, [Good EXCEPT !.post = "hangs"], [Good EXCEPT !.zip = "unsafe"]>>,
              beta  |-> <<Quiet, [Quiet EXCEPT !.keys = <<"builtin">>, !.spawns = FALSE], [Quiet EXCEPT !.reqs = "open"]>>]

Scenario == [process |-> "api", entries |-> <<>>, auto |-> TRUE, live |-> [alpha |-> 1, beta |-> 0],
             order |-> [alpha |-> 1, beta |-> 2], advertised |-> 1,
             crashes |-> 0, publishes |-> 0, faults |-> 0, removals |-> 0, installs |-> 0]
Entry(name, does) == [name |-> name, source |-> "entry", does |-> does]
First == Entry("entry", [Good EXCEPT !.keys = <<"e">>, !.tabs = <<"e">>])

MCStarts == {
    \* the checker and a person install the same plugin while a version is published
    [Scenario EXCEPT !.publishes = 2, !.installs = 1, !.faults = 1],
    [Scenario EXCEPT !.publishes = 1, !.installs = 1, !.crashes = 1, !.live = [alpha |-> 1, beta |-> 1]],
    [Scenario EXCEPT !.installs = 2, !.removals = 1, !.faults = 1, !.auto = FALSE],
    \* swaps of one plugin that fail again and again
    [Scenario EXCEPT !.installs = 3, !.faults = 2, !.auto = FALSE],
    [Scenario EXCEPT !.installs = 2, !.faults = 1, !.crashes = 1, !.auto = FALSE]}
    \union
    \* two people and the checker at once
    {[Scenario EXCEPT !.installs = 2, !.publishes = 1, !.advertised = 2, !.live = [alpha |-> 1, beta |-> 1]]}
    \union
    \* starts and stops of every process, with every conduct of the folder and of an entry point
    {[Scenario EXCEPT !.process = p, !.crashes = 1, !.live = [alpha |-> a, beta |-> b],
        !.entries = e, !.auto = FALSE] :
        p \in {"api", "worker", "bot"}, a \in 0..2, b \in 0..2,
        e \in {<<>>, <<First>>, <<Entry("entry", [Quiet EXCEPT !.pre = "hangs"])>>,
               <<Entry("entry", [Quiet EXCEPT !.imports = FALSE])>>,
               \* one that ends the start, behind one that was opened; and one with a folder's name
               <<First, Entry("other", [Quiet EXCEPT !.post = "raises"])>>, <<Entry("alpha", Quiet)>>}}

=============================================================================
