------------------------------ MODULE MCGateway ------------------------------
(***************************************************************************)
(* What stands between the engine and people, on small instances: event    *)
(* streams, task cards, the module registry.  The three share no state; a  *)
(* behaviour is about one of them, so that their state spaces add up       *)
(* instead of multiplying.                                                 *)
(***************************************************************************)
EXTENDS EventStreams, TaskCards, ModuleRegistry, TLC

CONSTANTS r1, r2, c1, c2, f1, f2, k1, k2, k3

VARIABLE scene

\* Two runs seen by one browser on the task feed; one run's steps; two browsers
\* and a silent feed, for the slots.
MCCasts ==
    {[feed |-> "tasks", runs |-> {r1, r2}, clients |-> {c1}],
     [feed |-> r1,      runs |-> {r1},     clients |-> {c1}],
     [feed |-> "tasks", runs |-> {},       clients |-> {c1, c2}]}

\* A walk over three tasks of two flows; three clicks on one task; two clicks on
\* two tasks of one flow.
MCBounds ==
    {[ids |-> {1, 2, 3}, limits |-> {0, 2}, clicks |-> {},           runs |-> {},        flows |-> {f1, f2}],
     [ids |-> {1},       limits |-> {},     clicks |-> {k1, k2, k3}, runs |-> {1, 2, 3}, flows |-> {f1}],
     [ids |-> {1, 2},    limits |-> {},     clicks |-> {k1, k2},     runs |-> {1, 2},    flows |-> {f1}]}

\* Graphs: of old nodes; with a newer one; with a plugin's; with a batch of newer
\* ones; with an input that a later version of the old node asks for; a reflective
\* one; one whose batch holds what may not be in one; one with a dangling edge;
\* one that is no graph.
Old == [old |-> {}]
Graph == [parses |-> TRUE, shape |-> TRUE, nodes |-> Old, children |-> <<>>]
MCContent ==
    [plain      |-> Graph,
     newer      |-> [Graph EXCEPT !.nodes = [old |-> {}, new |-> {}]],
     plugged    |-> [Graph EXCEPT !.nodes = [old |-> {}, plugin |-> {}]],
     batch      |-> [Graph EXCEPT !.children = [new |-> {}]],
     full       |-> [Graph EXCEPT !.nodes = [old |-> {"port"}]],
     reflective |-> [Graph EXCEPT !.nodes = [old |-> {}, dynamic |-> {}]],
     nested     |-> [Graph EXCEPT !.children = Old],
     dangling   |-> [Graph EXCEPT !.shape = FALSE],
     garbage    |-> [Graph EXCEPT !.parses = FALSE]]

\* A stock install; one that is behind it; one with a plugin; a later one, whose
\* old node asks for more.
Class == [requires |-> {}, batchable |-> FALSE, reflective |-> FALSE]
Behind == [old |-> Class, dynamic |-> [Class EXCEPT !.reflective = TRUE]]
Stock  == Behind @@ [new |-> [Class EXCEPT !.batchable = TRUE]]
Later  == [Stock EXCEPT !.old.requires = {"port"}]
MCRegistries   == {Stock, Behind, Later, Stock @@ [plugin |-> Class]}
MCCiRegistries == {Stock, Later}

Sound ==
    [name |-> "lots", nameOk |-> TRUE, manifestName |-> "lots", semver |-> TRUE, kind |-> "flow",
     files |-> {"module.yaml", "flow.json", "README.md"}, bytes |-> "plain"]

MCModules ==
    {[Sound EXCEPT !.bytes = b] : b \in DOMAIN MCContent}
    \union {[Sound EXCEPT !.manifestName = "pack"], [Sound EXCEPT !.semver = FALSE],
            [Sound EXCEPT !.nameOk = FALSE], [Sound EXCEPT !.files = @ \ {"module.yaml"}],
            [Sound EXCEPT !.files = @ \union {"code.py"}, !.bytes = "newer"],
            [Sound EXCEPT !.name = "pack", !.manifestName = "pack", !.kind = "python",
                          !.files = {"module.yaml", "pyproject.toml", "code.py"}],
            [Sound EXCEPT !.name = "pack", !.manifestName = "pack", !.bytes = "newer"]}

GatewayInit ==
    /\ scene \in {"streams", "cards", "registry"}
    /\ StreamsInit  /\ (scene # "streams"  => cast = CHOOSE x \in Casts : TRUE)
    /\ CardsInit    /\ (scene # "cards"    => use = CHOOSE x \in Bounds : TRUE)
    /\ RegistryInit /\ (scene # "registry" => nodes = CHOOSE x \in Registries : TRUE)

GatewayNext ==
    /\ scene' = scene
    /\ \/ scene = "streams"  /\ StreamsNext  /\ UNCHANGED <<cardVars, registryVars>>
       \/ scene = "cards"    /\ CardsNext    /\ UNCHANGED <<streamVars, registryVars>>
       \/ scene = "registry" /\ RegistryNext /\ UNCHANGED <<streamVars, cardVars>>

GatewaySpec == GatewayInit /\ [][GatewayNext]_<<scene, streamVars, cardVars, registryVars>>
                           /\ StreamsFairness
=============================================================================
