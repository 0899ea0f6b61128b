---------------------------- MODULE ModuleRegistry ----------------------------
(***************************************************************************)
(* Importing flow modules from the official registry.  The registry's CI   *)
(* validates a directory when it is merged; this process fetches the index *)
(* (one request for all who ask), fetches the graph, compares its checksum *)
(* with the index, validates it again against the nodes it has itself, and *)
(* saves it as a flow.                                                     *)
(*                                                                         *)
(* A module's bytes are a model value; Content says what they hold: the    *)
(* types of the top-level nodes and of the children of batches, each with  *)
(* the inputs every node of the type is given.  A NodeRegistry maps types  *)
(* to classes, which differ from version to version: what a class asks of  *)
(* its inputs, whether it may be a batch child, whether it is REFLECTIVE.  *)
(* Left out: sizes, the texts of the rejections, HTTP statuses.            *)
(***************************************************************************)
EXTENDS Integers, FiniteSets

CONSTANTS Callers,
          Modules,     \* directories that may be proposed to the registry, as records
          Content,     \* bytes -> [parses, shape, nodes, children]
          Registries,  \* node registries a process may start with
          CiRegistries, \* those the registry's CI may have when it looks at a module
          MaxMerges, MaxRestarts \* bounds

VARIABLES nodes,     \* this process's NodeRegistry: type -> [requires, batchable, reflective]
          index,     \* refs of the published index: [name, nameOk, semver, sha256, kind]
          inflight,  \* requests for the index that are out
          caller,    \* per caller: [at |-> "idle" | "index" | "flow", name, ref]
          flowsMade, \* flows saved: [name, bytes, nodes]
          merges, restarts,
          reviewed   \* history: <<name, bytes, registry>> of the graphs CI has passed

registryVars == <<nodes, index, inflight, caller, flowsMade, merges, restarts, reviewed>>

Idle == [at |-> "idle", name |-> "", ref |-> <<>>]

RegistryInit ==
    /\ nodes \in Registries
    /\ index = {} /\ inflight = 0 /\ flowsMade = {} /\ reviewed = {}
    /\ merges = 0 /\ restarts = 0
    /\ caller = [c \in Callers |-> Idle]

-----------------------------------------------------------------------------
(* validate_module: the gates in order, the first that refuses decides.    *)

Allowed(kind) == IF kind = "python" THEN {"module.yaml", "pyproject.toml", "README.md", "code.py"}
                                    ELSE {"module.yaml", "flow.json", "README.md"}
Required(kind) == IF kind = "python" THEN "pyproject.toml" ELSE "flow.json"

GateName(m) == IF m.nameOk THEN {} ELSE {"bad_name"}

GateManifest(m) ==
    IF "module.yaml" \notin m.files THEN {"missing_file"}
    ELSE IF ~m.semver \/ m.manifestName # m.name THEN {"bad_manifest"}
    ELSE IF Required(m.kind) \notin m.files THEN {"missing_file"}
    ELSE IF m.files \subseteq Allowed(m.kind) THEN {} ELSE {"code_in_module"}

\* compile_flow: the graph's own shape, then each node and each child of a
\* batch against the class its type has here.  Only here are children asked for.
Compiles(flow, known) ==
    /\ flow.shape
    /\ \A t \in DOMAIN flow.nodes : known[t].requires \subseteq flow.nodes[t]
    /\ \A t \in DOMAIN flow.children :
         t \in DOMAIN known /\ known[t].batchable /\ known[t].requires \subseteq flow.children[t]

\* Types and capabilities are asked of the top-level nodes.
GateFlow(m, known) ==
    LET flow == Content[m.bytes]
    IN  IF ~flow.parses THEN {"bad_manifest"}
        ELSE IF ~(DOMAIN flow.nodes \subseteq DOMAIN known) THEN {"unknown_node"}
        ELSE IF \E t \in DOMAIN flow.nodes : known[t].reflective THEN {"forbidden_capability"}
        ELSE IF Compiles(flow, known) THEN {} ELSE {"compile_failed"}

\* What is wrong with the module: nothing, or the first refusal.
Rejections(m, known) ==
    IF GateName(m) # {} THEN GateName(m)
    ELSE IF GateManifest(m) # {} THEN GateManifest(m)
    ELSE IF m.kind = "flow" THEN GateFlow(m, known) ELSE {}

\* Mutant: the manifest is made without a version.
LaidOutUnversioned(ref, bytes) ==
    [name |-> ref.name, nameOk |-> ref.nameOk, manifestName |-> ref.name, semver |-> FALSE,
     kind |-> "flow", files |-> {"module.yaml", "flow.json"}, bytes |-> bytes]

\* ModuleService._validate: the directory as the registry stores it, made again
\* from the ref and the bytes, with a manifest of our own.
LaidOut(ref, bytes) ==
    [name |-> ref.name, nameOk |-> ref.nameOk, manifestName |-> ref.name, semver |-> ref.semver,
     kind |-> "flow", files |-> {"module.yaml", "flow.json"}, bytes |-> bytes]

-----------------------------------------------------------------------------
(* The registry and the process.                                           *)

\* A module CI passes, with the nodes it then has, is merged under its name; the
\* index follows.
Merge(m, ci) ==
    /\ merges < MaxMerges
    /\ Rejections(m, ci) = {}
    /\ merges' = merges + 1
    /\ index' = {r \in index : r.name # m.name} \union
                {[name |-> m.name, nameOk |-> m.nameOk, semver |-> m.semver, kind |-> m.kind,
                  sha256 |-> m.bytes]}
    /\ reviewed' = IF m.kind = "flow" THEN reviewed \union {<<m.name, m.bytes, ci>>} ELSE reviewed
    /\ UNCHANGED <<nodes, inflight, caller, flowsMade, restarts>>

\* The process starts again, with the plugins it then has.
RestartWith(known) ==
    /\ restarts < MaxRestarts
    /\ restarts' = restarts + 1
    /\ nodes' = known
    /\ inflight' = 0
    /\ caller' = [c \in Callers |-> Idle]
    /\ UNCHANGED <<index, flowsMade, merges, reviewed>>

\* import_module begins with list_modules: join the request that is out, or send one.
Ask(c, name) ==
    /\ caller[c].at = "idle"
    /\ caller' = [caller EXCEPT ![c] = [Idle EXCEPT !.at = "index", !.name = name]]
    /\ inflight' = IF inflight = 0 THEN 1 ELSE inflight
    /\ UNCHANGED <<nodes, index, flowsMade, merges, restarts, reviewed>>

\* A caller gives up; the shield keeps the request for the others.
GiveUp(c) ==
    /\ caller[c].at # "idle"
    /\ caller' = [caller EXCEPT ![c] = Idle]
    /\ UNCHANGED <<nodes, index, inflight, flowsMade, merges, restarts, reviewed>>

\* The request ends: the index, or nothing when it cannot be had or understood
\* (a bad name in it spoils it whole).  Every caller looks its name up in the
\* answer; only a flow that is listed is fetched.
IndexAnswers(listed) ==
    /\ inflight > 0
    /\ listed \in {index, {}}
    /\ \A r \in listed : r.nameOk
    /\ inflight' = inflight - 1
    /\ caller' = [c \in Callers |->
          LET mine == {r \in listed : r.name = caller[c].name /\ r.kind = "flow"}
          IN  IF caller[c].at # "index" THEN caller[c]
              ELSE IF mine = {} THEN Idle
              ELSE [caller[c] EXCEPT !.at = "flow", !.ref = CHOOSE r \in mine : TRUE]]
    /\ UNCHANGED <<nodes, index, flowsMade, merges, restarts, reviewed>>

\* Mutant: the bytes are taken as they come.
ChecksumIgnored(ref, bytes) == bytes \in DOMAIN Content

\* fetch_flow: what came is what was listed, or it is refused.
ChecksumHolds(ref, bytes) == ref.sha256 = bytes

\* The graph arrives, whatever its bytes; it is saved if every check passes.
FlowAnswers(c, bytes) ==
    /\ caller[c].at = "flow"
    /\ LET ref == caller[c].ref
       IN  flowsMade' = IF ChecksumHolds(ref, bytes) /\ Rejections(LaidOut(ref, bytes), nodes) = {}
                        THEN flowsMade \union {[name |-> ref.name, bytes |-> bytes, nodes |-> nodes]}
                        ELSE flowsMade
    /\ caller' = [caller EXCEPT ![c] = Idle]
    /\ UNCHANGED <<nodes, index, inflight, merges, restarts, reviewed>>

RegistryNext ==
    \/ \E m \in Modules, ci \in CiRegistries : Merge(m, ci)
    \/ \E known \in Registries : RestartWith(known)
    \/ \E c \in Callers : \/ \E m \in Modules : Ask(c, m.name)
                          \/ GiveUp(c)
                          \/ \E bytes \in DOMAIN Content : FlowAnswers(c, bytes)
    \/ \E listed \in {index, {}} : IndexAnswers(listed)

-----------------------------------------------------------------------------
(* Properties.                                                             *)

\* Does this registry have the classes of another for all that a graph names?
Agree(bytes, known, other) ==
    \A t \in DOMAIN Content[bytes].nodes \union DOMAIN Content[bytes].children :
        t \in DOMAIN known /\ t \in DOMAIN other /\ known[t] = other[t]

\* Every flow that was imported is, byte for byte, a graph CI passed under that
\* name, and this process knew each type it names, in its batches too, and found
\* none of its top-level nodes reflective, whatever CI had, however the index
\* moved between the two fetches.  And the two callers of the validator agree
\* (validator.py:3): a graph the index lists is refused here only for the nodes
\* this process has, and not at all if they are those of a review.
ImportsWereReviewed ==
    /\ \A f \in flowsMade :
         /\ \E ci \in CiRegistries : <<f.name, f.bytes, ci>> \in reviewed
         /\ DOMAIN Content[f.bytes].nodes \union DOMAIN Content[f.bytes].children \subseteq DOMAIN f.nodes
         /\ \A t \in DOMAIN Content[f.bytes].nodes : ~f.nodes[t].reflective
    /\ \A r \in index : r.kind = "flow" =>
         LET refusals == Rejections(LaidOut(r, r.sha256), nodes)
         IN  /\ refusals \subseteq {"unknown_node", "forbidden_capability", "compile_failed"}
             /\ \A ci \in CiRegistries :
                  <<r.name, r.sha256, ci>> \in reviewed /\ Agree(r.sha256, nodes, ci) => refusals = {}
=============================================================================
