---------------------------- MODULE GatewayProofs ----------------------------
(***************************************************************************)
(* What stands between the engine and people, for any number of runs,      *)
(* browsers, tasks, clicks, callers and modules, and any caps:             *)
(* ImportsWereReviewed (module registry), WalksMissNothing and             *)
(* ClicksAreCounted (task cards), ViewersSeeTheRun (event streams).        *)
(***************************************************************************)
EXTENDS EventStreams, TaskCards, ModuleRegistry, FiniteSetTheorems, TLAPS

-----------------------------------------------------------------------------
(* THE MODULE REGISTRY.  The review of a module is tied to the import of   *)
(* it by the checksum alone, however the index moves in between.           *)

RegistrySpec == RegistryInit /\ [][RegistryNext]_registryVars

(* The graph passes the last gate with these nodes.                        *)
Accepts(bytes, known) == LET flow == Content[bytes] IN
  /\ flow.parses /\ DOMAIN flow.nodes \subseteq DOMAIN known
  /\ \A t \in DOMAIN flow.nodes : ~known[t].reflective
  /\ Compiles(flow, known)

Reviewed(name, bytes) == \E ci \in CiRegistries : <<name, bytes, ci>> \in reviewed

Listed(r) ==
  /\ r.nameOk /\ r.semver
  /\ r.kind = "flow" => Reviewed(r.name, r.sha256)

Imported(f) == LET flow == Content[f.bytes] IN
  /\ Reviewed(f.name, f.bytes)
  /\ DOMAIN flow.nodes \union DOMAIN flow.children \subseteq DOMAIN f.nodes
  /\ \A t \in DOMAIN flow.nodes : ~f.nodes[t].reflective

(* A caller that waits for a graph holds a ref the index once listed: it   *)
(* may have been replaced there since.                                     *)
Waiting(c) == caller[c].at = "flow" => Reviewed(caller[c].ref.name, caller[c].ref.sha256)

IInv ==
  /\ DOMAIN caller = Callers
  /\ \A name, bytes, ci : <<name, bytes, ci>> \in reviewed => Accepts(bytes, ci)
  /\ \A r \in index : Listed(r)
  /\ \A c \in Callers : Waiting(c)
  /\ \A f \in flowsMade : Imported(f)

-----------------------------------------------------------------------------
(* The validator                                                           *)

LEMMA GateFlowPasses ==
  ASSUME NEW m, NEW known, GateFlow(m, known) = {} PROVE Accepts(m.bytes, known)
<1>1. \A x : {x} # {}
  OBVIOUS
<1> QED BY <1>1 DEF GateFlow, Accepts

LEMMA Passes ==
  ASSUME NEW m, NEW known, Rejections(m, known) = {}
  PROVE  m.nameOk /\ m.semver /\ (m.kind = "flow" => Accepts(m.bytes, known))
<1>1. \A x : {x} # {}
  OBVIOUS
<1>2. GateName(m) = {} /\ GateManifest(m) = {}
  BY DEF Rejections
<1>3. m.nameOk
  BY <1>1, <1>2 DEF GateName
<1>4. m.semver
  BY <1>1, <1>2 DEF GateManifest
<1>5. m.kind = "flow" => GateFlow(m, known) = {}
  BY <1>2 DEF Rejections
<1> QED BY <1>3, <1>4, <1>5, GateFlowPasses

(* The directory made again from a ref passes the first two gates, and a   *)
(* graph that other nodes accept fails the third only for these ones.      *)
LEMMA OnlyForTheNodes ==
  ASSUME NEW r, r.nameOk, r.semver, NEW bytes, NEW ci, Accepts(bytes, ci), NEW known
  PROVE  /\ Rejections(LaidOut(r, bytes), known)
                \subseteq {"unknown_node", "forbidden_capability", "compile_failed"}
         /\ Agree(bytes, known, ci) => Rejections(LaidOut(r, bytes), known) = {}
<1> DEFINE m == LaidOut(r, bytes)
           flow == Content[bytes]
<1>1. /\ m.nameOk = r.nameOk /\ m.semver = r.semver /\ m.manifestName = m.name
      /\ m.kind = "flow" /\ m.bytes = bytes /\ m.files = {"module.yaml", "flow.json"}
  BY DEF LaidOut
<1> HIDE DEF m
<1>2. GateName(m) = {}
  BY <1>1 DEF GateName
<1>3. Required("flow") = "flow.json" /\ m.files \subseteq Allowed("flow")
  BY <1>1 DEF Required, Allowed
<1>4. GateManifest(m) = {}
  BY <1>1, <1>3 DEF GateManifest
<1>5. GateFlow(m, known) \subseteq {"unknown_node", "forbidden_capability", "compile_failed"}
  BY <1>1 DEF GateFlow, Accepts
<1>6. ASSUME Agree(bytes, known, ci) PROVE GateFlow(m, known) = {}
  <2>1. /\ flow.parses /\ DOMAIN flow.nodes \subseteq DOMAIN known
        /\ \A t \in DOMAIN flow.nodes : ~known[t].reflective
    BY <1>6 DEF Accepts, Agree
  <2>2. Compiles(flow, known)
    BY <1>6 DEF Accepts, Agree, Compiles
  <2> QED BY <1>1, <2>1, <2>2 DEF GateFlow
<1> QED BY <1>1, <1>2, <1>4, <1>5, <1>6 DEF Rejections, m

-----------------------------------------------------------------------------
(* The invariant                                                           *)

LEMMA InvInit == ASSUME RegistryInit PROVE IInv
  BY DEF RegistryInit, IInv, Waiting, Idle

LEMMA MergeKeeps == ASSUME IInv, NEW m, NEW ci \in CiRegistries, Merge(m, ci) PROVE IInv'
<1> DEFINE new == [name |-> m.name, nameOk |-> m.nameOk, semver |-> m.semver, kind |-> m.kind,
                   sha256 |-> m.bytes]
<1>1. /\ index' = {r \in index : r.name # m.name} \union {new}
      /\ reviewed' = IF m.kind = "flow" THEN reviewed \union {<<m.name, m.bytes, ci>>} ELSE reviewed
      /\ Rejections(m, ci) = {}
      /\ UNCHANGED caller /\ UNCHANGED flowsMade
  BY DEF Merge
<1>2. m.nameOk /\ m.semver /\ (m.kind = "flow" => Accepts(m.bytes, ci))
  BY <1>1, Passes
<1>3. /\ new.name = m.name /\ new.sha256 = m.bytes /\ new.kind = m.kind
      /\ new.nameOk /\ new.semver
  BY <1>2
<1> HIDE DEF new
<1>4. reviewed \subseteq reviewed' /\ (m.kind = "flow" => Reviewed(m.name, m.bytes)')
  BY <1>1 DEF Reviewed
<1>5. \A name, bytes : Reviewed(name, bytes) => Reviewed(name, bytes)'
  BY <1>4 DEF Reviewed
<1>6. ASSUME NEW r \in index' PROVE Listed(r)'
  <2>1. CASE r = new
    BY <1>3, <1>4, <2>1 DEF Listed
  <2>2. CASE r \in index
    BY <1>5, <2>2 DEF IInv, Listed
  <2> QED BY <1>1, <2>1, <2>2
<1>7. \A c \in Callers : Waiting(c)'
  BY <1>1, <1>5 DEF IInv, Waiting
<1>8. \A f \in flowsMade' : Imported(f)'
  BY <1>1, <1>5 DEF IInv, Imported
<1>9. (\A name, bytes, other : <<name, bytes, other>> \in reviewed => Accepts(bytes, other))'
  <2> SUFFICES ASSUME NEW name, NEW bytes, NEW other, <<name, bytes, other>> \in reviewed'
               PROVE  Accepts(bytes, other)
    BY DEF Accepts, Compiles
  <2>1. CASE <<name, bytes, other>> \in reviewed
    BY <2>1 DEF IInv
  <2>2. CASE <<name, bytes, other>> \notin reviewed
    <3>1. m.kind = "flow" /\ <<name, bytes, other>> = <<m.name, m.bytes, ci>>
      BY <1>1, <2>2
    <3>2. bytes = m.bytes /\ other = ci
      BY <3>1
    <3> QED BY <1>2, <3>1, <3>2
  <2> QED BY <2>1, <2>2
<1> QED BY <1>1, <1>6, <1>7, <1>8, <1>9 DEF IInv

(* A step that leaves the registry and the flows alone, and no caller with *)
(* a ref that was not listed.                                              *)
LEMMA CallersMove ==
  ASSUME IInv, UNCHANGED index, UNCHANGED reviewed, UNCHANGED flowsMade,
         DOMAIN caller' = Callers,
         \A c \in Callers : \/ caller'[c] = caller[c]
                            \/ caller'[c].at # "flow"
                            \/ caller'[c].ref \in index /\ caller'[c].ref.kind = "flow"
  PROVE  IInv'
<1>1. \A c \in Callers : Waiting(c)'
  BY DEF IInv, Waiting, Listed, Reviewed
<1>2. (\A r \in index : Listed(r))' /\ (\A f \in flowsMade : Imported(f))'
  BY DEF IInv, Listed, Imported, Reviewed
<1>3. (\A name, bytes, ci : <<name, bytes, ci>> \in reviewed => Accepts(bytes, ci))'
  BY DEF IInv, Accepts, Compiles
<1> QED BY <1>1, <1>2, <1>3 DEF IInv

LEMMA RestartKeeps == ASSUME IInv, NEW known, RestartWith(known) PROVE IInv'
  BY CallersMove DEF RestartWith, Idle

LEMMA AskKeeps == ASSUME IInv, NEW c \in Callers, NEW name, Ask(c, name) PROVE IInv'
<1> DEFINE asking == [Idle EXCEPT !.at = "index", !.name = name]
<1>1. asking.at = "index"
  BY DEF Idle
<1>2. caller' = [caller EXCEPT ![c] = asking] /\ DOMAIN caller = Callers
  BY DEF Ask, IInv
<1> HIDE DEF asking
<1> QED BY <1>1, <1>2, CallersMove DEF Ask

LEMMA GiveUpKeeps == ASSUME IInv, NEW c \in Callers, GiveUp(c) PROVE IInv'
<1>1. caller' = [caller EXCEPT ![c] = Idle] /\ DOMAIN caller = Callers /\ Idle.at = "idle"
  BY DEF GiveUp, IInv, Idle
<1> QED BY <1>1, CallersMove DEF GiveUp

(* The fields every caller's record has; EXCEPT keeps them.                *)
CallerShape == \A c \in Callers : DOMAIN caller[c] = {"at", "name", "ref"}

LEMMA IndexAnswersKeeps ==
  ASSUME IInv, CallerShape, NEW listed \in {index, {}}, IndexAnswers(listed) PROVE IInv'
<1> DEFINE mine(c) == {r \in listed : r.name = caller[c].name /\ r.kind = "flow"}
           found(c) == [caller[c] EXCEPT !.at = "flow", !.ref = CHOOSE r \in mine(c) : TRUE]
<1>1. DOMAIN caller' = Callers
  BY DEF IndexAnswers
<1>2. \A c \in Callers : caller'[c] = IF caller[c].at # "index" THEN caller[c]
                                      ELSE IF mine(c) = {} THEN Idle ELSE found(c)
  BY DEF IndexAnswers
<1>3. \A c \in Callers : mine(c) # {} => found(c).ref \in index /\ found(c).ref.kind = "flow"
  BY DEF CallerShape
<1>4. Idle.at # "flow"
  BY DEF Idle
<1> HIDE DEF mine, found
<1>5. \A c \in Callers : \/ caller'[c] = caller[c]
                         \/ caller'[c].at # "flow"
                         \/ caller'[c].ref \in index /\ caller'[c].ref.kind = "flow"
  <2> SUFFICES ASSUME NEW c \in Callers, caller'[c] # caller[c], caller'[c] # Idle
               PROVE  caller'[c].ref \in index /\ caller'[c].ref.kind = "flow"
    BY <1>4
  <2>1. mine(c) # {} /\ caller'[c] = found(c)
    BY <1>2
  <2> QED BY <1>3, <2>1
<1> QED BY <1>1, <1>5, CallersMove DEF IndexAnswers

LEMMA FlowAnswersKeeps ==
  ASSUME IInv, NEW c \in Callers, NEW bytes, FlowAnswers(c, bytes) PROVE IInv'
<1> DEFINE ref == caller[c].ref
           new == [name |-> ref.name, bytes |-> bytes, nodes |-> nodes]
<1>1. /\ caller' = [caller EXCEPT ![c] = Idle] /\ DOMAIN caller = Callers /\ Idle.at = "idle"
      /\ UNCHANGED index /\ UNCHANGED reviewed
  BY DEF FlowAnswers, IInv, Idle
<1>2. \A d \in Callers : Waiting(d)'
  BY <1>1 DEF IInv, Waiting, Reviewed
<1>3. /\ \A r \in index' : Listed(r)'
      /\ (\A name, other, ci : <<name, other, ci>> \in reviewed => Accepts(other, ci))'
  BY <1>1 DEF IInv, Listed, Reviewed, Accepts, Compiles
<1>4. \/ UNCHANGED flowsMade
      \/ /\ flowsMade' = flowsMade \union {new}
         /\ ref.sha256 = bytes /\ Rejections(LaidOut(ref, bytes), nodes) = {}
  BY DEF FlowAnswers, ChecksumHolds
<1>5. ASSUME Rejections(LaidOut(ref, bytes), nodes) = {}, ref.sha256 = bytes PROVE Imported(new)
  <2>1. Reviewed(ref.name, bytes)
    BY <1>5 DEF IInv, Waiting, FlowAnswers
  <2>2. LaidOut(ref, bytes).kind = "flow" /\ LaidOut(ref, bytes).bytes = bytes
    BY DEF LaidOut
  <2>3. Accepts(bytes, nodes)
    BY <1>5, <2>2, Passes
  <2> QED BY <2>1, <2>3 DEF Imported, Accepts, Compiles
<1> HIDE DEF new, ref
<1>6. \A f \in flowsMade' : Imported(f)
  BY <1>4, <1>5 DEF IInv
<1>7. \A f \in flowsMade' : Imported(f)'
  BY <1>1, <1>6 DEF Imported, Reviewed
<1> QED BY <1>1, <1>2, <1>3, <1>7 DEF IInv

-----------------------------------------------------------------------------
LEMMA ShapeStep == ASSUME CallerShape, DOMAIN caller = Callers, [RegistryNext]_registryVars PROVE CallerShape'
<1>0. DOMAIN Idle = {"at", "name", "ref"}
  BY DEF Idle
<1>1. \A x, y : DOMAIN [Idle EXCEPT !.at = x, !.name = y] = {"at", "name", "ref"}
  BY <1>0
<1>2. ASSUME NEW m, NEW ci, Merge(m, ci) PROVE CallerShape'
  BY <1>2 DEF Merge, CallerShape
<1>3. ASSUME NEW known, RestartWith(known) PROVE CallerShape'
  BY <1>0, <1>3 DEF RestartWith, CallerShape
<1>4. ASSUME NEW c \in Callers, NEW name, Ask(c, name) PROVE CallerShape'
  BY <1>1, <1>4 DEF Ask, CallerShape
<1>5. ASSUME NEW c \in Callers, GiveUp(c) PROVE CallerShape'
  BY <1>0, <1>5 DEF GiveUp, CallerShape
<1>6. ASSUME NEW c \in Callers, NEW bytes, FlowAnswers(c, bytes) PROVE CallerShape'
  BY <1>0, <1>6 DEF FlowAnswers, CallerShape
<1>7. ASSUME NEW listed, IndexAnswers(listed) PROVE CallerShape'
  <2>1. \A c \in Callers : \/ caller'[c] = caller[c] \/ caller'[c] = Idle
                           \/ \E r : caller'[c] = [caller[c] EXCEPT !.at = "flow", !.ref = r]
    BY <1>7 DEF IndexAnswers
  <2>2. \A c \in Callers : \A r : DOMAIN [caller[c] EXCEPT !.at = "flow", !.ref = r] = DOMAIN caller[c]
    OBVIOUS
  <2> QED BY <1>0, <2>1, <2>2 DEF CallerShape
<1>8. CASE UNCHANGED registryVars
  BY <1>8 DEF registryVars, CallerShape
<1> QED BY <1>2, <1>3, <1>4, <1>5, <1>6, <1>7, <1>8 DEF RegistryNext

LEMMA InvStep == ASSUME IInv, CallerShape, [RegistryNext]_registryVars PROVE IInv'
<1>1. CASE UNCHANGED registryVars
  <2>1. UNCHANGED index /\ UNCHANGED reviewed /\ UNCHANGED flowsMade /\ UNCHANGED caller
    BY <1>1 DEF registryVars
  <2> QED BY <2>1, CallersMove DEF IInv
<1> QED BY <1>1, MergeKeeps, RestartKeeps, AskKeeps, GiveUpKeeps, IndexAnswersKeeps, FlowAnswersKeeps
        DEF RegistryNext

LEMMA ShapeInit == ASSUME RegistryInit PROVE CallerShape
  BY DEF RegistryInit, CallerShape, Idle

LEMMA InvImplies == ASSUME IInv PROVE ImportsWereReviewed
<1>1. \A f \in flowsMade :
        /\ \E ci \in CiRegistries : <<f.name, f.bytes, ci>> \in reviewed
        /\ DOMAIN Content[f.bytes].nodes \union DOMAIN Content[f.bytes].children \subseteq DOMAIN f.nodes
        /\ \A t \in DOMAIN Content[f.bytes].nodes : ~f.nodes[t].reflective
  BY DEF IInv, Imported, Reviewed
<1>2. ASSUME NEW r \in index, r.kind = "flow"
      PROVE  /\ Rejections(LaidOut(r, r.sha256), nodes)
                    \subseteq {"unknown_node", "forbidden_capability", "compile_failed"}
             /\ \A ci \in CiRegistries :
                  <<r.name, r.sha256, ci>> \in reviewed /\ Agree(r.sha256, nodes, ci) =>
                    Rejections(LaidOut(r, r.sha256), nodes) = {}
  <2>1. r.nameOk /\ r.semver /\ Reviewed(r.name, r.sha256)
    BY <1>2 DEF IInv, Listed
  <2>2. \A ci : <<r.name, r.sha256, ci>> \in reviewed => Accepts(r.sha256, ci)
    BY DEF IInv
  <2>3. PICK ci \in CiRegistries : Accepts(r.sha256, ci)
    BY <2>1, <2>2 DEF Reviewed
  <2> QED BY <2>1, <2>2, <2>3, OnlyForTheNodes
<1> QED BY <1>1, <1>2 DEF ImportsWereReviewed

(* Every flow ever imported is, byte for byte, a graph the registry CI     *)
(* passed under that name, and one that the registry lists is refused here *)
(* only for the nodes this process has, and not at all where they are, for *)
(* all that the graph names, those of a review of it (modules/service.py,  *)
(* import_module; modules/validator.py, shared by the process and the CI). *)
THEOREM EveryImportWasReviewed == RegistrySpec => []ImportsWereReviewed
<1>1. RegistryInit => IInv /\ CallerShape
  BY InvInit, ShapeInit
<1>2. IInv /\ CallerShape /\ [RegistryNext]_registryVars => IInv' /\ CallerShape'
  BY InvStep, ShapeStep DEF IInv
<1>3. IInv => ImportsWereReviewed
  BY InvImplies
<1> QED BY <1>1, <1>2, <1>3, PTL DEF RegistrySpec

-----------------------------------------------------------------------------
(* THE TASK CARDS.                                                         *)

CardsSpec == CardsInit /\ [][CardsNext]_cardVars

Stamps == Int \X Int

(* Types of the rows; an id is given once.                                 *)
RowsTyped ==
  /\ now \in Nat /\ flows \subseteq Flows
  /\ use \in Bounds
  /\ given \subseteq TaskIds
  /\ \A t \in tasks : t.id \in given /\ t.created \in Int
  /\ \A t, u \in tasks : t.id = u.id => t = u

WalkTyped ==
  /\ walk = [at |-> walk.at, cursor |-> walk.cursor, got |-> walk.got]
  /\ walk.at \in {"idle", "more", "done"}
  /\ walk.got \in [TaskIds -> Nat]
  /\ walk.at = "idle" => walk.cursor = <<>> /\ \A id \in TaskIds : walk.got[id] = 0
  /\ walk.at = "more" => walk.cursor \in Stamps

(* What was delivered is not ahead of the cursor, so no page has it again. *)
DeliveredIsBehind ==
  /\ \A id \in TaskIds : walk.got[id] <= 1 /\ (walk.got[id] # 0 => id \in given)
  /\ walk.at = "more" => \A t \in tasks : walk.got[t.id] # 0 => ~Before(KeyOf(t), walk.cursor)

(* What stayed was delivered, or is still ahead.                           *)
Awaited ==
  /\ stayed \subseteq TaskIds
  /\ walk.at = "idle" => stayed = {}
  /\ walk.at = "more" =>
        \A id \in stayed : \/ walk.got[id] = 1
                           \/ \E t \in Rows : t.id = id /\ Before(KeyOf(t), walk.cursor)
  /\ walk.at = "done" => \A id \in stayed : walk.got[id] = 1

WInv == RowsTyped /\ WalkTyped /\ DeliveredIsBehind /\ Awaited

(* The comparison of pairs is a strict order.                              *)
LEMMA BeforeOrders ==
  ASSUME NEW a \in Stamps, NEW b \in Stamps, NEW c \in Stamps
  PROVE  /\ ~Before(a, a)
         /\ Before(a, b) => ~Before(b, a)
         /\ Before(a, b) /\ Before(b, c) => Before(a, c)
<1>1. /\ a[1] \in Int /\ a[2] \in Int /\ b[1] \in Int /\ b[2] \in Int /\ c[1] \in Int /\ c[2] \in Int
  BY DEF Stamps
<1> QED BY <1>1 DEF Before

LEMMA KeyTyped == ASSUME RowsTyped, NEW t \in tasks PROVE KeyOf(t) \in Stamps /\ t.id \in TaskIds
  BY CardsAssumption DEF RowsTyped, KeyOf, Stamps

(* Other rows than those of the walk: what only the schedules change.      *)
LEMMA RowsMove ==
  ASSUME WInv, UNCHANGED walk, RowsTyped', given \subseteq given',
         \A t \in tasks' : t \in tasks \/ t.id \notin given,
         stayed' \subseteq stayed,
         \A t \in Rows : t.id \in stayed' => t \in Rows'
  PROVE  WInv'
<1>1. WalkTyped'
  BY DEF WInv, WalkTyped
<1>2. DeliveredIsBehind'
  BY DEF WInv, WalkTyped, DeliveredIsBehind, RowsTyped
<1>3. Awaited'
  BY DEF WInv, Awaited
<1> QED BY <1>1, <1>2, <1>3 DEF WInv

LEMMA TickKeeps == ASSUME WInv, TickCards PROVE WInv'
<1>1. RowsTyped'
  BY DEF WInv, RowsTyped, TickCards
<1> QED BY <1>1, RowsMove DEF TickCards, Rows

LEMMA AddTaskKeeps == ASSUME WInv, NEW id \in use.ids, NEW f \in Flows, AddTask(id, f) PROVE WInv'
<1> DEFINE new == [id |-> id, flow |-> f, created |-> now]
<1>0. id \in TaskIds
  BY CardsAssumption DEF WInv, RowsTyped
<1>1. /\ tasks' = tasks \union {new} /\ given' = given \union {id} /\ id \notin given
      /\ UNCHANGED <<use, now, flows, walk, stayed>>
      /\ new.id = id /\ new.created = now
  BY DEF AddTask
<1> HIDE DEF new
<1>2. RowsTyped'
  <2>1. \A t \in tasks' : t \in tasks \/ t = new
    BY <1>1
  <2>2. \A t \in tasks : t.id # new.id
    BY <1>1 DEF WInv, RowsTyped
  <2> QED BY <1>0, <1>1, <2>1, <2>2 DEF WInv, RowsTyped
<1> QED BY <1>1, <1>2, RowsMove DEF Rows

LEMMA DropTasksKeeps == ASSUME WInv, NEW f, DropTasks(f) PROVE WInv'
<1>1. /\ tasks' = {t \in tasks : t.flow # f}
      /\ stayed' = stayed \ {t.id : t \in {u \in tasks : u.flow = f}}
      /\ UNCHANGED <<use, now, flows, given, walk>>
  BY DEF DropTasks
<1>2. RowsTyped'
  BY <1>1 DEF WInv, RowsTyped
<1>3. \A t \in Rows : t.id \in stayed' => t \in Rows'
  BY <1>1 DEF Rows
<1> QED BY <1>1, <1>2, <1>3, RowsMove

LEMMA DropFlowKeeps == ASSUME WInv, NEW f, DropFlow(f) PROVE WInv'
<1>1. RowsTyped'
  BY DEF WInv, RowsTyped, DropFlow
<1> QED BY <1>1, RowsMove DEF DropFlow, Rows

(* A click touches neither the schedules nor the walk.                     *)
LEMMA ClicksKeep ==
  ASSUME WInv, UNCHANGED <<use, now, flows, tasks, given, walk, stayed>>
  PROVE  WInv'
<1>1. RowsTyped'
  BY DEF WInv, RowsTyped
<1> QED BY <1>1, RowsMove DEF Rows

(* A page: what it delivers was ahead of the cursor, and the new cursor is *)
(* behind everything it left.                                              *)
LEMMA NextPageKeeps == ASSUME WInv, NEW limit \in Int, NextPage(limit) PROVE WInv'
<1> DEFINE rows == After(walk.cursor)
<1>0. PICK items \in Pages(walk.cursor, limit) :
        LET got == [id \in TaskIds |-> IF \E t \in items : t.id = id
                                       THEN walk.got[id] + 1 ELSE walk.got[id]]
        IN  IF Cardinality(After(walk.cursor)) > PageSize(limit)
            THEN \E last \in items :
                    /\ \A t \in items \ {last} : Before(KeyOf(last), KeyOf(t))
                    /\ walk' = [at |-> "more", cursor |-> KeyOf(last), got |-> got]
            ELSE walk' = [at |-> "done", cursor |-> <<>>, got |-> got]
  BY DEF NextPage
<1> DEFINE sum == [id \in TaskIds |-> IF \E t \in items : t.id = id
                                       THEN walk.got[id] + 1 ELSE walk.got[id]]
           more == Cardinality(rows) > PageSize(limit)
<1>0a. IF more THEN \E last \in items :
                       /\ \A t \in items \ {last} : Before(KeyOf(last), KeyOf(t))
                       /\ walk' = [at |-> "more", cursor |-> KeyOf(last), got |-> sum]
               ELSE walk' = [at |-> "done", cursor |-> <<>>, got |-> sum]
  BY <1>0
<1>1. /\ items \subseteq rows
      /\ more => \A t \in items, u \in rows \ items : Before(KeyOf(u), KeyOf(t))
      /\ ~more => items = rows
  BY <1>0 DEF Pages
<1>2. /\ UNCHANGED <<use, now, flows, tasks, given>>
      /\ walk.at # "done"
      /\ stayed' = IF walk.at = "idle" THEN {t.id : t \in Rows} ELSE stayed
  BY DEF NextPage
<1>3. RowsTyped' /\ Rows' = Rows
  BY <1>2 DEF WInv, RowsTyped, Rows
<1>4. \A t \in rows : t \in Rows /\ (walk.cursor = <<>> \/ Before(KeyOf(t), walk.cursor))
  BY DEF After
<1>4a. \A t \in Rows : t \in tasks
  BY DEF Rows
<1>5. walk.at = "more" => walk.cursor \in Stamps /\ walk.cursor # <<>>
  <2>1. <<>> \notin Stamps
    BY DEF Stamps
  <2> QED BY <2>1 DEF WInv, WalkTyped
<1>6. \A t \in items : walk.got[t.id] = 0
  <2> SUFFICES ASSUME NEW t \in items PROVE walk.got[t.id] = 0
    OBVIOUS
  <2>1. t \in tasks /\ t.id \in TaskIds
    BY <1>1, <1>4, <1>4a, KeyTyped DEF WInv
  <2>2. CASE walk.at = "idle"
    BY <2>1, <2>2 DEF WInv, WalkTyped
  <2>3. CASE walk.at = "more"
    BY <2>1, <2>3, <1>1, <1>4, <1>5 DEF WInv, DeliveredIsBehind
  <2> QED BY <1>2, <2>2, <2>3 DEF WInv, WalkTyped
<1>7. /\ sum \in [TaskIds -> Nat]
      /\ \A id \in TaskIds : /\ sum[id] <= 1
                             /\ sum[id] # 0 => id \in given
                             /\ (\E t \in items : t.id = id) => sum[id] = 1
                             /\ (~\E t \in items : t.id = id) => sum[id] = walk.got[id]
  <2>1. walk.got \in [TaskIds -> Nat] /\ \A id \in TaskIds : walk.got[id] <= 1 /\ (walk.got[id] # 0 => id \in given)
    BY DEF WInv, WalkTyped, DeliveredIsBehind
  <2>2. \A t \in items : t.id \in given
    BY <1>1, <1>4, <1>4a DEF WInv, RowsTyped
  <2>3. sum \in [TaskIds -> Nat] /\ \A id \in TaskIds :
          /\ (\E t \in items : t.id = id) => sum[id] = walk.got[id] + 1
          /\ (~\E t \in items : t.id = id) => sum[id] = walk.got[id]
    BY <2>1
  <2> HIDE DEF sum
  <2>4. \A id \in TaskIds : (\E t \in items : t.id = id) => sum[id] = 1 /\ id \in given
    BY <1>6, <2>2, <2>3
  <2>5. \A id \in TaskIds : /\ sum[id] <= 1
                            /\ sum[id] # 0 => id \in given
    BY <2>1, <2>3, <2>4
  <2> QED BY <2>3, <2>4, <2>5
<1>9. stayed' \subseteq TaskIds
  BY <1>2, <1>4a, KeyTyped DEF WInv, Awaited
<1> HIDE DEF sum
(* Who stayed so far and is not on the page is still ahead of the cursor.  *)
<1>8. \A id \in stayed' : \/ sum[id] = 1
                          \/ \E t \in rows \ items : t.id = id
  <2> SUFFICES ASSUME NEW id \in stayed', ~\E t \in rows \ items : t.id = id
               PROVE  sum[id] = 1
    OBVIOUS
  <2>0. (\E t \in items : t.id = id) => sum[id] = 1
    BY <1>7, <1>9
  <2>1. CASE walk.at = "idle"
    <3>1. walk.cursor = <<>>
      BY <2>1 DEF WInv, WalkTyped
    <3>2. rows = Rows
      BY <3>1 DEF After
    <3> QED BY <3>2, <2>0, <2>1, <1>2
  <2>2. CASE walk.at = "more"
    <3>1. id \in stayed /\ id \in TaskIds
      BY <2>2, <1>2 DEF WInv, Awaited
    <3>2. \/ walk.got[id] = 1 \/ \E t \in Rows : t.id = id /\ Before(KeyOf(t), walk.cursor)
      BY <2>2, <3>1 DEF WInv, Awaited
    <3>3. CASE walk.got[id] = 1
      BY <2>0, <3>1, <3>3, <1>7
    <3>4. CASE \E t \in Rows : t.id = id /\ Before(KeyOf(t), walk.cursor)
      BY <2>0, <3>4 DEF After
    <3> QED BY <3>2, <3>3, <3>4
  <2> QED BY <1>2, <2>1, <2>2 DEF WInv, WalkTyped
<1>10. CASE more
  <2>1. PICK last \in items : /\ \A t \in items \ {last} : Before(KeyOf(last), KeyOf(t))
                              /\ walk' = [at |-> "more", cursor |-> KeyOf(last), got |-> sum]
    BY <1>0a, <1>10
  <2>2. KeyOf(last) \in Stamps /\ \A t \in tasks : KeyOf(t) \in Stamps /\ t.id \in TaskIds
    BY <1>1, <1>4, <1>4a, KeyTyped DEF WInv
  <2>2a. walk'.at = "more" /\ walk'.cursor = KeyOf(last) /\ walk'.got = sum
    BY <2>1
  <2>3. WalkTyped'
    BY <2>1, <2>2, <1>7 DEF WalkTyped
  <2>4. ASSUME NEW t \in tasks, sum[t.id] # 0 PROVE ~Before(KeyOf(t), KeyOf(last))
    <3>1. CASE t \in items
      BY <2>1, <2>2, <3>1, BeforeOrders
    <3>2. CASE t \notin items
      <4>1. ~\E u \in items : u.id = t.id
        BY <3>2, <1>1, <1>4, <1>4a DEF WInv, RowsTyped
      <4>2. walk.got[t.id] # 0
        BY <4>1, <2>2, <2>4, <1>7
      <4>3. walk.at = "more"
        BY <4>2, <1>2, <2>2 DEF WInv, WalkTyped
      <4>4. ~Before(KeyOf(t), walk.cursor)
        BY <4>2, <4>3 DEF WInv, DeliveredIsBehind
      <4>5. Before(KeyOf(last), walk.cursor)
        BY <4>3, <1>1, <1>4, <1>5
      <4> QED BY <4>3, <4>4, <4>5, <2>2, <1>5, BeforeOrders
    <3> QED BY <3>1, <3>2
  <2>5. DeliveredIsBehind'
    BY <1>2, <1>7, <2>2a, <2>4 DEF DeliveredIsBehind
  <2>6. \A u \in rows \ items : u \in Rows /\ Before(KeyOf(u), KeyOf(last))
    BY <1>1, <1>4, <1>10
  <2>7. Awaited'
    BY <1>3, <1>8, <1>9, <2>2a, <2>6 DEF Awaited
  <2> QED BY <1>3, <2>3, <2>5, <2>7 DEF WInv
<1>11. CASE ~more
  <2>1. walk' = [at |-> "done", cursor |-> <<>>, got |-> sum]
    BY <1>0a, <1>11
  <2>1a. walk'.at = "done" /\ walk'.got = sum
    BY <2>1
  <2>2. WalkTyped'
    BY <2>1, <1>7 DEF WalkTyped
  <2>3. DeliveredIsBehind'
    BY <1>2, <1>7, <2>1a DEF DeliveredIsBehind
  <2>4. Awaited'
    BY <1>1, <1>8, <1>9, <1>11, <2>1a DEF Awaited
  <2> QED BY <1>3, <2>2, <2>3, <2>4 DEF WInv
<1> QED BY <1>10, <1>11

LEMMA WalksStep == ASSUME WInv, [CardsNext]_cardVars PROVE WInv'
<1>1. CASE UNCHANGED cardVars
  BY <1>1, ClicksKeep DEF cardVars
<1>2. CASE \E limit \in use.limits : NextPage(limit)
  BY <1>2, NextPageKeeps, CardsAssumption DEF WInv, RowsTyped
<1>3. CASE \E k \in use.clicks : (\E t \in tasks : ReadTask(k, t)) \/ \E id \in use.runs : Fire(k, id)
  BY <1>3, ClicksKeep DEF ReadTask, Fire
<1> QED BY <1>1, <1>2, <1>3, TickKeeps, AddTaskKeeps, DropTasksKeeps, DropFlowKeeps DEF CardsNext

LEMMA WalksInit == ASSUME CardsInit PROVE WInv
<1>1. RowsTyped
  BY CardsAssumption DEF CardsInit, RowsTyped
<1>2. WalkTyped /\ walk.at = "idle"
  BY DEF CardsInit, WalkTyped
<1>3. DeliveredIsBehind /\ Awaited
  BY <1>2 DEF CardsInit, WalkTyped, DeliveredIsBehind, Awaited
<1> QED BY <1>1, <1>2, <1>3 DEF WInv
LEMMA WInvImplies == ASSUME WInv PROVE WalksMissNothing
  BY DEF WInv, DeliveredIsBehind, Awaited, WalksMissNothing

(* A reader who walks the pages of the task list to the end gets no task   *)
(* twice and misses none that was there all along, whatever schedules come *)
(* and go meanwhile (tasks/repo.py, list_page; tasks/service.py).          *)
THEOREM EveryTaskIsDelivered == CardsSpec => []WalksMissNothing
<1>1. CardsInit => WInv
  BY WalksInit
<1>2. WInv /\ [CardsNext]_cardVars => WInv'
  BY WalksStep
<1>3. WInv => WalksMissNothing
  BY WInvImplies
<1> QED BY <1>1, <1>2, <1>3, PTL DEF CardsSpec


-----------------------------------------------------------------------------
(* The flow of each task a click, a run or the table knows of: ids are     *)
(* never given again, so a task has one flow for ever.                     *)
Owners == {<<t.id, t.flow>> : t \in tasks}
          \cup {<<click[k].task, click[k].flow>> : k \in {j \in Clicks : click[j].at = "read"}}
          \cup {<<r.key[1], r.flow>> : r \in ran}

OneOwner == /\ \A p \in Owners : p[1] \in given
            /\ \A p, q \in Owners : p[1] = q[1] => p = q

(* The unique (flow, key) of runs.                                         *)
OneRunPerKey ==
  /\ \A r \in ran : r = [id |-> r.id, key |-> r.key, flow |-> r.flow] /\ r.key = <<r.key[1], r.key[2]>>
  /\ \A r, s \in ran : r.id = s.id \/ (r.key = s.key /\ r.flow = s.flow) => r = s

(* A click that fired has a run of its own task and window.                *)
FiredByKey ==
  /\ DOMAIN click = Clicks
  /\ \A k \in Clicks : click[k].at = "fired" =>
        /\ click[k].time \in Nat
        /\ \E r \in ran : r.id = click[k].run /\ r.key = <<click[k].task, Bucket(click[k].time)>>

CInv == RowsTyped /\ OneOwner /\ OneRunPerKey /\ FiredByKey

(* Fixed windows: a window apart is another bucket, less is at most the    *)
(* next one.                                                               *)
LEMMA Buckets ==
  ASSUME NEW s \in Nat, NEW t \in Nat, s <= t
  PROVE  /\ Bucket(s) \in Nat /\ Bucket(s) <= Bucket(t)
         /\ t >= s + Window => Bucket(s) # Bucket(t)
         /\ t < s + Window => Bucket(t) <= Bucket(s) + 1
<1>1. PICK w \in Nat \ {0} : w = Window
  BY CardsAssumption
<1>2. PICK a \in Nat, i \in Nat : a = s \div w /\ i = s % w /\ s = w * a + i /\ i < w
  BY SMT
<1>3. PICK b \in Nat, j \in Nat : b = t \div w /\ j = t % w /\ t = w * b + j /\ j < w
  BY SMT
<1>4. \A x \in Nat : \A y \in Nat : x < y => w * x + w <= w * y
  <2> SUFFICES ASSUME NEW x \in Nat, NEW y \in Nat, x < y PROVE w * x + w <= w * y
    OBVIOUS
  <2>1. PICK d \in Nat : y = x + 1 + d
    <3>1. y - x - 1 \in Nat /\ y = x + 1 + (y - x - 1)
      OBVIOUS
    <3> QED BY <3>1
  <2>2. w * y = w * x + w + w * d /\ w * d \in Nat /\ w * x \in Nat
    BY <2>1, SMT
  <2> QED BY <2>2
<1>5. w * a \in Nat /\ w * b \in Nat /\ w * (a + 1) = w * a + w
  BY SMT
<1>6. a <= b
  <2>1. CASE b < a
    BY <1>2, <1>3, <1>4, <1>5, <2>1
  <2> QED BY <2>1
<1>7. t >= s + w => a # b
  BY <1>2, <1>3, <1>5
<1>8. t < s + w => b <= a + 1
  <2>1. CASE a + 1 < b
    <3>1. w * (a + 1) + w <= w * b
      BY <1>4, <2>1
    <3> QED BY <1>2, <1>3, <1>5, <3>1
  <2> QED BY <2>1
<1> QED BY <1>1, <1>2, <1>3, <1>6, <1>7, <1>8 DEF Bucket

(* The runs started by clicks on one task within a window of one of them   *)
(* lie in two buckets.                                                     *)
LEMMA CInvImplies == ASSUME CInv PROVE ClicksAreCounted
<1> DEFINE fired(id) == {k \in Clicks : click[k].at = "fired" /\ click[k].task = id}
<1> SUFFICES ASSUME NEW id \in TaskIds, NEW a \in fired(id)
             PROVE  /\ \A b \in fired(id) : click[b].time >= click[a].time + Window
                                               => click[a].run # click[b].run
                    /\ Cardinality({click[b].run : b \in {c \in fired(id) :
                         click[c].time \in click[a].time..(click[a].time + Window - 1)}}) <= 2
  BY DEF ClicksAreCounted
<1>1. \A b \in fired(id) : /\ click[b].time \in Nat
                           /\ \E r \in ran : r.id = click[b].run /\ r.key = <<id, Bucket(click[b].time)>>
  BY DEF CInv, FiredByKey
<1>2. \A b \in fired(id), c \in fired(id) :
        click[b].run = click[c].run => Bucket(click[b].time) = Bucket(click[c].time)
  <2> SUFFICES ASSUME NEW b \in fired(id), NEW c \in fired(id), click[b].run = click[c].run
               PROVE  Bucket(click[b].time) = Bucket(click[c].time)
    OBVIOUS
  <2>1. PICK r \in ran : r.id = click[b].run /\ r.key = <<id, Bucket(click[b].time)>>
    BY <1>1
  <2>2. PICK s \in ran : s.id = click[c].run /\ s.key = <<id, Bucket(click[c].time)>>
    BY <1>1
  <2>3. r = s
    BY <2>1, <2>2 DEF CInv, OneRunPerKey
  <2> QED BY <2>1, <2>2, <2>3
<1>3. \A b \in fired(id), c \in fired(id) :
        Bucket(click[b].time) = Bucket(click[c].time) => click[b].run = click[c].run
  <2> SUFFICES ASSUME NEW b \in fired(id), NEW c \in fired(id), Bucket(click[b].time) = Bucket(click[c].time)
               PROVE  click[b].run = click[c].run
    OBVIOUS
  <2>1. PICK r \in ran : r.id = click[b].run /\ r.key = <<id, Bucket(click[b].time)>>
    BY <1>1
  <2>2. PICK s \in ran : s.id = click[c].run /\ s.key = <<id, Bucket(click[c].time)>>
    BY <1>1
  <2>3. <<r.key[1], r.flow>> \in Owners /\ <<s.key[1], s.flow>> \in Owners /\ r.key[1] = id /\ s.key[1] = id
    BY <2>1, <2>2 DEF Owners
  <2>4. r.key = s.key /\ r.flow = s.flow
    BY <2>1, <2>2, <2>3 DEF CInv, OneOwner
  <2>5. r = s
    BY <2>4 DEF CInv, OneRunPerKey
  <2> QED BY <2>1, <2>2, <2>5
<1>4. ASSUME NEW b \in fired(id), click[b].time >= click[a].time + Window
      PROVE  click[a].run # click[b].run
  <2>1. click[a].time <= click[b].time
    BY <1>1, <1>4, CardsAssumption
  <2> QED BY <1>1, <1>2, <1>4, <2>1, Buckets
<1>5. Cardinality({click[b].run : b \in {c \in fired(id) :
         click[c].time \in click[a].time..(click[a].time + Window - 1)}}) <= 2
  <2> DEFINE near == {c \in fired(id) : click[c].time \in click[a].time..(click[a].time + Window - 1)}
             runs == {click[b].run : b \in near}
  <2>1. \A b \in near : b \in fired(id) /\ (Bucket(click[b].time) = Bucket(click[a].time)
                                            \/ Bucket(click[b].time) = Bucket(click[a].time) + 1)
    <3> SUFFICES ASSUME NEW b \in near
                 PROVE  \/ Bucket(click[b].time) = Bucket(click[a].time)
                        \/ Bucket(click[b].time) = Bucket(click[a].time) + 1
      OBVIOUS
    <3>1. click[a].time \in Nat /\ click[b].time \in Nat
      BY <1>1
    <3>2. click[a].time <= click[b].time /\ click[b].time < click[a].time + Window
      BY <3>1, CardsAssumption
    <3>3. PICK m \in Nat, n \in Nat : m = Bucket(click[a].time) /\ n = Bucket(click[b].time)
      BY <3>1, Buckets
    <3>4. m <= n /\ n <= m + 1
      BY <3>1, <3>2, <3>3, Buckets
    <3> QED BY <3>3, <3>4
  <2>2. \E x, y : runs \subseteq {x, y}
    <3>1. CASE \E b \in near : Bucket(click[b].time) = Bucket(click[a].time) + 1
      <4>1. PICK b \in near : Bucket(click[b].time) = Bucket(click[a].time) + 1
        BY <3>1
      <4>2. \A c \in near : click[c].run = click[a].run \/ click[c].run = click[b].run
        BY <1>3, <2>1, <4>1
      <4> QED BY <4>2
    <3>2. CASE ~\E b \in near : Bucket(click[b].time) = Bucket(click[a].time) + 1
      <4>1. \A c \in near : click[c].run = click[a].run
        BY <1>3, <2>1, <3>2
      <4> QED BY <4>1
    <3> QED BY <3>1, <3>2
  <2> HIDE DEF runs
  <2>3. PICK x, y : runs \subseteq {x, y}
    BY <2>2
  <2>4. IsFiniteSet({x}) /\ Cardinality({x}) = 1
    BY FS_Singleton
  <2>5. IsFiniteSet({x} \cup {y}) /\ Cardinality({x} \cup {y}) <= 2
    <3>1. CASE y \in {x}
      <4>1. {x} \cup {y} = {x}
        BY <3>1
      <4> QED BY <2>4, <4>1
    <3>2. CASE y \notin {x}
      <4>1. IsFiniteSet({x} \cup {y}) /\ Cardinality({x} \cup {y}) = Cardinality({x}) + 1
        BY <2>4, <3>2, FS_AddElement
      <4> QED BY <2>4, <4>1
    <3> QED BY <3>1, <3>2
  <2>6. {x} \cup {y} = {x, y}
    OBVIOUS
  <2>7. Cardinality(runs) \in Nat /\ Cardinality(runs) <= Cardinality({x, y})
    BY <2>3, <2>5, <2>6, FS_Subset, FS_CardinalityType
  <2>8. Cardinality({x, y}) \in Nat
    BY <2>5, <2>6, FS_CardinalityType
  <2>9. Cardinality(runs) <= 2
    BY <2>5, <2>6, <2>7, <2>8
  <2> QED BY <2>9 DEF runs
<1> QED BY <1>4, <1>5

LEMMA ClicksInit == ASSUME CardsInit PROVE CInv
<1>1. RowsTyped
  BY CardsAssumption DEF CardsInit, RowsTyped
<1>2. \A k \in Clicks : click[k].at = "idle"
  BY DEF CardsInit
<1>3. Owners = {}
  BY <1>2 DEF CardsInit, Owners
<1> QED BY <1>1, <1>2, <1>3 DEF CardsInit, CInv, OneOwner, OneRunPerKey, FiredByKey

(* A step of the schedules: no click moves, and a new task is its own.     *)
LEMMA OwnersMove ==
  ASSUME CInv, RowsTyped', UNCHANGED <<ran, click>>, given \subseteq given',
         \A t \in tasks' : t \in tasks \/ t.id \notin given
  PROVE  CInv'
<1>1. \A p \in Owners' : p \in Owners \/ \E t \in tasks' : p = <<t.id, t.flow>> /\ t.id \notin given
  BY DEF Owners
<1>2. \A p \in Owners' : p[1] \in given'
  BY <1>1 DEF CInv, OneOwner, RowsTyped
<1>3. \A p, q \in Owners' : p[1] = q[1] => p = q
  BY <1>1 DEF CInv, OneOwner, RowsTyped
<1> QED BY <1>2, <1>3 DEF CInv, OneOwner, OneRunPerKey, FiredByKey

LEMMA ReadTaskKeeps == ASSUME CInv, NEW k \in Clicks, NEW t \in tasks, ReadTask(k, t) PROVE CInv'
<1> DEFINE new == IF t \in Rows THEN [at |-> "read", task |-> t.id, flow |-> t.flow]
                                ELSE [at |-> "refused"]
<1>1. /\ click' = [click EXCEPT ![k] = new] /\ UNCHANGED <<use, now, flows, tasks, given, ran>>
      /\ DOMAIN click = Clicks
  BY DEF ReadTask, CInv, FiredByKey
<1>2. new.at # "fired" /\ (new.at = "read" => new.task = t.id /\ new.flow = t.flow)
  OBVIOUS
<1> HIDE DEF new
<1>3. \A j \in Clicks : click'[j] = click[j] \/ click'[j] = new
  BY <1>1
<1>4. Owners' \subseteq Owners
  BY <1>1, <1>2, <1>3 DEF Owners
<1>5. RowsTyped' /\ FiredByKey'
  BY <1>1, <1>2, <1>3 DEF CInv, RowsTyped, FiredByKey
<1> QED BY <1>1, <1>4, <1>5 DEF CInv, OneOwner, OneRunPerKey

LEMMA FireKeeps == ASSUME CInv, NEW k \in Clicks, NEW id, Fire(k, id) PROVE CInv'
<1> DEFINE f == click[k].flow
           key == <<click[k].task, Bucket(now)>>
           same == {r \in ran : r.flow = f /\ r.key = key}
           fresh == [id |-> id, key |-> key, flow |-> f]
           shot(run) == [at |-> "fired", task |-> click[k].task, run |-> run.id, time |-> now]
<1>1. /\ UNCHANGED <<use, now, flows, tasks, given>> /\ DOMAIN click = Clicks /\ click[k].at = "read"
  BY DEF Fire, CInv, FiredByKey
<1>2. RowsTyped'
  BY <1>1 DEF CInv, RowsTyped
<1>3. CASE f \notin flows
  <2>1. ran' = ran /\ click' = [click EXCEPT ![k] = [at |-> "refused"]]
    BY <1>3 DEF Fire
  <2>2. [at |-> "refused"].at = "refused"
    OBVIOUS
  <2>3. \A j \in Clicks : click'[j] = click[j] \/ click'[j].at = "refused"
    BY <1>1, <2>1, <2>2
  <2>4. Owners' \subseteq Owners
    BY <1>1, <2>1, <2>3 DEF Owners
  <2>5. FiredByKey'
    BY <1>1, <2>1, <2>3 DEF CInv, FiredByKey
  <2> QED BY <1>1, <1>2, <2>1, <2>4, <2>5 DEF CInv, OneOwner, OneRunPerKey
<1>4. CASE f \in flows
  <2>1. PICK run : /\ \/ same = {} /\ run = fresh /\ \A r \in ran : r.id # id
                      \/ same # {} /\ run \in same
                   /\ ran' = ran \cup {run}
                   /\ click' = [click EXCEPT ![k] = shot(run)]
    <3>1. CASE same = {}
      BY <1>4, <3>1 DEF Fire
    <3>2. CASE same # {}
      <4>1. (CHOOSE r \in same : TRUE) \in same
        BY <3>2
      <4> QED BY <1>4, <3>2, <4>1 DEF Fire
    <3> QED BY <3>1, <3>2
  <2>2. run.key = key /\ run.flow = f /\ key[1] = click[k].task
    BY <2>1
  <2>3. shot(run).at = "fired" /\ shot(run).run = run.id /\ shot(run).time = now
        /\ shot(run).task = click[k].task
    OBVIOUS
  <2>4. run = [id |-> run.id, key |-> run.key, flow |-> run.flow] /\ run.key = <<run.key[1], run.key[2]>>
    BY <2>1 DEF CInv, OneRunPerKey
  <2>5. \A r \in ran : r.id = run.id \/ (r.key = run.key /\ r.flow = run.flow) => r = run
    BY <2>1 DEF CInv, OneRunPerKey
  <2>6. OneRunPerKey'
    BY <2>1, <2>4, <2>5 DEF CInv, OneRunPerKey
  <2>7. <<run.key[1], run.flow>> \in Owners
    BY <1>1, <2>2 DEF Owners
  <2>8. \A r \in ran' : <<r.key[1], r.flow>> \in Owners
    BY <2>1, <2>7 DEF Owners
  <2> HIDE DEF f, key, same, fresh, shot
  <2>9. \A j \in Clicks : click'[j] = IF j = k THEN shot(run) ELSE click[j]
    BY <1>1, <2>1
  <2>10. Owners' \subseteq Owners
    BY <1>1, <2>3, <2>8, <2>9 DEF Owners
  <2>11. FiredByKey'
    <3>1. DOMAIN click' = Clicks
      BY <1>1, <2>1
    <3>2. run \in ran' /\ now \in Nat
      BY <2>1 DEF CInv, RowsTyped
    <3>3. run.key = <<click[k].task, Bucket(now)>>
      BY <2>2 DEF key
    <3> QED BY <2>1, <2>3, <2>9, <3>1, <3>2, <3>3 DEF CInv, FiredByKey
  <2> QED BY <1>1, <1>2, <2>6, <2>10, <2>11 DEF CInv, OneOwner
<1> QED BY <1>3, <1>4

LEMMA ClicksStep == ASSUME CInv, WInv, WInv', [CardsNext]_cardVars PROVE CInv'
<1>0. RowsTyped'
  BY DEF WInv
<1>1. CASE UNCHANGED <<ran, click, given, tasks>>
  BY <1>0, <1>1, OwnersMove
<1>2. ASSUME NEW id \in use.ids, NEW f \in Flows, AddTask(id, f) PROVE CInv'
  <2>1. \A t \in tasks' : t \in tasks \/ t.id = id
    BY <1>2 DEF AddTask
  <2> QED BY <1>0, <1>2, <2>1, OwnersMove DEF AddTask
<1>3. ASSUME NEW f, DropTasks(f) PROVE CInv'
  BY <1>0, <1>3, OwnersMove DEF DropTasks
<1>4. use.clicks \subseteq Clicks
  BY CardsAssumption DEF CInv, RowsTyped
<1>5. \/ UNCHANGED <<ran, click, given, tasks>>
      \/ \E id \in use.ids, f \in Flows : AddTask(id, f)
      \/ \E f \in Flows : DropTasks(f)
      \/ \E k \in Clicks : (\E t \in tasks : ReadTask(k, t)) \/ \E id : Fire(k, id)
  BY <1>4 DEF CardsNext, cardVars, TickCards, DropFlow, NextPage
<1> QED BY <1>1, <1>2, <1>3, <1>5, ReadTaskKeeps, FireKeeps

(* run-now: clicks on one task within one length of the window start two   *)
(* runs at most, and clicks a window apart are never taken for one         *)
(* (tasks/service.py, run_now).                                            *)
THEOREM RunNowIsCounted == CardsSpec => []ClicksAreCounted
<1>1. CardsInit => WInv /\ CInv
  BY WalksInit, ClicksInit
<1>2. WInv /\ CInv /\ [CardsNext]_cardVars => WInv' /\ CInv'
  BY WalksStep, ClicksStep
<1>3. CInv => ClicksAreCounted
  BY CInvImplies
<1> QED BY <1>1, <1>2, <1>3, PTL DEF CardsSpec

-----------------------------------------------------------------------------
(* THE EVENT STREAMS.                                                      *)

StreamsSpec == StreamsInit /\ [][StreamsNext]_streamVars

Events == Runs \X ({"started", "finished"} \cup Nat)

(* What may have been said of a run, by what the run has done.             *)
Said(e) ==
  IF feed = "tasks"
  THEN \/ e[2] = "started" /\ status[e[1]] # "pending"
       \/ e[2] = "finished" /\ status[e[1]] \in Terminal
  ELSE e[1] = feed /\ e[2] \in 1..stepped

Once(s) == \A i \in 1..Len(s), j \in 1..Len(s) : s[i] = s[j] => i = j

(* Types, in two parts: what Redis and the connections hold, and what the   *)
(* workers do.                                                             *)
SeqsTyped ==
  /\ pushed \in Seq(Events) /\ aired \in Seq(Events) /\ buffer \in Seq(Events)
  /\ queue \in [Clients -> Seq(Events)]
  /\ DOMAIN at = Clients /\ DOMAIN lastId = Clients
  /\ DOMAIN seen = Clients /\ DOMAIN gap = Clients /\ DOMAIN stale = Clients

WorkTyped ==
  /\ cast \in Casts /\ stepped \in Nat
  /\ status \in [Runs -> {"pending", "running"} \cup Terminal]
  /\ DOMAIN saying = Runs

(* x is among the first n elements of s.                                   *)
Among(s, n, x) == \E i \in 1..n : s[i] = x
HasPushed(e)   == Among(pushed, Len(pushed), e)
HasAired(e)    == Among(aired, Len(aired), e)

(* An event is said once, of what has happened: it is pushed, then aired.  *)
Spoken ==
  /\ Once(pushed) /\ Once(aired)
  /\ \A e : (HasPushed(e) => Said(e)) /\ (HasAired(e) => HasPushed(e))
  /\ \A r \in Runs : saying[r] # <<>> =>
       \E e \in Events : /\ e[1] = r /\ Said(e) /\ ~HasAired(e)
                         /\ \/ saying[r] = <<e, "push">> /\ ~HasPushed(e)
                            \/ saying[r] = <<e, "air">> /\ HasPushed(e)

(* The buffer is the end of what was pushed; the rest was trimmed.         *)
Buffered ==
  /\ Len(buffer) <= Len(pushed)
  /\ \A i \in 1..Len(buffer) : buffer[i] = pushed[Len(pushed) + 1 - i]
  /\ \A j \in 1..(Len(pushed) - Len(buffer)) : pushed[j] \in trimmed

(* Overtaken, in places rather than through CHOOSE.                        *)
Passed(e, c) ==
  \E i \in 1..Len(pushed), j \in 1..Len(pushed), p \in 1..Len(aired) :
     /\ pushed[i] = e /\ i < j /\ aired[p] = pushed[j] /\ pushed[j] \in seen[c]
     /\ \A q \in 1..Len(aired) : aired[q] = e => p < q

(* The browser has the event, or one of the reasons not to.                *)
Covered(e, c) == e \in seen[c] \/ e \in trimmed \/ e \in gap[c] \/ Passed(e, c)

(* A replay in progress: its queue is what was pushed from k to n, n being *)
(* where the buffer ended when it was read; what came before is accounted  *)
(* for, and what is aired and came after is in the gap.                    *)
Replaying(c) == \E k \in 0..Len(pushed), n \in 0..Len(pushed) :
  /\ n = k + Len(queue[c])
  /\ \A i \in 1..Len(queue[c]) : queue[c][i] = pushed[k + i]
  /\ \A x : Among(pushed, k, x) => Covered(x, c)
  /\ \A x : HasAired(x) => Among(pushed, n, x) \/ x \in gap[c]

(* A live stream: its queue is the end of what was aired.                  *)
Following(c) == \E m \in 0..Len(aired) :
  /\ Len(aired) = m + Len(queue[c])
  /\ \A i \in 1..Len(queue[c]) : queue[c][i] = aired[m + i]
  /\ \A x : Among(aired, m, x) => Covered(x, c)

(* What a reconnection relies on: everything pushed up to Last-Event-ID is *)
(* accounted for, so the replay may begin after it.                        *)
Resumable(c) == \A f : lastId[c] = <<f>> =>
  /\ f \in seen[c]
  /\ \A j \in 1..Len(pushed) : pushed[j] = f => \A x : Among(pushed, j, x) => Covered(x, c)

Watching(c) ==
  /\ at[c] = "replaying" => Replaying(c)
  /\ at[c] \in {"live", "checking"} => Following(c)
  /\ Resumable(c)

SeenArePushed == \A c \in Clients : \A e \in seen[c] : HasPushed(e)

(* The event of the last move of a run, and the cards drawn before it.     *)
LastWord(r) == <<r, IF status[r] \in Terminal THEN "finished" ELSE "started">>

Drawn == feed = "tasks" => \A c \in Clients : \A r \in stale[c] : LastWord(r) \notin seen[c]

EInv == SeqsTyped /\ WorkTyped /\ Spoken /\ Buffered /\ SeenArePushed
        /\ Drawn /\ \A c \in Clients : Watching(c)

-----------------------------------------------------------------------------
(* What is not true yet was neither pushed, aired nor seen.                *)
LEMMA NothingUnsaid ==
  ASSUME Spoken, SeenArePushed, NEW e, ~Said(e)
  PROVE  ~HasPushed(e) /\ ~HasAired(e) /\ \A c \in Clients : e \notin seen[c]
  BY DEF Spoken, SeenArePushed

(* A run only moves on, and what has been said of it stays true.           *)
MovesOn ==
  /\ UNCHANGED cast /\ stepped' \in Nat /\ stepped <= stepped'
  /\ \A r \in Runs : status'[r] = status[r] \/ (status[r] \notin Terminal /\ status'[r] # "pending")

LEMMA SaidStays == ASSUME WorkTyped, MovesOn, NEW e \in Events, Said(e) PROVE Said(e)'
<1>1. e[1] \in Runs
  BY DEF Events
<1>2. feed' = feed
  BY DEF MovesOn, feed
<1>3. CASE feed = "tasks"
  BY <1>1, <1>2, <1>3 DEF Said, MovesOn, Terminal
<1>4. CASE feed # "tasks"
  BY <1>2, <1>4 DEF Said, MovesOn, WorkTyped
<1> QED BY <1>3, <1>4

(* A worker may fall silent or take up an event that just became true.     *)
LEMMA SpokenStays ==
  ASSUME EInv, MovesOn, UNCHANGED <<pushed, aired>>, DOMAIN saying' = Runs,
         \A r \in Runs : \/ saying'[r] = saying[r] \/ saying'[r] = <<>>
                         \/ \E e \in Events : /\ saying'[r] = <<e, "push">> /\ e[1] = r
                                              /\ Said(e)' /\ ~Said(e)
  PROVE  Spoken'
<1>1. \A x : HasPushed(x) => x \in Events /\ Said(x)
  <2>1. \A i \in 1..Len(pushed) : pushed[i] \in Events
    BY DEF EInv, SeqsTyped
  <2> QED BY <2>1 DEF EInv, Spoken, HasPushed, Among
<1>2. \A e \in Events : Said(e) => Said(e)'
  BY SaidStays DEF EInv
<1>3. (\A e : HasPushed(e)' <=> HasPushed(e)) /\ (\A e : HasAired(e)' <=> HasAired(e))
  BY DEF HasPushed, HasAired, Among
<1>4. \A r \in Runs : saying'[r] # <<>> =>
       \E e \in Events : /\ e[1] = r /\ Said(e)' /\ ~HasAired(e)
                         /\ \/ saying'[r] = <<e, "push">> /\ ~HasPushed(e)
                            \/ saying'[r] = <<e, "air">> /\ HasPushed(e)
  <2> SUFFICES ASSUME NEW r \in Runs, saying'[r] # <<>>
               PROVE  \E e \in Events : /\ e[1] = r /\ Said(e)' /\ ~HasAired(e)
                         /\ \/ saying'[r] = <<e, "push">> /\ ~HasPushed(e)
                            \/ saying'[r] = <<e, "air">> /\ HasPushed(e)
    OBVIOUS
  <2>1. CASE saying'[r] = saying[r]
    BY <1>2, <2>1 DEF EInv, Spoken
  <2>2. ASSUME NEW e \in Events, saying'[r] = <<e, "push">>, e[1] = r, Said(e)', ~Said(e)
        PROVE  ~HasPushed(e) /\ ~HasAired(e)
    BY <2>2, NothingUnsaid DEF EInv
  <2> QED BY <2>1, <2>2
<1>5. Once(pushed)' /\ Once(aired)'
  BY DEF EInv, Spoken, Once
<1>6. \A x : (HasPushed(x)' => Said(x)') /\ (HasAired(x)' => HasPushed(x)')
  BY <1>1, <1>2, <1>3 DEF EInv, Spoken
<1>10. (\A r \in Runs : saying[r] # <<>> =>
         \E e \in Events : /\ e[1] = r /\ Said(e) /\ ~HasAired(e)
                           /\ \/ saying[r] = <<e, "push">> /\ ~HasPushed(e)
                              \/ saying[r] = <<e, "air">> /\ HasPushed(e))'
  BY <1>3, <1>4
<1> QED BY <1>5, <1>6, <1>10 DEF Spoken

(* A step of a worker that touches neither Redis nor a stream.             *)
LEMMA WorkersMove ==
  ASSUME EInv, MovesOn, WorkTyped', Spoken', Drawn', DOMAIN stale' = Clients,
         UNCHANGED <<buffer, pushed, aired, trimmed, at, queue, lastId, seen, gap>>
  PROVE  EInv'
<1>1. SeqsTyped'
  BY DEF EInv, SeqsTyped
<1>2. Buffered' /\ SeenArePushed'
  BY DEF EInv, Buffered, SeenArePushed, HasPushed, Among
<1>3. \A c \in Clients : Watching(c)'
  <2> SUFFICES ASSUME NEW c \in Clients PROVE Watching(c)'
    OBVIOUS
  <2>1. Watching(c)
    BY DEF EInv
  <2>2. \A e : (Covered(e, c)' <=> Covered(e, c)) /\ (HasAired(e)' <=> HasAired(e))
    BY DEF Covered, Passed, HasAired, Among
  <2>3. Replaying(c) => Replaying(c)'
    BY <2>2 DEF Replaying
  <2>4. Following(c) => Following(c)'
    BY <2>2 DEF Following
  <2>5. Resumable(c) => Resumable(c)'
    BY <2>2 DEF Resumable
  <2> QED BY <2>1, <2>3, <2>4, <2>5 DEF Watching
<1> QED BY <1>1, <1>2, <1>3 DEF EInv

(* The row of a run moves: the cards drawn from it before are out of date, *)
(* and nobody was told of it yet.                                          *)
LEMMA DrawnMoves ==
  ASSUME EInv, NEW r \in Runs, NEW s, Moves(r, s), UNCHANGED <<cast, seen>>,
         feed = "tasks" => ~Said(LastWord(r)')
  PROVE  Drawn' /\ DOMAIN stale' = Clients
<1>1. feed' = feed
  BY DEF feed
<1>2. DOMAIN stale' = Clients /\ \A c \in Clients : stale'[c] = stale[c] \cup {r}
  BY DEF Moves
<1>3. \A q \in Runs : q # r => status'[q] = status[q]
  BY DEF Moves, EInv, WorkTyped
<1>4. ASSUME feed = "tasks", NEW c \in Clients, NEW q \in stale'[c] PROVE LastWord(q)' \notin seen[c]
  <2>1. CASE q = r
    BY <1>4, <2>1, NothingUnsaid DEF EInv
  <2>2. CASE q # r
    <3>1. q \in stale[c]
      BY <1>2, <1>4, <2>2
    <3>2. status'[q] = status[q]
      BY <2>2 DEF Moves, EInv, WorkTyped
    <3> QED BY <1>4, <3>1, <3>2 DEF EInv, Drawn, LastWord
  <2> QED BY <2>1, <2>2
<1> QED BY <1>1, <1>2, <1>4 DEF Drawn

LEMMA ClaimKeeps == ASSUME EInv, NEW r \in Runs, Claim(r) PROVE EInv'
<1> DEFINE e == <<r, "started">>
<1>1. /\ status' = [status EXCEPT ![r] = "running"] /\ status[r] = "pending"
      /\ saying' = [saying EXCEPT ![r] = IF feed = "tasks" THEN <<e, "push">> ELSE <<>>]
      /\ UNCHANGED <<cast, stepped, buffer, pushed, aired, trimmed, at, queue, lastId, seen, gap>>
      /\ Moves(r, "running")
  BY DEF Claim, Moves, Says, redisVars
<1>2. MovesOn /\ WorkTyped' /\ status'[r] = "running"
  BY <1>1 DEF EInv, WorkTyped, MovesOn, Terminal
<1>3. feed' = feed /\ e \in Events /\ e[1] = r /\ e[2] = "started"
  BY <1>1 DEF feed, Events
<1>4. feed = "tasks" => Said(e)' /\ ~Said(e)
  BY <1>1, <1>2, <1>3 DEF Said
<1> HIDE DEF e
<1>5. Spoken'
  BY <1>1, <1>2, <1>3, <1>4, SpokenStays DEF EInv, WorkTyped
<1>6. LastWord(r)' = e
  BY <1>2 DEF LastWord, e, Terminal
<1>7. feed = "tasks" => ~Said(LastWord(r)')
  BY <1>4, <1>6
<1>8. Drawn' /\ DOMAIN stale' = Clients
  BY <1>1, <1>7, DrawnMoves
<1> QED BY <1>1, <1>2, <1>5, <1>8, WorkersMove

LEMMA FinishKeeps == ASSUME EInv, NEW r \in Runs, Finish(r) PROVE EInv'
<1> DEFINE e == <<r, "finished">>
<1>1. PICK s \in Terminal : Moves(r, s)
  BY DEF Finish
<1>2. /\ status' = [status EXCEPT ![r] = s] /\ status[r] = "running"
      /\ saying' = [saying EXCEPT ![r] = IF feed = "tasks" THEN <<e, "push">> ELSE <<>>]
      /\ UNCHANGED <<cast, stepped, buffer, pushed, aired, trimmed, at, queue, lastId, seen, gap>>
  BY <1>1 DEF Finish, Moves, Says, redisVars
<1>3. MovesOn /\ WorkTyped' /\ status'[r] = s
  BY <1>2 DEF EInv, WorkTyped, MovesOn, Terminal
<1>4. feed' = feed /\ e \in Events /\ e[1] = r /\ e[2] = "finished"
  BY <1>2 DEF feed, Events
<1>5. feed = "tasks" => Said(e)' /\ ~Said(e)
  BY <1>2, <1>3, <1>4 DEF Said, Terminal
<1> HIDE DEF e
<1>6. Spoken'
  BY <1>2, <1>3, <1>4, <1>5, SpokenStays DEF EInv, WorkTyped
<1>7. LastWord(r)' = e
  BY <1>3 DEF LastWord, e
<1>8. feed = "tasks" => ~Said(LastWord(r)')
  BY <1>5, <1>7
<1>9. Drawn' /\ DOMAIN stale' = Clients
  BY <1>1, <1>2, <1>8, DrawnMoves
<1> QED BY <1>2, <1>3, <1>6, <1>9, WorkersMove

LEMMA CloseAbandonedKeeps == ASSUME EInv, NEW r \in Runs, CloseAbandoned(r) PROVE EInv'
<1> DEFINE e == <<r, "finished">>
<1>1. /\ Moves(r, "failed") /\ status' = [status EXCEPT ![r] = "failed"] /\ status[r] = "running"
      /\ UNCHANGED saying
      /\ UNCHANGED <<cast, stepped, buffer, pushed, aired, trimmed, at, queue, lastId, seen, gap>>
  BY DEF CloseAbandoned, Moves, redisVars
<1>2. MovesOn /\ WorkTyped' /\ status'[r] = "failed"
  BY <1>1 DEF EInv, WorkTyped, MovesOn, Terminal
<1>3. e[1] = r /\ e[2] = "finished"
  OBVIOUS
<1>4. feed = "tasks" => ~Said(e)
  BY <1>1, <1>3 DEF Said, Terminal
<1> HIDE DEF e
<1>5. Spoken'
  BY <1>1, <1>2, SpokenStays DEF EInv, WorkTyped
<1>6. LastWord(r)' = e
  BY <1>2 DEF LastWord, e, Terminal
<1>7. Drawn' /\ DOMAIN stale' = Clients
  BY <1>1, <1>4, <1>6, DrawnMoves
<1> QED BY <1>1, <1>2, <1>5, <1>7, WorkersMove

(* Steps that leave the rows alone.                                        *)
LEMMA SayingMoves ==
  ASSUME EInv, MovesOn, UNCHANGED <<cast, status, stale, buffer, pushed, aired, trimmed,
                                    at, queue, lastId, seen, gap>>,
         Spoken', DOMAIN saying' = Runs
  PROVE  EInv'
<1>1. WorkTyped'
  BY DEF EInv, WorkTyped, MovesOn
<1>2. Drawn' /\ DOMAIN stale' = Clients
  BY DEF EInv, Drawn, SeqsTyped, LastWord, feed
<1> QED BY <1>1, <1>2, WorkersMove

LEMMA StepKeeps == ASSUME EInv, NEW r \in Runs, Step(r) PROVE EInv'
<1>0. PICK n \in Nat : n = stepped
  BY DEF EInv, WorkTyped
<1> DEFINE e == <<r, n + 1>>
<1>1. /\ saying' = [saying EXCEPT ![r] = <<e, "push">>] /\ r = feed /\ stepped' = stepped + 1
      /\ UNCHANGED <<cast, status, stale, buffer, pushed, aired, trimmed, at, queue, lastId, seen, gap>>
  BY <1>0 DEF Step, redisVars, clientVars
<1>2. stepped \in Nat /\ DOMAIN saying = Runs
  BY DEF EInv, WorkTyped
<1>3. MovesOn
  BY <1>1, <1>2 DEF MovesOn
<1>4. e \in Events /\ e[1] = r /\ e[2] = n + 1
  BY <1>2 DEF Events
<1>5. feed # "tasks" /\ feed' = feed
  BY <1>1, StreamsAssumption DEF feed
<1> HIDE DEF e
<1>6. Said(e)' /\ ~Said(e)
  BY <1>0, <1>1, <1>4, <1>5 DEF Said
<1>7. Spoken'
  BY <1>1, <1>2, <1>3, <1>4, <1>6, SpokenStays
<1> QED BY <1>1, <1>2, <1>3, <1>7, SayingMoves

LEMMA SilenceKeeps == ASSUME EInv, NEW r \in Runs, PublishFails(r) \/ WorkerDies(r) PROVE EInv'
<1>1. /\ saying' = [saying EXCEPT ![r] = <<>>]
      /\ UNCHANGED <<cast, status, stepped, stale, buffer, pushed, aired, trimmed, at, queue,
                     lastId, seen, gap>>
  BY DEF PublishFails, WorkerDies, redisVars, clientVars
<1>2. stepped \in Nat /\ DOMAIN saying = Runs
  BY DEF EInv, WorkTyped
<1>3. MovesOn
  BY <1>1, <1>2 DEF MovesOn
<1>4. Spoken'
  BY <1>1, <1>2, <1>3, SpokenStays
<1> QED BY <1>1, <1>2, <1>3, <1>4, SayingMoves

-----------------------------------------------------------------------------
(* The histories only grow, and what accounts for an event goes on to.     *)
Prefix(s, t) == /\ Len(s) \in Nat /\ Len(t) \in Nat /\ Len(s) <= Len(t)
                /\ \A i \in 1..Len(s) : t[i] = s[i]

Grows(c) == /\ Prefix(pushed, pushed') /\ Prefix(aired, aired')
            /\ trimmed \subseteq trimmed' /\ seen[c] \subseteq seen'[c] /\ gap[c] \subseteq gap'[c]

LEMMA CoveredStays ==
  ASSUME NEW c \in Clients, Grows(c), NEW e, Covered(e, c)
  PROVE  Covered(e, c)'
<1>1. CASE Passed(e, c)
  <2>1. PICK i \in 1..Len(pushed), j \in 1..Len(pushed), p \in 1..Len(aired) :
           /\ pushed[i] = e /\ i < j /\ aired[p] = pushed[j] /\ pushed[j] \in seen[c]
           /\ \A q \in 1..Len(aired) : aired[q] = e => p < q
    BY <1>1 DEF Passed
  <2>2. /\ i \in 1..Len(pushed') /\ j \in 1..Len(pushed') /\ p \in 1..Len(aired')
        /\ pushed'[i] = e /\ aired'[p] = pushed'[j] /\ pushed'[j] \in seen'[c]
    BY <2>1 DEF Grows, Prefix
  <2>3. \A q \in 1..Len(aired') : aired'[q] = e => p < q
    <3> SUFFICES ASSUME NEW q \in 1..Len(aired'), aired'[q] = e PROVE p < q
      OBVIOUS
    <3>1. Len(aired) \in Nat /\ Len(aired') \in Nat
      BY DEF Grows, Prefix
    <3>2. CASE q <= Len(aired)
      BY <2>1, <3>1, <3>2 DEF Grows, Prefix
    <3>3. CASE q > Len(aired)
      BY <2>1, <3>1, <3>3
    <3> QED BY <3>1, <3>2, <3>3
  <2>4. Passed(e, c)'
    BY <2>1, <2>2, <2>3 DEF Passed
  <2> QED BY <2>4 DEF Covered
<1> QED BY <1>1 DEF Covered, Grows

(* What Append does to a history.                                          *)
LEMMA Appended ==
  ASSUME NEW s \in Seq(Events), NEW e \in Events
  PROVE  /\ Append(s, e) \in Seq(Events) /\ Len(Append(s, e)) = Len(s) + 1 /\ Len(s) \in Nat
         /\ \A i \in 1..Len(s) : Append(s, e)[i] = s[i]
         /\ Append(s, e)[Len(s) + 1] = e
         /\ Prefix(s, Append(s, e))
         /\ \A n \in 0..Len(s) : \A x : Among(Append(s, e), n, x) <=> Among(s, n, x)
         /\ \A x : Among(Append(s, e), Len(s) + 1, x) <=> Among(s, Len(s), x) \/ x = e
         /\ Once(s) /\ ~Among(s, Len(s), e) => Once(Append(s, e))
<1>0. Append(s, e) \in Seq(Events) /\ Len(Append(s, e)) = Len(s) + 1
  OBVIOUS
<1>1. PICK t : t = Append(s, e) /\ t \in Seq(Events) /\ Len(t) = Len(s) + 1
  BY <1>0
<1>2. Len(s) \in Nat /\ (\A i \in 1..Len(s) : t[i] = s[i]) /\ t[Len(s) + 1] = e
  BY <1>1
<1>3. Prefix(s, t)
  BY <1>1, <1>2 DEF Prefix
<1>4. \A n \in 0..Len(s) : \A x : Among(t, n, x) <=> Among(s, n, x)
  <2>1. \A n \in 0..Len(s) : \A i \in 1..n : t[i] = s[i]
    BY <1>2
  <2> QED BY <2>1 DEF Among
<1>5. \A x : Among(t, Len(s) + 1, x) <=> Among(s, Len(s), x) \/ x = e
  <2>1. \A i \in 1..(Len(s) + 1) : i \in 1..Len(s) \/ i = Len(s) + 1
    BY <1>2
  <2>2. 1..Len(s) \subseteq 1..(Len(s) + 1) /\ Len(s) + 1 \in 1..(Len(s) + 1)
    BY <1>2
  <2> QED BY <1>2, <2>1, <2>2 DEF Among
<1>6. ASSUME Once(s), ~Among(s, Len(s), e) PROVE Once(t)
  <2> SUFFICES ASSUME NEW i \in 1..(Len(s) + 1), NEW j \in 1..(Len(s) + 1), t[i] = t[j] PROVE i = j
    BY <1>1 DEF Once
  <2>1. (i \in 1..Len(s) \/ i = Len(s) + 1) /\ (j \in 1..Len(s) \/ j = Len(s) + 1)
    BY <1>2
  <2>2. CASE i \in 1..Len(s) /\ j \in 1..Len(s)
    BY <1>2, <1>6, <2>2 DEF Once
  <2>3. \A h \in 1..Len(s) : t[h] # e
    BY <1>2, <1>6 DEF Among
  <2> QED BY <1>2, <2>1, <2>2, <2>3
<1> QED BY <1>1, <1>2, <1>3, <1>4, <1>5, <1>6

LEMMA PushKeeps == ASSUME EInv, NEW r \in Runs, Push(r) PROVE EInv'
<1>1. PICK e \in Events : /\ saying[r] = <<e, "push">> /\ e[1] = r /\ Said(e)
                          /\ ~HasAired(e) /\ ~HasPushed(e)
  <2>1. saying[r] # <<>> /\ saying[r][2] = "push"
    BY DEF Push
  <2>2. PICK e \in Events : /\ e[1] = r /\ Said(e) /\ ~HasAired(e)
                            /\ \/ saying[r] = <<e, "push">> /\ ~HasPushed(e)
                               \/ saying[r] = <<e, "air">> /\ HasPushed(e)
    BY <2>1 DEF EInv, Spoken
  <2>3. <<e, "air">>[2] = "air"
    OBVIOUS
  <2> QED BY <2>1, <2>2, <2>3
<1> DEFINE longer == <<e>> \o buffer
           kept == IF Len(longer) > BufferMaxLen THEN BufferMaxLen ELSE Len(longer)
<1>2. saying[r][1] = e
  BY <1>1
<1>3. /\ buffer' = SubSeq(longer, 1, kept)
      /\ trimmed' = trimmed \union (ToSet(longer) \ ToSet(buffer'))
      /\ pushed' = Append(pushed, e)
      /\ UNCHANGED <<cast, status, stepped, stale, aired, at, queue, lastId, seen, gap>>
  BY <1>2 DEF Push, clientVars
<1>4. saying' = [saying EXCEPT ![r] = <<e, "air">>]
  <2>1. saying' = [saying EXCEPT ![r][2] = "air"]
    BY DEF Push
  <2>2. [saying[r] EXCEPT ![2] = "air"] = <<e, "air">>
    BY <1>1
  <2> QED BY <2>1, <2>2
<1>5. /\ pushed \in Seq(Events) /\ buffer \in Seq(Events) /\ aired \in Seq(Events)
      /\ Len(pushed) \in Nat /\ Len(buffer) \in Nat
  BY DEF EInv, SeqsTyped
<1>6. /\ pushed' \in Seq(Events) /\ Len(pushed') = Len(pushed) + 1
      /\ \A i \in 1..Len(pushed) : pushed'[i] = pushed[i]
      /\ pushed'[Len(pushed) + 1] = e
      /\ Prefix(pushed, pushed')
      /\ \A n \in 0..Len(pushed) : \A x : Among(pushed', n, x) <=> Among(pushed, n, x)
      /\ \A x : Among(pushed', Len(pushed) + 1, x) <=> Among(pushed, Len(pushed), x) \/ x = e
      /\ Once(pushed) /\ ~Among(pushed, Len(pushed), e) => Once(pushed')
  BY <1>3, <1>5, Appended
<1>7. /\ longer \in Seq(Events) /\ Len(longer) = Len(buffer) + 1
      /\ longer[1] = e /\ \A i \in 1..Len(buffer) : longer[i + 1] = buffer[i]
  BY <1>5
<1>8. kept \in Nat /\ 1 <= kept /\ kept <= Len(longer)
  BY <1>5, <1>7, StreamsAssumption
<1> HIDE DEF longer, kept
<1>9. buffer' \in Seq(Events) /\ Len(buffer') = kept /\ \A i \in 1..kept : buffer'[i] = longer[i]
  BY <1>3, <1>7, <1>8
<1>10. Once(pushed)'
  <2>1. Once(pushed')
    BY <1>1, <1>6 DEF EInv, Spoken, HasPushed
  <2> QED BY <2>1 DEF Once
<1>11. \A i \in 1..Len(longer) : longer[i] = pushed'[Len(pushed) + 2 - i]
  <2> SUFFICES ASSUME NEW i \in 1..Len(longer) PROVE longer[i] = pushed'[Len(pushed) + 2 - i]
    OBVIOUS
  <2>1. CASE i = 1
    <3>1. Len(pushed) + 2 - i = Len(pushed) + 1
      BY <1>5, <2>1
    <3> QED BY <1>6, <1>7, <2>1, <3>1
  <2>2. CASE i # 1
    <3>0. PICK b \in Nat : b = Len(buffer) /\ i \in 1..(b + 1)
      BY <1>5, <1>7
    <3>0a. i - 1 \in 1..b /\ i = (i - 1) + 1
      BY <2>2, <3>0
    <3>1. PICK h \in 1..Len(buffer) : i = h + 1
      BY <3>0, <3>0a
    <3>2. longer[i] = buffer[h] /\ buffer[h] = pushed[Len(pushed) + 1 - h] /\ Len(buffer) <= Len(pushed)
      BY <1>7, <3>1 DEF EInv, Buffered
    <3>3. Len(pushed) + 1 - h \in 1..Len(pushed) /\ Len(pushed) + 1 - h = Len(pushed) + 2 - i
      BY <1>5, <3>1, <3>2
    <3> QED BY <1>6, <3>2, <3>3
  <2> QED BY <2>1, <2>2
<1>12. Buffered'
  <2>1. Len(buffer') <= Len(pushed')
    BY <1>5, <1>6, <1>7, <1>8, <1>9 DEF EInv, Buffered
  <2>2. \A i \in 1..Len(buffer') : buffer'[i] = pushed'[Len(pushed') + 1 - i]
    <3> SUFFICES ASSUME NEW i \in 1..Len(buffer') PROVE buffer'[i] = pushed'[Len(pushed') + 1 - i]
      OBVIOUS
    <3>1. i \in 1..Len(longer) /\ buffer'[i] = longer[i]
      BY <1>5, <1>7, <1>8, <1>9
    <3>2. Len(pushed') + 1 - i = Len(pushed) + 2 - i
      BY <1>5, <1>6
    <3> QED BY <1>11, <3>1, <3>2
  <2>3. ASSUME NEW j \in 1..(Len(pushed') - Len(buffer')) PROVE pushed'[j] \in trimmed'
    <3>1. CASE j <= Len(pushed) - Len(buffer)
      <4>1. pushed[j] \in trimmed /\ j \in 1..Len(pushed)
        BY <1>5, <3>1 DEF EInv, Buffered
      <4> QED BY <1>3, <1>6, <4>1
    <3>2. CASE j > Len(pushed) - Len(buffer)
      <4>0. j \in Int
        BY <1>5
      <4>0a. Len(pushed) + 2 - j \in Int
        BY <1>5, <4>0
      <4>1. PICK i \in Int : i = Len(pushed) + 2 - j
        BY <4>0a
      <4>2. i \in 1..Len(longer) /\ kept < i /\ j = Len(pushed) + 2 - i /\ j \in 1..Len(pushed')
        BY <1>5, <1>6, <1>7, <1>8, <1>9, <3>2, <4>1
      <4>3. longer[i] = pushed'[j]
        BY <1>11, <4>2
      <4>4. longer[i] \in ToSet(longer)
        BY <1>7, <4>2 DEF ToSet
      <4>5. ASSUME NEW h \in 1..kept PROVE buffer'[h] # pushed'[j]
        <5>1. h \in 1..Len(longer)
          BY <1>7, <1>8
        <5>2. buffer'[h] = pushed'[Len(pushed) + 2 - h]
          BY <1>9, <1>11, <5>1
        <5>3. Len(pushed) + 2 - h \in 1..Len(pushed') /\ Len(pushed) + 2 - h # j
          BY <1>5, <1>6, <1>7, <1>8, <4>2, <2>1, <1>9
        <5> QED BY <1>10, <4>2, <5>2, <5>3 DEF Once
      <4>6. DOMAIN buffer' = 1..kept
        BY <1>9
      <4>7. pushed'[j] \notin ToSet(buffer')
        BY <4>5, <4>6 DEF ToSet
      <4> QED BY <1>3, <4>3, <4>4, <4>7
    <3> QED BY <1>5, <3>1, <3>2
  <2> QED BY <2>1, <2>2, <2>3 DEF Buffered
<1>13. \A x : (Said(x)' <=> Said(x)) /\ (HasAired(x)' <=> HasAired(x))
  BY <1>3 DEF Said, HasAired, Among, feed
<1>14. \A x : HasPushed(x)' <=> HasPushed(x) \/ x = e
  BY <1>6 DEF HasPushed
<1>15. Spoken'
  <2>1. Once(aired)'
    BY <1>3 DEF EInv, Spoken, Once
  <2>2. \A x : (HasPushed(x)' => Said(x)') /\ (HasAired(x)' => HasPushed(x)')
    BY <1>1, <1>13, <1>14 DEF EInv, Spoken
  <2>4. ASSUME NEW q \in Runs, saying'[q] # <<>>
        PROVE  \E x \in Events : /\ x[1] = q /\ Said(x) /\ ~HasAired(x)
                                 /\ \/ saying'[q] = <<x, "push">> /\ ~HasPushed(x)'
                                    \/ saying'[q] = <<x, "air">> /\ HasPushed(x)'
    <3>1. DOMAIN saying = Runs
      BY DEF EInv, WorkTyped
    <3>2. CASE q = r
      BY <1>1, <1>4, <1>14, <3>1, <3>2
    <3>3. CASE q # r
      <4>1. saying'[q] = saying[q]
        BY <1>4, <3>1, <3>3
      <4>2. PICK x \in Events : /\ x[1] = q /\ Said(x) /\ ~HasAired(x)
                                /\ \/ saying[q] = <<x, "push">> /\ ~HasPushed(x)
                                   \/ saying[q] = <<x, "air">> /\ HasPushed(x)
        BY <2>4, <4>1 DEF EInv, Spoken
      <4>3. x # e
        BY <1>1, <3>3, <4>2
      <4> QED BY <1>14, <4>1, <4>2, <4>3
    <3> QED BY <3>2, <3>3
  <2>5. (\A q \in Runs : saying[q] # <<>> =>
           \E x \in Events : /\ x[1] = q /\ Said(x) /\ ~HasAired(x)
                             /\ \/ saying[q] = <<x, "push">> /\ ~HasPushed(x)
                                \/ saying[q] = <<x, "air">> /\ HasPushed(x))'
    BY <1>13, <2>4
  <2> QED BY <1>10, <2>1, <2>2, <2>5 DEF Spoken
<1>16. SeqsTyped' /\ WorkTyped' /\ SeenArePushed' /\ Drawn'
  <2>1. SeqsTyped'
    BY <1>3, <1>6, <1>9 DEF EInv, SeqsTyped
  <2>2. WorkTyped'
    BY <1>3, <1>4 DEF EInv, WorkTyped
  <2>3. SeenArePushed'
    BY <1>3, <1>14 DEF EInv, SeenArePushed
  <2>4. Drawn'
    BY <1>3 DEF EInv, Drawn, LastWord, feed
  <2> QED BY <2>1, <2>2, <2>3, <2>4
<1>17. ASSUME NEW c \in Clients PROVE Watching(c)'
  <2>2. Prefix(aired, aired')
    BY <1>3, <1>5 DEF Prefix
  <2>3. Grows(c)
    BY <1>3, <1>6, <2>2 DEF Grows
  <2>4. \A x : Covered(x, c) => Covered(x, c)'
    BY <2>3, CoveredStays
  <2>5. Watching(c)
    BY DEF EInv
  <2>6. queue'[c] = queue[c] /\ at'[c] = at[c] /\ lastId'[c] = lastId[c] /\ gap'[c] = gap[c]
    BY <1>3
  <2>7. Replaying(c) => Replaying(c)'
    <3> SUFFICES ASSUME Replaying(c) PROVE Replaying(c)'
      OBVIOUS
    <3>1. PICK k \in 0..Len(pushed), n \in 0..Len(pushed) :
             /\ n = k + Len(queue[c])
             /\ \A i \in 1..Len(queue[c]) : queue[c][i] = pushed[k + i]
             /\ \A x : Among(pushed, k, x) => Covered(x, c)
             /\ \A x : HasAired(x) => Among(pushed, n, x) \/ x \in gap[c]
      BY DEF Replaying
    <3>2. Len(queue[c]) \in Nat
      BY DEF EInv, SeqsTyped
    <3>3. k \in 0..Len(pushed') /\ n \in 0..Len(pushed')
      BY <1>5, <1>6
    <3>4. \A i \in 1..Len(queue[c]) : queue[c][i] = pushed'[k + i]
      <4> SUFFICES ASSUME NEW i \in 1..Len(queue[c]) PROVE queue[c][i] = pushed'[k + i]
        OBVIOUS
      <4>1. k + i \in 1..Len(pushed)
        BY <1>5, <3>1, <3>2
      <4> QED BY <1>6, <3>1, <4>1
    <3>5. \A x : Among(pushed', k, x) => Covered(x, c)'
      BY <1>6, <2>4, <3>1
    <3>6. \A x : HasAired(x)' => Among(pushed', n, x) \/ x \in gap'[c]
      BY <1>6, <1>13, <2>6, <3>1
    <3> QED BY <2>6, <3>1, <3>3, <3>4, <3>5, <3>6 DEF Replaying
  <2>8. Following(c) => Following(c)'
    <3> SUFFICES ASSUME Following(c) PROVE Following(c)'
      OBVIOUS
    <3>1. PICK m \in 0..Len(aired) :
             /\ Len(aired) = m + Len(queue[c])
             /\ \A i \in 1..Len(queue[c]) : queue[c][i] = aired[m + i]
             /\ \A x : Among(aired, m, x) => Covered(x, c)
      BY DEF Following
    <3>2. \A x : Among(aired, m, x) => Covered(x, c)'
      BY <2>4, <3>1
    <3> QED BY <1>3, <2>6, <3>1, <3>2 DEF Following
  <2>9. Resumable(c)'
    <3> SUFFICES ASSUME NEW f, lastId'[c] = <<f>>
                 PROVE  /\ f \in seen'[c]
                        /\ \A j \in 1..Len(pushed') : pushed'[j] = f => \A x : Among(pushed', j, x) => Covered(x, c)'
      BY DEF Resumable
    <3>1. /\ f \in seen[c] /\ seen'[c] = seen[c]
          /\ \A j \in 1..Len(pushed) : pushed[j] = f => \A x : Among(pushed, j, x) => Covered(x, c)
      BY <1>3, <2>5, <2>6 DEF Watching, Resumable
    <3>2. f # e
      BY <1>1, <3>1 DEF EInv, SeenArePushed
    <3>3. ASSUME NEW j \in 1..Len(pushed'), pushed'[j] = f, NEW x, Among(pushed', j, x) PROVE Covered(x, c)'
      <4>1. j \in 1..Len(pushed) /\ j \in 0..Len(pushed)
        BY <1>5, <1>6, <3>2, <3>3
      <4>2. Among(pushed, j, x) /\ pushed[j] = f
        BY <1>6, <3>3, <4>1
      <4> QED BY <2>4, <3>1, <4>1, <4>2
    <3> QED BY <3>1, <3>3
  <2> QED BY <2>5, <2>6, <2>7, <2>8, <2>9 DEF Watching
<1> QED BY <1>12, <1>15, <1>16, <1>17 DEF EInv

LEMMA AirKeeps == ASSUME EInv, NEW r \in Runs, Air(r) PROVE EInv'
<1>1. PICK e \in Events : /\ saying[r] = <<e, "air">> /\ e[1] = r /\ Said(e)
                          /\ ~HasAired(e) /\ HasPushed(e)
  <2>1. saying[r] # <<>> /\ saying[r][2] = "air"
    BY DEF Air
  <2>2. PICK e \in Events : /\ e[1] = r /\ Said(e) /\ ~HasAired(e)
                            /\ \/ saying[r] = <<e, "push">> /\ ~HasPushed(e)
                               \/ saying[r] = <<e, "air">> /\ HasPushed(e)
    BY <2>1 DEF EInv, Spoken
  <2>3. <<e, "push">>[2] = "push"
    OBVIOUS
  <2> QED BY <2>1, <2>2, <2>3
<1>2. saying[r][1] = e
  BY <1>1
<1>3. /\ aired' = Append(aired, e)
      /\ saying' = [saying EXCEPT ![r] = <<>>]
      /\ queue' = [c \in Clients |-> IF at[c] \in {"live", "checking"}
                                     THEN Append(queue[c], e) ELSE queue[c]]
      /\ gap' = [c \in Clients |-> IF at[c] = "replaying" THEN gap[c] \union {e} ELSE gap[c]]
      /\ UNCHANGED <<cast, status, stepped, stale, buffer, pushed, trimmed, at, lastId, seen>>
  BY <1>2 DEF Air, clientVars
<1>5. /\ pushed \in Seq(Events) /\ aired \in Seq(Events) /\ queue \in [Clients -> Seq(Events)]
      /\ Len(pushed) \in Nat /\ Len(aired) \in Nat
  BY DEF EInv, SeqsTyped
<1>6. /\ aired' \in Seq(Events) /\ Len(aired') = Len(aired) + 1
      /\ \A i \in 1..Len(aired) : aired'[i] = aired[i]
      /\ aired'[Len(aired) + 1] = e
      /\ Prefix(aired, aired')
      /\ \A n \in 0..Len(aired) : \A x : Among(aired', n, x) <=> Among(aired, n, x)
      /\ \A x : Among(aired', Len(aired) + 1, x) <=> Among(aired, Len(aired), x) \/ x = e
      /\ Once(aired) /\ ~Among(aired, Len(aired), e) => Once(aired')
  BY <1>3, <1>5, Appended
<1>7. Once(aired)' /\ Once(pushed)'
  <2>1. Once(aired')
    BY <1>1, <1>6 DEF EInv, Spoken, HasAired
  <2> QED BY <1>3, <2>1 DEF Once, EInv, Spoken
<1>8. \A x : (Said(x)' <=> Said(x)) /\ (HasPushed(x)' <=> HasPushed(x))
  BY <1>3 DEF Said, HasPushed, Among, feed
<1>9. \A x : HasAired(x)' <=> HasAired(x) \/ x = e
  BY <1>6 DEF HasAired
<1>10. Spoken'
  <2>1. \A x : (HasPushed(x)' => Said(x)') /\ (HasAired(x)' => HasPushed(x)')
    BY <1>1, <1>8, <1>9 DEF EInv, Spoken
  <2>2. ASSUME NEW q \in Runs, saying'[q] # <<>>
        PROVE  \E x \in Events : /\ x[1] = q /\ Said(x) /\ ~HasAired(x)'
                                 /\ \/ saying'[q] = <<x, "push">> /\ ~HasPushed(x)
                                    \/ saying'[q] = <<x, "air">> /\ HasPushed(x)
    <3>1. DOMAIN saying = Runs
      BY DEF EInv, WorkTyped
    <3>2. q # r
      BY <1>3, <2>2, <3>1
    <3>3. saying'[q] = saying[q]
      BY <1>3, <3>1, <3>2
    <3>4. PICK x \in Events : /\ x[1] = q /\ Said(x) /\ ~HasAired(x)
                              /\ \/ saying[q] = <<x, "push">> /\ ~HasPushed(x)
                                 \/ saying[q] = <<x, "air">> /\ HasPushed(x)
      BY <2>2, <3>3 DEF EInv, Spoken
    <3>5. x # e
      BY <1>1, <3>2, <3>4
    <3> QED BY <1>9, <3>3, <3>4, <3>5
  <2>3. (\A q \in Runs : saying[q] # <<>> =>
           \E x \in Events : /\ x[1] = q /\ Said(x) /\ ~HasAired(x)
                             /\ \/ saying[q] = <<x, "push">> /\ ~HasPushed(x)
                                \/ saying[q] = <<x, "air">> /\ HasPushed(x))'
    BY <1>8, <2>2
  <2> QED BY <1>7, <2>1, <2>3 DEF Spoken
<1>11. SeqsTyped' /\ WorkTyped' /\ SeenArePushed' /\ Drawn' /\ Buffered'
  <2>1. queue' \in [Clients -> Seq(Events)]
    BY <1>3, <1>5
  <2>2. SeqsTyped'
    BY <1>3, <1>6, <2>1 DEF EInv, SeqsTyped
  <2>3. WorkTyped'
    BY <1>3 DEF EInv, WorkTyped
  <2>4. SeenArePushed'
    BY <1>3, <1>8 DEF EInv, SeenArePushed
  <2>5. Drawn'
    BY <1>3 DEF EInv, Drawn, LastWord, feed
  <2>6. Buffered'
    BY <1>3 DEF EInv, Buffered
  <2> QED BY <2>2, <2>3, <2>4, <2>5, <2>6
<1>12. ASSUME NEW c \in Clients PROVE Watching(c)'
  <2>1. Prefix(pushed, pushed')
    BY <1>3, <1>5 DEF Prefix
  <2>2. gap[c] \subseteq gap'[c] /\ (at[c] = "replaying" => e \in gap'[c])
    BY <1>3
  <2>3. Grows(c)
    BY <1>3, <1>6, <2>1, <2>2 DEF Grows
  <2>4. \A x : Covered(x, c) => Covered(x, c)'
    BY <2>3, CoveredStays
  <2>5. Watching(c)
    BY DEF EInv
  <2>6. at'[c] = at[c] /\ lastId'[c] = lastId[c] /\ seen'[c] = seen[c]
    BY <1>3
  <2>7. ASSUME at[c] = "replaying" PROVE Replaying(c)'
    <3>1. PICK k \in 0..Len(pushed), n \in 0..Len(pushed) :
             /\ n = k + Len(queue[c])
             /\ \A i \in 1..Len(queue[c]) : queue[c][i] = pushed[k + i]
             /\ \A x : Among(pushed, k, x) => Covered(x, c)
             /\ \A x : HasAired(x) => Among(pushed, n, x) \/ x \in gap[c]
      BY <2>5, <2>7 DEF Watching, Replaying
    <3>2. queue'[c] = queue[c]
      BY <1>3, <2>7
    <3>3. \A x : Among(pushed, k, x) => Covered(x, c)'
      BY <2>4, <3>1
    <3>4. \A x : HasAired(x)' => Among(pushed, n, x) \/ x \in gap'[c]
      BY <1>9, <2>2, <2>7, <3>1
    <3> QED BY <1>3, <3>1, <3>2, <3>3, <3>4 DEF Replaying
  <2>8. ASSUME at[c] \in {"live", "checking"} PROVE Following(c)'
    <3>1. PICK m \in 0..Len(aired) :
             /\ Len(aired) = m + Len(queue[c])
             /\ \A i \in 1..Len(queue[c]) : queue[c][i] = aired[m + i]
             /\ \A x : Among(aired, m, x) => Covered(x, c)
      BY <2>5, <2>8 DEF Watching, Following
    <3>2. queue[c] \in Seq(Events) /\ queue'[c] = Append(queue[c], e)
      BY <1>3, <1>5, <2>8
    <3>3. /\ Len(queue'[c]) = Len(queue[c]) + 1 /\ Len(queue[c]) \in Nat
          /\ \A i \in 1..Len(queue[c]) : queue'[c][i] = queue[c][i]
          /\ queue'[c][Len(queue[c]) + 1] = e
      BY <3>2, Appended
    <3>4. Len(aired') = m + Len(queue'[c]) /\ m \in 0..Len(aired')
      BY <1>5, <1>6, <3>1, <3>3
    <3>5. ASSUME NEW i \in 1..Len(queue'[c]) PROVE queue'[c][i] = aired'[m + i]
      <4>1. i \in 1..Len(queue[c]) \/ i = Len(queue[c]) + 1
        BY <3>3
      <4>2. CASE i \in 1..Len(queue[c])
        <5>1. m + i \in 1..Len(aired)
          BY <1>5, <3>1, <3>3, <4>2
        <5> QED BY <1>6, <3>1, <3>3, <4>2, <5>1
      <4>3. CASE i = Len(queue[c]) + 1
        <5>1. m + i = Len(aired) + 1
          BY <1>5, <3>1, <3>3, <4>3
        <5> QED BY <1>6, <3>3, <4>3, <5>1
      <4> QED BY <4>1, <4>2, <4>3
    <3>6. \A x : Among(aired', m, x) => Covered(x, c)'
      BY <1>6, <2>4, <3>1
    <3> QED BY <3>4, <3>5, <3>6 DEF Following
  <2>9. Resumable(c)'
    <3> SUFFICES ASSUME NEW f, lastId'[c] = <<f>>
                 PROVE  /\ f \in seen'[c]
                        /\ \A j \in 1..Len(pushed') : pushed'[j] = f => \A x : Among(pushed', j, x) => Covered(x, c)'
      BY DEF Resumable
    <3>1. /\ f \in seen[c]
          /\ \A j \in 1..Len(pushed) : pushed[j] = f => \A x : Among(pushed, j, x) => Covered(x, c)
      BY <2>5, <2>6 DEF Watching, Resumable
    <3>2. \A j \in 1..Len(pushed) : pushed[j] = f => \A x : Among(pushed, j, x) => Covered(x, c)'
      BY <2>4, <3>1
    <3> QED BY <1>3, <2>6, <3>1, <3>2
  <2> QED BY <2>6, <2>7, <2>8, <2>9 DEF Watching
<1> QED BY <1>10, <1>11, <1>12 DEF EInv

-----------------------------------------------------------------------------
(* A step of one connection leaves the others where they are.              *)
LEMMA OneConnectionMoves ==
  ASSUME EInv, NEW c \in Clients,
         UNCHANGED <<cast, status, stepped, saying, buffer, pushed, aired, trimmed, gap>>,
         queue' \in [Clients -> Seq(Events)], DOMAIN at' = Clients, DOMAIN lastId' = Clients,
         DOMAIN seen' = Clients, DOMAIN stale' = Clients,
         \A d \in Clients \ {c} : /\ at'[d] = at[d] /\ queue'[d] = queue[d]
                                  /\ lastId'[d] = lastId[d] /\ seen'[d] = seen[d],
         \A x \in seen'[c] : HasPushed(x),
         Drawn', Watching(c)'
  PROVE  EInv'
<1>1. SeqsTyped'
  BY DEF EInv, SeqsTyped
<1>2. WorkTyped'
  BY DEF EInv, WorkTyped
<1>3. \A x : (Said(x)' <=> Said(x)) /\ (HasPushed(x)' <=> HasPushed(x)) /\ (HasAired(x)' <=> HasAired(x))
  BY DEF Said, HasPushed, HasAired, Among, feed
<1>4. Spoken'
  <2>1. Once(pushed)' /\ Once(aired)'
    BY DEF EInv, Spoken, Once
  <2>2. (\A r \in Runs : saying[r] # <<>> =>
           \E e \in Events : /\ e[1] = r /\ Said(e) /\ ~HasAired(e)
                             /\ \/ saying[r] = <<e, "push">> /\ ~HasPushed(e)
                                \/ saying[r] = <<e, "air">> /\ HasPushed(e))'
    BY <1>3 DEF EInv, Spoken
  <2> QED BY <1>3, <2>1, <2>2 DEF EInv, Spoken
<1>5. Buffered'
  BY DEF EInv, Buffered
<1>6. SeenArePushed'
  BY <1>3 DEF EInv, SeenArePushed
<1>7. ASSUME NEW d \in Clients \ {c} PROVE Watching(d)'
  <2>1. Watching(d)
    BY DEF EInv
  <2>2. /\ at'[d] = at[d] /\ queue'[d] = queue[d] /\ lastId'[d] = lastId[d]
        /\ seen'[d] = seen[d] /\ gap'[d] = gap[d]
    OBVIOUS
  <2>3. \A x : Covered(x, d)' <=> Covered(x, d)
    BY <2>2 DEF Covered, Passed
  <2>4. Replaying(d) => Replaying(d)'
    BY <1>3, <2>2, <2>3 DEF Replaying
  <2>5. Following(d) => Following(d)'
    BY <2>2, <2>3 DEF Following
  <2>6. Resumable(d) => Resumable(d)'
    BY <2>2, <2>3 DEF Resumable
  <2> QED BY <2>1, <2>2, <2>4, <2>5, <2>6 DEF Watching
<1> QED BY <1>1, <1>2, <1>4, <1>5, <1>6, <1>7 DEF EInv

(* ... and when it delivers nothing, the browser is where it was.          *)
LEMMA NothingDelivered ==
  ASSUME EInv, NEW c \in Clients,
         UNCHANGED <<cast, status, stepped, saying, buffer, pushed, aired, trimmed, gap,
                     lastId, seen, stale>>,
         queue' \in [Clients -> Seq(Events)], DOMAIN at' = Clients,
         \A d \in Clients \ {c} : at'[d] = at[d] /\ queue'[d] = queue[d],
         at'[c] = "replaying" => Replaying(c)',
         at'[c] \in {"live", "checking"} => Following(c)'
  PROVE  EInv'
<1>1. Drawn'
  BY DEF EInv, Drawn, LastWord, feed
<1>2. \A x : Covered(x, c)' <=> Covered(x, c)
  BY DEF Covered, Passed
<1>3. Resumable(c)'
  BY <1>2 DEF EInv, Watching, Resumable
<1>4. Watching(c)'
  BY <1>3 DEF Watching
<1>5. \A x \in seen'[c] : HasPushed(x)
  BY DEF EInv, SeenArePushed
<1>6. DOMAIN lastId' = Clients /\ DOMAIN seen' = Clients /\ DOMAIN stale' = Clients
  BY DEF EInv, SeqsTyped
<1> QED BY <1>1, <1>4, <1>5, <1>6, OneConnectionMoves

LEMMA SlotsKeep ==
  ASSUME EInv, NEW c \in Clients, Open(c) \/ LeaveUnbegun(c) \/ Leave(c) PROVE EInv'
<1>1. /\ UNCHANGED <<cast, status, stepped, saying, buffer, pushed, aired, trimmed, gap,
                     lastId, seen, stale>>
      /\ \E l \in {"taken", "away"} : at' = [at EXCEPT ![c] = l]
      /\ queue' = queue \/ queue' = [queue EXCEPT ![c] = <<>>]
  BY DEF Open, LeaveUnbegun, Leave, workVars, redisVars, clientVars
<1>2. DOMAIN at = Clients /\ queue \in [Clients -> Seq(Events)] /\ <<>> \in Seq(Events)
  BY DEF EInv, SeqsTyped
<1> QED BY <1>1, <1>2, NothingDelivered

LEMMA CheckedKeeps == ASSUME EInv, NEW c \in Clients, Checked(c) \/ Heartbeat(c) PROVE EInv'
<1>1. /\ UNCHANGED <<cast, status, stepped, saying, buffer, pushed, aired, trimmed, gap,
                     lastId, seen, stale>>
      /\ \/ at' = [at EXCEPT ![c] = "away"] /\ queue' = [queue EXCEPT ![c] = <<>>]
         \/ \E l \in {"live", "checking"} : at' = [at EXCEPT ![c] = l] /\ queue' = queue
      /\ at[c] \in {"live", "checking"}
  BY DEF Checked, Heartbeat, workVars, redisVars, clientVars, slotVars
<1>2. DOMAIN at = Clients /\ queue \in [Clients -> Seq(Events)] /\ <<>> \in Seq(Events)
  BY DEF EInv, SeqsTyped
<1>3. queue' = queue => Following(c)'
  <2>1. \A x : Covered(x, c)' <=> Covered(x, c)
    BY <1>1 DEF Covered, Passed
  <2>2. Following(c)
    BY <1>1 DEF EInv, Watching
  <2> QED BY <1>1, <2>1, <2>2 DEF Following
<1> QED BY <1>1, <1>2, <1>3, NothingDelivered

LEMMA JoinKeeps == ASSUME EInv, NEW c \in Clients, Join(c) PROVE EInv'
<1>1. /\ UNCHANGED <<cast, status, stepped, saying, buffer, pushed, aired, trimmed, gap,
                     lastId, seen, stale, queue>>
      /\ at' = [at EXCEPT ![c] = "live"] /\ at[c] = "replaying" /\ queue[c] = <<>>
  BY DEF Join, workVars, redisVars, clientVars
<1>2. DOMAIN at = Clients /\ queue \in [Clients -> Seq(Events)] /\ Len(aired) \in Nat
  BY DEF EInv, SeqsTyped
<1>3. PICK k \in 0..Len(pushed), n \in 0..Len(pushed) :
             /\ n = k + Len(queue[c])
             /\ \A x : Among(pushed, k, x) => Covered(x, c)
             /\ \A x : HasAired(x) => Among(pushed, n, x) \/ x \in gap[c]
  BY <1>1 DEF EInv, Watching, Replaying
<1>4. k = n
  BY <1>1, <1>3
<1>5. \A x : HasAired(x) => Covered(x, c)
  BY <1>3, <1>4 DEF Covered
<1>6. \A x : Covered(x, c)' <=> Covered(x, c)
  BY <1>1 DEF Covered, Passed
<1>7. Following(c)'
  <2>1. queue'[c] = <<>> /\ Len(<<>>) = 0 /\ Len(aired) \in 0..Len(aired) /\ Len(aired) = Len(aired) + 0
    BY <1>1, <1>2
  <2>2. \A i \in 1..0 : FALSE
    OBVIOUS
  <2>3. \A x : Among(aired, Len(aired), x) => Covered(x, c)'
    BY <1>5, <1>6 DEF HasAired
  <2>4. \E m \in 0..Len(aired) :
          /\ Len(aired) = m + Len(queue'[c])
          /\ \A i \in 1..Len(queue'[c]) : queue'[c][i] = aired[m + i]
          /\ \A x : Among(aired, m, x) => Covered(x, c)'
    BY <2>1, <2>2, <2>3
  <2> QED BY <1>1, <2>4 DEF Following
<1> QED BY <1>1, <1>2, <1>7, NothingDelivered

LEMMA ReleaseKeeps == ASSUME EInv, Release PROVE EInv'
<1>1. UNCHANGED <<cast, status, stepped, saying, buffer, pushed, aired, trimmed, gap,
                  lastId, seen, stale, at, queue>>
  BY DEF Release, workVars, redisVars, clientVars
<1>2. MovesOn
  BY <1>1 DEF EInv, WorkTyped, MovesOn
<1>3. Spoken'
  BY <1>1, <1>2, SpokenStays DEF EInv, WorkTyped
<1> QED BY <1>1, <1>2, <1>3, SayingMoves DEF EInv, WorkTyped

(* What the buffer shows, oldest first, is the end of what was pushed.     *)
LEMMA Chronicle ==
  ASSUME SeqsTyped, Buffered
  PROVE  /\ Reverse(buffer) \in Seq(Events) /\ Len(Reverse(buffer)) = Len(buffer)
         /\ Len(buffer) \in Nat /\ Len(pushed) \in Nat
         /\ \A i \in 1..Len(buffer) : Reverse(buffer)[i] = pushed[Len(pushed) - Len(buffer) + i]
<1>1. buffer \in Seq(Events) /\ Len(buffer) \in Nat /\ Len(pushed) \in Nat /\ Len(buffer) <= Len(pushed)
  BY DEF SeqsTyped, Buffered
<1>2. Reverse(buffer) = [i \in 1..Len(buffer) |-> buffer[Len(buffer) + 1 - i]]
  BY <1>1 DEF Reverse
<1>3. \A i \in 1..Len(buffer) : Len(buffer) + 1 - i \in 1..Len(buffer)
  BY <1>1
<1>4. \A i \in 1..Len(buffer) : buffer[Len(buffer) + 1 - i] \in Events
  BY <1>1, <1>3
<1>5. Reverse(buffer) \in Seq(Events) /\ Len(Reverse(buffer)) = Len(buffer)
  BY <1>1, <1>2, <1>4
<1>6. ASSUME NEW i \in 1..Len(buffer)
      PROVE  Reverse(buffer)[i] = pushed[Len(pushed) - Len(buffer) + i]
  <2>1. PICK h \in 1..Len(buffer) : h = Len(buffer) + 1 - i
    BY <1>3
  <2>2. buffer[h] = pushed[Len(pushed) + 1 - h]
    BY DEF Buffered
  <2>3. Len(pushed) + 1 - h = Len(pushed) - Len(buffer) + i
    BY <1>1, <2>1
  <2> QED BY <1>2, <2>1, <2>2, <2>3
<1> QED BY <1>1, <1>5, <1>6

(* The replay starts right after the last event the browser names, or with *)
(* the oldest one the buffer has.                                          *)
LEMMA ReadKeeps == ASSUME EInv, NEW c \in Clients, Read(c) PROVE EInv'
<1> DEFINE chron == Reverse(buffer)
           after == {i \in 1..Len(chron) : lastId[c] = <<chron[i]>>}
           from == IF after = {} THEN 0 ELSE CHOOSE i \in after : TRUE
           base == Len(pushed) - Len(buffer)
<1>1. /\ UNCHANGED <<cast, status, stepped, saying, buffer, pushed, aired, trimmed, gap,
                     lastId, seen, stale>>
      /\ at' = [at EXCEPT ![c] = "replaying"]
      /\ queue' = [queue EXCEPT ![c] = SubSeq(chron, 1 + from, Len(chron))]
  BY DEF Read, Replay, workVars, redisVars, clientVars
<1>2. /\ chron \in Seq(Events) /\ Len(chron) = Len(buffer) /\ Len(buffer) \in Nat /\ Len(pushed) \in Nat
      /\ \A i \in 1..Len(chron) : chron[i] = pushed[base + i]
      /\ Len(buffer) <= Len(pushed)
  BY Chronicle DEF EInv, Buffered
<1>3. /\ from \in 0..Len(chron)
      /\ from # 0 => lastId[c] = <<chron[from]>>
  <2>1. CASE after = {}
    BY <1>2, <2>1
  <2>2. CASE after # {}
    <3>1. (CHOOSE i \in after : TRUE) \in after
      BY <2>2
    <3> QED BY <1>2, <2>2, <3>1
  <2> QED BY <2>1, <2>2
<1> HIDE DEF chron, after, from
<1>4. PICK q \in Seq(Events) : /\ q = SubSeq(chron, 1 + from, Len(chron))
                               /\ Len(q) = Len(chron) - from
                               /\ \A i \in 1..Len(q) : q[i] = chron[from + i]
  <2>1. SubSeq(chron, 1 + from, Len(chron)) \in Seq(Events)
    BY <1>2, <1>3
  <2>2. Len(SubSeq(chron, 1 + from, Len(chron))) = Len(chron) - from
    BY <1>2, <1>3
  <2>3. \A i \in 1..(Len(chron) - from) : SubSeq(chron, 1 + from, Len(chron))[i] = chron[from + i]
    BY <1>2, <1>3
  <2> QED BY <2>1, <2>2, <2>3
<1>5. /\ queue \in [Clients -> Seq(Events)] /\ DOMAIN at = Clients
  BY DEF EInv, SeqsTyped
<1>6. queue' \in [Clients -> Seq(Events)] /\ queue'[c] = q
  BY <1>1, <1>4, <1>5
<1>7. PICK k \in 0..Len(pushed) : k = base + from
  <2>1. PICK b \in Nat, p \in Nat : b = Len(buffer) /\ p = Len(pushed) /\ b <= p
    BY <1>2
  <2>2. PICK f \in 0..b : f = from
    BY <1>2, <1>3, <2>1
  <2>3. p - b + f \in 0..p
    BY <2>1, <2>2
  <2>4. base + from \in 0..Len(pushed)
    BY <2>1, <2>2, <2>3
  <2> QED BY <2>4
<1>8. Len(pushed) = k + Len(q)
  <2>1. PICK b \in Nat, p \in Nat : b = Len(buffer) /\ p = Len(pushed)
    BY <1>2
  <2>2. PICK f \in 0..b : f = from
    BY <1>2, <1>3, <2>1
  <2>3. k = p - b + f /\ Len(q) = b - f
    BY <1>2, <1>4, <1>7, <2>1, <2>2
  <2>4. p = k + Len(q)
    BY <2>1, <2>2, <2>3
  <2> QED BY <2>1, <2>4
<1>9. \A i \in 1..Len(q) : q[i] = pushed[k + i]
  <2> SUFFICES ASSUME NEW i \in 1..Len(q) PROVE q[i] = pushed[k + i]
    OBVIOUS
  <2>1. from + i \in 1..Len(chron) /\ base + (from + i) = k + i
    BY <1>2, <1>3, <1>4, <1>7
  <2> QED BY <1>2, <1>4, <2>1
<1>10. \A x : Among(pushed, k, x) => Covered(x, c)
  <2>1. CASE from = 0
    <3>1. k = Len(pushed) - Len(buffer)
      BY <1>2, <1>7, <2>1
    <3> QED BY <3>1 DEF EInv, Buffered, Among, Covered
  <2>2. CASE from # 0
    <3>1. k \in 1..Len(pushed) /\ from \in 1..Len(chron)
      BY <1>2, <1>3, <1>7, <2>2
    <3>2. lastId[c] = <<pushed[k]>>
      BY <1>2, <1>3, <1>7, <2>2, <3>1
    <3> QED BY <3>1, <3>2 DEF EInv, Watching, Resumable
  <2> QED BY <2>1, <2>2
<1>11. \A x : Covered(x, c)' <=> Covered(x, c)
  BY <1>1 DEF Covered, Passed
<1>12. \A x : HasAired(x)' => Among(pushed, Len(pushed), x)
  BY <1>1 DEF EInv, Spoken, HasAired, HasPushed, Among
<1>13. Replaying(c)'
  <2>1. Len(pushed) \in 0..Len(pushed)
    BY <1>2
  <2>2. \E l \in 0..Len(pushed), n \in 0..Len(pushed) :
          /\ n = l + Len(q)
          /\ \A i \in 1..Len(q) : q[i] = pushed[l + i]
          /\ \A x : Among(pushed, l, x) => Covered(x, c)'
          /\ \A x : HasAired(x)' => Among(pushed, n, x) \/ x \in gap'[c]
    BY <1>8, <1>9, <1>10, <1>11, <1>12, <2>1
  <2> QED BY <1>1, <1>6, <2>2 DEF Replaying
<1> QED BY <1>1, <1>5, <1>6, <1>13, NothingDelivered

(* A frame goes out.  What was pushed before it is accounted for: the      *)
(* replay is in the order of the buffer, and what a live stream sends      *)
(* before its turn overtook the rest.                                      *)
LEMMA DeliverKeeps == ASSUME EInv, NEW c \in Clients, Deliver(c) PROVE EInv'
<1> DEFINE e == Head(queue[c])
<1>1. /\ UNCHANGED <<cast, status, stepped, saying, buffer, pushed, aired, trimmed, gap, at>>
      /\ at[c] \in {"replaying", "live"} /\ queue[c] # <<>>
      /\ lastId' = [lastId EXCEPT ![c] = <<e>>]
      /\ seen' = [seen EXCEPT ![c] = @ \union {e}]
      /\ stale' = [stale EXCEPT ![c] = @ \ {e[1]}]
      /\ queue' = [queue EXCEPT ![c] = Tail(@)]
  BY DEF Deliver, workVars, redisVars
<1>2. /\ DOMAIN at = Clients /\ DOMAIN lastId = Clients /\ DOMAIN seen = Clients
      /\ DOMAIN stale = Clients /\ queue \in [Clients -> Seq(Events)]
      /\ Len(pushed) \in Nat /\ Len(aired) \in Nat
  BY DEF EInv, SeqsTyped
<1>3. PICK f \in Events, q \in Seq(Events) :
        /\ f = e /\ q = Tail(queue[c]) /\ Len(queue[c]) = Len(q) + 1 /\ Len(q) \in Nat
        /\ queue[c][1] = f /\ \A i \in 1..Len(q) : q[i] = queue[c][i + 1]
  <2>1. queue[c] \in Seq(Events) /\ queue[c] # <<>>
    BY <1>1, <1>2
  <2>2. e \in Events /\ Tail(queue[c]) \in Seq(Events) /\ e = queue[c][1]
    BY <2>1
  <2>3. Len(Tail(queue[c])) \in Nat /\ Len(queue[c]) = Len(Tail(queue[c])) + 1
    BY <2>1
  <2>4. \A i \in 1..Len(Tail(queue[c])) : Tail(queue[c])[i] = queue[c][i + 1]
    BY <2>1
  <2> QED BY <2>2, <2>3, <2>4
<1>4. queue' \in [Clients -> Seq(Events)] /\ queue'[c] = q
  BY <1>1, <1>2, <1>3
<1>5. lastId'[c] = <<f>> /\ seen'[c] = seen[c] \cup {f} /\ gap'[c] = gap[c] /\ at'[c] = at[c]
      /\ stale'[c] = stale[c] \ {f[1]}
  BY <1>1, <1>2, <1>3
<1> HIDE DEF e
<1>6. Prefix(pushed, pushed') /\ Prefix(aired, aired')
  BY <1>1, <1>2 DEF Prefix
<1>7. Grows(c)
  BY <1>1, <1>5, <1>6 DEF Grows
<1>8. \A x : Covered(x, c) => Covered(x, c)'
  BY <1>7, CoveredStays
<1>9. Covered(f, c)'
  BY <1>5 DEF Covered
<1>10. Once(pushed) /\ Once(aired) /\ \A x : HasAired(x) => HasPushed(x)
  BY DEF EInv, Spoken
<1>11. Watching(c)
  BY DEF EInv
<1>12. ASSUME at[c] = "replaying" PROVE Watching(c)' /\ HasPushed(f)
  <2>1. PICK k \in 0..Len(pushed), n \in 0..Len(pushed) :
           /\ n = k + Len(queue[c])
           /\ \A i \in 1..Len(queue[c]) : queue[c][i] = pushed[k + i]
           /\ \A x : Among(pushed, k, x) => Covered(x, c)
           /\ \A x : HasAired(x) => Among(pushed, n, x) \/ x \in gap[c]
    BY <1>11, <1>12 DEF Watching, Replaying
  <2>2. k + 1 \in 0..Len(pushed) /\ k + 1 \in 1..Len(pushed) /\ n = (k + 1) + Len(q)
    BY <1>2, <1>3, <2>1
  <2>3. f = pushed[k + 1]
    BY <1>3, <2>1
  <2>4. ASSUME NEW i \in 1..Len(q) PROVE q[i] = pushed[(k + 1) + i]
    <3>1. i + 1 \in 1..Len(queue[c]) /\ k + (i + 1) = (k + 1) + i
      BY <1>3, <2>1
    <3> QED BY <1>3, <2>1, <3>1
  <2>5. ASSUME NEW x, Among(pushed, k + 1, x) PROVE Covered(x, c)'
    <3>1. PICK i \in 1..(k + 1) : pushed[i] = x
      BY <2>5 DEF Among
    <3>2. i \in 1..k \/ i = k + 1
      BY <2>1
    <3> QED BY <1>8, <1>9, <2>1, <2>3, <3>1, <3>2 DEF Among
  <2>6. \A x : HasAired(x)' => Among(pushed, n, x) \/ x \in gap'[c]
    BY <1>1, <1>5, <2>1 DEF HasAired, Among
  <2>7. Replaying(c)'
    <3>1. \E l \in 0..Len(pushed), h \in 0..Len(pushed) :
            /\ h = l + Len(q)
            /\ \A i \in 1..Len(q) : q[i] = pushed[l + i]
            /\ \A x : Among(pushed, l, x) => Covered(x, c)'
            /\ \A x : HasAired(x)' => Among(pushed, h, x) \/ x \in gap'[c]
      BY <2>2, <2>4, <2>5, <2>6
    <3> QED BY <1>1, <1>4, <3>1 DEF Replaying
  <2>8. HasPushed(f)
    BY <2>2, <2>3 DEF HasPushed, Among
  <2>9. ASSUME NEW j \in 1..Len(pushed), pushed[j] = f, NEW x, Among(pushed, j, x) PROVE Covered(x, c)'
    <3>1. j = k + 1
      BY <1>10, <2>2, <2>3, <2>9 DEF Once
    <3> QED BY <2>5, <2>9, <3>1
  <2>10. Resumable(c)'
    BY <1>1, <1>5, <2>9 DEF Resumable
  <2> QED BY <1>5, <1>12, <2>7, <2>8, <2>10 DEF Watching
<1>13. ASSUME at[c] = "live" PROVE Watching(c)' /\ HasPushed(f)
  <2>1. PICK m \in 0..Len(aired) :
           /\ Len(aired) = m + Len(queue[c])
           /\ \A i \in 1..Len(queue[c]) : queue[c][i] = aired[m + i]
           /\ \A x : Among(aired, m, x) => Covered(x, c)
    BY <1>11, <1>13 DEF Watching, Following
  <2>2. m + 1 \in 0..Len(aired) /\ m + 1 \in 1..Len(aired) /\ Len(aired) = (m + 1) + Len(q)
    BY <1>2, <1>3, <2>1
  <2>3. f = aired[m + 1]
    BY <1>3, <2>1
  <2>4. ASSUME NEW i \in 1..Len(q) PROVE q[i] = aired[(m + 1) + i]
    <3>1. i + 1 \in 1..Len(queue[c]) /\ m + (i + 1) = (m + 1) + i
      BY <1>3, <2>1
    <3> QED BY <1>3, <2>1, <3>1
  <2>5. ASSUME NEW x, Among(aired, m + 1, x) PROVE Covered(x, c)'
    <3>1. PICK i \in 1..(m + 1) : aired[i] = x
      BY <2>5 DEF Among
    <3>2. i \in 1..m \/ i = m + 1
      BY <2>1
    <3> QED BY <1>8, <1>9, <2>1, <2>3, <3>1, <3>2 DEF Among
  <2>7. Following(c)'
    <3>1. \E l \in 0..Len(aired) :
            /\ Len(aired) = l + Len(q)
            /\ \A i \in 1..Len(q) : q[i] = aired[l + i]
            /\ \A x : Among(aired, l, x) => Covered(x, c)'
      BY <2>2, <2>4, <2>5
    <3> QED BY <1>1, <1>4, <3>1 DEF Following
  <2>8. HasPushed(f)
    <3>1. HasAired(f)
      BY <2>2, <2>3 DEF HasAired, Among
    <3> QED BY <1>10, <3>1
  <2>9. ASSUME NEW j \in 1..Len(pushed), pushed[j] = f, NEW x, Among(pushed, j, x) PROVE Covered(x, c)'
    <3>1. PICK i \in 1..j : pushed[i] = x
      BY <2>9 DEF Among
    <3>2. CASE i = j
      BY <1>9, <2>9, <3>1, <3>2
    <3>3. CASE i # j
      <4>1. i \in 1..Len(pushed) /\ i < j
        BY <1>2, <3>3
      <4>2. CASE Among(aired, m + 1, x)
        BY <2>5, <4>2
      <4>3. CASE ~Among(aired, m + 1, x)
        <5>1. \A h \in 1..Len(aired) : aired[h] = x => m + 1 < h
          BY <1>2, <2>1, <4>3 DEF Among
        <5>2. pushed[i] = x /\ aired[m + 1] = pushed[j] /\ pushed[j] \in seen'[c]
          BY <1>5, <2>3, <2>9, <3>1
        <5>3. \E u \in 1..Len(pushed), v \in 1..Len(pushed), p \in 1..Len(aired) :
                /\ pushed[u] = x /\ u < v /\ aired[p] = pushed[v] /\ pushed[v] \in seen'[c]
                /\ \A h \in 1..Len(aired) : aired[h] = x => p < h
          BY <2>2, <4>1, <5>1, <5>2
        <5>4. Passed(x, c)'
          BY <1>1, <5>3 DEF Passed
        <5> QED BY <5>4 DEF Covered
      <4> QED BY <4>2, <4>3
    <3> QED BY <3>2, <3>3
  <2>10. Resumable(c)'
    BY <1>1, <1>5, <2>9 DEF Resumable
  <2> QED BY <1>5, <1>13, <2>7, <2>8, <2>10 DEF Watching
<1>14. Watching(c)' /\ HasPushed(f)
  BY <1>1, <1>12, <1>13
<1>15. \A x \in seen'[c] : HasPushed(x)
  BY <1>5, <1>14 DEF EInv, SeenArePushed
<1>16. Drawn'
  <2>1. feed' = feed /\ \A r : LastWord(r)' = LastWord(r)
    BY <1>1 DEF feed, LastWord
  <2>2. ASSUME feed = "tasks", NEW d \in Clients, NEW r \in stale'[d] PROVE LastWord(r) \notin seen'[d]
    <3>1. CASE d # c
      BY <1>1, <1>2, <2>2, <3>1 DEF EInv, Drawn
    <3>2. CASE d = c
      <4>1. r \in stale[c] /\ r # f[1]
        BY <1>5, <2>2, <3>2
      <4>2. LastWord(r) # f
        <5>1. LastWord(r)[1] = r
          BY DEF LastWord
        <5> QED BY <4>1, <5>1
      <4> QED BY <1>5, <2>2, <3>2, <4>1, <4>2 DEF EInv, Drawn
    <3> QED BY <3>1, <3>2
  <2> QED BY <2>1, <2>2 DEF Drawn
<1>17. /\ \A d \in Clients \ {c} : /\ at'[d] = at[d] /\ queue'[d] = queue[d]
                                   /\ lastId'[d] = lastId[d] /\ seen'[d] = seen[d]
       /\ DOMAIN at' = Clients /\ DOMAIN lastId' = Clients
       /\ DOMAIN seen' = Clients /\ DOMAIN stale' = Clients
  BY <1>1, <1>2
<1> QED BY <1>1, <1>4, <1>14, <1>15, <1>16, <1>17, OneConnectionMoves

-----------------------------------------------------------------------------
LEMMA StreamsInitKeeps == ASSUME StreamsInit PROVE EInv
<1>0. <<>> \in Seq(Events) /\ Len(<<>>) = 0 /\ (\A i \in 1..0 : FALSE)
  OBVIOUS
<1>1. SeqsTyped /\ WorkTyped
  BY <1>0 DEF StreamsInit, SeqsTyped, WorkTyped
<1>2. \A x : ~HasPushed(x) /\ ~HasAired(x)
  BY <1>0 DEF StreamsInit, HasPushed, HasAired, Among
<1>3. Spoken
  <2>1. Once(pushed) /\ Once(aired)
    BY <1>0 DEF StreamsInit, Once
  <2>2. \A r \in Runs : saying[r] = <<>>
    BY DEF StreamsInit
  <2> QED BY <1>2, <2>1, <2>2 DEF Spoken
<1>4. Buffered
  BY <1>0 DEF StreamsInit, Buffered
<1>5. \A c \in Clients : seen[c] = {} /\ stale[c] = {} /\ at[c] = "away" /\ lastId[c] = <<>>
  BY DEF StreamsInit
<1>6. SeenArePushed /\ Drawn
  BY <1>5 DEF SeenArePushed, Drawn
<1>7. \A c \in Clients : Watching(c)
  BY <1>5 DEF Watching, Resumable
<1> QED BY <1>1, <1>3, <1>4, <1>6, <1>7 DEF EInv

LEMMA StreamsStep == ASSUME EInv, [StreamsNext]_streamVars PROVE EInv'
<1>1. CASE UNCHANGED streamVars
  <2>1. UNCHANGED <<cast, status, stepped, saying, stale, buffer, pushed, aired, trimmed, gap,
                    lastId, seen, at, queue>>
    BY <1>1 DEF streamVars
  <2>2. MovesOn
    BY <2>1 DEF EInv, WorkTyped, MovesOn
  <2>3. Spoken'
    BY <2>1, <2>2, SpokenStays DEF EInv, WorkTyped
  <2> QED BY <2>1, <2>2, <2>3, SayingMoves DEF EInv, WorkTyped
<1>2. CASE \E r \in Runs : \/ Claim(r) \/ Step(r) \/ Finish(r) \/ Push(r) \/ Air(r)
                           \/ PublishFails(r) \/ WorkerDies(r) \/ CloseAbandoned(r)
  BY <1>2, ClaimKeeps, StepKeeps, FinishKeeps, PushKeeps, AirKeeps, SilenceKeeps, CloseAbandonedKeeps
<1>3. CASE \E c \in Clients : \/ Open(c) \/ Read(c) \/ Deliver(c) \/ Join(c) \/ Heartbeat(c)
                              \/ Checked(c) \/ Leave(c) \/ LeaveUnbegun(c)
  BY <1>3, SlotsKeep, ReadKeeps, DeliverKeeps, JoinKeeps, CheckedKeeps
<1> QED BY <1>1, <1>2, <1>3, ReleaseKeeps DEF StreamsNext

(* In a history without repetition a CHOOSE by value finds the place.      *)
LEMMA PassedIsOvertaken ==
  ASSUME Once(pushed), Once(aired), SeqsTyped, NEW c, NEW e, Passed(e, c)
  PROVE  Overtaken(e, c)
<1> DEFINE place(s, x) == CHOOSE i \in 1..Len(s) : s[i] = x
<1>0. pushed \in Seq(Events) /\ aired \in Seq(Events)
  BY DEF SeqsTyped
<1>1. PICK i \in 1..Len(pushed), j \in 1..Len(pushed), p \in 1..Len(aired) :
        /\ pushed[i] = e /\ i < j /\ aired[p] = pushed[j] /\ pushed[j] \in seen[c]
        /\ \A q \in 1..Len(aired) : aired[q] = e => p < q
  BY DEF Passed
<1>2. PICK f : f = pushed[j]
  OBVIOUS
<1>3. ASSUME NEW s, NEW x, NEW h \in 1..Len(s), s[h] = x, Once(s) PROVE place(s, x) = h
  <2>1. place(s, x) \in 1..Len(s) /\ s[place(s, x)] = x
    BY <1>3
  <2> HIDE DEF place
  <2> QED BY <1>3, <2>1 DEF Once
<1>4. place(pushed, e) = i /\ place(pushed, f) = j /\ place(aired, f) = p
  BY <1>1, <1>2, <1>3
<1>5. f \in seen[c] \intersect ToSet(aired)
  BY <1>0, <1>1, <1>2 DEF ToSet
<1>6. e \in ToSet(aired) => place(aired, e) > place(aired, f)
  <2> SUFFICES ASSUME e \in ToSet(aired) PROVE place(aired, e) > place(aired, f)
    OBVIOUS
  <2>1. PICK q \in 1..Len(aired) : aired[q] = e
    BY <1>0 DEF ToSet
  <2>2. place(aired, e) = q
    BY <1>3, <2>1
  <2> HIDE DEF place
  <2> QED BY <1>1, <1>4, <2>1, <2>2
<1> HIDE DEF place
<1>7. \E g \in seen[c] \intersect ToSet(aired) :
         /\ place(pushed, e) < place(pushed, g)
         /\ e \in ToSet(aired) => place(aired, e) > place(aired, g)
  BY <1>1, <1>4, <1>5, <1>6
<1> QED BY <1>7 DEF Overtaken, place

LEMMA EInvImplies == ASSUME EInv PROVE ViewersSeeTheRun
<1> SUFFICES ASSUME NEW c \in Clients, Quiet(c)
             PROVE  /\ \A e \in ToSet(pushed) \ seen[c] :
                         e \in trimmed \/ e \in gap[c] \/ e \notin ToSet(aired) \/ Overtaken(e, c)
                    /\ feed = "tasks" => \A r \in stale[c] :
                         <<r, IF status[r] \in Terminal THEN "finished" ELSE "started">> \notin seen[c]
  BY DEF ViewersSeeTheRun
<1>1. feed = "tasks" => \A r \in stale[c] :
        <<r, IF status[r] \in Terminal THEN "finished" ELSE "started">> \notin seen[c]
  BY DEF EInv, Drawn, LastWord
<1>2. PICK m \in 0..Len(aired) : /\ Len(aired) = m + Len(queue[c])
                                 /\ \A x : Among(aired, m, x) => Covered(x, c)
  BY DEF EInv, Watching, Following, Quiet
<1>3. queue[c] = <<>> /\ aired \in Seq(Events) /\ Len(aired) \in Nat
  BY DEF Quiet, EInv, SeqsTyped
<1>4. m = Len(aired)
  BY <1>2, <1>3
<1>5. ASSUME NEW e, e \in ToSet(aired) PROVE Covered(e, c)
  BY <1>2, <1>3, <1>4, <1>5 DEF ToSet, Among
<1>6. Once(pushed) /\ Once(aired) /\ SeqsTyped
  BY DEF EInv, Spoken
<1>7. \A e : Passed(e, c) => Overtaken(e, c)
  BY <1>6, PassedIsOvertaken
<1> QED BY <1>1, <1>5, <1>7 DEF Covered

(* A browser that has caught up with its stream has seen every event that  *)
(* was published, except those trimmed from the buffer, published between  *)
(* the replay and the subscription, or overtaken between the two writes;   *)
(* and no card drawn before a move it was told of is still shown           *)
(* (flow_engine/events, publish and subscribe; api/sse.py).                *)
THEOREM CaughtUpIsComplete == StreamsSpec => []ViewersSeeTheRun
<1>1. StreamsInit => EInv
  BY StreamsInitKeeps
<1>2. EInv /\ [StreamsNext]_streamVars => EInv'
  BY StreamsStep
<1>3. EInv => ViewersSeeTheRun
  BY EInvImplies
<1> QED BY <1>1, <1>2, <1>3, PTL DEF StreamsSpec
=============================================================================
