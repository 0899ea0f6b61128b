--------------------------- MODULE PluginRuntime ---------------------------
(* The plugin runtime: the service that installs folder plugins, the bot's update checker that    *)
(* drives it, and the manager that loads what lies in the folder when a process starts.           *)
(*                                                                                                *)
(* The parts meet on the disk. What install() leaves there, after a crash at any rename, is what  *)
(* the next start imports, and a start that fails takes away the very API that could remove it.   *)
(* A plugin's code is somebody else's: Conduct says what each published version of it does.       *)
EXTENDS Integers, SequencesExt

CONSTANTS
    Names,       \* folder plugins of the catalogue
    Users, Bot,  \* clients of the install routes: people, and the update checker
    Late,        \* the call of the checker that it has given up and the API still handles
    None,
    MaxVersion,  \* versions of a plugin are 1..MaxVersion
    Conduct,     \* Conduct[n][v]: what version v of plugin n contains and does
    Starts,      \* scenarios: [process, entries, auto, live, order, advertised, and bounds]
    Builtin,     \* node keys the host registers itself
    Hosts, ArchiveHosts, MaxRedirects

ASSUME PluginAssumption ==
    /\ IsFiniteSet(Names)
    /\ Bot # Late /\ Bot \notin Users /\ Late \notin Users
    /\ None \notin Users \union {Bot, Late} \union Names
    /\ MaxVersion \in Nat \ {0} /\ MaxRedirects \in Nat
    /\ ArchiveHosts \subseteq Hosts
    /\ \A s \in Starts : s.crashes \in Nat /\ s.advertised \in Nat /\ s.live \in [Names -> Nat]
    /\ \A s \in Starts : s.order \in [Names -> Int] /\ IsInjective(s.order)
    /\ \A s \in Starts : s.entries \in Seq(Range(s.entries))

VARIABLES
    disk,    \* of each name: the folder, <name>.new and <name>.old
    catalog, \* the version of each name that plugins.json advertises
    req,     \* [pc, name, entry, bytes, hops] of each client's install request
    lock,    \* PluginInstallService._lock
    queue,   \* updates the checker's tick has still to apply
    boot,    \* the manager: [pc, found, at, claimed, active, survivors, nodes, tabs]; active and
             \* survivors list places of found
    tasks,   \* names of the plugins with a background task running
    opened, closed, \* of each place of found: how often POST_INIT was entered, SHUTDOWN run
    asked,   \* hosts an archive was requested from
    owned,   \* names installed and not removed
    cut,     \* history: swaps of a name that ended with none live, since one was last placed
    setup,   \* the scenario
    left     \* what the world may still do
files   == <<disk, lock, owned, cut>>
manager == <<boot, tasks, opened, closed>>
vars == <<files, manager, catalog, req, queue, asked, setup, left>>

Reqs == Users \union {Bot, Late}
Absent == [version |-> 0, bytes |-> 0, manifest |-> FALSE]
Idle == [pc |-> "idle", name |-> None, entry |-> 0, bytes |-> 0, hops |-> 0]
Off == [pc |-> "off", found |-> <<>>, at |-> 1, claimed |-> Builtin, active |-> <<>>,
        survivors |-> <<>>, nodes |-> <<>>, tabs |-> <<>>]
Plugins == Names \union {setup.entries[i].name : i \in DOMAIN setup.entries}

Init ==
    /\ setup \in Starts
    /\ disk = [n \in Names |-> [live |-> IF setup.live[n] = 0 THEN Absent
                                        ELSE [version |-> setup.live[n], bytes |-> setup.live[n], manifest |-> TRUE],
                                staging |-> Absent, backup |-> Absent]]
    /\ owned = {n \in Names : setup.live[n] # 0} /\ cut = [n \in Names |-> 0]
    /\ catalog = [n \in Names |-> setup.advertised]
    /\ req = [r \in Reqs |-> Idle] /\ lock = None /\ queue = {}
    /\ boot = Off /\ tasks = {} /\ opened = <<>> /\ closed = <<>>
    /\ asked = {}
    /\ left = [crashes |-> setup.crashes, publishes |-> setup.publishes, faults |-> setup.faults,
               removals |-> setup.removals, installs |-> setup.installs]

Spend(b) == left[b] > 0 /\ left' = [left EXCEPT ![b] = @ - 1]
Serving == boot.pc = "up" /\ setup.process = "api"

-----------------------------------------------------------------------------
(* Installing: PluginIndexClient and PluginInstallService.install, one await after another. *)

\* validate_requirements: only pinned, plain requirements are passed to pip.
Pinned(n, v) == Conduct[n][v].reqs = "pinned"

\* iter_installed: what lists as installed, by its manifest alone; .new and .old never do.
Installed(n) == disk[n].live.manifest /\ Conduct[n][disk[n].live.version].manifest

\* compute_updates: installed, advertised, and strictly newer.
Updates == {n \in Names : Installed(n) /\ catalog[n] > disk[n].live.version}

Become(r, pc) == req' = [req EXCEPT ![r].pc = pc]
Drop(r) == /\ req' = [req EXCEPT ![r] = Idle]
           /\ queue' = IF r = Bot THEN queue \ {req[r].name} ELSE queue

\* fetch_entry and the checks on the entry, before the lock.
FetchEntry(r, n) ==
    /\ Serving /\ req[r].pc = "idle"
    /\ \/ r = Bot /\ n \in queue /\ UNCHANGED left
       \/ r \in Users /\ Spend("installs")
    /\ IF catalog[n] # 0 /\ Pinned(n, catalog[n])
       THEN req' = [req EXCEPT ![r] = [Idle EXCEPT !.pc = "archive", !.name = n, !.entry = catalog[n]]]
            /\ UNCHANGED queue
       ELSE queue' = queue \ {n} /\ UNCHANGED req
    /\ UNCHANGED <<files, manager, catalog, asked, setup>>

\* _check_archive_url, asked of every hop.
AllowedHop(r, host) == host \in ArchiveHosts

\* fetch_archive: one hop of the chain. The bytes are the published ones, or somebody else's;
\* only those whose sha256 is the entry's are returned.
\* Mutant: the checksum is not compared.
DigestIgnored(r, bytes) == TRUE
DigestMatches(r, bytes) == bytes = req[r].entry
MayFollow(r) == req[r].hops < MaxRedirects
FetchArchive(r) ==
    /\ Serving /\ req[r].pc = "archive"
    /\ \E host \in Hosts, answer \in {"redirect", "bytes", "forged"} :
         /\ IF host \notin ArchiveHosts \/ answer # "bytes" THEN Spend("faults") ELSE UNCHANGED left
         /\ IF AllowedHop(r, host)
            THEN /\ asked' = asked \union {host}
                 /\ LET bytes == IF answer = "bytes" THEN req[r].entry ELSE 0 IN
                    CASE answer = "redirect" /\ MayFollow(r) ->
                           req' = [req EXCEPT ![r].hops = @ + 1] /\ UNCHANGED queue
                      [] answer # "redirect" /\ DigestMatches(r, bytes) ->
                           req' = [req EXCEPT ![r].pc = "locking", ![r].bytes = bytes] /\ UNCHANGED queue
                      [] OTHER -> Drop(r)
            ELSE Drop(r) /\ UNCHANGED asked
    /\ UNCHANGED <<files, manager, catalog, setup>>

Lock(r) ==
    /\ Serving /\ req[r].pc = "locking" /\ lock = None
    /\ lock' = r /\ Become(r, "extract")
    /\ UNCHANGED <<disk, owned, cut, manager, catalog, queue, asked, setup, left>>

\* FlowApiClient's timeout: the checker goes on to its next update, the API with the install.
GiveUp ==
    /\ req[Bot].pc # "idle" /\ req[Late].pc = "idle" /\ Spend("faults")
    /\ req' = [req EXCEPT ![Late] = req[Bot], ![Bot] = Idle]
    /\ lock' = IF lock = Bot THEN Late ELSE lock
    /\ queue' = queue \ {req[Bot].name}
    /\ UNCHANGED <<disk, owned, cut, manager, catalog, asked, setup>>

\* Mutant: the checker tries an update again until it succeeds.
AbortRetries(r) ==
    /\ disk' = [disk EXCEPT ![req[r].name].staging = Absent]
    /\ lock' = None /\ req' = [req EXCEPT ![r] = Idle] /\ UNCHANGED queue
\* The except branches, of every step under the lock: the staging folder goes.
Abort(r) ==
    /\ disk' = [disk EXCEPT ![req[r].name].staging = Absent]
    /\ lock' = None /\ Drop(r)
\* A write, a rename or pip fails.
FailsAt(r) == Spend("faults") /\ Abort(r)

\* _extract_zip, into a fresh staging folder.
Extract(r) ==
    /\ Serving /\ req[r].pc = "extract"
    /\ \/ Conduct[req[r].name][req[r].entry].zip = "unsafe" /\ Abort(r) /\ UNCHANGED left
       \/ Conduct[req[r].name][req[r].entry].zip # "unsafe" /\ FailsAt(r)
       \/ /\ Conduct[req[r].name][req[r].entry].zip # "unsafe"
          /\ disk' = [disk EXCEPT ![req[r].name].staging = [Absent EXCEPT !.bytes = req[r].bytes]]
          /\ Become(r, "manifest") /\ UNCHANGED <<lock, queue, left>>
    /\ UNCHANGED <<owned, cut, manager, catalog, asked, setup>>

WriteManifest(r) ==
    /\ Serving /\ req[r].pc = "manifest"
    /\ \/ FailsAt(r)
       \/ /\ disk' = [disk EXCEPT ![req[r].name].staging.version = req[r].entry,
                                  ![req[r].name].staging.manifest = TRUE]
          /\ Become(r, "pip") /\ UNCHANGED <<lock, queue, left>>
    /\ UNCHANGED <<owned, cut, manager, catalog, asked, setup>>

Pip(r) ==
    /\ Serving /\ req[r].pc = "pip"
    /\ \/ Become(r, "swap") /\ UNCHANGED <<disk, lock, queue, left>>
       \/ FailsAt(r)
    /\ UNCHANGED <<owned, cut, manager, catalog, asked, setup>>

\* A swap of n ends before its second rename: does n have no live folder?
Cut(n) == cut' = IF disk[n].live.manifest THEN cut ELSE [cut EXCEPT ![n] = @ + 1]

\* The rename fails, the stale .old is gone by then, or could not be removed.
AsideFails(r) ==
    /\ Spend("faults") /\ lock' = None /\ Drop(r) /\ Cut(req[r].name)
    /\ \E kept \in {Absent, disk[req[r].name].backup} :
         disk' = [disk EXCEPT ![req[r].name].staging = Absent, ![req[r].name].backup = kept]

\* Mutant: the live folder is deleted, not moved aside.
MoveAsideDeletes(r) ==
    /\ Serving /\ req[r].pc = "swap"
    /\ \/ AsideFails(r)
       \/ /\ disk' = [disk EXCEPT ![req[r].name].live = Absent]
          /\ Become(r, "place") /\ UNCHANGED <<lock, cut, queue, left>>
    /\ UNCHANGED <<owned, manager, catalog, asked, setup>>
\* _swap_into_place: a stale .old goes, the live folder becomes .old, .new becomes live.
MoveAside(r) ==
    /\ Serving /\ req[r].pc = "swap"
    /\ \/ AsideFails(r)
       \/ /\ disk' = [disk EXCEPT ![req[r].name].backup = disk[req[r].name].live,
                                  ![req[r].name].live = Absent]
          /\ Become(r, "place") /\ UNCHANGED <<lock, cut, queue, left>>
    /\ UNCHANGED <<owned, manager, catalog, asked, setup>>

Place(r) ==
    /\ Serving /\ req[r].pc = "place"
    /\ \/ FailsAt(r) /\ Cut(req[r].name) /\ UNCHANGED owned
       \/ /\ disk' = [disk EXCEPT ![req[r].name].live = disk[req[r].name].staging,
                                  ![req[r].name].staging = Absent]
          /\ owned' = owned \union {req[r].name} /\ cut' = [cut EXCEPT ![req[r].name] = 0]
          /\ Become(r, "clean") /\ UNCHANGED <<lock, queue, left>>
    /\ UNCHANGED <<manager, catalog, asked, setup>>

Clean(r) ==
    /\ Serving /\ req[r].pc = "clean"
    /\ disk' = [disk EXCEPT ![req[r].name].backup = Absent]
    /\ lock' = None /\ Drop(r)
    /\ UNCHANGED <<owned, cut, manager, catalog, asked, setup, left>>

\* remove(): not under the lock; an install may be anywhere.
Uninstall(n) ==
    /\ Serving /\ disk[n].live # Absent /\ Spend("removals")
    /\ disk' = [disk EXCEPT ![n].live = Absent]
    /\ owned' = owned \ {n}
    /\ UNCHANGED <<lock, cut, manager, catalog, req, queue, asked, setup>>

\* PluginUpdateChecker.tick, in the bot; a tick that cannot reach the API is logged and forgotten.
Tick ==
    /\ req[Bot].pc = "idle" /\ queue = {}
    /\ queue' = IF Serving /\ setup.auto THEN Updates ELSE {}
    /\ UNCHANGED <<files, manager, catalog, req, asked, setup, left>>

Publish(n) ==
    /\ catalog[n] < MaxVersion /\ Spend("publishes")
    /\ catalog' = [catalog EXCEPT ![n] = @ + 1]
    /\ UNCHANGED <<files, manager, req, queue, asked, setup>>

-----------------------------------------------------------------------------
(* Starting and stopping a process: PluginManager. *)

\* Every hook is over at some time: one that hangs, when its budget of 30 s is.
Over(hook) == hook \in {"ok", "raises", "hangs"}
Fails(hook) == hook \in {"raises", "hangs"}

\* Folders that load_folder_plugins hands over, sorted; the others are quarantined there.
Loads(n) == /\ Installed(n)
            /\ Conduct[n][disk[n].live.version].deps /\ Conduct[n][disk[n].live.version].imports
Sorted(S) == {f \in [1..Cardinality(S) -> S] :
                \A i, j \in DOMAIN f : i < j => setup.order[f[i]] < setup.order[f[j]]}
FolderPlugins == {[i \in DOMAIN f |-> [name |-> f[i], source |-> "folder",
                                      does |-> Conduct[f[i]][disk[f[i]].live.version]]] :
                    f \in Sorted({n \in Names : Loads(n)})}

\* discover: entry points fail closed; so does a hook list that is no list, whoever declares it.
Discover ==
    /\ boot.pc = "off"
    /\ \E folders \in FolderPlugins :
         LET found == setup.entries \o folders
             broken == \/ \E i \in DOMAIN setup.entries : ~setup.entries[i].does.imports
                       \/ \E i \in DOMAIN found : found[i].does.hooks = "malformed"
         IN /\ boot' = IF broken THEN [Off EXCEPT !.pc = "dead"]
                       ELSE [Off EXCEPT !.pc = "pre_init", !.found = found]
            /\ opened' = [i \in DOMAIN boot'.found |-> 0] /\ closed' = opened'
    /\ UNCHANGED tasks
    /\ UNCHANGED <<files, catalog, req, queue, asked, setup, left>>

Current == boot.found[boot.at]
\* The one gate: a key that the host or an earlier plugin has.
Clash(p) == \E k \in ToSet(p.does.keys) : k \in boot.claimed

\* A failed gate is fatal for an entry point and a quarantine for a folder.
Reject(p) == boot' = IF p.source = "entry" THEN [boot EXCEPT !.pc = "dead"]
                     ELSE [boot EXCEPT !.at = @ + 1]
PreInit ==
    /\ boot.pc = "pre_init" /\ boot.at <= Len(boot.found) /\ Over(Current.does.pre)
    /\ IF Fails(Current.does.pre) \/ Clash(Current) THEN Reject(Current)
       ELSE boot' = [boot EXCEPT !.at = @ + 1, !.active = Append(@, boot.at),
                                 !.claimed = @ \union ToSet(Current.does.keys),
                                 !.nodes = @ \o Current.does.keys, !.tabs = @ \o Current.does.tabs]
    /\ UNCHANGED <<files, tasks, opened, closed, catalog, req, queue, asked, setup, left>>

\* _filter: nodes for the API and the worker, tabs for the API.
Kept(kind, items) == IF setup.process \in (IF kind = "nodes" THEN {"api", "worker"} ELSE {"api"})
                     THEN items ELSE <<>>

\* build_registry and build_panel_tabs: a key that is there twice stops the start.
Compose ==
    /\ boot.pc = "pre_init" /\ boot.at > Len(boot.found)
    /\ boot' = IF IsInjective(Kept("nodes", boot.nodes)) /\ IsInjective(Kept("tabs", boot.tabs))
               THEN [boot EXCEPT !.pc = "post_init", !.at = 1] ELSE [boot EXCEPT !.pc = "dead"]
    /\ UNCHANGED <<files, tasks, opened, closed, catalog, req, queue, asked, setup, left>>

Opening == boot.found[boot.active[boot.at]]
\* spawn: what runs once the hooks of p have spawned their tasks.
Running(p) == IF p.does.spawns THEN tasks \union {p.name} ELSE tasks
\* Mutant: a quarantined plugin stays in the active set.
QuarantineKeeps(p) ==
    /\ tasks' = Running(p) \ {p.name}
    /\ closed' = [closed EXCEPT ![boot.active[boot.at]] = @ + 1]
    /\ boot' = [boot EXCEPT !.at = @ + 1, !.survivors = Append(@, boot.active[boot.at])]
\* _quarantine: every task of the plugin's name is cancelled, its SHUTDOWN hooks run, and it does
\* not survive.
Quarantine(p) ==
    /\ tasks' = Running(p) \ {p.name}
    /\ closed' = [closed EXCEPT ![boot.active[boot.at]] = @ + 1]
    /\ boot' = [boot EXCEPT !.at = @ + 1]

\* shutdown: every task is cancelled, then the hooks of whatever _active holds run, last one first.
Teardown ==
    /\ boot' = [boot EXCEPT !.pc = "closing", !.at = Len(boot.active)]
    /\ tasks' = {}

\* An entry point's failure ends the start. The API and the bot have not reached their try block;
\* the worker closes arq whatever happened, and with it the manager, its list not yet filtered.
PostInit ==
    /\ boot.pc = "post_init" /\ boot.at <= Len(boot.active) /\ Over(Opening.does.post)
    /\ opened' = [opened EXCEPT ![boot.active[boot.at]] = @ + 1]
    /\ \/ /\ ~Fails(Opening.does.post)
          /\ boot' = [boot EXCEPT !.at = @ + 1, !.survivors = Append(@, boot.active[boot.at])]
          /\ tasks' = Running(Opening)
          /\ UNCHANGED closed
       \/ Fails(Opening.does.post) /\ Opening.source = "folder" /\ Quarantine(Opening)
       \/ /\ Fails(Opening.does.post) /\ Opening.source = "entry"
          /\ IF setup.process = "worker" THEN Teardown
             ELSE boot' = [boot EXCEPT !.pc = "dead"] /\ UNCHANGED tasks
          /\ UNCHANGED closed
    /\ UNCHANGED <<files, catalog, req, queue, asked, setup, left>>

\* The active set becomes the survivors.
Up ==
    /\ boot.pc = "post_init" /\ boot.at > Len(boot.active)
    /\ boot' = [boot EXCEPT !.pc = "up", !.active = boot.survivors]
    /\ UNCHANGED <<files, tasks, opened, closed, catalog, req, queue, asked, setup, left>>

\* A background task ends by itself; its crash is logged.
TaskEnds(p) ==
    /\ p \in tasks /\ boot.pc \in {"post_init", "up"}
    /\ tasks' = tasks \ {p}
    /\ UNCHANGED <<files, boot, opened, closed, catalog, req, queue, asked, setup, left>>

Stop ==
    /\ boot.pc = "up" /\ \A r \in Reqs : req[r].pc = "idle"
    /\ Spend("crashes") /\ Teardown
    /\ UNCHANGED <<files, opened, closed, catalog, req, queue, asked, setup>>

\* A worker told to stop while POST_INIT runs: the hook it waits for is cancelled, and arq closed.
StopStarting ==
    /\ boot.pc = "post_init" /\ boot.at <= Len(boot.active) /\ setup.process = "worker"
    /\ Spend("crashes") /\ Teardown
    /\ opened' = [opened EXCEPT ![boot.active[boot.at]] = @ + 1]
    /\ UNCHANGED <<files, closed, catalog, req, queue, asked, setup>>

\* A SHUTDOWN hook that fails is logged, and the teardown goes on.
Close ==
    /\ boot.pc = "closing"
    /\ IF boot.at = 0 THEN boot' = [boot EXCEPT !.pc = "closed"] /\ UNCHANGED closed
       ELSE /\ boot' = [boot EXCEPT !.at = @ - 1]
            /\ closed' = [closed EXCEPT ![boot.active[boot.at]] = @ + 1]
    /\ UNCHANGED <<files, tasks, opened, catalog, req, queue, asked, setup, left>>

\* The process is gone: by itself, because its start failed, or because it was stopped.
Placing(n) == \E r \in Reqs : req[r].pc = "place" /\ req[r].name = n
Restart ==
    /\ \/ boot.pc \in {"dead", "closed"} /\ UNCHANGED left
       \/ boot.pc \notin {"off", "dead", "closed"} /\ Spend("crashes")
    /\ boot' = Off /\ tasks' = {} /\ opened' = <<>> /\ closed' = <<>>
    /\ req' = [r \in Reqs |-> Idle] /\ lock' = None /\ queue' = {}
    /\ cut' = [n \in Names |-> IF Placing(n) THEN cut[n] + 1 ELSE cut[n]]
    /\ UNCHANGED <<disk, owned, catalog, asked, setup>>

-----------------------------------------------------------------------------
Handles(r) ==
    FetchArchive(r) \/ Lock(r) \/ Extract(r) \/ WriteManifest(r) \/ MoveAside(r) \/ Place(r) \/ Clean(r)
Installs(r) == (\E n \in Names : FetchEntry(r, n)) \/ Handles(r) \/ Pip(r)
Boots == Discover \/ PreInit \/ Compose \/ PostInit \/ Up \/ Close

Next ==
    \/ \E r \in Reqs : Installs(r)
    \/ \E n \in Names : Uninstall(n) \/ Publish(n)
    \/ Tick \/ GiveUp \/ Boots \/ Stop \/ StopStarting \/ Restart
    \/ \E p \in Plugins : TaskEnds(p)

\* The loop of the checker goes on after a failed tick, hooks have a budget, requests to other hosts
\* a timeout, and the file system answers. pip is waited for without a limit, so nothing makes it
\* end; nor does anything make a person or the catalogue act.
Fairness ==
    /\ WF_vars(Tick) /\ WF_vars(Boots)
    /\ WF_vars(\E n \in Names : FetchEntry(Bot, n))
    /\ \A r \in Reqs : WF_vars(Handles(r))
Spec == Init /\ [][Next]_vars /\ Fairness

-----------------------------------------------------------------------------
(* Properties. *)

Image == [version : 0..MaxVersion, bytes : 0..MaxVersion, manifest : BOOLEAN]
TypeOK ==
    /\ disk \in [Names -> [live : Image, staging : Image, backup : Image]]
    /\ catalog \in [Names -> 0..MaxVersion]
    /\ \A r \in Reqs : req[r].hops \in 0..MaxRedirects /\ req[r].name \in Names \union {None}
    /\ lock \in Reqs \union {None} /\ queue \subseteq Names /\ cut \in [Names -> Nat]
    /\ boot.pc \in {"off", "dead", "pre_init", "post_init", "up", "closing", "closed"}
    /\ tasks \subseteq Plugins /\ asked \subseteq Hosts /\ owned \subseteq Names

\* The code that will be imported is the archive that the catalogue's checksum named for the
\* version in its manifest, and it came from the pinned hosts, whichever two installs overlap
\* (install_service.py:182, index_client.py:131). And some folder holds a plugin until it is removed
\* or a second swap of it is cut short with none live: by a crash between the two renames, or by a
\* rename that raises, after which the except branch deletes what was to be placed. After the first
\* such swap the backup is what is left, and the next one deletes that (install_service.py:143, 212).
FoldersStayWhole ==
    /\ \A n \in Names : disk[n].live.manifest => disk[n].live.bytes = disk[n].live.version
    /\ asked \subseteq ArchiveHosts
    /\ \A n \in owned : cut[n] < 2 => \E part \in {"live", "staging", "backup"} : disk[n][part].manifest

\* A plugin that was opened is closed once, by its quarantine or by the shutdown, and no other is; a
\* process that was stopped has no task left over; and a task's plugin was opened and is not closed
\* (manager.py:289), even where two plugins have one name. Excepted is a worker whose start ended in
\* POST_INIT: it shuts down over the list of PRE_INIT, so that SHUTDOWN runs for each plugin on it,
\* opened or not, and once more for one that was quarantined (manager.py:323, 355).
Survived == boot.pc \in {"closing", "closed"} => boot.active = boot.survivors
OpenedPluginsAreClosedOnce ==
    /\ \A i \in DOMAIN opened : opened[i] <= 1 /\ closed[i] <= opened[i] + (IF Survived THEN 0 ELSE 1)
    /\ boot.pc = "closed" => /\ tasks = {} /\ \A i \in DOMAIN opened : opened[i] <= closed[i]
                             /\ Survived => opened = closed
    /\ boot.pc \in {"post_init", "up"} =>
         \A p \in tasks : \E i \in DOMAIN opened : boot.found[i].name = p /\ opened[i] = 1 /\ closed[i] = 0

\* With auto-update on, the API staying up and no pip hanging, every installed plugin comes to the
\* version the catalogue advertises, unless that version cannot be installed (update_checker.py:71).
UpdatesCatchUp ==
    <>[](boot.pc = "up") /\ (\A r \in Reqs : []<>(req[r].pc # "pip")) =>
        <>[](Serving /\ setup.auto => \A n \in Names :
                Installed(n) /\ Pinned(n, catalog[n]) /\ Conduct[n][catalog[n]].zip = "safe" =>
                    disk[n].live.version >= catalog[n])

=============================================================================
