------------------------ MODULE PluginRuntimeProofs ------------------------
(***************************************************************************)
(* FoldersStayWhole and OpenedPluginsAreClosedOnce for any plugins,        *)
(* versions, people, crashes and faults, and any conduct of the hooks.     *)
(***************************************************************************)
EXTENDS PluginRuntime, FiniteSetTheorems, SequenceTheorems, TLAPS

Folder == [version : Nat, bytes : Nat, manifest : BOOLEAN]
Places == {"idle", "archive", "locking", "extract", "manifest", "pip", "swap", "place", "clean"}
Work == [pc : Places, name : Names \union {None}, entry : Nat, bytes : Nat, hops : Nat]

Types ==
  /\ disk \in [Names -> [live : Folder, staging : Folder, backup : Folder]]
  /\ catalog \in [Names -> Nat]
  /\ req \in [Reqs -> Work]
  /\ cut \in [Names -> Nat]

Inside == {"extract", "manifest", "pip", "swap", "place", "clean"}

(* One install at a time is past the lock, and none while the API is down. *)
OneInside ==
  /\ boot.pc # "up" => \A r \in Reqs : req[r].pc = "idle"
  /\ \A r \in Reqs : /\ req[r].pc # "idle" => req[r].name \in Names
                     /\ req[r].pc \in Inside => lock = r

(* What an install holds, from its bytes to its staging folder.            *)
Staged == \A r \in Reqs :
  /\ req[r].pc \in Inside \union {"locking"} => req[r].bytes = req[r].entry
  /\ req[r].pc \in {"manifest", "pip", "swap", "place"} =>
       disk[req[r].name].staging.bytes = req[r].entry
  /\ req[r].pc \in {"pip", "swap", "place"} =>
       /\ disk[req[r].name].staging.version = req[r].entry
       /\ disk[req[r].name].staging.manifest
  /\ req[r].pc = "clean" /\ req[r].name \in owned => disk[req[r].name].live.manifest

LiveIsChecked == \A n \in Names : disk[n].live.manifest => disk[n].live.bytes = disk[n].live.version

(* Where a plugin is that was installed and not removed: in its place; in  *)
(* an install between its two renames; after one swap was cut short, in    *)
(* the backup.                                                             *)
Held(d, c) == d.live.manifest \/ (c >= 1 /\ d.backup.manifest) \/ c >= 2
OnDisk(n) ==
  \/ Held(disk[n], cut[n])
  \/ Placing(n) /\ (disk[n].backup.manifest \/ cut[n] >= 1)

IInv == Types /\ OneInside /\ Staged /\ LiveIsChecked
        /\ owned \subseteq Names /\ (\A n \in owned : OnDisk(n))
        /\ asked \subseteq ArchiveHosts

-----------------------------------------------------------------------------
LEMMA Typing ==
  /\ Absent \in Folder /\ ~Absent.manifest
  /\ Idle \in Work /\ Idle.pc = "idle"
  /\ Bot \in Reqs /\ Late \in Reqs /\ Bot # Late /\ None \notin Reqs /\ None \notin Names
<1>1. Absent \in Folder /\ ~Absent.manifest
  BY DEF Absent, Folder
<1>2. Idle \in Work /\ Idle.pc = "idle"
  BY DEF Idle, Work, Places
<1>3. Bot \in Reqs /\ Late \in Reqs /\ Bot # Late /\ None \notin Reqs /\ None \notin Names
  BY PluginAssumption DEF Reqs
<1> QED BY <1>1, <1>2, <1>3

(* A request that moves on keeps what it is about.                         *)
LEMMA MovesOn ==
  ASSUME NEW v \in Work, NEW pc \in Places, NEW b \in Nat
  PROVE  LET w == [v EXCEPT !.pc = pc]  x == [w EXCEPT !.bytes = b] IN
         /\ w \in Work /\ w.pc = pc /\ w.name = v.name /\ w.entry = v.entry /\ w.bytes = v.bytes
         /\ x \in Work /\ x.pc = pc /\ x.name = v.name /\ x.entry = v.entry /\ x.bytes = b
<1> DEFINE w == [v EXCEPT !.pc = pc]  x == [w EXCEPT !.bytes = b]
<1>1. w \in Work /\ w.pc = pc /\ w.name = v.name /\ w.entry = v.entry /\ w.bytes = v.bytes
  BY DEF Work
<1> HIDE DEF w
<1>2. x \in Work /\ x.pc = pc /\ x.name = v.name /\ x.entry = v.entry /\ x.bytes = b
  BY <1>1 DEF Work
<1> QED BY <1>1, <1>2 DEF w

LEMMA InvInit == ASSUME Init PROVE IInv
<1>1. setup \in Starts /\ setup.advertised \in Nat /\ setup.live \in [Names -> Nat]
  BY PluginAssumption DEF Init
<1>2. /\ disk = [n \in Names |->
                   [live |-> IF setup.live[n] = 0 THEN Absent
                             ELSE [version |-> setup.live[n], bytes |-> setup.live[n], manifest |-> TRUE],
                    staging |-> Absent, backup |-> Absent]]
      /\ owned = {n \in Names : setup.live[n] # 0} /\ cut = [n \in Names |-> 0]
      /\ catalog = [n \in Names |-> setup.advertised] /\ req = [r \in Reqs |-> Idle] /\ asked = {}
  BY DEF Init
<1>3. Types
  <2>1. disk \in [Names -> [live : Folder, staging : Folder, backup : Folder]]
    <3>1. \A n \in Names : (IF setup.live[n] = 0 THEN Absent
             ELSE [version |-> setup.live[n], bytes |-> setup.live[n], manifest |-> TRUE]) \in Folder
      BY <1>1, Typing DEF Folder
    <3> QED BY <1>2, <3>1, Typing
  <2> QED BY <1>1, <1>2, <2>1, Typing DEF Types
<1>4. OneInside /\ Staged
  BY <1>2, Typing DEF OneInside, Staged, Inside
<1>5. \A n \in Names : IF setup.live[n] = 0 THEN ~disk[n].live.manifest
                       ELSE disk[n].live.manifest /\ disk[n].live.bytes = disk[n].live.version
  BY <1>2, Typing
<1>6. LiveIsChecked /\ owned \subseteq Names /\ \A n \in owned : OnDisk(n)
  BY <1>2, <1>5 DEF LiveIsChecked, OnDisk, Held
<1> QED BY <1>2, <1>3, <1>4, <1>6 DEF IInv

-----------------------------------------------------------------------------
(* Steps outside the lock                                                  *)

(* Nothing on the disk changes, and r is not inside, before or after.      *)
LEMMA OutsideKeeps ==
  ASSUME IInv, NEW r \in Reqs, NEW w \in Work, UNCHANGED <<disk, lock, owned, cut, boot, catalog>>,
         boot.pc = "up", req[r].pc \notin Inside,
         req' = [req EXCEPT ![r] = w],
         w.pc # "idle" => w.name \in Names,
         w.pc \notin Inside, w.pc = "locking" => w.bytes = w.entry,
         asked' \subseteq ArchiveHosts
  PROVE  IInv'
<1>1. /\ req' \in [Reqs -> Work] /\ req'[r] = w
      /\ \A q \in Reqs \ {r} : req'[q] = req[q]
  BY DEF IInv, Types
<1>2. Types'
  BY <1>1 DEF IInv, Types
<1>3. OneInside'
  BY <1>1 DEF IInv, OneInside
<1>4. Staged'
  <2> SUFFICES ASSUME NEW q \in Reqs
               PROVE  /\ req'[q].pc \in Inside \union {"locking"} => req'[q].bytes = req'[q].entry
                      /\ req'[q].pc \in {"manifest", "pip", "swap", "place"} =>
                           disk[req'[q].name].staging.bytes = req'[q].entry
                      /\ req'[q].pc \in {"pip", "swap", "place"} =>
                           /\ disk[req'[q].name].staging.version = req'[q].entry
                           /\ disk[req'[q].name].staging.manifest
                      /\ req'[q].pc = "clean" /\ req'[q].name \in owned => disk[req'[q].name].live.manifest
    BY DEF Staged
  <2>1. CASE q = r
    BY <1>1, <2>1 DEF Inside
  <2>2. CASE q # r
    BY <1>1, <2>2 DEF IInv, Staged
  <2> QED BY <2>1, <2>2
<1>5. \A n \in owned' : OnDisk(n)'
  <2>1. \A n : Placing(n) => Placing(n)'
    BY <1>1 DEF Placing, Inside
  <2> QED BY <2>1 DEF IInv, OnDisk
<1> QED BY <1>2, <1>3, <1>4, <1>5 DEF IInv, LiveIsChecked

LEMMA FetchEntryKeeps ==
  ASSUME IInv, NEW r \in Reqs, NEW n \in Names, FetchEntry(r, n) PROVE IInv'
<1>1. /\ boot.pc = "up" /\ req[r].pc = "idle"
      /\ UNCHANGED <<disk, lock, owned, cut, boot, catalog, asked>>
  BY DEF FetchEntry, Serving, files, manager
<1>3. CASE UNCHANGED req
  <2>1. req' = [req EXCEPT ![r] = req[r]] /\ req[r] \in Work
    BY <1>3 DEF IInv, Types
  <2> QED BY <1>1, <2>1, OutsideKeeps DEF Inside, IInv
<1>4. CASE req' = [req EXCEPT ![r] = [Idle EXCEPT !.pc = "archive", !.name = n, !.entry = catalog[n]]]
  <2> DEFINE w == [Idle EXCEPT !.pc = "archive", !.name = n, !.entry = catalog[n]]
  <2>1. catalog[n] \in Nat
    BY DEF IInv, Types
  <2>2. w \in Work /\ w.pc = "archive" /\ w.name = n
    <3> DEFINE u == [Idle EXCEPT !.pc = "archive"]  v == [u EXCEPT !.name = n]
    <3>1. u \in Work /\ u.pc = "archive"
      BY Typing DEF Work, Places
    <3> HIDE DEF u
    <3>2. v \in Work /\ v.pc = "archive" /\ v.name = n
      BY <3>1 DEF Work
    <3> HIDE DEF v
    <3>3. [v EXCEPT !.entry = catalog[n]] \in Work
      BY <2>1, <3>2 DEF Work
    <3>4. [v EXCEPT !.entry = catalog[n]].pc = v.pc /\ [v EXCEPT !.entry = catalog[n]].name = v.name
      BY <3>2 DEF Work
    <3> QED BY <3>2, <3>3, <3>4 DEF u, v
  <2> HIDE DEF w
  <2>3. req' = [req EXCEPT ![r] = w]
    BY <1>4 DEF w
  <2> QED BY <1>1, <2>2, <2>3, OutsideKeeps DEF Inside, IInv
<1> QED BY <1>3, <1>4 DEF FetchEntry

LEMMA FetchArchiveKeeps == ASSUME IInv, NEW r \in Reqs, FetchArchive(r) PROVE IInv'
<1>1. /\ boot.pc = "up" /\ req[r].pc = "archive"
      /\ UNCHANGED <<disk, lock, owned, cut, boot, catalog>>
  BY DEF FetchArchive, Serving, files, manager
<1>3. asked' \subseteq ArchiveHosts
  BY DEF FetchArchive, AllowedHop, IInv
<1>4. req[r] \in Work /\ req[r].name \in Names
  BY <1>1 DEF IInv, Types, OneInside
<1>5. \/ req' = [req EXCEPT ![r] = Idle]
      \/ req' = [req EXCEPT ![r].hops = @ + 1]
      \/ \E bytes \in {req[r].entry, 0} :
           req' = [req EXCEPT ![r].pc = "locking", ![r].bytes = bytes] /\ bytes = req[r].entry
  BY DEF FetchArchive, Drop, DigestMatches
<1>6. CASE req' = [req EXCEPT ![r] = Idle]
  BY <1>1, <1>3, <1>6, Typing, OutsideKeeps DEF Inside
<1>7. CASE req' = [req EXCEPT ![r].hops = @ + 1]
  <2> DEFINE w == [req[r] EXCEPT !.hops = @ + 1]
  <2>1. w \in Work /\ w.pc = "archive" /\ w.name = req[r].name
    BY <1>1, <1>4 DEF Work
  <2>2. req' = [req EXCEPT ![r] = w]
    BY <1>7
  <2> HIDE DEF w
  <2> QED BY <1>1, <1>3, <1>4, <2>1, <2>2, OutsideKeeps DEF Inside
<1>8. CASE req' = [req EXCEPT ![r].pc = "locking", ![r].bytes = req[r].entry]
  <2> DEFINE w == [req[r] EXCEPT !.pc = "locking", !.bytes = req[r].entry]
  <2>1. w \in Work /\ w.pc = "locking" /\ w.name = req[r].name /\ w.bytes = w.entry
    <3>1. req[r].entry \in Nat
      BY <1>4 DEF Work
    <3>2. "locking" \in Places
      BY DEF Places
    <3> DEFINE u == [req[r] EXCEPT !.pc = "locking"]
    <3>3. u \in Work /\ u.pc = "locking" /\ u.name = req[r].name /\ u.entry = req[r].entry
      BY <1>4, <3>2 DEF Work
    <3>4. w = [u EXCEPT !.bytes = req[r].entry]
      BY <1>4 DEF Work
    <3> HIDE DEF u, w
    <3> QED BY <3>1, <3>3, <3>4 DEF Work
  <2>2. req' = [req EXCEPT ![r] = w]
    BY <1>8, <1>4 DEF IInv, Types
  <2> HIDE DEF w
  <2> QED BY <1>1, <1>3, <1>4, <2>1, <2>2, OutsideKeeps DEF Inside
<1> QED BY <1>5, <1>6, <1>7, <1>8

-----------------------------------------------------------------------------
(* Steps under the lock                                                    *)

(* The install r, alone inside, changes its own folder.                    *)
LEMMA InsideKeeps ==
  ASSUME IInv, NEW r \in Reqs, boot.pc = "up", req[r].pc \in Inside \union {"locking"},
         req[r].pc = "locking" => lock = None,
         NEW n, n = req[r].name, NEW w \in Work, req' = [req EXCEPT ![r] = w],
         NEW d \in [live : Folder, staging : Folder, backup : Folder],
         disk' = [disk EXCEPT ![n] = d],
         NEW c \in Nat, cut' = [cut EXCEPT ![n] = c],
         \/ w.pc = "idle"
         \/ w.pc \in Inside /\ lock' = r /\ w.name = n /\ w.entry = req[r].entry /\ w.bytes = w.entry,
         w.pc \in {"manifest", "pip", "swap", "place"} => d.staging.bytes = w.entry,
         w.pc \in {"pip", "swap", "place"} => d.staging.version = w.entry /\ d.staging.manifest,
         w.pc = "clean" /\ n \in owned' => d.live.manifest,
         d.live.manifest => d.live.bytes = d.live.version,
         owned' \in {owned, owned \union {n}},
         n \in owned' => Held(d, c) \/ (w.pc = "place" /\ (d.backup.manifest \/ c >= 1)),
         UNCHANGED <<boot, catalog, asked>>
  PROVE  IInv'
<1>1. /\ req' \in [Reqs -> Work] /\ req'[r] = w
      /\ \A q \in Reqs \ {r} : req'[q] = req[q]
  BY DEF IInv, Types
<1>2. n \in Names
  BY DEF IInv, OneInside, Inside
<1>3. /\ disk' \in [Names -> [live : Folder, staging : Folder, backup : Folder]]
      /\ disk'[n] = d /\ \A m \in Names \ {n} : disk'[m] = disk[m]
      /\ cut' \in [Names -> Nat] /\ cut'[n] = c /\ \A m \in Names \ {n} : cut'[m] = cut[m]
  BY <1>2 DEF IInv, Types
<1>4. \A q \in Reqs \ {r} : req[q].pc \notin Inside
  <2> SUFFICES ASSUME NEW q \in Reqs, q # r, req[q].pc \in Inside PROVE FALSE
    OBVIOUS
  <2>1. lock = q
    BY DEF IInv, OneInside
  <2> QED BY <2>1, Typing DEF IInv, OneInside
<1>5. Types'
  BY <1>1, <1>3 DEF IInv, Types
<1>6. OneInside'
  <2> SUFFICES ASSUME NEW q \in Reqs
               PROVE  /\ req'[q].pc # "idle" => req'[q].name \in Names
                      /\ req'[q].pc \in Inside => lock' = q
    BY DEF OneInside
  <2>1. CASE q = r
    BY <1>1, <1>2, <2>1 DEF Inside
  <2>2. CASE q # r
    BY <1>1, <1>4, <2>2 DEF IInv, OneInside
  <2> QED BY <2>1, <2>2
<1>7. Staged'
  <2> SUFFICES ASSUME NEW q \in Reqs
               PROVE  /\ req'[q].pc \in Inside \union {"locking"} => req'[q].bytes = req'[q].entry
                      /\ req'[q].pc \in {"manifest", "pip", "swap", "place"} =>
                           disk'[req'[q].name].staging.bytes = req'[q].entry
                      /\ req'[q].pc \in {"pip", "swap", "place"} =>
                           /\ disk'[req'[q].name].staging.version = req'[q].entry
                           /\ disk'[req'[q].name].staging.manifest
                      /\ req'[q].pc = "clean" /\ req'[q].name \in owned' => disk'[req'[q].name].live.manifest
    BY DEF Staged
  <2>1. CASE q = r
    <3>1. CASE w.pc = "idle"
      BY <1>1, <2>1, <3>1 DEF Inside
    <3>2. CASE w.pc # "idle"
      BY <1>1, <1>3, <2>1, <3>2
    <3> QED BY <3>1, <3>2
  <2>2. CASE q # r
    <3>1. req'[q] = req[q] /\ req[q].pc \notin Inside
      BY <1>1, <1>4, <2>2
    <3> QED BY <3>1 DEF IInv, Staged, Inside
  <2> QED BY <2>1, <2>2
<1>8. LiveIsChecked' /\ owned' \subseteq Names
  BY <1>2, <1>3 DEF IInv, LiveIsChecked
<1>9. \A m \in owned' : OnDisk(m)'
  <2> SUFFICES ASSUME NEW m \in owned' PROVE OnDisk(m)'
    OBVIOUS
  <2>1. CASE m = n
    <3>1. w.pc = "place" => Placing(n)'
      BY <1>1 DEF Placing, Inside
    <3> QED BY <1>3, <2>1, <3>1 DEF OnDisk
  <2>2. CASE m # n
    <3>1. m \in owned /\ m \in Names /\ disk'[m] = disk[m] /\ cut'[m] = cut[m] /\ OnDisk(m)
      BY <1>3, <2>2 DEF IInv
    <3>2. ~Placing(m)
      BY <1>4, <2>2 DEF Placing, Inside
    <3> QED BY <3>1, <3>2 DEF OnDisk
  <2> QED BY <2>1, <2>2
<1> QED BY <1>5, <1>6, <1>7, <1>8, <1>9 DEF IInv

(* What is known of an install that is inside, and of its folder.          *)
LEMMA WhatItHolds ==
  ASSUME IInv, NEW r \in Reqs, req[r].pc \in Inside \union {"locking"}, req[r].pc = "locking" => lock = None
  PROVE  LET n == req[r].name IN
         /\ req[r] \in Work /\ n \in Names /\ disk[n] \in [live : Folder, staging : Folder, backup : Folder]
         /\ disk \in [Names -> [live : Folder, staging : Folder, backup : Folder]]
         /\ req \in [Reqs -> Work]
         /\ req[r].bytes = req[r].entry
         /\ disk[n].live.manifest => disk[n].live.bytes = disk[n].live.version
         /\ req[r].pc # "place" /\ n \in owned => Held(disk[n], cut[n])
         /\ cut[n] \in Nat /\ cut = [cut EXCEPT ![n] = cut[n]]
<1> DEFINE n == req[r].name
<1>1. req[r] \in Work /\ n \in Names /\ req \in [Reqs -> Work]
      /\ disk \in [Names -> [live : Folder, staging : Folder, backup : Folder]]
  BY DEF IInv, Types, OneInside, Inside
<1>2. req[r].bytes = req[r].entry
  BY DEF IInv, Staged
<1>3. ASSUME req[r].pc # "place", n \in owned, Placing(n) PROVE FALSE
  <2>1. PICK q \in Reqs : req[q].pc = "place" /\ req[q].name = n
    BY <1>3 DEF Placing
  <2>2. lock = q /\ (lock = r \/ lock = None)
    BY <1>3, <2>1 DEF IInv, OneInside, Inside
  <2> QED BY <1>3, <2>1, <2>2, Typing
<1>4. disk[n].live.manifest => disk[n].live.bytes = disk[n].live.version
  BY <1>1 DEF IInv, LiveIsChecked
<1>5. req[r].pc # "place" /\ n \in owned => Held(disk[n], cut[n])
  BY <1>3 DEF IInv, OnDisk
<1>6. cut[n] \in Nat /\ cut = [cut EXCEPT ![n] = cut[n]]
  BY <1>1 DEF IInv, Types
<1> HIDE DEF n
<1>7. disk[n] \in [live : Folder, staging : Folder, backup : Folder]
  BY <1>1
<1> QED BY <1>1, <1>2, <1>4, <1>5, <1>6, <1>7 DEF n


FoldersOf == [live : Folder, staging : Folder, backup : Folder]

LEMMA PartsChange ==
  ASSUME NEW d \in FoldersOf, NEW x \in Folder
  PROVE  LET s == [d EXCEPT !.staging = x]  l == [d EXCEPT !.live = x]  b == [d EXCEPT !.backup = x] IN
         /\ s \in FoldersOf /\ s.staging = x /\ s.live = d.live /\ s.backup = d.backup
         /\ l \in FoldersOf /\ l.staging = d.staging /\ l.live = x /\ l.backup = d.backup
         /\ b \in FoldersOf /\ b.staging = d.staging /\ b.live = d.live /\ b.backup = x
  BY DEF FoldersOf

(* The step of r that leaves it at pc, its folder changed from disk[n].    *)
LEMMA LockKeeps == ASSUME IInv, NEW r \in Reqs, Lock(r) PROVE IInv'
<1> DEFINE n == req[r].name  w == [req[r] EXCEPT !.pc = "extract"]
<1>1. /\ boot.pc = "up" /\ req[r].pc = "locking" /\ lock = None /\ lock' = r
      /\ req' = [req EXCEPT ![r] = w]
      /\ UNCHANGED <<disk, owned, cut, boot, catalog, asked>>
  BY DEF Lock, Serving, Become, manager
<1>2. /\ req[r] \in Work /\ n \in Names /\ disk[n] \in FoldersOf /\ disk \in [Names -> FoldersOf]
      /\ req[r].bytes = req[r].entry /\ cut[n] \in Nat /\ cut = [cut EXCEPT ![n] = cut[n]]
      /\ disk[n].live.manifest => disk[n].live.bytes = disk[n].live.version
      /\ n \in owned => Held(disk[n], cut[n])
  BY <1>1, WhatItHolds DEF FoldersOf
<1>3. w \in Work /\ w.pc = "extract" /\ w.name = n /\ w.entry = req[r].entry /\ w.bytes = w.entry
  <2>1. "extract" \in Places /\ 0 \in Nat
    BY DEF Places
  <2> QED BY ZenonT(60), <1>2, <2>1, MovesOn
<1> DEFINE d == disk[n]
<1>4. disk' = [disk EXCEPT ![n] = d] /\ d \in [live : Folder, staging : Folder, backup : Folder]
  BY <1>1, <1>2 DEF FoldersOf
<1>5. /\ d.live.manifest => d.live.bytes = d.live.version
      /\ n \in owned' => Held(d, cut[n])
  BY <1>1, <1>2
<1>6. n = req[r].name /\ req[r].pc \in Inside \union {"locking"} /\ w.pc \in Inside
  BY <1>1, <1>3 DEF Inside
<1>7. /\ boot.pc = "up" /\ (req[r].pc = "locking" => lock = None) /\ lock' = r
      /\ req' = [req EXCEPT ![r] = w] /\ UNCHANGED <<boot, catalog, asked>>
      /\ owned' \in {owned, owned \union {n}} /\ cut[n] \in Nat /\ cut' = [cut EXCEPT ![n] = cut[n]]
  <2> HIDE DEF w, n
  <2> QED BY <1>1, <1>2
<1>8. w.pc \notin {"idle", "manifest", "pip", "swap", "place", "clean"}
  <2> HIDE DEF w
  <2> QED BY <1>3
<1> HIDE DEF w, d, n
<1> QED BY <1>3, <1>4, <1>5, <1>6, <1>7, <1>8, InsideKeeps

(* An install that is over.                                                *)
LEMMA OverKeeps ==
  ASSUME IInv, NEW r \in Reqs, boot.pc = "up", req[r].pc \in Inside,
         NEW n, n = req[r].name, req' = [req EXCEPT ![r] = Idle],
         NEW d \in FoldersOf, disk' = [disk EXCEPT ![n] = d],
         NEW c \in Nat, cut' = [cut EXCEPT ![n] = c],
         d.live.manifest => d.live.bytes = d.live.version,
         n \in owned => Held(d, c),
         UNCHANGED <<owned, boot, catalog, asked>>
  PROVE  IInv'
<1> DEFINE w == Idle
<1>1. w \in Work /\ w.pc = "idle"
  BY Typing
<1>2. req' = [req EXCEPT ![r] = w]
  OBVIOUS
<1> HIDE DEF w
<1>3. /\ req[r].pc \in Inside \union {"locking"} /\ req[r].pc # "locking"
      /\ d \in [live : Folder, staging : Folder, backup : Folder]
      /\ owned' \in {owned, owned \union {n}}
  BY DEF Inside, FoldersOf
<1>4. w.pc \notin {"manifest", "pip", "swap", "place", "clean"}
  BY <1>1
<1>5. n \in owned' => Held(d, c)
  OBVIOUS
<1> QED BY <1>1, <1>2, <1>3, <1>4, <1>5, InsideKeeps

(* An install that gives up: the staging folder goes.                      *)
LEMMA AbortKeeps ==
  ASSUME IInv, NEW r \in Reqs, boot.pc = "up", req[r].pc \in Inside \ {"place"}, Abort(r),
         UNCHANGED <<owned, cut, boot, catalog, asked>>
  PROVE  IInv'
<1> DEFINE n == req[r].name  d == [disk[n] EXCEPT !.staging = Absent]
<1>1. req' = [req EXCEPT ![r] = Idle] /\ disk' = [disk EXCEPT ![n] = d]
  BY DEF Abort, Drop
<1>2. /\ disk[n] \in FoldersOf
      /\ disk[n].live.manifest => disk[n].live.bytes = disk[n].live.version
      /\ n \in owned => Held(disk[n], cut[n])
      /\ cut[n] \in Nat /\ cut' = [cut EXCEPT ![n] = cut[n]]
  BY WhatItHolds DEF FoldersOf, Inside
<1>3. d \in FoldersOf /\ d.live = disk[n].live /\ d.backup = disk[n].backup
  BY <1>2, Typing, PartsChange
<1> HIDE DEF d
<1>4. n \in owned' => Held(d, cut[n])
  BY <1>2, <1>3 DEF Held
<1> DEFINE c == cut[n]
<1>5. c \in Nat /\ cut' = [cut EXCEPT ![n] = c] /\ (n \in owned => Held(d, c))
  BY <1>2, <1>4
<1>6. d.live.manifest => d.live.bytes = d.live.version
  BY <1>2, <1>3
<1> HIDE DEF c, n
<1>7. n = req[r].name /\ req[r].pc \in Inside /\ boot.pc = "up"
  BY DEF n
<1>8. UNCHANGED <<owned, boot, catalog, asked>> /\ d \in FoldersOf
  BY <1>3
<1> QED BY <1>1, <1>5, <1>6, <1>7, <1>8, OverKeeps

LEMMA ExtractKeeps == ASSUME IInv, NEW r \in Reqs, Extract(r) PROVE IInv'
<1> DEFINE n == req[r].name  w == [req[r] EXCEPT !.pc = "manifest"]
           x == [Absent EXCEPT !.bytes = req[r].bytes]  d == [disk[n] EXCEPT !.staging = x]
<1>1. /\ boot.pc = "up" /\ req[r].pc = "extract" /\ UNCHANGED <<owned, cut, boot, catalog, asked>>
  BY DEF Extract, Serving, manager
<1>2. lock = r
  BY <1>1 DEF IInv, OneInside, Inside
<1>3. CASE Abort(r)
  BY <1>1, <1>3, AbortKeeps DEF Inside
<1>4. CASE disk' = [disk EXCEPT ![n] = d] /\ req' = [req EXCEPT ![r] = w] /\ lock' = lock
  <2>1. /\ req[r] \in Work /\ disk[n] \in FoldersOf /\ req[r].bytes = req[r].entry
        /\ disk[n].live.manifest => disk[n].live.bytes = disk[n].live.version
        /\ n \in owned => Held(disk[n], cut[n])
        /\ cut[n] \in Nat /\ cut' = [cut EXCEPT ![n] = cut[n]]
    BY <1>1, WhatItHolds DEF FoldersOf, Inside
  <2>2. w \in Work /\ w.pc = "manifest" /\ w.name = n /\ w.entry = req[r].entry /\ w.bytes = w.entry
    <3>1. "manifest" \in Places /\ 0 \in Nat
      BY DEF Places
    <3> QED BY <2>1, <3>1, MovesOn
  <2>3. x \in Folder /\ x.bytes = req[r].entry
    <3>1. req[r].bytes \in Nat
      BY <2>1 DEF Work
    <3> QED BY <2>1, <3>1 DEF Absent, Folder
  <2> HIDE DEF x
  <2>4. d \in FoldersOf /\ d.live = disk[n].live /\ d.backup = disk[n].backup /\ d.staging = x
    BY <2>1, <2>3, PartsChange
  <2> HIDE DEF d, w
  <2>5. n \in owned' => Held(d, cut[n])
    BY <1>1, <2>1, <2>4 DEF Held
  <2>6. /\ n = req[r].name /\ req[r].pc \in Inside /\ w.pc \in Inside /\ lock' = r
        /\ req[r].pc # "locking" /\ d \in [live : Folder, staging : Folder, backup : Folder]
        /\ d.staging.bytes = w.entry /\ (d.live.manifest => d.live.bytes = d.live.version)
        /\ owned' \in {owned, owned \union {n}} /\ UNCHANGED <<boot, catalog, asked>>
    BY <1>1, <1>2, <1>4, <2>1, <2>2, <2>3, <2>4 DEF Inside, FoldersOf
  <2>7. w.pc \notin {"idle", "pip", "swap", "place", "clean"}
    BY <2>2
  <2>8. req' = [req EXCEPT ![r] = w] /\ disk' = [disk EXCEPT ![n] = d] /\ boot.pc = "up"
    BY <1>1, <1>4
  <2> HIDE DEF n
  <2> QED BY <2>1, <2>2, <2>5, <2>6, <2>7, <2>8, InsideKeeps
<1> QED BY <1>3, <1>4 DEF Extract, FailsAt, Become

LEMMA WriteManifestKeeps == ASSUME IInv, NEW r \in Reqs, WriteManifest(r) PROVE IInv'
<1> DEFINE n == req[r].name  w == [req[r] EXCEPT !.pc = "pip"]
           y == [disk[n].staging EXCEPT !.version = req[r].entry]  x == [y EXCEPT !.manifest = TRUE]
           d == [disk[n] EXCEPT !.staging = x]
<1>1. /\ boot.pc = "up" /\ req[r].pc = "manifest"
      /\ UNCHANGED <<owned, cut, boot, catalog, asked>>
  BY DEF WriteManifest, Serving, manager
<1>2. lock = r /\ disk[n].staging.bytes = req[r].entry
  BY <1>1 DEF IInv, OneInside, Inside, Staged
<1>3. CASE Abort(r)
  BY <1>1, <1>3, AbortKeeps DEF Inside
<1>4. CASE /\ req' = [req EXCEPT ![r] = w] /\ lock' = lock
           /\ disk' = [disk EXCEPT ![n].staging.version = req[r].entry, ![n].staging.manifest = TRUE]
  <2>1. /\ req[r] \in Work /\ n \in Names /\ disk[n] \in FoldersOf /\ req[r].bytes = req[r].entry
        /\ disk \in [Names -> FoldersOf]
        /\ disk[n].live.manifest => disk[n].live.bytes = disk[n].live.version
        /\ n \in owned => Held(disk[n], cut[n])
        /\ cut[n] \in Nat /\ cut' = [cut EXCEPT ![n] = cut[n]]
    BY <1>1, WhatItHolds DEF FoldersOf, Inside
  <2>2. w \in Work /\ w.pc = "pip" /\ w.name = n /\ w.entry = req[r].entry /\ w.bytes = w.entry
    <3>1. "pip" \in Places /\ 0 \in Nat
      BY DEF Places
    <3> QED BY ZenonT(60), <2>1, <3>1, MovesOn
  <2>3. y \in Folder /\ y.version = req[r].entry /\ y.bytes = disk[n].staging.bytes
    <3>1. req[r].entry \in Nat /\ disk[n].staging \in Folder
      BY <2>1 DEF Work, FoldersOf
    <3> QED BY <3>1 DEF Folder
  <2>4. x \in Folder /\ x.version = y.version /\ x.bytes = y.bytes /\ x.manifest
    <3> HIDE DEF y
    <3> QED BY <2>3 DEF Folder
  <2>5. disk' = [disk EXCEPT ![n] = d]
    <3> DEFINE c == [disk[n] EXCEPT !.staging = y]  s == [disk EXCEPT ![n] = c]
    <3>1. disk' = [s EXCEPT ![n].staging.manifest = TRUE]
      BY <1>4
    <3> HIDE DEF y
    <3>2. c \in FoldersOf /\ c.staging = y
      BY <2>1, <2>3, PartsChange
    <3>3. s[n] = c
      BY <2>1
    <3>4. disk' = [s EXCEPT ![n] = [c EXCEPT !.staging = x]]
      <4> HIDE DEF c, s
      <4> QED BY <3>1, <3>2, <3>3
    <3>5. [c EXCEPT !.staging = x] = d
      BY <2>1 DEF FoldersOf
    <3> QED BY <3>4, <3>5
  <2> HIDE DEF x, y
  <2>6. d \in FoldersOf /\ d.live = disk[n].live /\ d.backup = disk[n].backup /\ d.staging = x
    BY <2>1, <2>4, PartsChange
  <2>7. /\ d \in [live : Folder, staging : Folder, backup : Folder]
        /\ d.staging.bytes = w.entry
        /\ d.live.manifest => d.live.bytes = d.live.version
        /\ n \in owned' => Held(d, cut[n])
    <3> HIDE DEF d, w
    <3> QED BY <1>1, <1>2, <2>1, <2>2, <2>3, <2>4, <2>6 DEF FoldersOf, Held
  <2>8. d.staging.version = w.entry /\ d.staging.manifest
    <3> HIDE DEF d, w
    <3> QED BY <2>2, <2>3, <2>4, <2>6
  <2>9. n = req[r].name /\ req[r].pc \in Inside /\ w.pc \in Inside /\ lock' = r
    BY <1>1, <1>2, <1>4, <2>2 DEF Inside
  <2>10. req' = [req EXCEPT ![r] = w]
    BY <1>4
  <2>11. w.pc \notin {"idle", "swap", "place", "clean"} /\ owned' \in {owned, owned \union {n}}
    <3> HIDE DEF w, n
    <3> QED BY <1>1, <2>2
  <2> DEFINE c == cut[n]
  <2>12. c \in Nat /\ cut' = [cut EXCEPT ![n] = c] /\ (n \in owned' => Held(d, c))
    BY <2>1, <2>7
  <2>13. boot.pc = "up" /\ req[r].pc # "locking" /\ UNCHANGED <<boot, catalog, asked>>
    BY <1>1
  <2> HIDE DEF c, d, w, n
  <2> QED BY <2>2, <2>5, <2>7, <2>8, <2>9, <2>10, <2>11, <2>12, <2>13, InsideKeeps
<1> QED BY <1>3, <1>4 DEF WriteManifest, FailsAt, Become

LEMMA PipKeeps == ASSUME IInv, NEW r \in Reqs, Pip(r) PROVE IInv'
<1> DEFINE n == req[r].name  w == [req[r] EXCEPT !.pc = "swap"]
<1>1. /\ boot.pc = "up" /\ req[r].pc = "pip" /\ UNCHANGED <<owned, cut, boot, catalog, asked>>
  BY DEF Pip, Serving, manager
<1>2. /\ lock = r
      /\ disk[n].staging.bytes = req[r].entry /\ disk[n].staging.version = req[r].entry
      /\ disk[n].staging.manifest
  BY <1>1 DEF IInv, OneInside, Inside, Staged
<1>3. CASE Abort(r)
  BY <1>1, <1>3, AbortKeeps DEF Inside
<1>4. CASE req' = [req EXCEPT ![r] = w] /\ UNCHANGED <<disk, lock>>
  <2>1. /\ req[r] \in Work /\ n \in Names /\ disk[n] \in FoldersOf /\ req[r].bytes = req[r].entry
        /\ disk \in [Names -> FoldersOf]
        /\ disk[n].live.manifest => disk[n].live.bytes = disk[n].live.version
        /\ n \in owned => Held(disk[n], cut[n])
        /\ cut[n] \in Nat /\ cut' = [cut EXCEPT ![n] = cut[n]]
    BY <1>1, WhatItHolds DEF FoldersOf, Inside
  <2>2. w \in Work /\ w.pc = "swap" /\ w.name = n /\ w.entry = req[r].entry /\ w.bytes = w.entry
    <3>1. "swap" \in Places /\ 0 \in Nat
      BY DEF Places
    <3> QED BY ZenonT(60), <2>1, <3>1, MovesOn
  <2> DEFINE d == disk[n]
  <2>3. disk' = [disk EXCEPT ![n] = d] /\ d \in [live : Folder, staging : Folder, backup : Folder]
    BY <1>4, <2>1 DEF FoldersOf
  <2>4. /\ d.staging.bytes = w.entry /\ d.staging.version = w.entry /\ d.staging.manifest
        /\ d.live.manifest => d.live.bytes = d.live.version
        /\ n \in owned' => Held(d, cut[n])
    <3> HIDE DEF w
    <3> QED BY <1>1, <1>2, <2>1, <2>2
  <2>5. n = req[r].name /\ req[r].pc \in Inside /\ w.pc \in Inside /\ lock' = r
    BY <1>1, <1>2, <1>4, <2>2 DEF Inside
  <2>6. /\ boot.pc = "up" /\ req[r].pc # "locking"
        /\ req' = [req EXCEPT ![r] = w] /\ UNCHANGED <<boot, catalog, asked>>
        /\ owned' \in {owned, owned \union {n}}
        /\ cut[n] \in Nat /\ cut' = [cut EXCEPT ![n] = cut[n]]
    <3> HIDE DEF w, n
    <3> QED BY <1>1, <1>2, <1>4, <2>1
  <2>7. w.pc \notin {"idle", "place", "clean"}
    <3> HIDE DEF w
    <3> QED BY <2>2
  <2> HIDE DEF w, d, n
  <2> QED BY <2>2, <2>3, <2>4, <2>5, <2>6, <2>7, InsideKeeps
<1> QED BY <1>3, <1>4 DEF Pip, FailsAt, Become

(* The first rename fails: the plugin is as live as it was, or, if it was  *)
(* not, one more swap is cut short.                                        *)
LEMMA AsideFailsKeeps ==
  ASSUME IInv, NEW r \in Reqs, boot.pc = "up", req[r].pc = "swap", AsideFails(r),
         UNCHANGED <<owned, boot, catalog, asked>>
  PROVE  IInv'
<1> DEFINE n == req[r].name  e == [disk[n] EXCEPT !.staging = Absent]
<1>1. /\ req[r] \in Work /\ disk[n] \in FoldersOf /\ disk \in [Names -> FoldersOf] /\ n \in Names
      /\ disk[n].live.manifest => disk[n].live.bytes = disk[n].live.version
      /\ n \in owned => Held(disk[n], cut[n])
      /\ cut[n] \in Nat /\ cut = [cut EXCEPT ![n] = cut[n]]
  BY WhatItHolds DEF FoldersOf, Inside
<1>2. PICK kept \in {Absent, disk[n].backup} :
        disk' = [disk EXCEPT ![n].staging = Absent, ![n].backup = kept]
  BY DEF AsideFails
<1> DEFINE d == [e EXCEPT !.backup = kept]
           c == IF disk[n].live.manifest THEN cut[n] ELSE cut[n] + 1
<1>3. req' = [req EXCEPT ![r] = Idle] /\ cut' = [cut EXCEPT ![n] = c] /\ c \in Nat
  <2>1. CASE disk[n].live.manifest
    BY <1>1, <2>1 DEF AsideFails, Drop, Cut
  <2>2. CASE ~disk[n].live.manifest
    BY <1>1, <2>2 DEF AsideFails, Drop, Cut
  <2> QED BY <2>1, <2>2
<1>4. disk' = [disk EXCEPT ![n] = d]
  BY <1>1, <1>2 DEF FoldersOf
<1>5. e \in FoldersOf /\ e.live = disk[n].live /\ e.backup = disk[n].backup
  BY ZenonT(60), <1>1, Typing, PartsChange
<1>6. kept \in Folder
  BY <1>1, <1>2, Typing DEF FoldersOf
<1> HIDE DEF e
<1>7. d \in FoldersOf /\ d.live = disk[n].live
  BY <1>5, <1>6, PartsChange
<1>8. n \in owned' => Held(d, c)
  <2> HIDE DEF d
  <2>1. n \in owned /\ ~disk[n].live.manifest => cut[n] >= 1
    BY <1>1 DEF Held
  <2> QED BY <1>1, <1>7, <2>1 DEF Held
<1> HIDE DEF d, c, n
<1>9. n = req[r].name /\ req[r].pc \in Inside
  BY DEF n, Inside
<1> QED BY <1>1, <1>3, <1>4, <1>7, <1>8, <1>9, OverKeeps

LEMMA MoveAsideKeeps == ASSUME IInv, NEW r \in Reqs, MoveAside(r) PROVE IInv'
<1> DEFINE n == req[r].name  w == [req[r] EXCEPT !.pc = "place"]
           e == [disk[n] EXCEPT !.backup = disk[n].live]  d == [e EXCEPT !.live = Absent]
<1>1. /\ boot.pc = "up" /\ req[r].pc = "swap" /\ UNCHANGED <<owned, boot, catalog, asked>>
  BY DEF MoveAside, Serving, manager
<1>2. /\ lock = r
      /\ disk[n].staging.bytes = req[r].entry /\ disk[n].staging.version = req[r].entry
      /\ disk[n].staging.manifest
  BY <1>1 DEF IInv, OneInside, Inside, Staged
<1>3. CASE AsideFails(r)
  BY <1>1, <1>3, AsideFailsKeeps
<1>4. CASE /\ req' = [req EXCEPT ![r] = w] /\ UNCHANGED <<lock, cut>>
           /\ disk' = [disk EXCEPT ![n].backup = disk[n].live, ![n].live = Absent]
  <2>1. /\ req[r] \in Work /\ n \in Names /\ disk[n] \in FoldersOf /\ req[r].bytes = req[r].entry
        /\ disk \in [Names -> FoldersOf]
        /\ n \in owned => Held(disk[n], cut[n])
        /\ cut[n] \in Nat /\ cut' = [cut EXCEPT ![n] = cut[n]]
    BY <1>1, <1>4, WhatItHolds DEF FoldersOf, Inside
  <2>2. w \in Work /\ w.pc = "place" /\ w.name = n /\ w.entry = req[r].entry /\ w.bytes = w.entry
    <3>1. "place" \in Places /\ 0 \in Nat
      BY DEF Places
    <3> QED BY ZenonT(60), <2>1, <3>1, MovesOn
  <2>3. disk[n].live \in Folder
    BY <2>1 DEF FoldersOf
  <2>4. disk' = [disk EXCEPT ![n] = d]
    BY <1>4, <2>1 DEF FoldersOf
  <2>5. e \in FoldersOf /\ e.staging = disk[n].staging /\ e.backup = disk[n].live
    BY <2>1, <2>3, PartsChange
  <2> HIDE DEF e
  <2>6. d \in FoldersOf /\ d.staging = disk[n].staging /\ d.backup = disk[n].live /\ d.live = Absent
    BY <2>5, Typing, PartsChange
  <2>7. /\ d \in [live : Folder, staging : Folder, backup : Folder]
        /\ d.staging.bytes = w.entry /\ d.staging.version = w.entry /\ d.staging.manifest
        /\ ~d.live.manifest
        /\ n \in owned' => d.backup.manifest \/ cut[n] >= 1
    <3> HIDE DEF d, w
    <3> QED BY <1>1, <1>2, <2>1, <2>2, <2>6, Typing DEF FoldersOf, Held
  <2>8. n = req[r].name /\ req[r].pc \in Inside /\ w.pc \in Inside /\ lock' = r
    BY <1>1, <1>2, <1>4, <2>2 DEF Inside
  <2>9. req' = [req EXCEPT ![r] = w]
    BY <1>4
  <2> HIDE DEF d, w, n
  <2> QED BY <1>1, <2>1, <2>2, <2>4, <2>7, <2>8, <2>9, InsideKeeps
<1> QED BY <1>3, <1>4 DEF MoveAside, Become

(* The second rename fails: of the plugin only the backup is left, or this *)
(* was the second swap to be cut short.                                    *)
LEMMA PlaceFailsKeeps ==
  ASSUME IInv, NEW r \in Reqs, boot.pc = "up", req[r].pc = "place", Abort(r), Cut(req[r].name),
         UNCHANGED <<owned, boot, catalog, asked>>
  PROVE  IInv'
<1> DEFINE n == req[r].name  d == [disk[n] EXCEPT !.staging = Absent]
           c == IF disk[n].live.manifest THEN cut[n] ELSE cut[n] + 1
<1>1. /\ req[r] \in Work /\ disk[n] \in FoldersOf /\ disk \in [Names -> FoldersOf] /\ n \in Names
      /\ disk[n].live.manifest => disk[n].live.bytes = disk[n].live.version
      /\ cut[n] \in Nat /\ cut = [cut EXCEPT ![n] = cut[n]]
  BY WhatItHolds DEF FoldersOf, Inside
<1>2. req' = [req EXCEPT ![r] = Idle] /\ disk' = [disk EXCEPT ![n] = d]
      /\ cut' = [cut EXCEPT ![n] = c] /\ c \in Nat
  <2>1. CASE disk[n].live.manifest
    BY <1>1, <2>1 DEF Abort, Drop, Cut
  <2>2. CASE ~disk[n].live.manifest
    BY <1>1, <2>2 DEF Abort, Drop, Cut
  <2> QED BY <2>1, <2>2
<1>3. d \in FoldersOf /\ d.live = disk[n].live /\ d.backup = disk[n].backup
  BY ZenonT(60), <1>1, Typing, PartsChange
<1>4. n \in owned' => Held(d, c)
  <2> HIDE DEF d
  <2>1. n \in owned => \/ Held(disk[n], cut[n])
                       \/ disk[n].backup.manifest \/ cut[n] >= 1
    BY DEF IInv, OnDisk
  <2> QED BY <1>1, <1>3, <2>1 DEF Held
<1> HIDE DEF d, c, n
<1>5. n = req[r].name /\ req[r].pc \in Inside
  BY DEF n, Inside
<1> QED BY <1>1, <1>2, <1>3, <1>4, <1>5, OverKeeps

LEMMA PlaceKeeps == ASSUME IInv, NEW r \in Reqs, Place(r) PROVE IInv'
<1> DEFINE n == req[r].name  w == [req[r] EXCEPT !.pc = "clean"]
           e == [disk[n] EXCEPT !.live = disk[n].staging]  d == [e EXCEPT !.staging = Absent]
<1>1. /\ boot.pc = "up" /\ req[r].pc = "place" /\ UNCHANGED <<boot, catalog, asked>>
  BY DEF Place, Serving, manager
<1>2. /\ lock = r
      /\ disk[n].staging.bytes = req[r].entry /\ disk[n].staging.version = req[r].entry
      /\ disk[n].staging.manifest
  BY <1>1 DEF IInv, OneInside, Inside, Staged
<1>3. CASE Abort(r) /\ Cut(n) /\ UNCHANGED owned
  BY <1>1, <1>3, PlaceFailsKeeps
<1>4. CASE /\ req' = [req EXCEPT ![r] = w] /\ lock' = lock
           /\ owned' = owned \union {n} /\ cut' = [cut EXCEPT ![n] = 0]
           /\ disk' = [disk EXCEPT ![n].live = disk[n].staging, ![n].staging = Absent]
  <2>1. /\ req[r] \in Work /\ n \in Names /\ disk[n] \in FoldersOf /\ req[r].bytes = req[r].entry
        /\ disk \in [Names -> FoldersOf]
    BY <1>1, WhatItHolds DEF FoldersOf, Inside
  <2>2. w \in Work /\ w.pc = "clean" /\ w.name = n /\ w.entry = req[r].entry /\ w.bytes = w.entry
    <3>1. "clean" \in Places /\ 0 \in Nat
      BY DEF Places
    <3> QED BY ZenonT(60), <2>1, <3>1, MovesOn
  <2>3. disk[n].staging \in Folder
    BY <2>1 DEF FoldersOf
  <2>4. disk' = [disk EXCEPT ![n] = d]
    BY <1>4, <2>1 DEF FoldersOf
  <2>5. e \in FoldersOf /\ e.live = disk[n].staging
    BY <2>1, <2>3, PartsChange
  <2> HIDE DEF e
  <2>6. d \in FoldersOf /\ d.live = disk[n].staging
    BY <2>5, Typing, PartsChange
  <2>7. /\ d \in [live : Folder, staging : Folder, backup : Folder]
        /\ d.live.manifest /\ d.live.bytes = d.live.version /\ Held(d, 0) /\ 0 \in Nat
    <3> HIDE DEF d
    <3> QED BY <1>2, <2>6 DEF FoldersOf, Held
  <2>8. n = req[r].name /\ req[r].pc \in Inside /\ w.pc \in Inside /\ lock' = r
    BY <1>1, <1>2, <1>4, <2>2 DEF Inside
  <2>9. req' = [req EXCEPT ![r] = w] /\ owned' \in {owned, owned \union {n}} /\ cut' = [cut EXCEPT ![n] = 0]
    BY <1>4
  <2> HIDE DEF d, w, n
  <2> QED BY <1>1, <2>1, <2>2, <2>4, <2>7, <2>8, <2>9, InsideKeeps
<1> QED BY <1>3, <1>4 DEF Place, FailsAt, Become

LEMMA CleanKeeps == ASSUME IInv, NEW r \in Reqs, Clean(r) PROVE IInv'
<1> DEFINE n == req[r].name  d == [disk[n] EXCEPT !.backup = Absent]
<1>1. /\ boot.pc = "up" /\ req[r].pc = "clean" /\ req' = [req EXCEPT ![r] = Idle]
      /\ disk' = [disk EXCEPT ![n] = d]
      /\ UNCHANGED <<owned, cut, boot, catalog, asked>>
  BY DEF Clean, Serving, Drop, manager
<1>2. n \in owned => disk[n].live.manifest
  BY <1>1 DEF IInv, Staged
<1>3. /\ disk[n] \in FoldersOf
      /\ disk[n].live.manifest => disk[n].live.bytes = disk[n].live.version
      /\ cut[n] \in Nat /\ cut' = [cut EXCEPT ![n] = cut[n]]
  BY <1>1, WhatItHolds DEF FoldersOf, Inside
<1>4. d \in FoldersOf /\ d.live = disk[n].live
  BY <1>3, Typing, PartsChange
<1> HIDE DEF d
<1>5. n \in owned' => Held(d, cut[n])
  BY <1>1, <1>2, <1>4 DEF Held
<1> DEFINE c == cut[n]
<1>6. c \in Nat /\ cut' = [cut EXCEPT ![n] = c] /\ (n \in owned => Held(d, c))
  BY <1>1, <1>3, <1>5
<1>7. d.live.manifest => d.live.bytes = d.live.version
  BY <1>3, <1>4
<1> HIDE DEF c, n
<1>8. n = req[r].name /\ req[r].pc \in Inside /\ UNCHANGED <<owned, boot, catalog, asked>>
  BY <1>1 DEF n, Inside
<1>9. boot.pc = "up" /\ req' = [req EXCEPT ![r] = Idle] /\ disk' = [disk EXCEPT ![n] = d]
  BY <1>1
<1> QED BY <1>4, <1>6, <1>7, <1>8, <1>9, OverKeeps

-----------------------------------------------------------------------------
(* Removals, crashes, and what does not touch the disk                     *)

LEMMA UninstallKeeps == ASSUME IInv, NEW n \in Names, Uninstall(n) PROVE IInv'
<1> DEFINE d == [disk[n] EXCEPT !.live = Absent]
<1>1. /\ disk' = [disk EXCEPT ![n] = d] /\ owned' = owned \ {n}
      /\ UNCHANGED <<lock, cut, boot, catalog, req, asked>>
  BY DEF Uninstall, manager
<1>2. disk \in [Names -> FoldersOf] /\ disk[n] \in FoldersOf
  BY DEF IInv, Types, FoldersOf
<1>3. d \in FoldersOf /\ d.live = Absent /\ d.staging = disk[n].staging /\ d.backup = disk[n].backup
  BY <1>2, Typing, PartsChange
<1> HIDE DEF d
<1>4. /\ disk' \in [Names -> FoldersOf] /\ disk'[n] = d
      /\ \A m \in Names \ {n} : disk'[m] = disk[m]
  BY <1>1, <1>2, <1>3
<1>6. Types' /\ OneInside'
  BY <1>1, <1>4 DEF IInv, Types, OneInside, FoldersOf
<1>7. \A m \in Names : disk'[m].staging = disk[m].staging /\ disk'[m].backup = disk[m].backup
  BY <1>3, <1>4
<1>8. Staged'
  <2> SUFFICES ASSUME NEW q \in Reqs
               PROVE  /\ req[q].pc \in Inside \union {"locking"} => req[q].bytes = req[q].entry
                      /\ req[q].pc \in {"manifest", "pip", "swap", "place"} =>
                           disk'[req[q].name].staging.bytes = req[q].entry
                      /\ req[q].pc \in {"pip", "swap", "place"} =>
                           /\ disk'[req[q].name].staging.version = req[q].entry
                           /\ disk'[req[q].name].staging.manifest
                      /\ req[q].pc = "clean" /\ req[q].name \in owned' => disk'[req[q].name].live.manifest
    BY <1>1 DEF Staged
  <2>1. CASE req[q].pc \in Inside \union {"locking"}
    <3>1. req[q].name \in Names
      BY <2>1 DEF IInv, OneInside, Inside
    <3> QED BY <1>1, <1>4, <1>7, <3>1 DEF IInv, Staged
  <2>2. CASE req[q].pc \notin Inside \union {"locking"}
    BY <2>2 DEF Inside
  <2> QED BY <2>1, <2>2
<1>9. LiveIsChecked'
  BY <1>3, <1>4, Typing DEF IInv, LiveIsChecked
<1>10. \A m \in owned' : OnDisk(m)'
  <2> SUFFICES ASSUME NEW m \in owned' PROVE OnDisk(m)'
    OBVIOUS
  <2>1. m \in Names \ {n} /\ OnDisk(m)
    BY <1>1 DEF IInv
  <2> QED BY <1>1, <1>4, <2>1 DEF OnDisk, Placing
<1> QED BY <1>1, <1>6, <1>8, <1>9, <1>10 DEF IInv

(* A crash between the two renames leaves the backup, or is the second     *)
(* such event.                                                             *)
LEMMA RestartKeeps == ASSUME IInv, Restart PROVE IInv'
<1>1. /\ req' = [r \in Reqs |-> Idle] /\ lock' = None
      /\ cut' = [n \in Names |-> IF Placing(n) THEN cut[n] + 1 ELSE cut[n]]
      /\ UNCHANGED <<disk, owned, catalog, asked>>
  BY DEF Restart
<1>2. Types'
  BY <1>1, Typing DEF IInv, Types
<1>3. OneInside' /\ Staged'
  BY <1>1, Typing DEF OneInside, Staged, Inside
<1>4. \A n \in owned' : OnDisk(n)'
  <2> SUFFICES ASSUME NEW n \in owned PROVE OnDisk(n)'
    BY <1>1
  <2>1. n \in Names /\ OnDisk(n) /\ cut[n] \in Nat
    BY DEF IInv, Types
  <2>2. CASE Placing(n)
    <3>1. cut'[n] = cut[n] + 1
      BY <1>1, <2>1, <2>2
    <3> QED BY <1>1, <2>1, <3>1 DEF OnDisk, Held
  <2>3. CASE ~Placing(n)
    <3>1. cut'[n] = cut[n]
      BY <1>1, <2>1, <2>3
    <3> QED BY <1>1, <2>1, <2>3, <3>1 DEF OnDisk, Held
  <2> QED BY <2>2, <2>3
<1> QED BY <1>1, <1>2, <1>3, <1>4 DEF IInv, LiveIsChecked

(* The checker gives up its call: what it held passes to the late one.     *)
LEMMA GiveUpKeeps == ASSUME IInv, GiveUp PROVE IInv'
<1>1. /\ req[Bot].pc # "idle" /\ req[Late].pc = "idle"
      /\ req' = [req EXCEPT ![Late] = req[Bot], ![Bot] = Idle]
      /\ lock' = IF lock = Bot THEN Late ELSE lock
      /\ UNCHANGED <<disk, owned, cut, boot, catalog, asked>>
  BY DEF GiveUp, manager
<1>2. /\ req' \in [Reqs -> Work] /\ req'[Late] = req[Bot] /\ req'[Bot] = Idle
      /\ \A q \in Reqs \ {Bot, Late} : req'[q] = req[q]
  BY <1>1, Typing DEF IInv, Types
<1>3. Types'
  BY <1>1, <1>2 DEF IInv, Types
<1>4. OneInside'
  <2> SUFFICES ASSUME NEW q \in Reqs
               PROVE  /\ boot.pc # "up" => req'[q].pc = "idle"
                      /\ req'[q].pc # "idle" => req'[q].name \in Names
                      /\ req'[q].pc \in Inside => lock' = q
    BY <1>1 DEF OneInside
  <2>1. CASE q = Bot
    BY <1>2, <2>1, Typing DEF Inside
  <2>2. CASE q = Late
    <3>1. boot.pc = "up" /\ req[Bot].name \in Names /\ (req[Bot].pc \in Inside => lock = Bot)
      BY <1>1, Typing DEF IInv, OneInside
    <3> QED BY <1>1, <1>2, <2>2, <3>1
  <2>3. CASE q \notin {Bot, Late}
    BY <1>1, <1>2, <2>3 DEF IInv, OneInside
  <2> QED BY <2>1, <2>2, <2>3
<1>5. Staged'
  <2> SUFFICES ASSUME NEW q \in Reqs
               PROVE  /\ req'[q].pc \in Inside \union {"locking"} => req'[q].bytes = req'[q].entry
                      /\ req'[q].pc \in {"manifest", "pip", "swap", "place"} =>
                           disk[req'[q].name].staging.bytes = req'[q].entry
                      /\ req'[q].pc \in {"pip", "swap", "place"} =>
                           /\ disk[req'[q].name].staging.version = req'[q].entry
                           /\ disk[req'[q].name].staging.manifest
                      /\ req'[q].pc = "clean" /\ req'[q].name \in owned => disk[req'[q].name].live.manifest
    BY <1>1 DEF Staged
  <2>1. CASE q = Bot
    BY <1>2, <2>1, Typing DEF Inside
  <2>2. CASE q # Bot
    <3>1. PICK p \in Reqs : req'[q] = req[p]
      BY <1>2, <2>2, Typing
    <3> QED BY <3>1 DEF IInv, Staged
  <2> QED BY <2>1, <2>2
<1>6. \A n \in owned' : OnDisk(n)'
  <2>1. \A n : Placing(n) => Placing(n)'
    <3> SUFFICES ASSUME NEW n, NEW p \in Reqs, req[p].pc = "place", req[p].name = n
                 PROVE  \E q \in Reqs : req'[q].pc = "place" /\ req'[q].name = n
      BY DEF Placing
    <3>1. CASE p = Bot
      BY <1>2, <3>1, Typing
    <3>2. CASE p # Bot
      BY <1>1, <1>2, <3>2, Typing
    <3> QED BY <3>1, <3>2
  <2> QED BY <1>1, <2>1 DEF IInv, OnDisk
<1> QED BY <1>1, <1>3, <1>4, <1>5, <1>6 DEF IInv, LiveIsChecked

(* A step of the manager, the checker or the catalogue: no install moves,  *)
(* and if one is under way the API stays up.                               *)
LEMMA AsideKeeps ==
  ASSUME IInv, UNCHANGED <<files, req, asked>>,
         UNCHANGED boot.pc \/ \A r \in Reqs : req[r].pc = "idle",
         catalog' \in [Names -> Nat]
  PROVE  IInv'
<1>1. Types' /\ OneInside'
  BY DEF IInv, Types, OneInside, files
<1>2. Staged' /\ LiveIsChecked'
  BY DEF IInv, Staged, LiveIsChecked, files
<1>3. \A n \in owned' : OnDisk(n)'
  BY DEF IInv, OnDisk, Placing, files
<1> QED BY <1>1, <1>2, <1>3 DEF IInv, files

LEMMA OthersKeep ==
  ASSUME IInv, Tick \/ Boots \/ Stop \/ StopStarting \/ (\E n \in Names : Publish(n))
               \/ (\E p \in Plugins : TaskEnds(p)) \/ UNCHANGED vars
  PROVE  IInv'
<1>0. /\ catalog \in [Names -> Nat]
      /\ boot.pc # "up" => \A r \in Reqs : req[r].pc = "idle"
  BY DEF IInv, Types, OneInside
<1>1. CASE Tick \/ (\E p \in Plugins : TaskEnds(p)) \/ UNCHANGED vars
  <2>1. UNCHANGED <<files, req, asked, boot, catalog>>
    BY <1>1 DEF Tick, TaskEnds, vars, manager
  <2> QED BY <1>0, <2>1, AsideKeeps
<1>2. CASE Boots
  <2>1. boot.pc # "up" /\ UNCHANGED <<files, req, asked, catalog>>
    BY <1>2 DEF Boots, Discover, PreInit, Compose, PostInit, Up, Close, vars
  <2> QED BY <1>0, <2>1, AsideKeeps
<1>3. CASE Stop \/ StopStarting
  <2>1. (\A r \in Reqs : req[r].pc = "idle") /\ UNCHANGED <<files, req, asked, catalog>>
    BY <1>0, <1>3 DEF Stop, StopStarting
  <2> QED BY <1>0, <2>1, AsideKeeps
<1>4. ASSUME NEW n \in Names, Publish(n) PROVE IInv'
  <2>1. catalog' = [catalog EXCEPT ![n] = @ + 1] /\ UNCHANGED <<files, req, asked, boot>>
    BY <1>4 DEF Publish, manager
  <2>2. catalog' \in [Names -> Nat]
    BY <1>0, <2>1
  <2> QED BY <2>1, <2>2, AsideKeeps
<1> QED BY <1>1, <1>2, <1>3, <1>4

-----------------------------------------------------------------------------
LEMMA InvStep == ASSUME IInv, [Next]_vars PROVE IInv'
<1>1. ASSUME NEW r \in Reqs, Installs(r) PROVE IInv'
  BY <1>1, FetchEntryKeeps, FetchArchiveKeeps, LockKeeps, ExtractKeeps, WriteManifestKeeps, PipKeeps,
     MoveAsideKeeps, PlaceKeeps, CleanKeeps DEF Installs, Handles
<1>2. ASSUME NEW n \in Names, Uninstall(n) PROVE IInv'
  BY <1>2, UninstallKeeps
<1> QED BY <1>1, <1>2, RestartKeeps, GiveUpKeeps, OthersKeep DEF Next

LEMMA InvImplies == ASSUME IInv PROVE FoldersStayWhole
<1>1. ASSUME NEW n \in owned, cut[n] < 2
      PROVE  \E part \in {"live", "staging", "backup"} : disk[n][part].manifest
  <2>1. CASE Placing(n)
    <3>1. disk[n].staging.manifest
      BY <2>1 DEF IInv, Staged, Placing
    <3> QED BY <3>1
  <2>2. CASE ~Placing(n)
    <3>1. cut[n] \in Nat /\ Held(disk[n], cut[n])
      BY <2>2 DEF IInv, Types, OnDisk
    <3>2. disk[n].live.manifest \/ disk[n].backup.manifest
      BY <1>1, <3>1 DEF Held
    <3> QED BY <3>2
  <2> QED BY <2>1, <2>2
<1> QED BY <1>1 DEF FoldersStayWhole, IInv, LiveIsChecked

(* Whichever installs, removals, updates and publications overlap and      *)
(* whatever fails or dies, what will be imported is what the catalogue's   *)
(* checksum named, it came from the pinned hosts, and it takes two swaps   *)
(* cut short to take a plugin off the disk (install_service.py,            *)
(* _swap_into_place and the except branches; index_client.py).             *)
THEOREM PluginsAreNotLost == Spec => []FoldersStayWhole
<1>1. Init => IInv
  BY InvInit
<1>2. IInv /\ [Next]_vars => IInv'
  BY InvStep
<1>3. IInv => FoldersStayWhole
  BY InvImplies
<1> QED BY <1>1, <1>2, <1>3, PTL DEF Spec

-----------------------------------------------------------------------------
(* Hooks, by the place of a plugin in what was found: two plugins may have *)
(* one name.                                                               *)
Fields == {"pc", "found", "at", "claimed", "active", "survivors", "nodes", "tabs"}
Phases == {"off", "dead", "pre_init", "post_init", "up", "closing", "closed"}
Teardowns == {"closing", "closed"}
Found == DOMAIN boot.found

(* A list of places, each there once.                                      *)
Lists(s, D) ==
  /\ s \in Seq(Nat)
  /\ \A k \in DOMAIN s : s[k] \in D
  /\ \A j, k \in DOMAIN s : s[j] = s[k] => j = k
In(s, i) == \E k \in DOMAIN s : s[k] = i

Shape ==
  /\ DOMAIN boot = Fields /\ boot.pc \in Phases /\ boot.at \in Nat
  /\ \E R : boot.found \in Seq(R)
  /\ Lists(boot.active, Found) /\ Lists(boot.survivors, Found)
  /\ opened \in [Found -> 0..1] /\ closed \in [Found -> Nat]

Paired == boot.pc \notin Teardowns => \A i \in Found : closed[i] <= opened[i]

(* Before POST_INIT nothing was opened, and what is active was passed.     *)
Unopened ==
  /\ boot.at >= 1 /\ boot.survivors = <<>>
  /\ \A i \in Found : opened[i] = 0 /\ closed[i] = 0
  /\ \A k \in DOMAIN boot.active : boot.active[k] < boot.at
Loading ==
  /\ boot.pc = "off" => tasks = {}
  /\ boot.pc = "pre_init" => tasks = {} /\ Unopened

(* While plugins are opened, those before the cursor have been.            *)
Starting == boot.pc = "post_init" =>
  /\ boot.at >= 1 /\ boot.at <= Len(boot.active) + 1
  /\ \A i \in Found : opened[i] = 1 <=> \E k \in DOMAIN boot.active : k < boot.at /\ boot.active[k] = i

(* A survivor is open, and whatever else was opened is closed; a task has  *)
(* a survivor of its name.                                                 *)
Surviving == boot.pc \in {"post_init", "up"} =>
  /\ \A i \in Found : IF In(boot.survivors, i) THEN opened[i] = 1 /\ closed[i] = 0
                      ELSE closed[i] = opened[i]
  /\ \A t \in tasks : \E i \in Found : In(boot.survivors, i) /\ boot.found[i].name = t
  /\ boot.pc = "up" => boot.active = boot.survivors

(* Going back through the list, those behind the cursor have been closed,  *)
(* by this or before; if the list is the survivors', by this alone.        *)
Ending == boot.pc \in Teardowns =>
  /\ tasks = {} /\ boot.at <= Len(boot.active) /\ (boot.pc = "closed" => boot.at = 0)
  /\ \A i \in Found : ~In(boot.active, i) => opened[i] = closed[i]
  /\ \A k \in DOMAIN boot.active : LET i == boot.active[k] IN
       IF k > boot.at THEN /\ opened[i] <= closed[i] /\ closed[i] <= opened[i] + 1
                           /\ boot.active = boot.survivors => opened[i] = closed[i]
       ELSE /\ closed[i] <= opened[i]
            /\ boot.active = boot.survivors => opened[i] = 1 /\ closed[i] = 0

HInv == Shape /\ Paired /\ Loading /\ Starting /\ Surviving /\ Ending
Hooked == setup \in Starts /\ HInv

-----------------------------------------------------------------------------
LEMMA ListIsSeq ==
  ASSUME NEW n \in Nat, NEW s, s = [i \in 1..n |-> s[i]]
  PROVE  s \in Seq(Range(s)) /\ Len(s) = n
<1>1. s \in [1..n -> Range(s)]
  BY DEF Range
<1>2. s \in Seq(Range(s))
  BY <1>1, SeqDef
<1> QED BY <1>1, <1>2

(* What discovery finds is a list: the entry points, then the folders.     *)
LEMMA FoundIsList ==
  ASSUME setup \in Starts, NEW folders \in FolderPlugins
  PROVE  \E R : setup.entries \o folders \in Seq(R)
<1> DEFINE S == {n \in Names : Loads(n)}
           N == Cardinality(S)
<1>1. N \in Nat
  <2>1. IsFiniteSet(S)
    BY PluginAssumption, FS_Subset
  <2> QED BY <2>1, FS_CardinalityType
<1>2. PICK f \in Sorted(S) : folders = [i \in DOMAIN f |-> [name |-> f[i], source |-> "folder",
                                          does |-> Conduct[f[i]][disk[f[i]].live.version]]]
  BY DEF FolderPlugins
<1>3. DOMAIN folders = 1..N /\ folders = [i \in 1..N |-> folders[i]]
  BY <1>2 DEF Sorted
<1> HIDE DEF N
<1>4. folders \in Seq(Range(folders))
  BY <1>1, <1>3, ListIsSeq
<1> DEFINE R == Range(setup.entries)  T == R \union Range(folders)
<1>5. setup.entries \in Seq(R)
  BY PluginAssumption
<1>6. setup.entries \in Seq(T) /\ folders \in Seq(T)
  BY <1>4, <1>5, SeqMonotonic
<1> HIDE DEF T
<1> QED BY <1>6, ConcatProperties

(* A list of the places of a process, one longer.                          *)
LEMMA Longer ==
  ASSUME NEW D, NEW s, Lists(s, D), NEW i \in Nat, i \in D, ~In(s, i)
  PROVE  /\ Lists(Append(s, i), D) /\ In(Append(s, i), i)
         /\ \A j : j # i => (In(Append(s, i), j) <=> In(s, j))
         /\ \A k \in DOMAIN Append(s, i) : Append(s, i)[k] = i \/ In(s, Append(s, i)[k])
<1> DEFINE t == Append(s, i)
<1>1. s \in Seq(Nat) /\ Len(s) \in Nat /\ DOMAIN s = 1..Len(s)
  BY DEF Lists
<1>2. /\ t \in Seq(Nat) /\ Len(t) = Len(s) + 1
      /\ t[Len(s) + 1] = i /\ \A k \in 1..Len(s) : t[k] = s[k]
  BY <1>1, AppendProperties
<1> HIDE DEF t
<1>3. DOMAIN t = 1..(Len(s) + 1)
  BY <1>1, <1>2
<1>4. \A k \in DOMAIN t : (k \in DOMAIN s /\ t[k] = s[k]) \/ (k = Len(s) + 1 /\ t[k] = i)
  BY <1>1, <1>2, <1>3
<1>5. \A k \in DOMAIN t : t[k] \in D
  BY <1>4 DEF Lists
<1>6. \A j, k \in DOMAIN t : t[j] = t[k] => j = k
  BY <1>1, <1>4 DEF Lists, In
<1>7. In(t, i)
  BY <1>1, <1>2, <1>3 DEF In
<1>8. \A j : j # i => (In(t, j) <=> In(s, j))
  <2>1. \A j : In(s, j) => In(t, j)
    BY <1>1, <1>2, <1>3 DEF In
  <2>2. \A j : j # i /\ In(t, j) => In(s, j)
    BY <1>4 DEF In
  <2> QED BY <2>1, <2>2
<1>9. \A k \in DOMAIN t : t[k] = i \/ In(s, t[k])
  BY <1>4 DEF In
<1> QED BY <1>2, <1>5, <1>6, <1>7, <1>8, <1>9 DEF Lists, t

LEMMA EmptyLists == Lists(<<>>, {}) /\ (\A D : Lists(<<>>, D)) /\ \A i : ~In(<<>>, i)
<1>1. <<>> \in Seq(Nat) /\ DOMAIN <<>> = {}
  OBVIOUS
<1> QED BY <1>1 DEF Lists, In

-----------------------------------------------------------------------------
(* The lists, and what was found, stay as they are.                        *)
LEMMA ShapeStays ==
  ASSUME Shape, DOMAIN boot' = Fields, boot'.pc \in Phases, boot'.at \in Nat,
         boot'.found = boot.found, boot'.active \in {boot.active, boot.survivors},
         boot'.survivors = boot.survivors,
         opened' \in [Found -> 0..1], closed' \in [Found -> Nat]
  PROVE  Shape'
  BY DEF Shape, Lists, Found

LEMMA GoneHooks ==
  ASSUME boot' = Off, tasks' = {}, opened' = <<>>, closed' = <<>> PROVE HInv'
<1>1. /\ DOMAIN boot' = Fields /\ boot'.pc = "off" /\ boot'.at = 1 /\ boot'.found = <<>>
      /\ boot'.active = <<>> /\ boot'.survivors = <<>>
  BY DEF Off, Fields
<1>2. <<>> \in Seq({}) /\ <<>> \in Seq(Nat) /\ DOMAIN <<>> = {}
  OBVIOUS
<1>3. Shape'
  <2>1. opened' \in [{} -> 0..1] /\ closed' \in [{} -> Nat]
    BY <1>2
  <2> QED BY <1>1, <1>2, <2>1 DEF Shape, Phases, Lists, Found
<1> QED BY <1>1, <1>2, <1>3 DEF HInv, Paired, Loading, Unopened, Starting, Surviving, Ending, Teardowns, Found

LEMMA HooksInit == ASSUME Init PROVE HInv
<1>1. boot = Off /\ tasks = {} /\ opened = <<>> /\ closed = <<>>
  BY DEF Init
<1>2. /\ DOMAIN boot = Fields /\ boot.pc = "off" /\ boot.at = 1 /\ boot.found = <<>>
      /\ boot.active = <<>> /\ boot.survivors = <<>>
  BY <1>1 DEF Off, Fields
<1>3. <<>> \in Seq({}) /\ <<>> \in Seq(Nat) /\ DOMAIN <<>> = {}
  OBVIOUS
<1>4. Shape
  <2>1. opened \in [{} -> 0..1] /\ closed \in [{} -> Nat]
    BY <1>1, <1>3
  <2> QED BY <1>2, <1>3, <2>1 DEF Shape, Phases, Lists, Found
<1>5. Paired /\ Starting /\ Surviving /\ Ending
  <2>1. Found = {}
    BY <1>2, <1>3 DEF Found
  <2> QED BY <1>2, <2>1 DEF Paired, Starting, Surviving, Ending, Teardowns
<1>6. Loading
  BY <1>1, <1>2 DEF Loading
<1> QED BY <1>4, <1>5, <1>6 DEF HInv

(* The start has failed before or in POST_INIT.                            *)
LEMMA DeadHooks ==
  ASSUME HInv, boot' = [boot EXCEPT !.pc = "dead"], UNCHANGED closed,
         opened' \in [Found -> 0..1], \A i \in Found : closed[i] <= opened'[i]
  PROVE  HInv'
<1>1. /\ DOMAIN boot' = Fields /\ boot'.pc = "dead" /\ boot'.at = boot.at /\ boot'.found = boot.found
      /\ boot'.active = boot.active /\ boot'.survivors = boot.survivors
  BY DEF HInv, Shape, Fields
<1>2. Shape'
  BY <1>1, ShapeStays DEF HInv, Shape, Phases
<1> QED BY <1>1, <1>2 DEF HInv, Paired, Loading, Unopened, Starting, Surviving, Ending, Teardowns, Found

LEMMA DiscoverHooks == ASSUME setup \in Starts, HInv, Discover PROVE HInv'
<1>1. tasks' = tasks /\ opened' = [i \in DOMAIN boot'.found |-> 0] /\ closed' = opened'
  BY DEF Discover
<1>2. PICK folders \in FolderPlugins :
        \/ boot' = [Off EXCEPT !.pc = "dead"]
        \/ boot' = [Off EXCEPT !.pc = "pre_init", !.found = setup.entries \o folders]
  BY DEF Discover
<1>3. (\E R : setup.entries \o folders \in Seq(R)) /\ <<>> \in Seq({})
  BY FoundIsList
<1>4. /\ DOMAIN boot' = Fields /\ boot'.at = 1 /\ boot'.active = <<>> /\ boot'.survivors = <<>>
      /\ boot'.pc \in {"dead", "pre_init"} /\ \E R : boot'.found \in Seq(R)
  <2>1. CASE boot' = [Off EXCEPT !.pc = "dead"]
    BY <1>3, <2>1 DEF Off, Fields
  <2>2. CASE boot' = [Off EXCEPT !.pc = "pre_init", !.found = setup.entries \o folders]
    <3>1. boot'.found = setup.entries \o folders
      BY <2>2 DEF Off
    <3>2. /\ DOMAIN boot' = Fields /\ boot'.at = 1 /\ boot'.active = <<>> /\ boot'.survivors = <<>>
          /\ boot'.pc = "pre_init"
      BY <2>2 DEF Off, Fields
    <3> QED BY <1>3, <3>1, <3>2
  <2> QED BY <1>2, <2>1, <2>2
<1>5. Shape'
  <2>1. Lists(<<>>, DOMAIN boot'.found)
    BY EmptyLists
  <2> QED BY <1>1, <1>4, <2>1 DEF Shape, Lists, Phases, Found
<1>6. Paired' /\ Starting' /\ Surviving' /\ Ending'
  BY <1>1, <1>4 DEF Paired, Starting, Surviving, Ending, Teardowns, Found
<1>7. Loading'
  <2>1. tasks = {}
    BY DEF Discover, HInv, Loading
  <2> QED BY <1>1, <1>4, <2>1, EmptyLists DEF Loading, Unopened, Found
<1> QED BY <1>5, <1>6, <1>7 DEF HInv

(* PRE_INIT: a plugin becomes active, or is passed over.                   *)
LEMMA PreInitHooks == ASSUME HInv, PreInit PROVE HInv'
<1> DEFINE c == boot.found[boot.at]
           b == [boot EXCEPT !.at = @ + 1, !.active = Append(@, boot.at),
                             !.claimed = @ \union ToSet(c.does.keys),
                             !.nodes = @ \o c.does.keys, !.tabs = @ \o c.does.tabs]
<1>1. boot.pc = "pre_init" /\ boot.at <= Len(boot.found) /\ UNCHANGED <<tasks, opened, closed>>
  BY DEF PreInit
<1>2. Shape /\ tasks = {} /\ Unopened
  BY <1>1 DEF HInv, Loading
<1>3. \/ boot' = [boot EXCEPT !.pc = "dead"]
      \/ boot' = [boot EXCEPT !.at = @ + 1]
      \/ boot' = b
  BY DEF PreInit, Reject, Current
<1>4. DOMAIN boot = Fields /\ boot.at \in Nat /\ boot.at >= 1 /\ boot.at + 1 \in Nat
  BY <1>2 DEF Shape, Unopened
<1>5. boot.at \in Found
  BY <1>1, <1>2 DEF Shape, Unopened, Found
<1>6. CASE boot' = [boot EXCEPT !.pc = "dead"]
  <2>1. opened' \in [Found -> 0..1] /\ \A i \in Found : closed[i] <= opened'[i]
    BY <1>1, <1>2 DEF Shape, Unopened
  <2> QED BY <1>1, <1>6, <2>1, DeadHooks
<1>7. ASSUME DOMAIN boot' = Fields, boot'.pc = "pre_init", boot'.at = boot.at + 1,
             boot'.found = boot.found, boot'.survivors = boot.survivors,
             Lists(boot'.active, Found), \A k \in DOMAIN boot'.active : boot'.active[k] < boot.at + 1
      PROVE  HInv'
  <2>1. Found' = Found
    BY <1>7 DEF Found
  <2>2. Shape'
    BY <1>1, <1>2, <1>4, <1>7, <2>1 DEF Shape, Phases
  <2>3. Paired' /\ Starting' /\ Surviving' /\ Ending'
    BY <1>1, <1>2, <1>7, <2>1 DEF Paired, Unopened, Starting, Surviving, Ending, Teardowns
  <2>4. Loading'
    BY <1>1, <1>2, <1>4, <1>7, <2>1 DEF Loading, Unopened
  <2> QED BY <2>2, <2>3, <2>4 DEF HInv
<1>8. CASE boot' = [boot EXCEPT !.at = @ + 1]
  <2>1. /\ DOMAIN boot' = Fields /\ boot'.pc = "pre_init" /\ boot'.at = boot.at + 1
        /\ boot'.found = boot.found /\ boot'.survivors = boot.survivors /\ boot'.active = boot.active
    BY <1>1, <1>4, <1>8 DEF Fields
  <2>2. Lists(boot.active, Found) /\ \A k \in DOMAIN boot.active : boot.active[k] < boot.at + 1
    <3>1. \A k \in DOMAIN boot.active : boot.active[k] \in Nat /\ boot.active[k] < boot.at
      BY <1>2 DEF Shape, Lists, Unopened
    <3> QED BY <1>2, <1>4, <3>1 DEF Shape
  <2> QED BY <1>7, <2>1, <2>2
<1>9. CASE boot' = b
  <2>1. /\ DOMAIN boot' = Fields /\ boot'.pc = "pre_init" /\ boot'.at = boot.at + 1
        /\ boot'.found = boot.found /\ boot'.survivors = boot.survivors
        /\ boot'.active = Append(boot.active, boot.at)
    BY <1>1, <1>4, <1>9 DEF Fields
  <2>2. \A k \in DOMAIN boot.active : boot.active[k] \in Nat /\ boot.active[k] < boot.at
    BY <1>2 DEF Shape, Lists, Unopened
  <2>3. ~In(boot.active, boot.at)
    BY <1>4, <2>2 DEF In
  <2> DEFINE t == Append(boot.active, boot.at)
  <2>4. Lists(t, Found) /\ \A k \in DOMAIN t : t[k] = boot.at \/ In(boot.active, t[k])
    BY <1>2, <1>4, <1>5, <2>3, Longer DEF Shape
  <2> HIDE DEF t
  <2>5. \A k \in DOMAIN t : t[k] < boot.at + 1
    <3> SUFFICES ASSUME NEW k \in DOMAIN t PROVE t[k] < boot.at + 1
      OBVIOUS
    <3>1. CASE t[k] = boot.at
      BY <1>4, <3>1
    <3>2. CASE In(boot.active, t[k])
      BY <1>4, <2>2, <3>2 DEF In
    <3> QED BY <2>4, <3>1, <3>2
  <2>6. boot'.active = t
    BY <2>1 DEF t
  <2> QED BY <1>7, <2>1, <2>4, <2>5, <2>6
<1> QED BY <1>3, <1>6, <1>8, <1>9

LEMMA ComposeHooks == ASSUME HInv, Compose PROVE HInv'
<1>1. boot.pc = "pre_init" /\ UNCHANGED <<tasks, opened, closed>>
  BY DEF Compose
<1>2. Shape /\ tasks = {} /\ Unopened
  BY <1>1 DEF HInv, Loading
<1>3. boot' = [boot EXCEPT !.pc = "post_init", !.at = 1] \/ boot' = [boot EXCEPT !.pc = "dead"]
  BY DEF Compose
<1>4. CASE boot' = [boot EXCEPT !.pc = "dead"]
  <2>1. opened' \in [Found -> 0..1] /\ \A i \in Found : closed[i] <= opened'[i]
    BY <1>1, <1>2 DEF Shape, Unopened
  <2> QED BY <1>1, <1>4, <2>1, DeadHooks
<1>5. CASE boot' = [boot EXCEPT !.pc = "post_init", !.at = 1]
  <2>1. /\ DOMAIN boot' = Fields /\ boot'.pc = "post_init" /\ boot'.at = 1
        /\ boot'.found = boot.found /\ boot'.active = boot.active /\ boot'.survivors = boot.survivors
    BY <1>2, <1>5 DEF Shape, Fields
  <2>2. Shape' /\ Found' = Found
    BY <1>1, <1>2, <2>1, ShapeStays DEF Shape, Phases, Found
  <2>3. Len(boot.active) \in Nat /\ DOMAIN boot.active = 1..Len(boot.active)
    BY <1>2 DEF Shape, Lists
  <2>4. Paired' /\ Loading' /\ Ending'
    BY <1>1, <1>2, <2>1, <2>2 DEF Paired, Loading, Ending, Unopened, Teardowns
  <2>5. Starting'
    BY <1>1, <1>2, <2>1, <2>2, <2>3 DEF Starting, Unopened
  <2>6. Surviving'
    <3>1. \A i : ~In(boot.survivors, i)
      BY <1>2, EmptyLists DEF Unopened
    <3> QED BY <1>1, <1>2, <2>1, <2>2, <3>1 DEF Surviving, Unopened
  <2> QED BY <2>2, <2>4, <2>5, <2>6 DEF HInv
<1> QED BY <1>3, <1>4, <1>5

-----------------------------------------------------------------------------
(* The plugin POST_INIT is at: nothing was done for it yet.                *)
Cursor == boot.active[boot.at]
LEMMA AtCursor ==
  ASSUME HInv, boot.pc = "post_init", boot.at <= Len(boot.active)
  PROVE  /\ boot.at \in DOMAIN boot.active /\ Cursor \in Found /\ Cursor \in Nat
         /\ opened[Cursor] = 0 /\ closed[Cursor] = 0 /\ ~In(boot.survivors, Cursor)
         /\ \A i \in Found : In(boot.survivors, i) => In(boot.active, i)
<1>1. Shape /\ Starting /\ Surviving
  BY DEF HInv
<1>2. boot.at \in DOMAIN boot.active
  BY <1>1 DEF Shape, Lists, Starting
<1>3. Cursor \in Found /\ Cursor \in Nat
  BY <1>1, <1>2 DEF Shape, Lists, Cursor
<1>4. ~(\E k \in DOMAIN boot.active : k < boot.at /\ boot.active[k] = Cursor)
  <2>1. boot.at \in Nat
    BY <1>1 DEF Shape
  <2> QED BY <1>1, <1>2, <2>1 DEF Shape, Lists, Cursor
<1>5. opened[Cursor] = 0
  BY <1>1, <1>3, <1>4 DEF Shape, Starting
<1>6. ~In(boot.survivors, Cursor) /\ closed[Cursor] = 0
  BY <1>1, <1>3, <1>5 DEF Surviving
<1>7. \A i \in Found : In(boot.survivors, i) => In(boot.active, i)
  BY <1>1 DEF Surviving, Starting, In
<1> QED BY <1>2, <1>3, <1>5, <1>6, <1>7

(* Opening it makes the set of those opened one longer.                    *)
LEMMA CursorOpens ==
  ASSUME HInv, boot.pc = "post_init", boot.at <= Len(boot.active),
         opened' = [opened EXCEPT ![Cursor] = @ + 1]
  PROVE  /\ opened' \in [Found -> 0..1] /\ opened'[Cursor] = 1
         /\ \A i \in Found : i # Cursor => opened'[i] = opened[i]
         /\ \A i \in Found : opened'[i] = 1 <=>
              \E k \in DOMAIN boot.active : k < boot.at + 1 /\ boot.active[k] = i
<1>1. Cursor \in Found /\ opened[Cursor] = 0 /\ opened \in [Found -> 0..1]
  BY AtCursor DEF HInv, Shape
<1>2. /\ opened' \in [Found -> 0..1] /\ opened'[Cursor] = 1
      /\ \A i \in Found : i # Cursor => opened'[i] = opened[i]
  BY <1>1
<1>3. /\ boot.at \in DOMAIN boot.active /\ boot.at \in Nat
      /\ DOMAIN boot.active \subseteq Nat
      /\ \A i \in Found : opened[i] = 1 <=> \E k \in DOMAIN boot.active : k < boot.at /\ boot.active[k] = i
  BY AtCursor DEF HInv, Shape, Lists, Starting
<1>4. ASSUME NEW i \in Found
      PROVE  opened'[i] = 1 <=> \E k \in DOMAIN boot.active : k < boot.at + 1 /\ boot.active[k] = i
  <2>1. CASE i = Cursor
    BY <1>2, <1>3, <2>1 DEF Cursor
  <2>2. CASE i # Cursor
    <3>1. \A k \in DOMAIN boot.active : boot.active[k] = i => (k < boot.at + 1 <=> k < boot.at)
      BY <1>3, <2>2 DEF Cursor
    <3> QED BY <1>2, <1>3, <2>2, <3>1
  <2> QED BY <2>1, <2>2
<1> QED BY <1>2, <1>4

(* The start is over in POST_INIT, and the manager shuts down.             *)
LEMMA CutShortHooks ==
  ASSUME HInv, boot.pc = "post_init", boot.at <= Len(boot.active),
         opened' = [opened EXCEPT ![Cursor] = @ + 1], UNCHANGED closed, Teardown
  PROVE  HInv'
<1>1. Shape /\ Starting /\ Surviving /\ Paired
  BY DEF HInv
<1>2. /\ DOMAIN boot' = Fields /\ boot'.pc = "closing" /\ boot'.at = Len(boot.active)
      /\ boot'.found = boot.found /\ boot'.active = boot.active /\ boot'.survivors = boot.survivors
      /\ tasks' = {}
  BY <1>1 DEF Teardown, Shape, Fields
<1>3. /\ opened' \in [Found -> 0..1] /\ opened'[Cursor] = 1
      /\ \A i \in Found : i # Cursor => opened'[i] = opened[i]
  BY CursorOpens
<1>4. Len(boot.active) \in Nat /\ DOMAIN boot.active = 1..Len(boot.active) /\ closed \in [Found -> Nat]
  BY <1>1 DEF Shape, Lists
<1>5. Shape' /\ Found' = Found
  BY <1>1, <1>2, <1>3, <1>4, ShapeStays DEF Phases, Found
<1>6. boot.active # boot.survivors /\ In(boot.active, Cursor)
  BY AtCursor DEF In, Cursor
<1>7. \A i \in Found : ~In(boot.active, i) => opened'[i] = closed[i]
  <2> SUFFICES ASSUME NEW i \in Found, ~In(boot.active, i) PROVE opened'[i] = closed[i]
    OBVIOUS
  <2>1. i # Cursor /\ ~In(boot.survivors, i)
    BY <1>6, AtCursor
  <2> QED BY <1>1, <1>3, <2>1 DEF Surviving
<1>8. \A i \in Found : closed[i] <= opened'[i]
  <2> SUFFICES ASSUME NEW i \in Found PROVE closed[i] <= opened'[i]
    OBVIOUS
  <2>1. CASE i = Cursor
    BY <1>3, <2>1, AtCursor
  <2>2. CASE i # Cursor
    BY <1>1, <1>3, <2>2 DEF Paired, Teardowns
  <2> QED BY <2>1, <2>2
<1>9. Ending'
  <2>1. \A k \in DOMAIN boot.active : ~(k > Len(boot.active)) /\ boot.active[k] \in Found
    BY <1>1, <1>4 DEF Shape, Lists
  <2> QED BY <1>2, <1>4, <1>5, <1>6, <1>7, <1>8, <2>1 DEF Ending
<1>10. Paired' /\ Loading' /\ Starting' /\ Surviving'
  BY <1>2 DEF Paired, Loading, Starting, Surviving, Teardowns
<1> QED BY <1>5, <1>9, <1>10 DEF HInv

LEMMA PostInitHooks == ASSUME HInv, PostInit PROVE HInv'
<1> DEFINE c == boot.active[boot.at]
<1>1. /\ boot.pc = "post_init" /\ boot.at <= Len(boot.active)
      /\ opened' = [opened EXCEPT ![Cursor] = @ + 1]
  BY DEF PostInit, Cursor
<1>2. \/ /\ boot' = [boot EXCEPT !.at = @ + 1, !.survivors = Append(@, c)]
         /\ tasks' = Running(Opening) /\ UNCHANGED closed
      \/ Quarantine(Opening)
      \/ Teardown /\ UNCHANGED closed
      \/ boot' = [boot EXCEPT !.pc = "dead"] /\ UNCHANGED closed
  BY DEF PostInit
<1>3. Shape /\ Paired /\ Starting /\ Surviving
  BY DEF HInv
<1>4. /\ opened' \in [Found -> 0..1] /\ opened'[c] = 1
      /\ \A i \in Found : i # c => opened'[i] = opened[i]
      /\ \A i \in Found : opened'[i] = 1 <=>
           \E j \in DOMAIN boot.active : j < boot.at + 1 /\ boot.active[j] = i
  BY <1>1, CursorOpens DEF Cursor
<1>5. /\ boot.at \in DOMAIN boot.active /\ c \in Found /\ c \in Nat
      /\ opened[c] = 0 /\ closed[c] = 0 /\ ~In(boot.survivors, c)
  BY <1>1, AtCursor DEF Cursor
<1>6. /\ DOMAIN boot = Fields /\ boot.at \in Nat /\ boot.at >= 1 /\ boot.at + 1 \in Nat
      /\ closed \in [Found -> Nat]
      /\ Len(boot.active) \in Nat /\ DOMAIN boot.active = 1..Len(boot.active)
  BY <1>1, <1>3 DEF Shape, Starting, Lists
<1>7. tasks' \subseteq tasks \union {boot.found[c].name} \/ Teardown \/ boot' = [boot EXCEPT !.pc = "dead"]
  BY <1>2 DEF Quarantine, Running, Opening
<1> HIDE DEF c
(* The start goes on, with one plugin opened.                              *)
<1>8. ASSUME DOMAIN boot' = Fields, boot'.pc = "post_init", boot'.at = boot.at + 1,
             boot'.found = boot.found, boot'.active = boot.active,
             Lists(boot'.survivors, Found), closed' \in [Found -> Nat],
             \A i \in Found : i # c => closed'[i] = closed[i] /\ (In(boot'.survivors, i) <=> In(boot.survivors, i)),
             IF In(boot'.survivors, c) THEN closed'[c] = 0 ELSE closed'[c] = 1,
             \A t \in tasks' : \E i \in Found : In(boot'.survivors, i) /\ boot.found[i].name = t
      PROVE  HInv'
  <2>1. Found' = Found
    BY <1>8 DEF Found
  <2>2. Shape'
    BY <1>3, <1>4, <1>6, <1>8, <2>1 DEF Shape, Phases
  <2>3. Paired'
    <3>1. \A i \in Found : closed'[i] <= opened'[i]
      <4> SUFFICES ASSUME NEW i \in Found PROVE closed'[i] <= opened'[i]
        OBVIOUS
      <4>1. CASE i = c
        BY <1>4, <1>8, <4>1
      <4>2. CASE i # c
        BY <1>1, <1>3, <1>4, <1>8, <4>2 DEF Paired, Teardowns
      <4> QED BY <4>1, <4>2
    <3> QED BY <2>1, <3>1 DEF Paired
  <2>4. Starting'
    <3>1. boot.at + 1 >= 1 /\ boot.at + 1 <= Len(boot.active) + 1
      BY <1>5, <1>6
    <3> QED BY <1>4, <1>8, <2>1, <3>1 DEF Starting
  <2>5. Surviving'
    <3>1. \A i \in Found : IF In(boot'.survivors, i) THEN opened'[i] = 1 /\ closed'[i] = 0
                                                    ELSE closed'[i] = opened'[i]
      <4> SUFFICES ASSUME NEW i \in Found
                   PROVE  IF In(boot'.survivors, i) THEN opened'[i] = 1 /\ closed'[i] = 0
                                                    ELSE closed'[i] = opened'[i]
        OBVIOUS
      <4>1. CASE i = c
        BY <1>4, <1>8, <4>1
      <4>2. CASE i # c
        BY <1>1, <1>3, <1>4, <1>8, <4>2 DEF Surviving
      <4> QED BY <4>1, <4>2
    <3> QED BY <1>8, <2>1, <3>1 DEF Surviving
  <2>6. Loading' /\ Ending'
    BY <1>8 DEF Loading, Ending, Teardowns
  <2> QED BY <2>2, <2>3, <2>4, <2>5, <2>6 DEF HInv
<1>9. \A t \in tasks : \E i \in Found : i # c /\ In(boot.survivors, i) /\ boot.found[i].name = t
  BY <1>1, <1>3, <1>5 DEF Surviving
<1>10. CASE /\ boot' = [boot EXCEPT !.at = @ + 1, !.survivors = Append(@, c)]
            /\ tasks' = Running(Opening) /\ UNCHANGED closed
  <2>1. /\ DOMAIN boot' = Fields /\ boot'.pc = "post_init" /\ boot'.at = boot.at + 1
        /\ boot'.found = boot.found /\ boot'.active = boot.active
        /\ boot'.survivors = Append(boot.survivors, c)
    BY <1>1, <1>6, <1>10 DEF Fields
  <2> DEFINE t == Append(boot.survivors, c)
  <2>2. Lists(t, Found) /\ In(t, c) /\ \A i : i # c => (In(t, i) <=> In(boot.survivors, i))
    BY <1>3, <1>5, Longer DEF Shape
  <2> HIDE DEF t
  <2>3. boot'.survivors = t
    BY <2>1 DEF t
  <2>4. tasks' \subseteq tasks \union {boot.found[c].name}
    BY <1>10 DEF Running, Opening, c
  <2>5. \A p \in tasks' : \E i \in Found : In(t, i) /\ boot.found[i].name = p
    BY <1>5, <1>9, <2>2, <2>4
  <2> QED BY <1>5, <1>6, <1>8, <1>10, <2>1, <2>2, <2>3, <2>5
<1>11. CASE Quarantine(Opening)
  <2>1. /\ boot' = [boot EXCEPT !.at = @ + 1] /\ closed' = [closed EXCEPT ![c] = @ + 1]
        /\ tasks' \subseteq tasks
    BY <1>11 DEF Quarantine, Running, Opening, c
  <2>2. /\ DOMAIN boot' = Fields /\ boot'.pc = "post_init" /\ boot'.at = boot.at + 1
        /\ boot'.found = boot.found /\ boot'.active = boot.active /\ boot'.survivors = boot.survivors
    BY <1>1, <1>6, <2>1 DEF Fields
  <2>3. closed' \in [Found -> Nat] /\ closed'[c] = 1 /\ \A i \in Found : i # c => closed'[i] = closed[i]
    BY <1>5, <1>6, <2>1
  <2>4. Lists(boot.survivors, Found)
    BY <1>3 DEF Shape
  <2>5. \A t \in tasks' : \E i \in Found : In(boot.survivors, i) /\ boot.found[i].name = t
    BY <1>9, <2>1
  <2> QED BY <1>5, <1>8, <2>2, <2>3, <2>4, <2>5
<1>12. CASE Teardown /\ UNCHANGED closed
  BY <1>1, <1>12, CutShortHooks
<1>13. CASE boot' = [boot EXCEPT !.pc = "dead"] /\ UNCHANGED closed
  <2>1. \A i \in Found : closed[i] <= opened'[i]
    <3> SUFFICES ASSUME NEW i \in Found PROVE closed[i] <= opened'[i]
      OBVIOUS
    <3>1. CASE i = c
      BY <1>4, <1>5, <3>1
    <3>2. CASE i # c
      BY <1>1, <1>3, <1>4, <3>2 DEF Paired, Teardowns
    <3> QED BY <3>1, <3>2
  <2> QED BY <1>4, <1>13, <2>1, DeadHooks
<1> QED BY <1>2, <1>10, <1>11, <1>12, <1>13 DEF c

LEMMA UpHooks == ASSUME HInv, Up PROVE HInv'
<1>1. /\ boot.pc = "post_init" /\ UNCHANGED <<tasks, opened, closed>>
      /\ boot' = [boot EXCEPT !.pc = "up", !.active = boot.survivors]
  BY DEF Up
<1>2. Shape /\ Paired /\ Surviving
  BY DEF HInv
<1>3. /\ DOMAIN boot' = Fields /\ boot'.pc = "up" /\ boot'.at = boot.at /\ boot'.found = boot.found
      /\ boot'.active = boot.survivors /\ boot'.survivors = boot.survivors
  BY <1>1, <1>2 DEF Shape, Fields
<1>4. Shape' /\ Found' = Found
  BY <1>1, <1>2, <1>3, ShapeStays DEF Shape, Phases, Found
<1>5. Paired'
  BY <1>1, <1>2, <1>4 DEF Paired, Teardowns
<1>6. Surviving'
  BY <1>1, <1>2, <1>3, <1>4 DEF Surviving
<1>7. Loading' /\ Starting' /\ Ending'
  BY <1>3 DEF Loading, Starting, Ending, Teardowns
<1> QED BY <1>4, <1>5, <1>6, <1>7 DEF HInv

LEMMA StopHooks == ASSUME HInv, Stop PROVE HInv'
<1>1. boot.pc = "up" /\ Teardown /\ UNCHANGED <<opened, closed>>
  BY DEF Stop
<1>2. Shape /\ Paired /\ Surviving
  BY DEF HInv
<1>3. /\ DOMAIN boot' = Fields /\ boot'.pc = "closing" /\ boot'.at = Len(boot.active)
      /\ boot'.found = boot.found /\ boot'.active = boot.active /\ boot'.survivors = boot.survivors
      /\ tasks' = {} /\ boot.active = boot.survivors
  BY <1>1, <1>2 DEF Teardown, Shape, Fields, Surviving
<1>4. Len(boot.active) \in Nat /\ DOMAIN boot.active = 1..Len(boot.active)
  BY <1>2 DEF Shape, Lists
<1>5. Shape' /\ Found' = Found
  BY <1>1, <1>2, <1>3, <1>4, ShapeStays DEF Shape, Phases, Found
<1>6. Ending'
  <2>1. \A i \in Found : ~In(boot.active, i) => opened[i] = closed[i]
    BY <1>1, <1>2, <1>3 DEF Surviving
  <2>2. \A j \in DOMAIN boot.active : /\ ~(j > Len(boot.active))
                                     /\ opened[boot.active[j]] = 1 /\ closed[boot.active[j]] = 0
    <3> SUFFICES ASSUME NEW j \in DOMAIN boot.active
                 PROVE  ~(j > Len(boot.active)) /\ opened[boot.active[j]] = 1 /\ closed[boot.active[j]] = 0
      OBVIOUS
    <3>1. boot.active[j] \in Found /\ In(boot.survivors, boot.active[j])
      BY <1>2, <1>3 DEF Shape, Lists, In
    <3> QED BY <1>1, <1>2, <1>4, <3>1 DEF Surviving
  <2> QED BY <1>1, <1>3, <1>4, <1>5, <2>1, <2>2 DEF Ending
<1>7. Paired' /\ Loading' /\ Starting' /\ Surviving'
  BY <1>3 DEF Paired, Loading, Starting, Surviving, Teardowns
<1> QED BY <1>5, <1>6, <1>7 DEF HInv

LEMMA StopStartingHooks == ASSUME HInv, StopStarting PROVE HInv'
<1>1. /\ boot.pc = "post_init" /\ boot.at <= Len(boot.active) /\ UNCHANGED closed /\ Teardown
      /\ opened' = [opened EXCEPT ![Cursor] = @ + 1]
  BY DEF StopStarting, Cursor
<1> QED BY <1>1, CutShortHooks

LEMMA CloseHooks == ASSUME HInv, Close PROVE HInv'
<1>1. boot.pc = "closing" /\ UNCHANGED <<tasks, opened>> /\ Shape /\ Ending
  BY DEF Close, HInv
<1>2. /\ DOMAIN boot = Fields /\ boot.at \in Nat /\ boot.at <= Len(boot.active)
      /\ Len(boot.active) \in Nat /\ DOMAIN boot.active = 1..Len(boot.active)
      /\ opened \in [Found -> 0..1] /\ closed \in [Found -> Nat]
      /\ \A j \in DOMAIN boot.active : boot.active[j] \in Found
      /\ \A j, l \in DOMAIN boot.active : boot.active[j] = boot.active[l] => j = l
  BY <1>1 DEF Shape, Ending, Teardowns, Lists
<1>3. CASE boot.at = 0
  <2>1. boot' = [boot EXCEPT !.pc = "closed"] /\ UNCHANGED closed
    BY <1>3 DEF Close
  <2>2. /\ DOMAIN boot' = Fields /\ boot'.pc = "closed" /\ boot'.at = 0 /\ boot'.found = boot.found
        /\ boot'.active = boot.active /\ boot'.survivors = boot.survivors
    BY <1>2, <1>3, <2>1 DEF Fields
  <2>3. Shape' /\ Found' = Found
    BY <1>1, <1>2, <2>1, <2>2, ShapeStays DEF Phases, Found
  <2>4. Ending'
    BY <1>1, <1>3, <2>1, <2>2, <2>3 DEF Ending, Teardowns
  <2>5. Paired' /\ Loading' /\ Starting' /\ Surviving'
    BY <2>2 DEF Paired, Loading, Starting, Surviving, Teardowns
  <2> QED BY <2>3, <2>4, <2>5 DEF HInv
<1>4. CASE boot.at # 0
  <2> DEFINE c == boot.active[boot.at]
  <2>1. boot' = [boot EXCEPT !.at = @ - 1] /\ closed' = [closed EXCEPT ![c] = @ + 1]
    BY <1>4 DEF Close
  <2>2. /\ DOMAIN boot' = Fields /\ boot'.pc = "closing" /\ boot'.at = boot.at - 1
        /\ boot'.found = boot.found /\ boot'.active = boot.active /\ boot'.survivors = boot.survivors
    BY <1>1, <1>2, <2>1 DEF Fields
  <2>3. boot.at - 1 \in Nat /\ boot.at - 1 <= Len(boot.active) /\ boot.at \in DOMAIN boot.active /\ c \in Found
    BY <1>2, <1>4
  <2>4. closed' \in [Found -> Nat] /\ closed'[c] = closed[c] + 1
        /\ \A i \in Found : i # c => closed'[i] = closed[i]
    BY <1>2, <2>1, <2>3
  <2>5. Shape' /\ Found' = Found
    BY <1>1, <1>2, <2>2, <2>3, <2>4, ShapeStays DEF Phases, Found
  <2>6. ~(boot.at > boot.at) /\ closed[c] <= opened[c]
        /\ (boot.active = boot.survivors => opened[c] = 1 /\ closed[c] = 0)
    BY <1>1, <1>2, <2>3 DEF Ending, Teardowns
  <2>7. \A j \in DOMAIN boot.active : LET i == boot.active[j] IN
          IF j > boot.at - 1 THEN /\ opened[i] <= closed'[i] /\ closed'[i] <= opened[i] + 1
                                  /\ boot.active = boot.survivors => opened[i] = closed'[i]
          ELSE /\ closed'[i] <= opened[i]
               /\ boot.active = boot.survivors => opened[i] = 1 /\ closed'[i] = 0
    <3> SUFFICES ASSUME NEW j \in DOMAIN boot.active, NEW i, i = boot.active[j]
                 PROVE  IF j > boot.at - 1
                        THEN /\ opened[i] <= closed'[i] /\ closed'[i] <= opened[i] + 1
                             /\ boot.active = boot.survivors => opened[i] = closed'[i]
                        ELSE /\ closed'[i] <= opened[i]
                             /\ boot.active = boot.survivors => opened[i] = 1 /\ closed'[i] = 0
      OBVIOUS
    <3>1. CASE j = boot.at
      <4>1. j > boot.at - 1 /\ i = c /\ opened[c] \in 0..1 /\ closed[c] \in Nat
        BY <1>2, <2>3, <3>1
      <4> HIDE DEF c
      <4> QED BY <2>4, <2>6, <4>1
    <3>2. CASE j # boot.at
      <4>1. i # c /\ closed'[i] = closed[i] /\ (j > boot.at - 1 <=> j > boot.at)
        BY <1>2, <2>3, <2>4, <3>2
      <4>2. IF j > boot.at
            THEN /\ opened[i] <= closed[i] /\ closed[i] <= opened[i] + 1
                 /\ boot.active = boot.survivors => opened[i] = closed[i]
            ELSE /\ closed[i] <= opened[i]
                 /\ boot.active = boot.survivors => opened[i] = 1 /\ closed[i] = 0
        BY <1>1 DEF Ending, Teardowns
      <4> QED BY <4>1, <4>2
    <3> QED BY <3>1, <3>2
  <2>8. \A i \in Found : ~In(boot.active, i) => opened[i] = closed'[i]
    <3>1. In(boot.active, c)
      BY <2>3 DEF In
    <3> QED BY <1>1, <2>4, <3>1 DEF Ending, Teardowns
  <2> HIDE DEF c
  <2>9. Ending'
    BY <1>1, <2>2, <2>3, <2>5, <2>7, <2>8 DEF Ending, Teardowns
  <2>10. Paired' /\ Loading' /\ Starting' /\ Surviving'
    BY <2>2 DEF Paired, Loading, Starting, Surviving, Teardowns
  <2> QED BY <2>5, <2>9, <2>10 DEF HInv
<1> QED BY <1>3, <1>4

-----------------------------------------------------------------------------
(* A step that is none of the manager's, but perhaps the end of a task.    *)
LEMMA OtherHooks ==
  ASSUME HInv, UNCHANGED <<boot, opened, closed>>, tasks' \subseteq tasks PROVE HInv'
<1>1. Shape' /\ Paired'
  BY DEF HInv, Shape, Paired, Found, Lists
<1>2. Loading' /\ Starting' /\ Surviving' /\ Ending'
  BY DEF HInv, Loading, Unopened, Starting, Surviving, Ending, Found, In
<1> QED BY <1>1, <1>2 DEF HInv

LEMMA HooksStep ==
  ASSUME Hooked, [Next]_vars PROVE Hooked'
<1>1. ASSUME NEW r \in Reqs, Installs(r) PROVE UNCHANGED <<manager, setup>>
  BY <1>1 DEF Installs, Handles, FetchEntry, FetchArchive, Lock, Extract, WriteManifest, Pip,
              MoveAside, Place, Clean
<1>2. ASSUME NEW n \in Names, Uninstall(n) \/ Publish(n) PROVE UNCHANGED <<manager, setup>>
  BY <1>2 DEF Uninstall, Publish
<1>3. ASSUME Tick \/ GiveUp \/ UNCHANGED vars PROVE UNCHANGED <<manager, setup>>
  BY <1>3 DEF Tick, GiveUp, vars
<1>4. ASSUME UNCHANGED <<manager, setup>> PROVE Hooked'
  BY <1>4, OtherHooks DEF Hooked, manager
<1>5. ASSUME NEW p \in Plugins, TaskEnds(p) PROVE Hooked'
  BY <1>5, OtherHooks DEF Hooked, TaskEnds
<1>6. CASE Boots
  <2>1. UNCHANGED setup
    BY <1>6 DEF Boots, Discover, PreInit, Compose, PostInit, Up, Close
  <2> QED BY <1>6, <2>1, DiscoverHooks, PreInitHooks, ComposeHooks, PostInitHooks, UpHooks, CloseHooks
          DEF Hooked, Boots
<1>7. CASE Stop \/ StopStarting
  BY <1>7, StopHooks, StopStartingHooks DEF Hooked, Stop, StopStarting
<1>8. CASE Restart
  BY <1>8, GoneHooks DEF Hooked, Restart
<1> QED BY <1>1, <1>2, <1>3, <1>4, <1>5, <1>6, <1>7, <1>8 DEF Next

LEMMA HooksImply == ASSUME HInv PROVE OpenedPluginsAreClosedOnce
<1>1. Shape /\ Paired /\ Surviving /\ Ending
  BY DEF HInv
<1>2. /\ DOMAIN opened = Found /\ DOMAIN closed = Found
      /\ \A i \in Found : opened[i] \in 0..1 /\ closed[i] \in Nat
      /\ opened = [i \in Found |-> opened[i]] /\ closed = [i \in Found |-> closed[i]]
      /\ boot.at \in Nat /\ \A k \in DOMAIN boot.active : k \in Nat /\ k >= 1
  BY <1>1 DEF Shape, Lists
<1>3. \A i \in Found : closed[i] <= opened[i] + (IF Survived THEN 0 ELSE 1)
  <2> SUFFICES ASSUME NEW i \in Found PROVE closed[i] <= opened[i] + (IF Survived THEN 0 ELSE 1)
    OBVIOUS
  <2>1. CASE boot.pc \notin Teardowns
    BY <1>1, <1>2, <2>1 DEF Paired, Survived, Teardowns
  <2>2. CASE boot.pc \in Teardowns /\ ~In(boot.active, i)
    BY <1>1, <1>2, <2>2 DEF Ending
  <2>3. CASE boot.pc \in Teardowns /\ In(boot.active, i)
    <3>1. PICK k \in DOMAIN boot.active : boot.active[k] = i
      BY <2>3 DEF In
    <3>2. /\ closed[i] <= opened[i] + 1
          /\ boot.active = boot.survivors => closed[i] <= opened[i]
      <4>1. CASE k > boot.at
        BY <1>1, <1>2, <2>3, <3>1, <4>1 DEF Ending
      <4>2. CASE ~(k > boot.at)
        <5>1. closed[i] <= opened[i]
          BY <1>1, <2>3, <3>1, <4>2 DEF Ending
        <5> QED BY <1>2, <5>1
      <4> QED BY <4>1, <4>2
    <3> QED BY <1>2, <2>3, <3>2 DEF Survived, Teardowns
  <2> QED BY <2>1, <2>2, <2>3
<1>4. ASSUME boot.pc = "closed"
      PROVE  /\ tasks = {} /\ \A i \in Found : opened[i] <= closed[i]
             /\ Survived => opened = closed
  <2>1. tasks = {} /\ boot.at = 0
    BY <1>1, <1>4 DEF Ending, Teardowns
  <2>2. \A i \in Found : opened[i] <= closed[i] /\ (boot.active = boot.survivors => opened[i] = closed[i])
    <3> SUFFICES ASSUME NEW i \in Found
                 PROVE  opened[i] <= closed[i] /\ (boot.active = boot.survivors => opened[i] = closed[i])
      OBVIOUS
    <3>1. CASE ~In(boot.active, i)
      BY <1>1, <1>2, <1>4, <3>1 DEF Ending, Teardowns
    <3>2. CASE In(boot.active, i)
      <4>1. PICK k \in DOMAIN boot.active : boot.active[k] = i
        BY <3>2 DEF In
      <4>2. k > boot.at
        BY <1>2, <2>1
      <4> QED BY <1>1, <1>4, <4>1, <4>2 DEF Ending, Teardowns
    <3> QED BY <3>1, <3>2
  <2>3. Survived => opened = closed
    BY <1>2, <1>4, <2>2 DEF Survived
  <2> QED BY <2>1, <2>2, <2>3
<1>5. boot.pc \in {"post_init", "up"} =>
        \A p \in tasks : \E i \in Found : boot.found[i].name = p /\ opened[i] = 1 /\ closed[i] = 0
  BY <1>1 DEF Surviving
<1> QED BY <1>2, <1>3, <1>4, <1>5 DEF OpenedPluginsAreClosedOnce

(* However starts and stops fail, with any number of crashes and whatever  *)
(* plugins share a name, a plugin whose POST_INIT was entered is closed    *)
(* once, by its quarantine or the shutdown, and no other is; but for the   *)
(* worker whose start ends in POST_INIT (manager.py, startup and shutdown).*)
THEOREM HooksArePaired == Spec => []OpenedPluginsAreClosedOnce
<1>1. Init => Hooked
  BY HooksInit DEF Init, Hooked
<1>2. Hooked /\ [Next]_vars => Hooked'
  BY HooksStep
<1>3. Hooked => OpenedPluginsAreClosedOnce
  BY HooksImply DEF Hooked
<1> QED BY <1>1, <1>2, <1>3, PTL DEF Spec

=============================================================================
