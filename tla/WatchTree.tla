----------------------------- MODULE WatchTree -----------------------------
(* The inotify tree of the daemon's file monitor: RegularAppMonitor of       *)
(* daemon_monitor.rs with its roots and its thread in daemon.rs.  A          *)
(* directory is the sequence of its names; a watch descriptor is named by    *)
(* the inode it is on, so that both are reused together.                     *)
EXTENDS Naturals, FiniteSets, Sequences, SequencesExt

CONSTANTS
    Paths,           \* the directories that may exist; <<>> is the storage of the user
    Dirs0,           \* those that exist at first
    Inodes,
    Packages, Profiles,  \* the sets of roots [path, high] a package is given
    Profile0,        \* the profiles at first
    CategoryDirs,    \* Android/data, media and obb: watched for owners, not walked
    VisitMax,        \* MAX_EXISTING_TREE_REPAIR_DIRS: directories one walk reads
    QueueMax,        \* the kernel's event queue
    MaxWatches,      \* max_watches
    MaxChanges       \* changes of the directories and of the configuration
ASSUME EnoughInodes == Cardinality(Inodes) >= Cardinality(Paths) /\ MaxWatches > 0 /\ QueueMax > 0
ASSUME StorageExists == <<>> \in Dirs0 /\ Dirs0 \subseteq Paths

VARIABLES
    dirs,     \* the inode of every directory
    watched,  \* kernel: the inodes with a watch
    queue,    \* kernel: the events not yet read
    changes,
    cfg,      \* the roots of every package, and config_version
    due,      \* what the main loop is going to post after its round of mounts
    slot,     \* pending_packages
    mon,      \* RegularAppMonitor and what its thread is doing
    \* history: the roots read last for every package, the directories a walk left
    \* unread when its budget ran out, with their watchers, whether a list of packages
    \* took the place of a rebuild that was due, and the roots of an earlier profile
    \* that are still awaited
    built, unread, lost, outdated

history == <<built, unread, lost, outdated>>
main == <<changes, cfg, due>>
vars == <<dirs, watched, queue, main, slot, mon, history>>

Exists(p) == p \in DOMAIN dirs
Below(p) == {q \in DOMAIN dirs : IsPrefix(p, q)}
Children(p) == {q \in DOMAIN dirs : Len(q) = Len(p) + 1 /\ IsPrefix(p, q)}

\* A watcher is a root with its package; sort_roots_by_monitor_priority puts
\* the mappings and sandboxes, the roots of high value, first.
RootsOf(roots, pkgs) == UNION {{[pkg |-> a, path |-> r.path, high |-> r.high] : r \in roots[a]} : a \in pkgs}
\* build_private_category_owner_roots: of no package, for those that exist.
Owner == "owner"
OwnerRoots == {[pkg |-> Owner, path |-> p, high |-> FALSE] : p \in {q \in CategoryDirs : Exists(q)}}
First(todo) == CHOOSE r \in todo : \A s \in todo : r.high \/ ~s.high
ShouldDescend(w, p) == w.pkg # Owner /\ (IsPrefix(w.path, p) \/ IsPrefix(p, w.path))
\* select_watch_start: a root of high value that is missing is awaited at the
\* nearest directory above it.
WatchStart(r) ==
    IF Exists(r.path) THEN {r.path}
    ELSE IF r.high THEN {p \in Range([n \in 1 .. Len(r.path) |-> SubSeq(r.path, 1, n - 1)]) :
                            Exists(p) /\ ~Exists(SubSeq(r.path, 1, Len(p) + 1))}
    ELSE {}

Nothing == [kind |-> "nothing", pkgs |-> {}]
NewMonitor == [pc |-> "idle", nodes |-> <<>>, version |-> 0, rebuild |-> TRUE, limited |-> FALSE,
               missing |-> {}, todo |-> {}, walks |-> {}, work |-> {}, visited |-> 0]
Init ==
    /\ dirs = CHOOSE f \in [Dirs0 -> Inodes] : IsInjective(f)
    /\ watched = {} /\ queue = <<>> /\ changes = 0
    /\ cfg = [roots |-> Profile0, version |-> 1]
    /\ due = Nothing /\ slot = {} /\ mon = NewMonitor
    /\ built = [a \in Packages |-> {}] /\ unread = {} /\ lost = FALSE /\ outdated = {}

-----------------------------------------------------------------------------
(* The directories change; the kernel queues what the watches see.           *)

Event(kind, wd, path) == [kind |-> kind, wd |-> wd, name |-> IF path = <<>> THEN "" ELSE Last(path)]
\* A full queue takes one overflow mark and loses the rest.
Queued(q, e) ==
    IF Len(q) < QueueMax THEN Append(q, e)
    ELSE IF Last(q).kind = "overflow" THEN q ELSE Append(q, Event("overflow", 0, <<>>))
Seen(q, kind, ino, path) == IF ino \in watched THEN Queued(q, Event(kind, ino, path)) ELSE q
Parent(p) == dirs[Front(p)]
Fits(p) == p \in Paths /\ ~Exists(p) /\ Exists(Front(p))

Mkdir(p) ==
    /\ changes < MaxChanges /\ Fits(p)
    /\ \E i \in Inodes \ Range(dirs) : dirs' = [q \in DOMAIN dirs \cup {p} |-> IF q = p THEN i ELSE dirs[q]]
    /\ queue' = Seen(queue, "create", Parent(p), p)
    /\ changes' = changes + 1
    /\ UNCHANGED <<watched, cfg, due, slot, mon, history>>
Rmdir(p) ==
    /\ changes < MaxChanges /\ p \in DOMAIN dirs \ {<<>>} /\ Children(p) = {}
    /\ dirs' = [q \in DOMAIN dirs \ {p} |-> dirs[q]]
    /\ watched' = watched \ {dirs[p]}
    /\ queue' = Seen(Seen(queue, "deleteSelf", dirs[p], <<>>), "ignored", dirs[p], <<>>)
    /\ unread' = {u \in unread : u.ino # dirs[p]}
    /\ changes' = changes + 1
    /\ UNCHANGED <<cfg, due, slot, mon, built, lost, outdated>>
\* The directories below move along without an event.
Moved(p, q) == [r \in (DOMAIN dirs \ Below(p)) \cup {q \o SubSeq(s, Len(p) + 1, Len(s)) : s \in Below(p)} |->
                  IF IsPrefix(q, r) THEN dirs[p \o SubSeq(r, Len(q) + 1, Len(r))] ELSE dirs[r]]
Rename(p, q) ==
    /\ changes < MaxChanges /\ p \in DOMAIN dirs \ {<<>>} /\ Fits(q) /\ ~IsPrefix(p, q)
    /\ {q \o SubSeq(s, Len(p) + 1, Len(s)) : s \in Below(p)} \subseteq Paths
    /\ dirs' = Moved(p, q)
    /\ queue' = Seen(Seen(queue, "create", Parent(q), q), "moveSelf", dirs[p], <<>>)
    /\ changes' = changes + 1
    /\ UNCHANGED <<watched, cfg, due, slot, mon, history>>

-----------------------------------------------------------------------------
(* The main loop loads a changed configuration, runs its round of mounts and  *)
(* only then posts the change: a list of packages is added to one that waits, *)
(* any other request replaces it by none.                                     *)

Edit(roots, request) ==
    /\ changes < MaxChanges /\ due = Nothing /\ roots # cfg.roots
    /\ cfg' = [roots |-> roots, version |-> cfg.version + 1]
    /\ due' = request
    /\ changes' = changes + 1
    /\ UNCHANGED <<dirs, watched, queue, slot, mon, history>>
\* An application's file changed.
EditPackage(a) == \E r \in Profiles : Edit([cfg.roots EXCEPT ![a] = r], [kind |-> "list", pkgs |-> {a}])
\* The global file changed: the monitor is switched off, or on again.
EditGlobal == \E r \in {[a \in Packages |-> {}], Profile0} : Edit(r, [kind |-> "all", pkgs |-> {}])
\* store_pending_packages.
Post == /\ due # Nothing
        /\ slot' = IF due.kind = "list" THEN slot \cup due.pkgs ELSE {}
        /\ due' = Nothing
        /\ UNCHANGED <<dirs, watched, queue, changes, cfg, mon, history>>
\* After a round that mounted something the thread is only woken.
Refresh == /\ slot # {} /\ slot' = {}
           /\ UNCHANGED <<dirs, watched, queue, main, mon, history>>

-----------------------------------------------------------------------------
(* The tree.                                                                 *)

Full(m) == Cardinality(DOMAIN m.nodes) >= MaxWatches
\* add_watch_node: one node per directory path below a descriptor, with the
\* watchers merged; the watch of a directory that is gone fails.
AddNode(m, p, ws) ==
    LET old == IF dirs[p] \in DOMAIN m.nodes THEN m.nodes[dirs[p]] ELSE {}
        here == UNION {n.watchers : n \in {x \in old : x.dir = p}}
        new == {x \in old : x.dir # p} \cup {[dir |-> p, watchers |-> here \cup ws]}
    IN [m EXCEPT !.nodes = [i \in DOMAIN m.nodes \cup {dirs[p]} |-> IF i = dirs[p] THEN new ELSE m.nodes[i]]]

\* The thread's turn begins with what is in the slot.
Reset(m) == [m EXCEPT !.nodes = <<>>, !.version = cfg.version, !.rebuild = FALSE, !.limited = FALSE,
                      !.missing = {}, !.todo = RootsOf(cfg.roots, Packages) \cup OwnerRoots, !.pc = "roots"]
\* reconfigure: an unchanged configuration retries the missing roots.
Reconfigure ==
    /\ mon.pc = "idle" /\ slot = {}
    /\ IF mon.rebuild \/ mon.version # cfg.version
       THEN /\ mon' = Reset(mon) /\ watched' = {} /\ queue' = <<>>
            /\ built' = cfg.roots /\ unread' = {} /\ lost' = FALSE /\ outdated' = {}
       ELSE /\ mon' = IF mon.limited \/ mon.missing = {} THEN [mon EXCEPT !.pc = "drain"]
                      ELSE [mon EXCEPT !.pc = "roots", !.todo = mon.missing, !.missing = {}]
            /\ UNCHANGED <<watched, queue, history>>
    /\ UNCHANGED <<dirs, main, slot>>
\* reconfigure_changed_packages: the watchers of the packages are dropped from
\* the nodes and their roots added anew; kernel watches stay, and so do the
\* missing roots of before.  A rebuild that was due is taken as done.
Without(nodes, pkgs) ==
    LET kept(i) == {n \in {[x EXCEPT !.watchers = {w \in @ : w.pkg \notin pkgs}] : x \in nodes[i]} : n.watchers # {}}
    IN [i \in {j \in DOMAIN nodes : kept(j) # {}} |-> kept(i)]
ReconfigureChanged ==
    /\ mon.pc = "idle" /\ slot # {}
    /\ slot' = {}
    /\ mon' = [mon EXCEPT !.version = cfg.version, !.rebuild = FALSE, !.nodes = Without(@, slot),
                          !.todo = RootsOf(cfg.roots, slot) \cup OwnerRoots, !.pc = "roots"]
    /\ built' = [a \in Packages |-> IF a \in slot THEN cfg.roots[a] ELSE built[a]]
    /\ unread' = {u \in unread : u.watcher.pkg \notin slot}
    /\ lost' = (lost \/ mon.rebuild)
    /\ outdated' = outdated \cup {r \in mon.missing : r.pkg \in slot}
    /\ UNCHANGED <<dirs, watched, queue, main>>

\* add_watch_root, for the roots in their order.
AddRoot ==
    /\ mon.pc = "roots" /\ mon.todo # {}
    /\ LET r == First(mon.todo)
           m == [mon EXCEPT !.todo = @ \ {r}]
       IN IF WatchStart(r) = {} \/ Full(m)
          THEN /\ mon' = [m EXCEPT !.missing = @ \cup {r}, !.limited = @ \/ Full(m),
                                   !.todo = IF Full(m) THEN {} ELSE @]
               /\ UNCHANGED watched
          ELSE \E p \in WatchStart(r) :
                  LET n == AddNode(m, p, {r})
                  IN /\ watched' = watched \cup {dirs[p]}
                     /\ mon' = [n EXCEPT !.walks = @ \cup {[dir |-> p, watchers |-> {r}]},
                                         !.limited = @ \/ Full(n), !.todo = IF Full(n) THEN {} ELSE @]
    /\ UNCHANGED <<dirs, queue, main, slot, history>>
RootsDone ==
    /\ mon.pc = "roots" /\ mon.todo = {}
    /\ mon' = [mon EXCEPT !.pc = "expand", !.walks = IF mon.limited THEN {} ELSE @]
    /\ UNCHANGED <<dirs, watched, queue, main, slot, history>>

\* A fault in Expanded: the new directories are watched and not looked into.
ExpandedFlat(m, n) == [m EXCEPT !.work = @ \ {n}]
\* expand_watch_tree_from: one directory is read and its children watched;
\* the first child that does not fit ends the walk.
Expanded(m, n) ==
    LET cs == {c \in Children(n.dir) : \E w \in n.watchers : ShouldDescend(w, c)}
        room == MaxWatches - Cardinality(DOMAIN m.nodes)
        new == {c \in cs : dirs[c] \notin DOMAIN m.nodes}
        in == IF Cardinality(new) <= room THEN cs ELSE CHOOSE s \in SUBSET cs : Cardinality(s \cap new) = room
        grown == FoldSet(LAMBDA c, k : AddNode(k, c, n.watchers), m, in)
    IN [grown EXCEPT !.work = IF in # cs THEN {} ELSE (@ \ {n}) \cup {[dir |-> c, watchers |-> n.watchers] : c \in in},
                     !.walks = IF in # cs THEN {} ELSE @,
                     !.limited = @ \/ in # cs]
\* Every root is walked by a call of its own, with a budget of its own.
Descend ==
    /\ mon.pc = "expand" /\ mon.work = {} /\ mon.walks # {}
    /\ LET n == CHOOSE x \in mon.walks : TRUE
       IN mon' = [mon EXCEPT !.walks = @ \ {n}, !.work = {n}, !.visited = 0]
    /\ UNCHANGED <<dirs, watched, queue, main, slot, history>>
\* The next directory of the walk: the tree is full, the budget is spent and the
\* walk ends without a word, or the directory is read if it is still there.
Expand ==
    /\ mon.pc = "expand"
    /\ \E n \in mon.work :
          LET m == [mon EXCEPT !.visited = @ + 1]
          IN \/ /\ Full(mon)
                /\ mon' = [mon EXCEPT !.work = {}, !.walks = {}, !.limited = TRUE]
                /\ UNCHANGED <<watched, unread>>
             \/ /\ ~Full(mon) /\ m.visited > VisitMax
                /\ mon' = [m EXCEPT !.work = {}]
                /\ unread' = unread \cup UNION {{[ino |-> dirs[k.dir], watcher |-> w] : w \in k.watchers} :
                                                k \in {x \in mon.work : Exists(x.dir)}}
                /\ UNCHANGED watched
             \/ /\ ~Full(mon) /\ m.visited <= VisitMax
                /\ mon' = IF Exists(n.dir) THEN Expanded(m, n) ELSE [m EXCEPT !.work = @ \ {n}]
                /\ watched' = watched \cup (DOMAIN mon'.nodes \cap Range(dirs))
                /\ UNCHANGED unread
    /\ UNCHANGED <<dirs, queue, main, slot, built, lost, outdated>>
ExpandDone ==
    /\ mon.pc = "expand" /\ mon.work = {} /\ mon.walks = {}
    /\ mon' = [mon EXCEPT !.pc = "drain"]
    /\ UNCHANGED <<dirs, watched, queue, main, slot, history>>

-----------------------------------------------------------------------------
(* handle_event.                                                             *)

Rebuilds(e) ==
    \/ e.kind \in {"overflow", "deleteSelf", "moveSelf"}
    \/ e.kind = "ignored" /\ e.wd \in DOMAIN mon.nodes
Forgets(e) == IF e.kind = "ignored" THEN {e.wd} ELSE {}
\* A directory that appeared below a node is watched and walked.
Appeared(e) ==
    IF e.kind # "create" \/ e.wd \notin DOMAIN mon.nodes THEN {}
    ELSE {n \in {[dir |-> Append(x.dir, e.name), watchers |-> x.watchers] : x \in mon.nodes[e.wd]} :
              \E w \in n.watchers : ShouldDescend(w, n.dir)}
HandleEvent ==
    /\ mon.pc = "drain" /\ queue # <<>>
    /\ queue' = Tail(queue)
    /\ LET e == Head(queue)
           new == {n \in Appeared(e) : Exists(n.dir)}
           m == FoldSet(LAMBDA n, k : AddNode(k, n.dir, n.watchers), mon, new)
       IN /\ watched' = watched \cup {dirs[n.dir] : n \in new}
          /\ mon' = [m EXCEPT !.rebuild = @ \/ Rebuilds(e), !.walks = new,
                              !.nodes = [i \in DOMAIN m.nodes \ Forgets(e) |-> m.nodes[i]],
                              !.pc = IF new = {} THEN "drain" ELSE "expand"]
    /\ UNCHANGED <<dirs, main, slot, history>>
\* The queue is empty, or the budget of a turn is spent.
TurnEnds ==
    /\ mon.pc = "drain"
    /\ mon' = [mon EXCEPT !.pc = "idle"]
    /\ UNCHANGED <<dirs, watched, queue, main, slot, history>>
\* prune_dead_watches: nodes whose watch the kernel no longer has.
Prune ==
    /\ mon.pc = "drain" /\ watched # {} /\ Cardinality(watched) * 4 >= Cardinality(DOMAIN mon.nodes)
    /\ ~(DOMAIN mon.nodes \subseteq watched)
    /\ mon' = [mon EXCEPT !.nodes = [i \in DOMAIN @ \cap watched |-> @[i]]]
    /\ UNCHANGED <<dirs, watched, queue, main, slot, history>>

Walk == Reconfigure \/ ReconfigureChanged \/ AddRoot \/ RootsDone \/ Descend \/ Expand \/ ExpandDone \/ TurnEnds
Thread == Walk \/ HandleEvent
Next ==
    \/ \E p \in Paths : Mkdir(p) \/ Rmdir(p) \/ \E q \in Paths : Rename(p, q)
    \/ \E a \in Packages : EditPackage(a)
    \/ EditGlobal \/ Post \/ Refresh \/ Thread \/ Prune
\* The thread runs; a turn that ends does so with the queue read to its end
\* again and again; a round of mounts ends.
Fairness == WF_vars(Walk) /\ SF_vars(HandleEvent) /\ WF_vars(Post)
Spec == Init /\ [][Next]_vars
LiveSpec == Spec /\ Fairness

-----------------------------------------------------------------------------
(* Properties.                                                               *)

TypeOK ==
    /\ DOMAIN dirs \subseteq Paths /\ IsInjective(dirs) /\ watched \subseteq Range(dirs)
    /\ Len(queue) <= QueueMax + 1 /\ slot \subseteq Packages
    /\ mon.pc \in {"idle", "roots", "expand", "drain"}
    /\ \A i \in DOMAIN mon.nodes : \A n \in mon.nodes[i] : n.watchers # {}

\* Nothing is left to do for the thread.
Quiet == mon.pc = "idle" /\ queue = <<>> /\ slot = {} /\ due = Nothing
         /\ ~mon.rebuild /\ mon.version = cfg.version
Watches(r, p) == dirs[p] \in watched /\ dirs[p] \in DOMAIN mon.nodes
                 /\ \E n \in mon.nodes[dirs[p]] : n.dir = p /\ r \in n.watchers
\* Below a directory whose reading the budget of a walk cut off.
CutOff(r, p) == \E q \in DOMAIN dirs : q # p /\ IsPrefix(q, p) /\ [ino |-> dirs[q], watcher |-> r] \in unread
AllWatched == \A r \in RootsOf(built, Packages) \ mon.missing : \A p \in Below(r.path) : Watches(r, p) \/ CutOff(r, p)
\* When the thread is at rest every directory below a root it built from is
\* watched for that root, under the path it now has, however directories were
\* created, removed and moved while the tree was walked, and whichever roots
\* were dropped and added meanwhile.  Excepted are a root noted as missing, a tree
\* that does not fit, what a walk over its budget never reads, and a rebuild that a
\* list of packages replaced (daemon_monitor.rs: expand_watch_tree_from,
\* handle_event, reconfigure_changed_packages).
Covered == Quiet /\ ~mon.limited /\ ~lost => AllWatched
\* When the thread is at rest what a node calls its directory is the directory
\* its descriptor is on, so that no event is recorded under another path
\* (daemon_monitor.rs: add_watch_node, handle_event).
PathsCurrent ==
    Quiet /\ ~lost =>
        \A i \in DOMAIN mon.nodes \cap watched : \A n \in mon.nodes[i] : n.dir \in DOMAIN dirs /\ dirs[n.dir] = i
\* The nodes carry no watcher of a profile the package no longer has, but for a root
\* that was missing when its package changed (daemon_monitor.rs:
\* reconfigure_changed_packages).
NoStaleWatcher ==
    Quiet => \A i \in DOMAIN mon.nodes : \A n \in mon.nodes[i] :
                 \A w \in n.watchers : w.pkg = Owner \/ w \in RootsOf(built, Packages) \cup outdated
\* When the thread is at rest its tree is built from the configuration in force:
\* "全局变化传 None 由 reconfigure 依据版本差异走全量路径" (daemon.rs: run_daemon).
BuiltFromConfig == Quiet /\ ~lost => built = cfg.roots
=============================================================================
