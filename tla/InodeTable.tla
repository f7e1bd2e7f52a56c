----------------------------- MODULE InodeTable -----------------------------
(* The inode accounting of the FUSE session (fuse_redirect/inode.rs and the  *)
(* handlers of fuse_redirect/mod.rs and callbacks.rs that use it) between    *)
(* the kernel, which names entries by inode number, and the storage, which   *)
(* names them by path.  Sixteen threads serve requests; a handler takes the  *)
(* table's lock several times and works on the storage in between, so each   *)
(* handler is a few steps.  Every path is served from the storage path of    *)
(* the same name (the routing is in FuseFs).                                 *)
EXTENDS Naturals, FiniteSets, Sequences, SequencesExt

CONSTANTS Threads,  \* the threads of the session
          Dirs,     \* names of directories, all at the top
          Files,    \* names of files, all inside a directory
          Handles,  \* directory handles that may be open at once
          MaxIno,   \* bound on the inode numbers given out
          MaxReq,   \* bound on the requests of a behaviour
          MovesRace \* are directories renamed while others work inside them?

ASSUME InodeAssumption ==
    /\ IsFiniteSet(Threads) /\ IsFiniteSet(Dirs) /\ IsFiniteSet(Files)
    /\ MovesRace \in BOOLEAN /\ MaxIno \in Nat \ {0} /\ MaxReq \in Nat

Root == 1
Rels == {<<>>} \cup {<<d>> : d \in Dirs} \cup {<<d, f>> : d \in Dirs, f \in Files}

VARIABLES disk,     \* the paths that exist in the storage
          inodes,   \* state.inodes: path -> inode
          paths,    \* state.paths_by_inode: inode -> path
          ver,      \* state.inode_path_versions
          looks,    \* state.lookup_counts
          drefs,    \* state.dir_entry_refs
          next,     \* state.next_ino
          dirs,     \* state.dirs: handle -> the directory and the inodes listed
          kd,       \* the kernel's directory cache: <<parent inode, name>> -> inode
          knl,      \* the lookups the kernel counts for an inode
          pend,     \* forgets on their way
          jobs,     \* what each thread is doing
          reqs      \* requests made so far

table == <<inodes, paths, ver, looks, drefs, next>>
kernel == <<kd, knl, pend>>
vars == <<disk, inodes, paths, ver, looks, drefs, next, dirs, kd, knl, pend, jobs, reqs>>

\* A partial function without the keys ks.
Without(f, ks) == Restrict(f, DOMAIN f \ ks)
With(f, k, v) == [x \in DOMAIN f \cup {k} |-> IF x = k THEN v ELSE f[x]]
Over(f, g) == [x \in DOMAIN f \cup DOMAIN g |-> IF x \in DOMAIN f THEN f[x] ELSE g[x]]
Count(f, k) == IF k \in DOMAIN f THEN f[k] ELSE 0
Parent(r) == Front(r)

-----------------------------------------------------------------------------
(* The operations on the table, each on a record of its five maps.           *)

T == [inodes |-> inodes, paths |-> paths, ver |-> ver, looks |-> looks, drefs |-> drefs, next |-> next]
SetTable(t) ==
    /\ inodes' = t.inodes /\ paths' = t.paths /\ ver' = t.ver
    /\ looks' = t.looks /\ drefs' = t.drefs /\ next' = t.next

\* ino_for_path_locked.
InoForPath(t, rel) ==
    IF rel \in DOMAIN t.inodes THEN t
    ELSE [t EXCEPT !.inodes = With(@, rel, t.next), !.paths = With(@, t.next, rel),
                   !.ver = With(@, t.next, 0), !.next = @ + 1]
AddLookup(t, i) == [t EXCEPT !.looks = With(@, i, Count(@, i) + 1)]

\* remove_unreferenced_inode.
DropUnreferenced(t, i) ==
    IF i = Root \/ i \in DOMAIN t.looks \/ i \in DOMAIN t.drefs \/ i \notin DOMAIN t.paths THEN t
    ELSE [t EXCEPT !.paths = Without(@, {i}), !.inodes = Without(@, {t.paths[i]}), !.ver = Without(@, {i})]

\* A count in a map that loses its entry at zero.
Less(f, i, n) == IF Count(f, i) <= n THEN Without(f, {i}) ELSE With(f, i, f[i] - n)
\* remove_lookup_locked.
RemoveLookup(t, i, n) == DropUnreferenced([t EXCEPT !.looks = Less(@, i, n)], i)

\* A fault in RemoveRefs: a listing that is closed drops no inode.
RemoveRefsOnly(t, ents) ==
    [t EXCEPT !.drefs = [i \in {j \in DOMAIN @ : j \notin ents \/ @[j] > 1} |-> IF i \in ents THEN @[i] - 1 ELSE @[i]]]
\* add_dir_entry_refs and remove_dir_entry_refs.
AddRefs(t, ents) ==
    [t EXCEPT !.drefs = [i \in DOMAIN @ \cup (ents \ {Root}) |-> Count(@, i) + (IF i \in ents THEN 1 ELSE 0)]]
RemoveRefs(t, ents) ==
    LET gone == {i \in ents \ {Root} : Count(t.drefs, i) <= 1}
        less == [t EXCEPT !.drefs = [i \in DOMAIN @ \ gone |-> IF i \in ents THEN @[i] - 1 ELSE @[i]]]
        dead == {i \in (ents \ {Root}) \cap DOMAIN t.paths : i \notin DOMAIN less.looks \cup DOMAIN less.drefs}
    IN [less EXCEPT !.paths = Without(@, dead), !.inodes = Without(@, {t.paths[i] : i \in dead}),
                    !.ver = Without(@, dead)]

\* remove_inode_path.
RemovePath(t, rel) ==
    IF rel \notin DOMAIN t.inodes THEN t
    ELSE LET i == t.inodes[rel]
         IN [t EXCEPT !.inodes = Without(@, {rel}), !.paths = Without(@, {i}), !.ver = Without(@, {i}),
                      !.looks = Without(@, {i}), !.drefs = Without(@, {i})]

\* Where a rename takes a path at or below its source.
Moved(r, from, to) == to \o SubSeq(r, Len(from) + 1, Len(r))
\* remap_descendant_paths, on the paths that carry a key.
MovesWith(t, from) == {r \in DOMAIN t.inodes : IsStrictPrefix(from, r)}
\* remap_inode_path.
Remap(t0, from, to) ==
    LET t == RemovePath(t0, to)
        rs == MovesWith(t, from) \cup (DOMAIN t.inodes \cap {from})
        is == {t.inodes[r] : r \in rs}
        new == [r \in {Moved(r, from, to) : r \in rs} |-> t.inodes[CHOOSE o \in rs : Moved(o, from, to) = r]]
    IN [t EXCEPT !.inodes = Over(new, Without(@, rs)),
                 !.paths = [i \in DOMAIN @ |-> IF i \in is THEN Moved(@[i], from, to) ELSE @[i]],
                 !.ver = [i \in DOMAIN @ |-> IF i \in is THEN @[i] + 1 ELSE @[i]]]

\* materialize_dir_entries: every candidate gets an inode; "." and ".." are
\* the directory and its parent.
Materialize(t, cands) ==
    LET new == cands \ DOMAIN t.inodes
        no == CHOOSE f \in [new -> t.next .. t.next + Cardinality(new) - 1] : IsInjective(f)
    IN [t EXCEPT !.inodes = Over(no, @), !.next = @ + Cardinality(new),
                 !.paths = Over([i \in Range(no) |-> CHOOSE r \in new : no[r] = i], @),
                 !.ver = Over([i \in Range(no) |-> 0], @)]

-----------------------------------------------------------------------------
(* The kernel's side: it keeps its own tree and locks the parent directory   *)
(* of a lookup or a change, and the directory that is removed or replaced.   *)

KernelDirs == {Root} \cup {kd[e] : e \in {x \in DOMAIN kd : x[1] = Root}}
EntryOf(i) == CHOOSE e \in DOMAIN kd : kd[e] = i
KPath(i) ==
    IF i = Root THEN <<>>
    ELSE LET e == EntryOf(i) IN IF e[1] = Root THEN <<e[2]>> ELSE <<EntryOf(e[1])[2], e[2]>>
InTree(i) == i = Root \/ i \in Range(kd)
NamesIn(p) == IF p = Root THEN Dirs ELSE Files
Below(i) == {e \in DOMAIN kd : kd[e] = i \/ e[1] = i}

Idle == [op |-> "idle"]
Parents(j) == IF "par" \in DOMAIN j THEN {j.par, j.par2} \cup j.victim ELSE {}
Locked(p) == \E t \in Threads : p \in Parents(jobs[t])
\* A directory whose rename is under way, where others keep out of it.
Moving(p) == ~MovesRace /\ \E t \in Threads : jobs[t].op \in {"rename", "renamed"} /\ jobs[t].moved = p
Quiet(i) == MovesRace \/ (~Locked(i) /\ dirs = <<>>)

Start(t, j) == jobs[t] = Idle /\ reqs < MaxReq /\ reqs' = reqs + 1 /\ jobs' = [jobs EXCEPT ![t] = j]
Goto(t, j) == jobs' = [jobs EXCEPT ![t] = j] /\ UNCHANGED reqs
Done(t) == Goto(t, Idle)

Child(p, n) == Append(paths[p], n)

\* lookup: the parent's path is read and the child's is routed.  Without a path
\* the handler answers ENOENT and nothing changes.
Lookup(t) ==
    \E p \in KernelDirs \cap DOMAIN paths : \E n \in NamesIn(p) :
        /\ ~Locked(p) /\ ~Moving(p)
        /\ Start(t, [op |-> "insert", par |-> p, par2 |-> p, victim |-> {}, name |-> n, rel |-> Child(p, n)])
        /\ UNCHANGED <<disk, table, dirs, kernel>>

\* create, mknod, symlink and mkdir, up to the path; then the missing parents
\* and the entry itself (create opens what is there already, mkdir does not).
Create(t) ==
    \E p \in KernelDirs \cap DOMAIN paths : \E n \in NamesIn(p) :
        /\ ~Locked(p) /\ ~Moving(p) /\ <<p, n>> \notin DOMAIN kd
        /\ Start(t, [op |-> "create", par |-> p, par2 |-> p, victim |-> {}, name |-> n, rel |-> Child(p, n)])
        /\ UNCHANGED <<disk, table, dirs, kernel>>
CreateOnDisk(t) ==
    /\ jobs[t].op = "create"
    /\ LET r == jobs[t].rel
       IN IF Len(r) = 1 /\ r \in disk THEN Done(t) /\ disk' = disk \cup {Parent(r)}
          ELSE Goto(t, [jobs[t] EXCEPT !.op = "insert"]) /\ disk' = disk \cup {r, Parent(r)}
    /\ UNCHANGED <<table, dirs, kernel>>

\* The middle of reply_entry_for_rel and of create: the inode and its lookup.
Insert(t) ==
    /\ jobs[t].op = "insert" /\ next <= MaxIno
    /\ LET j == jobs[t]
           new == InoForPath(T, j.rel)
           i == new.inodes[j.rel]
       IN /\ SetTable(AddLookup(new, i))
          /\ Goto(t, [op |-> "stat", par |-> j.par, par2 |-> j.par, victim |-> {}, name |-> j.name,
                      rel |-> j.rel, ino |-> i])
    /\ UNCHANGED <<disk, dirs, kernel>>
\* Its end: the entry's attributes are read, and the answer reaches the kernel
\* or the lookup is taken back.
ReplyEntry(t) ==
    /\ jobs[t].op = "stat"
    /\ LET j == jobs[t]
           old == IF <<j.par, j.name>> \in DOMAIN kd THEN kd[<<j.par, j.name>>] ELSE Root
       IN IF j.rel \in disk
          THEN /\ kd' = With(Without(kd, IF old \in {Root, j.ino} THEN {} ELSE Below(old)), <<j.par, j.name>>, j.ino)
               /\ knl' = With(knl, j.ino, Count(knl, j.ino) + 1)
               /\ UNCHANGED <<table, pend>>
          ELSE /\ SetTable(RemoveLookup(T, j.ino, 1))
               /\ kd' = Without(kd, IF old = Root THEN {} ELSE Below(old))
               /\ UNCHANGED <<knl, pend>>
    /\ Done(t) /\ UNCHANGED <<disk, dirs>>

\* unlink and rmdir (remove_child).
RemoveChild(t) ==
    \E e \in DOMAIN kd :
        /\ e[1] \in DOMAIN paths /\ ~Locked(e[1]) /\ ~Moving(e[1])
        /\ ~Locked(kd[e]) /\ ~Moving(kd[e])
        /\ Start(t, [op |-> "remove", par |-> e[1], par2 |-> e[1], victim |-> {kd[e]}, name |-> e[2],
                     rel |-> Child(e[1], e[2])])
        /\ UNCHANGED <<disk, table, dirs, kernel>>
RemoveOnDisk(t) ==
    /\ jobs[t].op = "remove"
    /\ LET r == jobs[t].rel
       IN IF r \in disk /\ ~ \E s \in disk : IsStrictPrefix(r, s)
          THEN disk' = disk \ {r} /\ Goto(t, [jobs[t] EXCEPT !.op = "removed"])
          ELSE disk' = disk /\ Done(t)
    /\ UNCHANGED <<table, dirs, kernel>>
RemoveInodePath(t) ==
    /\ jobs[t].op = "removed"
    /\ SetTable(RemovePath(T, jobs[t].rel))
    /\ kd' = Without(kd, Below(kd[<<jobs[t].par, jobs[t].name>>]))
    /\ Done(t) /\ UNCHANGED <<disk, dirs, knl, pend>>

\* rename, with or without RENAME_NOREPLACE.
RenameJob(e, p2, n2, keep) ==
    [op |-> "rename", par |-> e[1], par2 |-> p2, name |-> e[2], name2 |-> n2, moved |-> kd[e],
     victim |-> IF <<p2, n2>> \in DOMAIN kd THEN {kd[<<p2, n2>>]} ELSE {},
     rel |-> Child(e[1], e[2]), rel2 |-> Child(p2, n2), keep |-> keep]
Rename(t) ==
    \E e \in DOMAIN kd, p2 \in KernelDirs \cap DOMAIN paths, keep \in BOOLEAN : \E n2 \in NamesIn(p2) :
        /\ e[1] \in DOMAIN paths /\ (e[1] = Root <=> p2 = Root) /\ <<p2, n2>> # e
        /\ ~Locked(e[1]) /\ ~Locked(p2) /\ ~Moving(e[1]) /\ ~Moving(p2)
        /\ e[1] = Root => Quiet(kd[e])
        /\ <<p2, n2>> \in DOMAIN kd => ~Locked(kd[<<p2, n2>>])
        /\ Start(t, RenameJob(e, p2, n2, keep))
        /\ UNCHANGED <<disk, table, dirs, kernel>>
RenameOnDisk(t) ==
    /\ jobs[t].op = "rename"
    /\ LET r == jobs[t].rel
           r2 == jobs[t].rel2
           base == disk \cup {Parent(r2)}
           sub == {s \in base : IsPrefix(r, s)}
       IN IF r \in disk /\ ~(jobs[t].keep /\ r2 \in disk) /\ ~ \E s \in disk : IsStrictPrefix(r2, s)
          THEN /\ disk' = (base \ sub) \cup {Moved(s, r, r2) : s \in sub}
               /\ Goto(t, [jobs[t] EXCEPT !.op = "renamed"])
          ELSE disk' = base /\ Done(t)
    /\ UNCHANGED <<table, dirs, kernel>>
RemapInodePath(t) ==
    /\ jobs[t].op = "renamed"
    /\ SetTable(Remap(T, jobs[t].rel, jobs[t].rel2))
    /\ LET e == <<jobs[t].par, jobs[t].name>>
           e2 == <<jobs[t].par2, jobs[t].name2>>
           rest == Without(kd, IF e2 \in DOMAIN kd THEN Below(kd[e2]) ELSE {})
       IN kd' = With(Without(rest, {e}), e2, jobs[t].moved)
    /\ Done(t) /\ UNCHANGED <<disk, dirs, knl, pend>>

\* opendir: the path and its version are read, the storage is scanned, and the
\* entries are committed if the directory has not been renamed meanwhile.
OpenDir(t) ==
    \E i \in KernelDirs \cap DOMAIN paths :
        /\ Start(t, [op |-> "scan", ino |-> i, rel |-> paths[i], ver |-> ver[i]])
        /\ UNCHANGED <<disk, table, dirs, kernel>>
Scan(t) ==
    /\ jobs[t].op = "scan"
    /\ LET j == jobs[t]
       IN IF j.rel \in disk
          THEN Goto(t, [op |-> "commit", ino |-> j.ino, rel |-> j.rel, ver |-> j.ver,
                        cands |-> {r \in disk : r # <<>> /\ Parent(r) = j.rel}])
          ELSE Done(t)
    /\ UNCHANGED <<disk, table, dirs, kernel>>
\* A fault in Unmoved: the path is not compared again.
UnmovedAssumed(j) == TRUE
\* The check of opendir's loop before it commits.
Unmoved(j) == paths[j.ino] = j.rel /\ ver[j.ino] = j.ver
ParentIno(rel) ==
    IF rel = <<>> \/ Parent(rel) \notin DOMAIN inodes THEN Root ELSE inodes[Parent(rel)]
Commit(t) ==
    /\ jobs[t].op = "commit"
    /\ LET j == jobs[t]
       IN \/ /\ j.ino \in DOMAIN paths /\ Unmoved(j)
             /\ \E fh \in Handles \ DOMAIN dirs :
                   LET new == Materialize(T, j.cands)
                       ents == {j.ino, ParentIno(j.rel)} \cup {new.inodes[r] : r \in j.cands}
                   IN /\ new.next <= MaxIno + 1
                      /\ SetTable(AddRefs(new, ents))
                      /\ dirs' = With(dirs, fh, [ino |-> j.ino, ents |-> ents])
             /\ Done(t)
          \/ /\ j.ino \in DOMAIN paths /\ ~Unmoved(j)
             /\ Goto(t, [op |-> "scan", ino |-> j.ino, rel |-> paths[j.ino], ver |-> ver[j.ino]])
             /\ UNCHANGED <<table, dirs>>
          \/ j.ino \notin DOMAIN paths /\ Done(t) /\ UNCHANGED <<table, dirs>>
    /\ UNCHANGED <<disk, kernel>>
ReleaseDir ==
    \E fh \in DOMAIN dirs :
        /\ SetTable(RemoveRefs(T, dirs[fh].ents)) /\ dirs' = Without(dirs, {fh})
        /\ UNCHANGED <<disk, kernel, jobs, reqs>>

\* The kernel evicts an entry nothing uses and sends what it counted; forget
\* arrives later, in any order with other requests.
InUse(i) ==
    \/ \E fh \in DOMAIN dirs : dirs[fh].ino = i
    \/ \E t \in Threads : \/ i \in Parents(jobs[t])
                          \/ jobs[t].op \in {"scan", "commit"} /\ jobs[t].ino = i
                          \/ jobs[t].op \in {"rename", "renamed"} /\ jobs[t].moved = i
    \/ \E e \in DOMAIN kd : e[1] = i
Evict ==
    \E i \in DOMAIN knl :
        /\ ~InUse(i)
        /\ ~ \E t \in Threads : \E e \in DOMAIN kd : kd[e] = i /\ e[1] \in Parents(jobs[t])
        /\ pend' = With(pend, i, Count(pend, i) + knl[i])
        /\ knl' = Without(knl, {i}) /\ kd' = Without(kd, Below(i))
        /\ UNCHANGED <<disk, table, dirs, jobs, reqs>>
Forget ==
    \E i \in DOMAIN pend : \E n \in 1 .. pend[i] :
        /\ SetTable(RemoveLookup(T, i, n)) /\ pend' = Less(pend, i, n)
        /\ UNCHANGED <<disk, dirs, kd, knl, jobs, reqs>>

-----------------------------------------------------------------------------
Init ==
    /\ disk \in {s \in SUBSET Rels : <<>> \in s /\ \A r \in s \ {<<>>} : Parent(r) \in s}
    /\ inodes = [r \in {<<>>} |-> Root] /\ paths = [i \in {Root} |-> <<>>] /\ ver = [i \in {Root} |-> 0]
    /\ looks = <<>> /\ drefs = <<>> /\ next = Root + 1 /\ dirs = <<>>
    /\ kd = <<>> /\ knl = <<>> /\ pend = <<>>
    /\ jobs = [t \in Threads |-> Idle] /\ reqs = 0

Next ==
    \/ \E t \in Threads :
          \/ Lookup(t) \/ Create(t) \/ CreateOnDisk(t) \/ Insert(t) \/ ReplyEntry(t)
          \/ RemoveChild(t) \/ RemoveOnDisk(t) \/ RemoveInodePath(t)
          \/ Rename(t) \/ RenameOnDisk(t) \/ RemapInodePath(t)
          \/ OpenDir(t) \/ Scan(t) \/ Commit(t)
    \/ ReleaseDir \/ Evict \/ Forget

Spec == Init /\ [][Next]_vars

-----------------------------------------------------------------------------
\* The table's maps have the types of their declarations, and the two
\* directions of the map agree: a path's inode has that path.
TypeOK ==
    /\ disk \subseteq Rels /\ next \in 1 .. MaxIno + 1
    /\ DOMAIN inodes \subseteq Rels /\ DOMAIN paths \subseteq 1 .. next - 1
    /\ \A r \in DOMAIN inodes : inodes[r] \in DOMAIN paths /\ paths[inodes[r]] = r
    /\ DOMAIN ver = DOMAIN paths
    /\ DOMAIN looks \subseteq DOMAIN paths /\ DOMAIN drefs \subseteq DOMAIN paths
    /\ \A i \in DOMAIN looks : looks[i] > 0
    /\ \A i \in DOMAIN drefs : drefs[i] > 0

\* An entry the kernel has cached is resolved to the path the kernel has it
\* under: after a rename the children of the directory follow it
\* (remap_descendant_paths), and no forget or release drops what is in use.
PathsAgree == \A i \in {j \in Range(kd) : InTree(j)} : i \in DOMAIN paths /\ paths[i] = KPath(i)

\* The counts are exact: an inode of the table counts the lookups the kernel
\* still has to give back and the open listings it is in, and one that has
\* neither is not kept (the session is resident: what is kept is never freed).
CountsExact ==
    \A i \in DOMAIN paths \ {Root} :
        /\ Count(looks, i) = Count(knl, i) + Count(pend, i)
                             + Cardinality({t \in Threads : jobs[t].op = "stat" /\ jobs[t].ino = i})
        /\ Count(drefs, i) = Cardinality({fh \in DOMAIN dirs : i \in dirs[fh].ents})
        /\ Count(looks, i) + Count(drefs, i) > 0

\* What every handler relies on when it takes the lock (fuse_redirect/inode.rs):
\* maps that agree, and counts that neither free an inode in use nor keep a dead one.
TableSound == TypeOK /\ CountsExact

\* What opendir commits are children of the path its directory has at that
\* moment, whatever was renamed while the storage was scanned.
ListingCurrent ==
    [][\A fh \in DOMAIN dirs' \ DOMAIN dirs :
          \A i \in dirs'[fh].ents :
             \/ i \in {Root, dirs'[fh].ino, ParentIno(paths[dirs'[fh].ino])}
             \/ Parent(paths'[i]) = paths[dirs'[fh].ino]]_vars

=============================================================================
