------------------------------- MODULE FuseFs -------------------------------
(* The shared FUSE session as its callers see it: every request is routed by *)
(* the policy of the caller, but the session keeps one inode per path for    *)
(* all of them and remembers on it who looked it up first and where that     *)
(* caller's file is (fuse_redirect/mod.rs, callbacks.rs and the registry of  *)
(* policy.rs).  One handler is one step; its interleaving with others is in  *)
(* InodeTable.  Inodes are named by the path they have.                      *)
EXTENDS PathPolicy, TLC

CONSTANTS Apps,     \* the applications, by package
          Menu(_),  \* the policies an application may be registered with
          Views,    \* the paths of files that requests are made for
          Outside,  \* the storage paths that change behind the session's back
          Handles,  \* file handles that may be open at once
          MaxReq    \* bound on the steps of a behaviour

ViewDirs == {Front(v) : v \in Views}
Rels == Views \cup ViewDirs
\* The system caller (a uid below the application range), the media provider
\* (which may read for others) and root, whose namespace may be an application's.
System == "system"
Reader == "media_provider"
SuperUser == "root"
Callers == Apps \cup {System, Reader, SuperUser}
Nobody == "nobody"

VARIABLES reg,     \* SharedPolicyTable.by_uid
          nsreg,   \* SharedPolicyTable.by_namespace, by the application of it
          disk,    \* the files of the storage, with who changed them last
          pdirs,   \* its directories
          held,    \* the paths the kernel holds an inode of
          memo,    \* state.inode_backends
          owner,   \* state.inode_policy_uids
          pown,    \* state.path_policy_uids
          recent,  \* RECENT_CROSS_APP_HANDOFFS
          files,   \* state.files
          cache,   \* state.dir_candidate_cache
          listed,  \* what the last step listed, and for whom
          last,    \* what the last step changed in the storage
          reqs

vars == <<reg, nsreg, disk, pdirs, held, memo, owner, pown, recent, files, cache, listed, last, reqs>>
tables == <<held, memo, owner, pown>>

Without(f, ks) == [x \in DOMAIN f \ ks |-> f[x]]
With(f, k, v) == (k :> v) @@ f
NoChange == [by |-> Nobody, op |-> "none", rel |-> <<>>, at |-> NoPath]
NoListing == [by |-> Nobody, names |-> {}, own |-> {}]

-----------------------------------------------------------------------------
(* Who a request is served for.                                              *)

HostPolicy == [pkg |-> System, mode |-> "host", allowed |-> {}, excluded |-> {}, sandboxed |-> {},
               sandboxedEx |-> {}, readOnly |-> {}, readOnlyEx |-> {}, maps |-> {}]
Deny == [HostPolicy EXCEPT !.pkg = Nobody, !.mode = "deny"]
IsApp(uid) == uid \in Apps \cup {Reader}

\* PolicyRegistry::for_request: ns is the application in whose mount namespace
\* the caller runs.
ForRequest(u, ns) ==
    CASE u \in DOMAIN reg -> reg[u]
      [] u \notin DOMAIN reg /\ u = SuperUser /\ ns \in DOMAIN nsreg -> nsreg[ns]
      [] u \notin DOMAIN reg /\ u = System -> HostPolicy
      [] OTHER -> Deny
\* policy_for_read_request: root, otherwise denied, follows who owns the inode
\* or else the path.
Remembered(i, rel) == IF i \in DOMAIN owner THEN owner[i] ELSE IF rel \in DOMAIN pown THEN pown[rel] ELSE Nobody
ForRead(u, ns, i, rel) ==
    LET pol == ForRequest(u, ns)
    IN IF u = SuperUser /\ pol = Deny /\ Remembered(i, rel) \in DOMAIN reg THEN reg[Remembered(i, rel)] ELSE pol
\* inode_owner_policy_for_fd_stat.
ForAttributes(u, pol, rel) ==
    IF rel \in DOMAIN owner /\ owner[rel] \in DOMAIN reg /\ owner[rel] # u THEN reg[owner[rel]] ELSE pol

Ancestors(f) == {SubSeq(f, 1, n) : n \in 0 .. Len(f) - 1}
There == DOMAIN disk \cup pdirs
At(pol, rel, op) ==
    IF pol.mode = "deny" THEN NoBackend
    ELSE Resolve({reg[a] : a \in DOMAIN reg}, recent, DOMAIN disk, pdirs, pol, rel, op)
Names(d) == {f[Len(d) + 1] : f \in {g \in There : IsStrictPrefix(d, g)}}
Found(b) == b # NoBackend
\* A directory above a rule is there in the view.
Exists(pol, rel, b) == b.at \in There \/ IsVirtualDir(pol, Stripped(pol, rel))
\* record_own_mapped_handoff, in every resolution.
HandOff(pol, rel) ==
    recent' = recent \cup (IF pol.mode # "deny" /\ IsMapped(pol, Stripped(pol, rel)) THEN {Stripped(pol, rel)} ELSE {})

\* system_reader_policy_on_miss: the media provider reads Android/data/<package>
\* as the application does.
OwnerOfPath(rel) == IF Len(rel) >= 3 /\ rel[1] = "Android" /\ rel[2] = "data" THEN rel[3] ELSE Nobody
ReadsFor(u, rel) == u = Reader /\ OwnerOfPath(rel) \in DOMAIN reg
\* A fault in SameOwner: whoever resolved the inode, its backend is used.
SameOwnerAny(m, pol) == TRUE
\* The condition of backend_for_ino on who resolved the inode.
SameOwner(m, pol) == m.uid = pol.pkg
\* backend_for_ino.
BackendForIno(pol, rel) ==
    IF rel \in DOMAIN memo /\ SameOwner(memo[rel], pol) /\ memo[rel].rel = rel
    THEN [at |-> memo[rel].at, ro |-> memo[rel].ro]
    ELSE At(pol, rel, "read")

-----------------------------------------------------------------------------
(* What the inode remembers.                                                 *)

\* remember_policy_for_inode_locked: an application's claim is kept against
\* system callers and against later applications.
Claims(pol, rel) ==
    \A f \in {owner, pown} :
        rel \in DOMAIN f => IsApp(pol.pkg) /\ (IsApp(f[rel]) => f[rel] = pol.pkg)
Remember(pol, rel) ==
    IF Claims(pol, rel) THEN owner' = With(owner, rel, pol.pkg) /\ pown' = With(pown, rel, pol.pkg)
    ELSE UNCHANGED <<owner, pown>>
\* remove_inode_path.
Unname(rels) ==
    /\ held' = held \ rels /\ memo' = Without(memo, rels)
    /\ owner' = Without(owner, rels) /\ pown' = Without(pown, rels)

\* A step that neither changes the storage nor lists a directory.
Silent == last' = NoChange /\ listed' = NoListing
Step == reqs < MaxReq /\ reqs' = reqs + 1
Changed(u, op, rel, at) == last' = [by |-> u, op |-> op, rel |-> rel, at |-> at]

-----------------------------------------------------------------------------
(* The handlers.                                                             *)

\* lookup and reply_entry_for_rel.
Lookup(u, ns, rel) ==
    /\ Front(rel) \in ViewDirs => Front(rel) \in held
    /\ \E p0 \in {ForRead(u, ns, Front(rel), rel)} :
       \E pol \in {IF ~Found(At(p0, rel, "read")) /\ ReadsFor(u, rel) THEN reg[OwnerOfPath(rel)] ELSE p0} :
       \E b \in {At(pol, rel, "read")} :
          /\ Found(b) /\ HandOff(pol, rel)
          /\ IF Exists(pol, rel, b) \/ rel \in held
             THEN /\ held' = held \cup {rel}
                  /\ memo' = With(memo, rel, [uid |-> pol.pkg, rel |-> Stripped(pol, rel), at |-> b.at, ro |-> b.ro])
                  /\ Remember(pol, rel)
             ELSE /\ pown' = IF Claims(pol, rel) THEN With(pown, rel, pol.pkg) ELSE pown
                  /\ UNCHANGED <<held, memo, owner>>
    /\ UNCHANGED <<reg, nsreg, disk, pdirs, files, cache>> /\ Silent

\* forget of the last reference.
Forget(rel) ==
    /\ rel \in held /\ ~ \E r \in held : r # rel /\ Front(r) = rel
    /\ ~ \E h \in DOMAIN files : files[h].rel = rel
    /\ held' = held \ {rel} /\ memo' = Without(memo, {rel}) /\ owner' = Without(owner, {rel})
    /\ UNCHANGED <<reg, nsreg, disk, pdirs, pown, recent, files, cache>> /\ Silent

\* open: writing is routed for the caller itself, reading may be for another.
Open(u, ns, rel, w) ==
    /\ rel \in held \cap Views
    /\ \E pol \in {IF w THEN ForRequest(u, ns)
                   ELSE IF ReadsFor(u, rel) THEN reg[OwnerOfPath(rel)] ELSE ForRead(u, ns, rel, rel)} :
       \E b \in {BackendForIno(pol, rel)} :
          /\ Found(b) /\ b.at \in DOMAIN disk /\ ~(b.ro /\ w)
          /\ HandOff(pol, rel)
          /\ \E h \in Handles \ DOMAIN files :
                files' = With(files, h, [by |-> u, rel |-> rel, at |-> b.at, ro |-> b.ro, w |-> w])
          /\ IF w THEN Changed(u, "open", rel, b.at) ELSE last' = NoChange
    /\ UNCHANGED <<reg, nsreg, disk, pdirs, tables, cache>> /\ listed' = NoListing
\* write and copy_file_range into the handle; fallocate is the same.
Write(h) ==
    /\ h \in DOMAIN files /\ files[h].w /\ ~files[h].ro /\ files[h].at \in DOMAIN disk
    /\ disk' = [disk EXCEPT ![files[h].at] = files[h].by]
    /\ Changed(files[h].by, "write", files[h].rel, files[h].at)
    /\ UNCHANGED <<reg, nsreg, pdirs, tables, recent, files, cache>> /\ listed' = NoListing
Release(h) ==
    /\ h \in DOMAIN files /\ files' = Without(files, {h})
    /\ UNCHANGED <<reg, nsreg, disk, pdirs, tables, recent, cache>> /\ Silent

\* route_new_entry, which makes the missing parents, with create, mknod and
\* symlink for a file (create also opens it) and mkdir for a directory.
Create(u, ns, rel) ==
    /\ Front(rel) \in ViewDirs => Front(rel) \in held
    /\ \E pol \in {ForRequest(u, ns)} : \E b \in {At(pol, rel, "write")} :
          /\ Found(b) /\ ~b.ro /\ HandOff(pol, rel)
          /\ IF rel \in ViewDirs
             THEN b.at \notin There /\ pdirs' = pdirs \cup Ancestors(b.at) \cup {b.at} /\ UNCHANGED <<disk, files>>
             ELSE /\ b.at \notin pdirs /\ pdirs' = pdirs \cup Ancestors(b.at) /\ disk' = With(disk, b.at, u)
                  /\ \/ UNCHANGED files
                     \/ \E h \in Handles \ DOMAIN files :
                           files' = With(files, h, [by |-> u, rel |-> rel, at |-> b.at, ro |-> FALSE, w |-> TRUE])
          /\ cache' = <<>> /\ held' = held \cup {rel} /\ Remember(pol, rel)
          /\ Changed(u, "create", rel, b.at)
    /\ UNCHANGED <<reg, nsreg, memo>> /\ listed' = NoListing

\* unlink and rmdir (remove_child), which route as a read does.
RemoveChild(u, ns, rel) ==
    /\ rel \in held
    /\ \E pol \in {ForRequest(u, ns)} : \E b \in {At(pol, rel, "read")} :
          /\ Found(b) /\ ~b.ro /\ HandOff(pol, rel)
          /\ IF rel \in Views THEN b.at \in DOMAIN disk /\ disk' = Without(disk, {b.at}) /\ UNCHANGED pdirs
             ELSE b.at \in pdirs /\ Names(b.at) = {} /\ pdirs' = pdirs \ {b.at} /\ UNCHANGED disk
          /\ Unname({rel}) /\ cache' = <<>>
          /\ Changed(u, "remove", rel, b.at)
    /\ UNCHANGED <<reg, nsreg, files>> /\ listed' = NoListing

\* rename of a file, over an existing one or not.
Rename(u, ns, rel, new) ==
    /\ {rel, new} \subseteq Views /\ rel # new /\ rel \in held /\ Front(new) \in held
    /\ \E pol \in {ForRequest(u, ns)} :
       \E b \in {At(pol, rel, "write")}, c \in {At(pol, new, "write")} :
          /\ Found(b) /\ Found(c) /\ ~b.ro /\ ~c.ro /\ b.at \in DOMAIN disk
          /\ recent' = recent \cup {r \in {rel, new} : IsMapped(pol, Stripped(pol, r))}
          /\ disk' = With(Without(disk, {b.at}), c.at, u) /\ pdirs' = pdirs \cup Ancestors(c.at)
          /\ cache' = <<>> /\ Changed(u, "rename", new, c.at)
    /\ held' = (held \ {rel}) \cup {new} /\ memo' = Without(memo, {rel, new})
    /\ owner' = LET o == Without(owner, {rel, new}) IN IF rel \in DOMAIN owner THEN With(o, new, owner[rel]) ELSE o
    /\ pown' = LET o == Without(pown, {rel, new}) IN IF rel \in DOMAIN pown THEN With(o, new, pown[rel]) ELSE o
    /\ UNCHANGED <<reg, nsreg, files>> /\ listed' = NoListing

\* setattr (truncation, mode, times), served for the owner of the inode.
SetAttr(u, ns, rel) ==
    /\ rel \in held \cap Views
    /\ \E pol \in {ForAttributes(u, ForRequest(u, ns), rel)} : \E b \in {BackendForIno(pol, rel)} :
          /\ Found(b) /\ ~b.ro /\ b.at \in DOMAIN disk /\ HandOff(pol, rel)
          /\ disk' = [disk EXCEPT ![b.at] = u]
          /\ Changed(u, "setattr", rel, b.at)
    /\ UNCHANGED <<reg, nsreg, pdirs, tables, files, cache>> /\ listed' = NoListing

-----------------------------------------------------------------------------
(* opendir: the candidates of a directory are kept for a while, as long as   *)
(* the storage directories they were read from do not change.                *)

\* The storage directories collect_dir_entry_candidates reads.
Sources(pol, rel) ==
    {RedirectRoot(pol) \o rel, rel} \cup {m.to : m \in {n \in pol.maps : IsPrefix(n.from, rel)}}
\* append_backend_dir_entries: an entry is shown if the child is served from
\* there, or is a directory some rule needs.
Shown(pol, rel, d, n) ==
    \/ IF ChildrenRouteUniformly(pol, rel) THEN Append(d, n) = Append(At(pol, rel, "read").at, n)
       ELSE \/ Append(d, n) = At(pol, Append(rel, n), "read").at
            \/ IsReal(pol, Append(rel, n), "read") /\ ~IsMapped(pol, Append(rel, n)) /\ d = rel
    \/ IsVirtualDir(pol, Append(rel, n))
\* append_rule_prefix_entries.
RuleNames(pol, rel) ==
    {r[Len(rel) + 1] : r \in {s \in UNION {pol[k] : k \in RuleSets} \cup {m.from : m \in pol.maps} :
                                  IsStrictPrefix(rel, s)}}
Collect(pol, rel) ==
    UNION {{n \in Names(d) : Shown(pol, rel, d, n)} : d \in Sources(pol, rel)} \cup RuleNames(pol, rel)
Snapshot(pol, rel) == [d \in Sources(pol, rel) |-> Names(d)]
\* DirectorySourceSignature::state of every source.
SourcesCurrent(c) == \A d \in DOMAIN c.sources : Names(d) = c.sources[d]

OpenDir(u, ns, rel) ==
    /\ rel \in held \cap ViewDirs
    /\ \E pol \in {IF ReadsFor(u, rel) THEN reg[OwnerOfPath(rel)] ELSE ForRead(u, ns, rel, rel)} :
       \E b \in {At(pol, rel, "read")}, own \in {Collect(pol, rel)} :
          /\ Found(b) /\ (b.at \in pdirs \/ IsVirtualDir(pol, rel)) /\ HandOff(pol, rel)
          /\ IF rel \in DOMAIN cache /\ SourcesCurrent(cache[rel])
             THEN /\ listed' = [by |-> cache[rel].by, for |-> pol, own |-> own, names |-> cache[rel].cands]
                  /\ UNCHANGED cache
             ELSE /\ listed' = [by |-> pol, for |-> pol, own |-> own, names |-> own]
                  /\ cache' = With(cache, rel, [by |-> pol, cands |-> own, sources |-> Snapshot(pol, rel)])
    /\ last' = NoChange /\ UNCHANGED <<reg, nsreg, disk, pdirs, tables, files>>

-----------------------------------------------------------------------------
(* The world around the session.                                             *)

\* SharedPolicyTable::register: nothing that was remembered is dropped.
Register(a) ==
    /\ \E pol \in Menu(a) :
          /\ reg' = With(reg, a, pol)
          /\ nsreg' \in {nsreg, With(nsreg, a, pol)}
    /\ UNCHANGED <<disk, pdirs, tables, recent, files, cache>> /\ Silent
\* register_namespace_only.
RegisterNamespace(a) ==
    /\ \E pol \in Menu(a) : nsreg' = With(nsreg, a, pol)
    /\ UNCHANGED <<reg, disk, pdirs, tables, recent, files, cache>> /\ Silent
\* Another process changes the storage; the window of a handoff passes; a
\* cached listing expires.
StorageChanges(f) ==
    /\ disk' = IF f \in DOMAIN disk THEN Without(disk, {f}) ELSE With(disk, f, Nobody)
    /\ pdirs' = pdirs \cup Ancestors(f)
    /\ UNCHANGED <<reg, nsreg, tables, recent, files, cache>> /\ Silent
TimePasses ==
    /\ recent \cup DOMAIN cache # {} /\ recent' = {} /\ cache' = <<>>
    /\ UNCHANGED <<reg, nsreg, disk, pdirs, tables, files>> /\ Silent

\* The applications that were registered before the first request.
Registrations == UNION {{r \in [as -> UNION {Menu(a) : a \in as}] : \A a \in as : r[a] \in Menu(a)} : as \in SUBSET Apps}
Init ==
    /\ reg \in Registrations /\ nsreg = <<>>
    /\ disk = [f \in Outside |-> Nobody] /\ pdirs = UNION {Ancestors(f) : f \in Outside}
    /\ held = {} /\ memo = <<>> /\ owner = <<>> /\ pown = <<>> /\ recent = {}
    /\ files = <<>> /\ cache = <<>> /\ listed = NoListing /\ last = NoChange /\ reqs = 0

Next ==
    /\ Step
    /\ \/ \E u \in Callers, rel \in Rels : \E ns \in IF u = SuperUser THEN Apps ELSE {u} :
             \/ Lookup(u, ns, rel) \/ OpenDir(u, ns, rel)
             \/ \E w \in BOOLEAN : Open(u, ns, rel, w)
             \/ Create(u, ns, rel) \/ RemoveChild(u, ns, rel) \/ SetAttr(u, ns, rel)
             \/ \E new \in Views : Rename(u, ns, rel, new)
       \/ \E rel \in Rels : Forget(rel)
       \/ \E h \in Handles : Write(h) \/ Release(h)
       \/ \E a \in Apps : Register(a) \/ RegisterNamespace(a)
       \/ \E f \in Outside : StorageChanges(f)
       \/ TimePasses

Spec == Init /\ [][Next]_vars

-----------------------------------------------------------------------------
\* The tables have the types of their declarations; what an inode remembers
\* belongs to an inode that exists, and no owner is an unregistered caller.
TypeOK ==
    /\ DOMAIN reg \subseteq Apps /\ DOMAIN nsreg \subseteq Apps
    /\ held \subseteq Rels /\ DOMAIN memo \subseteq held /\ DOMAIN owner \subseteq held /\ DOMAIN pown \subseteq Rels
    /\ \A r \in DOMAIN owner : owner[r] \in Apps \cup {System}
    /\ \A r \in DOMAIN memo : memo[r].uid \in Apps \cup {System}
    /\ DOMAIN files \subseteq Handles /\ \A h \in DOMAIN files : files[h].by \in Callers

\* The sandbox of an application is its own: no file of it is created, removed,
\* renamed, opened for writing or written by the request of another
\* application, whatever the shared inode remembers of the other.
SandboxPrivate ==
    last.by \in Apps /\ last.op # "setattr" => \A a \in Apps \ {last.by} : ~IsPrefix(Sandbox(a), last.at)

\* A storage path that is read-only for an application is not created, removed
\* or renamed by it, also not through a mapping, and not opened for writing
\* unless the inode was resolved when it was still writable.
ReadOnlyAt(pol, at) == Under(pol.readOnly, at) /\ ~Under(pol.readOnlyEx, at) /\ ~Under(pol.excluded, at)
EntriesReadOnly ==
    last.by \in DOMAIN reg /\ last.op \in {"create", "remove", "rename", "open"} =>
        \/ ~ReadOnlyAt(reg[last.by], last.at)
        \/ last.op = "open" /\ last.rel \in DOMAIN memo /\ ~memo[last.rel].ro

\* Both, and every variable in its range (policy.rs, callbacks.rs).
ViewEnforced == TypeOK /\ SandboxPrivate /\ EntriesReadOnly

\* A listing answered from the cache that was made for the same policy shows
\* what reading the directory would, also when storage changed meanwhile.
ListingRight == listed # NoListing /\ listed.by = listed.for => listed.names = listed.own

=============================================================================
