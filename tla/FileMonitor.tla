---------------------------- MODULE FileMonitor ----------------------------
(* Who gets the blame for a change of a public file.  The processes that     *)
(* serve applications (MediaProvider "mp", the documents provider "docs")    *)
(* note who asked for which path, in their memory and in one shared file,    *)
(* and send a request record to the daemon (monitor.rs, monitor/).  The      *)
(* daemon logs it, notes it too, and logs what inotify sees as observations, *)
(* once per window and not again when a request record told it already       *)
(* (log_daemon.rs, daemon_monitor.rs, daemon_monitor/events.rs).  Time is in *)
(* ticks.                                                                    *)
EXTENDS Naturals, FiniteSets, Sequences, SequencesExt

CONSTANTS
    Apps,        \* packages with a user id of their own
    Paths,       \* public paths
    SameName,    \* pairs of paths with the same file name
    NamedIn,     \* the package whose name is a part of the path, or Nobody
    Directory,   \* the directory they are in, the node of the watch tree
    Watchers,    \* its watchers, [pkg, source], in their order
    Owners,      \* who may own a file: packages, "dl" a system writer, "media", "shared"
    Kinds, Ops, Sources,  \* the inotify events, operations and announcements that happen
    Nobody,
    HintWindow, RequestWindow, QueryWindow, Park, DupWindow, DedupWindow,
    MaxHints, MaxPending, MaxRecent, MaxDedup, SocketMax,
    MaxTime, MaxOps   \* the bounds of the model
WindowsAssumption == Park > 0 /\ DupWindow > 0 /\ RequestWindow <= HintWindow

VARIABLES
    now, ops,    \* the clock, the operations so far
    files,       \* the owner of every file that exists
    hints,       \* RECENT_PATH_CALLER_HINT of every process
    file,        \* recent_path_caller.hint, the last one's hints
    query,       \* query_access_paths of mp
    told,        \* recent_event_ms of mp and docs: the request records sent
    doing,       \* operations done, not yet recorded
    socket,      \* records on their way to the daemon
    events,      \* inotify events not yet read
    parked,      \* pending_observations
    recent, dedup,   \* recent_event_ms with its order; the map of paths.rs
    asked,       \* history: the requests made, and recorded as made
    ledger       \* history: the records logged

vars == <<now, ops, files, hints, file, query, told, doing, socket, events, parked, recent, dedup, asked, ledger>>
provider == <<query, told>>
daemon == <<socket, events, parked, recent, dedup, ledger>>

Processes == {"mp", "docs", "daemon"}
Shared == {"allowed_real_path", "read_only_path", "public_root"}   \* roots others write below too
Exact == {"provider_open", "provider_mkdir", "saf_provider"}
Within(t, w) == now - t <= w

Init ==
    /\ now = 0 /\ ops = 0 /\ files = <<>>
    /\ hints = [x \in Processes |-> <<>>] /\ file = <<>>
    /\ query = <<>> /\ told = <<>>
    /\ doing = {} /\ socket = <<>> /\ events = <<>> /\ parked = <<>>
    /\ recent = <<>> /\ dedup = {} /\ asked = {} /\ ledger = {}

-----------------------------------------------------------------------------
(* Hints.                                                                    *)

Hint(a, p, source, op) == [pkg |-> a, path |-> p, source |-> source, op |-> op, at |-> now]
\* remember_path_hint_locked: one of a kind, none that is too old, the last ones.
Remember(q, h) ==
    LET same(x) == x.pkg = h.pkg /\ x.source = h.source /\ x.path = h.path /\ x.op = h.op
        kept == SelectSeq(Append(SelectSeq(q, LAMBDA x : ~same(x)), h), LAMBDA x : Within(x.at, HintWindow))
    IN IF Len(kept) > MaxHints THEN SubSeq(kept, Len(kept) - MaxHints + 1, Len(kept)) ELSE kept
\* The file is replaced by what this process remembers.
Noted(x, h) == hints' = [hints EXCEPT ![x] = Remember(@, h)] /\ file' = hints'[x]
Known(x) == Range(hints[x]) \cup Range(file)
\* A fault in HintMatches: a request for any path will do.
HintMatchesAny(h, p) == Within(h.at, HintWindow)
\* The documents provider is asked by name: the tree above a file, or any
\* file of that name, stands for it.
HintMatches(h, p) ==
    /\ Within(h.at, HintWindow)
    /\ h.path = p \/ (h.source = "saf_provider" /\ <<h.path, p>> \in SameName)
Rank(h) == CASE h.source = "saf_provider" -> 4 [] h.source = "provider_open" -> 3
             [] h.source = "query_access" -> 2 [] OTHER -> 0
Infer(x, p) ==
    LET fits == {h \in Known(x) : HintMatches(h, p)}
        best == {h \in fits : \A g \in fits : Rank(g) < Rank(h) \/ (Rank(g) = Rank(h) /\ g.at <= h.at)}
    IN IF best = {} THEN [pkg |-> Nobody, source |-> "none"] ELSE CHOOSE h \in best : TRUE
\* A fault in AsksToWrite: only a new directory is a write.
AsksToWriteOnlyDir(op) == op = "mkdir"
AsksToWrite(op) == op \in {"mkdir", "provider_open", "provider_open:create", "provider_open:write"}
Requested(p) == \E h \in Known("daemon") : h.path = p /\ AsksToWrite(h.op) /\ Within(h.at, RequestWindow)

-----------------------------------------------------------------------------
(* Requests.                                                                 *)

\* remember_query_access_locked, prune_query_access_locked.
Queried(a, p, source) ==
    query' = [q \in {r \in DOMAIN query : Within(query[r].at, QueryWindow)} \cup {p} |->
                IF q = p THEN [pkg |-> a, source |-> source, at |-> now] ELSE query[q]]
Asked(a, p, real) == asked' = asked \cup {[pkg |-> a, path |-> p, real |-> real, at |-> now]}

\* record_provider_open_path, record_provider_directory_path and
\* record_query_access_path: only a hint.
Announce(a, p, source) ==
    /\ ops < MaxOps /\ ops' = ops + 1 /\ Asked(a, p, TRUE)
    /\ Noted("mp", Hint(a, p, source, IF source = "provider_mkdir" THEN "mkdir" ELSE "provider_open"))
    /\ Queried(a, p, source)
    /\ UNCHANGED <<now, files, told, doing, daemon>>

\* A file is changed, by an application on its own or by a provider for the
\* caller it believes it has; inotify tells in any case.
Event(p, kind) == [path |-> p, kind |-> kind]
Touched(p, kind) ==
    CASE kind = "create" -> \E o \in Owners : p \notin DOMAIN files /\ files' = [q \in DOMAIN files \cup {p} |-> IF q = p THEN o ELSE files[q]]
      [] kind = "delete" -> p \in DOMAIN files /\ files' = [q \in DOMAIN files \ {p} |-> files[q]]
      [] OTHER -> p \in DOMAIN files /\ UNCHANGED files
Change(p, kind) ==
    /\ ops < MaxOps /\ ops' = ops + 1
    /\ Touched(p, kind)
    /\ events' = Append(events, Event(p, kind))
    /\ UNCHANGED <<now, hints, file, provider, doing, socket, parked, recent, dedup, asked, ledger>>
Serve(x, a, p, op) ==
    /\ ops < MaxOps /\ ops' = ops + 1 /\ doing = {}
    /\ LET kind == CASE op = "open:create" -> "create" [] op = "open:write" -> "modify" [] OTHER -> "read"
       IN IF kind = "read" THEN UNCHANGED <<files, events>>
          ELSE Touched(p, kind) /\ events' = Append(events, Event(p, kind))
    /\ doing' = {[proc |-> x, pkg |-> a, path |-> p, op |-> op]}
    /\ UNCHANGED <<now, hints, file, provider, socket, parked, recent, dedup, asked, ledger>>

Id(a, method, high) == [pkg |-> a, method |-> method, high |-> high]
\* resolve_caller_info_for_path: the caller itself; else whoever asked for the
\* path or queried it; else the package the path names.  The caller last seen
\* counts only when a hint for the path agrees, and the hint is then taken.
Identity(d) ==
    LET h == Infer("mp", d.path)
    IN CASE d.pkg # Nobody -> Id(d.pkg, "caller", TRUE)
         [] d.pkg = Nobody /\ h.pkg # Nobody -> Id(h.pkg, h.source, h.source # "query_access")
         [] d.pkg = Nobody /\ h.pkg = Nobody /\ d.path \in DOMAIN query /\ Within(query[d.path].at, QueryWindow) ->
                Id(query[d.path].pkg, query[d.path].source, query[d.path].source # "query_access")
         [] d.pkg = Nobody /\ h.pkg = Nobody /\ d.op # "open:read" /\ NamedIn[d.path] # Nobody -> Id(NamedIn[d.path], "public_path_package", TRUE)
         [] OTHER -> Id(Nobody, "unknown", FALSE)
IsWrite(op) == op # "open:read"
\* should_skip_duplicate_event_locked: a repetition starts the window anew.
Repeats(key) == key \in DOMAIN told /\ now - told[key] < DupWindow
Sent(line) == IF Len(socket) < SocketMax THEN Append(socket, line) ELSE socket
\* record_operation_result in mp: the record, and a hint for the daemon when
\* the identity is certain and something was written.
RecordResult(d) ==
    /\ d \in doing /\ d.proc = "mp"
    /\ doing' = doing \ {d}
    /\ LET id == Identity(d)
           key == <<id.pkg, IF IsWrite(d.op) THEN "open:write" ELSE d.op, d.path>>
       IN /\ Asked(id.pkg, d.path, d.pkg # Nobody)
          /\ told' = [k \in DOMAIN told \cup {key} |-> IF k = key THEN now ELSE told[k]]
          /\ IF Repeats(key) THEN UNCHANGED <<hints, file, socket>>
             ELSE /\ socket' = Sent([pkg |-> id.pkg, path |-> d.path, op |-> d.op, method |-> id.method, sent |-> now])
                  /\ IF id.high /\ id.pkg # Nobody /\ IsWrite(d.op)
                     THEN Noted("mp", Hint(id.pkg, d.path, "provider_open", "provider_open"))
                     ELSE UNCHANGED <<hints, file>>
    /\ UNCHANGED <<now, ops, files, query, events, parked, recent, dedup, ledger>>
ProviderOp(op) == CASE op = "open:create" -> "provider_open:create" [] op = "open:write" -> "provider_open:write" [] OTHER -> "provider_open:read"
\* record_media_provider_open_success: the caller is noted whatever it opened
\* for, then the result is recorded.
OpenSuccess(d) ==
    /\ d \in doing /\ d.proc = "java"
    /\ doing' = doing \ {d}
    /\ Queried(d.pkg, d.path, "provider_open") /\ Asked(d.pkg, d.path, TRUE)
    /\ Noted("mp", Hint(d.pkg, d.path, "provider_open", "provider_open"))
    /\ LET key == <<d.pkg, IF IsWrite(d.op) THEN "open:write" ELSE ProviderOp(d.op), d.path>>
       IN /\ told' = [k \in DOMAIN told \cup {key} |-> IF k = key THEN now ELSE told[k]]
          /\ socket' = IF Repeats(key) THEN socket
                       ELSE Sent([pkg |-> d.pkg, path |-> d.path, op |-> ProviderOp(d.op), method |-> "caller", sent |-> now])
    /\ UNCHANGED <<now, ops, files, events, parked, recent, dedup, ledger>>
\* record_saf_provider_path: both hints, and a record every time.
SafOpen(d) ==
    /\ d \in doing /\ d.proc = "docs"
    /\ doing' = doing \ {d}
    /\ hints' = [hints EXCEPT !["docs"] = Remember(Remember(@, Hint(d.pkg, d.path, "provider_open", "provider_open")),
                                                   Hint(d.pkg, d.path, "saf_provider", ProviderOp(d.op)))]
    /\ file' = hints'["docs"] /\ Asked(d.pkg, d.path, TRUE)
    /\ socket' = Sent([pkg |-> d.pkg, path |-> d.path, op |-> ProviderOp(d.op), method |-> "saf_provider", sent |-> now])
    /\ UNCHANGED <<now, ops, files, provider, events, parked, recent, dedup, ledger>>

-----------------------------------------------------------------------------
(* The daemon.                                                               *)

Logged(role, pkg, method, what, p, source, at) ==
    [role |-> role, pkg |-> pkg, method |-> method, what |-> what, path |-> p, source |-> source, at |-> at]
\* register_request_path_hint.
HintOp(op) == CASE op \in {"open:create", "provider_open:create"} -> "provider_open:create"
                [] op \in {"open:write", "provider_open:write"} -> "provider_open:write"
                [] OTHER -> "none"
Receive ==
    /\ socket # <<>>
    /\ LET l == Head(socket)
       IN /\ ledger' = ledger \cup {Logged("request", l.pkg, l.method, l.op, l.path, [pkg |-> Nobody, source |-> "none"], now)}
          /\ IF HintOp(l.op) # "none" /\ l.pkg # Nobody
             THEN Noted("daemon", Hint(l.pkg, l.path, "provider_open", HintOp(l.op)))
             ELSE UNCHANGED <<hints, file>>
    /\ socket' = Tail(socket)
    /\ UNCHANGED <<now, ops, files, provider, doing, events, parked, recent, dedup, asked>>

\* resolve_monitor_identity, for one watcher: a certain request for the path,
\* the owner of the file, the package the path names, MediaProvider for a file
\* of the system, and the watching package in the end.
Witness(w, p) ==
    LET h == Infer("daemon", p)
        owner == IF p \in DOMAIN files THEN files[p] ELSE "gone"
    IN CASE w.source \in Shared /\ h.source \in Exact /\ h.pkg \in Apps -> Id(h.pkg, h.source, TRUE)
         [] ~(w.source \in Shared /\ h.source \in Exact /\ h.pkg \in Apps) /\ owner \in Apps \cup {"dl"} ->
                IF owner = "dl" /\ w.source \notin Shared THEN Id(w.pkg, "watch_package", FALSE) ELSE Id(owner, "owner_uid", TRUE)
         [] ~(w.source \in Shared /\ h.source \in Exact /\ h.pkg \in Apps) /\ owner \notin Apps \cup {"dl"} ->
                IF NamedIn[p] # Nobody THEN Id(NamedIn[p], "public_path_package", TRUE)
                ELSE IF w.source \in Shared /\ owner = "media" THEN Id("mp", "media_provider_fallback", FALSE)
                ELSE Id(w.pkg, "daemon_inotify", FALSE)
\* should_skip_ambiguous_*, should_skip_public_root_event_identity: below a
\* root others write to, a package is not named because it watches.
Ambiguous(w, id) ==
    /\ w.source \in Shared
    /\ id.method \notin {"media_provider_fallback", "public_path_package"} \cup Exact
    /\ ~(id.pkg = "dl" /\ id.method = "owner_uid")
    /\ id.pkg # w.pkg \/ id.method # "owner_uid"

Operation(kind) == CASE kind = "create" -> "inotify" [] kind = "delete" -> "delete" [] OTHER -> "open:write"
\* should_skip_duplicate.  What is written again and again is told once per
\* window; any other repetition starts the window anew.
Recency(r, key) == IF \E i \in DOMAIN r : r[i].key = key THEN {r[CHOOSE i \in DOMAIN r : r[i].key = key].at} ELSE {}
Renewed(r, key) ==
    IF Recency(r, key) = {} THEN Append(r, [key |-> key, at |-> now])
    ELSE [i \in DOMAIN r |-> IF r[i].key = key THEN [key |-> key, at |-> now] ELSE r[i]]
Trimmed(r) == IF Len(r) > MaxRecent THEN SubSeq(r, Len(r) - MaxRecent + 1, Len(r)) ELSE r
SkipDuplicate(r, a, p, kind) ==
    LET key == <<a, Operation(kind), p>>
        create == <<a, "create", p>>
        recently(k) == \E t \in Recency(r, k) : now - t < DupWindow
    IN CASE kind = "close" /\ recently(create) -> [skip |-> TRUE, recent |-> r]
         [] ~(kind = "close" /\ recently(create)) /\ recently(key) ->
                [skip |-> TRUE, recent |-> IF kind = "modify" THEN r ELSE Renewed(r, key)]
         [] OTHER -> [skip |-> FALSE,
                      recent |-> Trimmed(IF kind = "create" /\ Recency(r, key) = {} THEN Renewed(Renewed(r, key), create) ELSE Renewed(r, key))]
\* should_suppress_duplicate_monitor_record.
Suppressed(d, key) == \E x \in d : x.key = key /\ now - x.at < DedupWindow
Room(d) ==
    LET young == {x \in d : now - x.at < DedupWindow}
    IN IF Cardinality(d) <= MaxDedup THEN d ELSE IF Cardinality(young) <= MaxDedup THEN young ELSE {}
What(kind) == CASE kind = "create" -> "CREATE" [] kind = "delete" -> "DELETE" [] OTHER -> "OPEN"
\* emit_observation_event, emit_monitor_event: for every watcher in turn.
Emitted(p, kind) ==
    LET emit(st, w) ==
            LET id == Witness(w, p)
                dup == SkipDuplicate(st.recent, id.pkg, p, kind)
                key == <<What(kind), p, id.pkg>>
                kept == {x \in Room(st.dedup) : x.key # key}
            IN CASE w.source = "public_owner" \/ Ambiguous(w, id) -> st
                 [] ~(w.source = "public_owner" \/ Ambiguous(w, id)) /\ dup.skip -> [st EXCEPT !.recent = dup.recent]
                 [] OTHER ->
                      IF Suppressed(Room(st.dedup), key) THEN [st EXCEPT !.recent = dup.recent, !.dedup = Room(@)]
                      ELSE [recent |-> dup.recent, dedup |-> kept \cup {[key |-> key, at |-> now]},
                            out |-> st.out \cup {Logged("observation", id.pkg, id.method, What(kind), p, w, now)}]
    IN FoldLeft(emit, [recent |-> recent, dedup |-> dedup, out |-> {}], Watchers)
Emit(p, kind) ==
    LET e == Emitted(p, kind)
    IN recent' = e.recent /\ dedup' = e.dedup /\ ledger' = ledger \cup e.out

\* handle_event: a file that appeared or was written waits for its request
\* record; when too many wait it is told at once.
Waits(kind) == kind \in {"create", "modify"}
HandleEvent ==
    /\ events # <<>>
    /\ events' = Tail(events)
    /\ LET e == Head(events)
       IN CASE Waits(e.kind) /\ Requested(e.path) -> UNCHANGED <<parked, recent, dedup, ledger>>
            [] Waits(e.kind) /\ ~Requested(e.path) /\ Len(parked) < MaxPending ->
                  parked' = Append(parked, [path |-> e.path, kind |-> e.kind, at |-> now]) /\ UNCHANGED <<recent, dedup, ledger>>
            [] OTHER -> Emit(e.path, e.kind) /\ UNCHANGED parked
    /\ UNCHANGED <<now, ops, files, hints, file, provider, doing, socket, asked>>
\* flush_pending_observations, for one item that waited long enough: the node
\* is looked up by the path of the file below the descriptor of its directory,
\* where no node has it, and the event is dropped.
NodeOf(item) == {d \in {Directory} : d = item.path}
Flush ==
    /\ parked # <<>> /\ ~Within(Head(parked).at, Park - 1)
    /\ parked' = Tail(parked)
    /\ IF Requested(Head(parked).path) \/ NodeOf(Head(parked)) = {} THEN UNCHANGED <<recent, dedup, ledger>>
       ELSE Emit(Head(parked).path, Head(parked).kind)
    /\ UNCHANGED <<now, ops, files, hints, file, provider, doing, socket, events, asked>>

Tick == /\ now < MaxTime /\ now' = now + 1
        /\ UNCHANGED <<ops, files, hints, file, provider, doing, daemon, asked>>

Hook == \/ \E a \in Apps, p \in Paths, s \in Sources : Announce(a, p, s)
        \/ \E p \in Paths, k \in Kinds : Change(p, k)
        \/ \E a \in Apps, p \in Paths, op \in Ops : Serve("mp", a, p, op) \/ Serve("java", a, p, op) \/ Serve("docs", a, p, op)
        \/ \E p \in Paths, op \in Ops : Serve("mp", Nobody, p, op)
        \/ \E d \in doing : RecordResult(d) \/ OpenSuccess(d) \/ SafOpen(d)
Daemon == Receive \/ HandleEvent \/ Flush
Next == Hook \/ Daemon \/ Tick
Spec == Init /\ [][Next]_vars

-----------------------------------------------------------------------------
(* Properties.                                                               *)

TypeOK ==
    /\ DOMAIN files \subseteq Paths /\ Range(files) \subseteq Owners
    /\ \A x \in Processes : Len(hints[x]) <= MaxHints
    /\ Len(parked) <= MaxPending /\ Len(recent) <= MaxRecent /\ Len(socket) <= SocketMax
    /\ \A r \in ledger : r.pkg \in Apps \cup {Nobody, "dl", "mp"} /\ r.at <= now

\* A package named because it asked for a path did ask for it, or was logged
\* as asking, within the window: the hints of three processes, the file they
\* overwrite for each other and a request record that was long on its way
\* never name one that did not (monitor/source_hint.rs:
\* infer_recent_path_caller_identity).
BlamedAsked ==
    \A r \in ledger : r.role = "observation" /\ r.method \in Exact =>
        \/ \E q \in asked : /\ q.pkg = r.pkg /\ r.at - q.at \in 0 .. HintWindow
                            /\ q.path = r.path \/ (r.method = "saf_provider" /\ <<q.path, r.path>> \in SameName)
        \/ \E q \in ledger : q.role = "request" /\ q.pkg = r.pkg /\ q.path = r.path /\ r.at - q.at \in 0 .. HintWindow
\* Below a root that others write to, a record names the watching package only
\* with evidence besides its watching (daemon_monitor/events.rs:
\* should_skip_ambiguous_allowed_real_path_event).
NamedWithEvidence ==
    \A r \in ledger : r.role = "observation" /\ r.source.source \in Shared /\ r.method \in {"daemon_inotify", "watch_package"} =>
        r.pkg # r.source.pkg
\* Two observations of the same kind on the same file name the same package
\* only a window apart, though two filters with different windows and
\* different keys decide (daemon_monitor.rs: should_skip_duplicate;
\* platform/paths.rs: should_suppress_duplicate_monitor_record).
RecordsSpaced ==
    \A r, s \in ledger : r.role = "observation" /\ s.role = "observation" /\ r # s
        /\ r.pkg = s.pkg /\ r.what = s.what /\ r.path = s.path => r.at - s.at >= DedupWindow \/ s.at - r.at >= DedupWindow
\* A change a request record told of is not told again: after the record of a
\* write by a known package no create or modify of that file is observed
\* within the window (daemon_monitor.rs: handle_event).
NotToldAgain ==
    [][\A r \in ledger' \ ledger : r.role = "observation" /\ r.what \in {"CREATE", "OPEN"} /\ events # <<>> /\ Waits(Head(events).kind) =>
          ~\E q \in ledger : q.role = "request" /\ q.pkg # Nobody /\ q.path = r.path
                             /\ HintOp(q.what) # "none" /\ r.at - q.at <= RequestWindow]_vars

=============================================================================
