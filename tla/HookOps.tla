------------------------------ MODULE HookOps ------------------------------
(* The file system calls hooked inside a process: hook/ops over the redirect *)
(* engine.  A thread of the media provider acts for the application behind   *)
(* its request, a thread of a redirected application for itself.  A call     *)
(* first reads the mappings (or, in an application, the read-only verdict),  *)
(* then the rule lists, then runs the original call on the path it decided   *)
(* on; another thread may reload the configuration in between.               *)
EXTENDS RedirectEngine, TLC

CONSTANTS
    Threads, App,   \* App: the threads of the application process, Self its package
    Self,
    Callers,        \* the applications requests of the provider come from
    Hinted,         \* those of them a recent request may have left a hint for
    Paths,          \* the paths calls are made with
    Configs,        \* the configurations the user writes, a sequence
    Entries,        \* the entry points that open: open, openat on a relative or an absolute path
    Files0, Dirs0,
    MaxCalls, MaxEdits, MappedTtl, MappedMax

VARIABLES
    disk, edits,   \* the configuration on disk, and how often it was edited
    conf,          \* the one this process has loaded
    files, dirs,   \* what exists in the real storage
    touched,       \* files whose data or metadata a call changed
    mapped,        \* PROCESS_MAPPED_DIRS, oldest first
    now, calls, th,
    win            \* the provider windows each thread has open, and what they hid

vars == <<disk, edits, conf, files, dirs, touched, mapped, now, calls, th, win>>

MutateOps == {"open", "unlink", "rmdir", "meta", "mknod", "mkdir", "rename", "exchange", "link"}
TwoPaths == {"rename", "exchange", "link"}
Idle == [pc |-> "idle"]
Ancestors(p) == {SubSeq(p, 1, n) : n \in 1 .. Len(p) - 1}
Below(set, p) == {x \in set : IsStrictPrefix(p, x)}
\* The package a call counts for in the rules.
CallerOf(t, p) ==
    IF t \in App THEN Self
    ELSE EffectiveCaller(Configs[th[t].first], th[t].signal, th[t].hint, p, TRUE, TRUE)
\* A Java hook around a mutation of the provider opens a window on its thread.
Windows == {"passthrough", "virtual"}
Closed == [open |-> {}, hidden |-> {}]

Init ==
    /\ disk = 1 /\ conf = 1 /\ edits = 0
    /\ files = Files0 /\ dirs = Dirs0 /\ touched = {}
    /\ mapped = <<>> /\ now = 0 /\ calls = 0
    /\ th = [t \in Threads |-> Idle]
    /\ win = [t \in Threads |-> Closed]

-----------------------------------------------------------------------------
(* Configuration.                                                            *)

Edit ==
    /\ edits < MaxEdits
    /\ edits' = edits + 1
    /\ disk' \in 1 .. Len(Configs)
    /\ UNCHANGED <<conf, files, dirs, touched, mapped, now, calls, th, win>>

\* The next decision that polls the watcher, in whichever thread, reloads; a
\* call under way remembers every configuration it has seen.
Reload ==
    /\ conf # disk
    /\ conf' = disk
    /\ th' = [t \in Threads |->
                 IF th[t].pc = "idle" THEN th[t] ELSE [th[t] EXCEPT !.seen = @ \cup {disk}]]
    /\ UNCHANGED <<disk, edits, files, dirs, touched, mapped, now, calls, win>>

Tick ==
    /\ mapped # <<>> /\ now < MappedTtl + 1
    /\ now' = now + 1
    /\ UNCHANGED <<disk, edits, conf, files, dirs, touched, mapped, calls, th, win>>

-----------------------------------------------------------------------------
(* A call up to its decision.                                                *)

\* with_hook_guard, prepare_relevant_path: the thread's caller is settled and
\* the paths are made absolute.
Begin(t) ==
    /\ th[t].pc = "idle" /\ calls < MaxCalls
    /\ calls' = calls + 1
    /\ \E op \in MutateOps, p \in Paths, signal \in IF t \in App THEN {Self} ELSE Callers \cup {NoCaller} :
       \E q \in IF op \in TwoPaths THEN Paths ELSE {p}, entry \in IF op = "open" THEN Entries ELSE {"open"},
          hint \in {NoCaller} \cup (IF signal = NoCaller THEN Hinted ELSE {}) :
          th' = [th EXCEPT ![t] = [pc |-> "begun", op |-> op, p |-> p, q |-> q, signal |-> signal,
                                   hint |-> hint, entry |-> entry, first |-> conf, seen |-> {conf}]]
    /\ UNCHANGED <<disk, edits, conf, files, dirs, touched, mapped, now, win>>

\* What the engine answers for a path of the call: the mappings (the router's
\* read-only verdict) of the first configuration, the rules of the current.
\* An application in write-only mode asks for writes only.  In a window of the
\* passthrough kind the path was rewritten before and is taken as it is, but for
\* directories to be made.
Bypasses(t) == "passthrough" \in win[t].open /\ th[t].op # "mkdir"
Decision(t, p) ==
    LET c == th[t]
    IN CASE t \in App -> RouterDecision(Configs[c.first][Self], Configs[conf][Self], Self, p, TRUE)
         [] t \notin App /\ Bypasses(t) -> Allow
         [] OTHER -> WriterDecision(Configs[c.first], Configs[conf], CallerOf(t, p), c.signal, c.hint, p, TRUE, TRUE)

\* The package a call of the provider is decided for, if it is not the provider's own.
ServedFor(t, p) ==
    LET c == th[t]
    IN IF t \notin App /\ ActsForItself(Configs[c.first], Configs[conf], c.signal, c.hint, p, TRUE, TRUE)
       THEN NoCaller ELSE CallerOf(t, p)

\* resolve_mapping_request_mkdir_redirect: a directory on the request side of
\* a mapping is made at its target even when the caller is not its owner.
MkdirDecision(t, p) ==
    LET d == Decision(t, p)
        owner == OwnerAmong(Requests(Configs[conf], p))
    IN IF d.act = "allow" /\ t \notin App /\ owner # NoCaller
       THEN LET q == MapPath(Configs[conf][owner], p) IN IF q # p THEN Redirect(q, TRUE) ELSE d
       ELSE d

NeverDecided == [act |-> "allow", to |-> <<>>, mapping |-> FALSE]
Decide(t) ==
    /\ th[t].pc = "begun"
    /\ LET c == th[t]
           dp == CASE c.op = "mkdir" -> MkdirDecision(t, c.p)
                   [] c.op = "link" -> NeverDecided
                   [] OTHER -> Decision(t, c.p)
           dq == IF c.op \in TwoPaths THEN Decision(t, c.q) ELSE NeverDecided
       IN th' = [th EXCEPT ![t] =
                    [c EXCEPT !.pc = IF dp.act = "deny" \/ dq.act = "deny" THEN "denied" ELSE "call"]
                    @@ [dp |-> dp, dq |-> dq, callers |-> {ServedFor(t, c.p), ServedFor(t, c.q)}]]
    /\ UNCHANGED <<disk, edits, conf, files, dirs, touched, mapped, now, calls, win>>

\* deny_read_only_*: EROFS, recorded by the monitor.
Denied(t) ==
    /\ th[t].pc = "denied"
    /\ th' = [th EXCEPT ![t] = Idle]
    /\ UNCHANGED <<disk, edits, conf, files, dirs, touched, mapped, now, calls, win>>

-----------------------------------------------------------------------------
(* The original call on the path decided on.  Each is one system call here;  *)
(* what it needs and finds missing makes it fail without effect.             *)

Return(t) == th' = [th EXCEPT ![t] = Idle]
Call(t, op) == th[t].pc = "call" /\ th[t].op = op /\ Return(t)
\* The parents of the decided path are made first, then the call creates or
\* truncates what it names.
Creates(t, at) ==
    LET have == dirs \cup Ancestors(Final(th[t].dp, th[t].p))
        ok == Ancestors(at) \subseteq have /\ at \notin have
    IN /\ dirs' = have
       /\ files' = IF ok THEN files \cup {at} ELSE files
       /\ touched' = IF ok THEN touched \cup {at} ELSE touched

\* handle_open_like with O_CREAT.
Open(t) ==
    /\ Call(t, "open") /\ th[t].entry = "open"
    /\ Creates(t, Final(th[t].dp, th[t].p))
    /\ UNCHANGED <<disk, edits, conf, mapped, now, calls, win>>

\* handle_openat_like: the decided path is passed on only for a relative one.
OpenAt(t) ==
    /\ Call(t, "open") /\ th[t].entry # "open"
    /\ Creates(t, IF th[t].entry = "openatRel" THEN Final(th[t].dp, th[t].p) ELSE th[t].p)
    /\ UNCHANGED <<disk, edits, conf, mapped, now, calls, win>>

\* handle_mknod_like.
Mknod(t) ==
    /\ Call(t, "mknod")
    /\ LET c == th[t]
           at == Final(c.dp, c.p)
           have == IF c.dp.act = "redirect" THEN dirs \cup Ancestors(at) ELSE dirs
           ok == Ancestors(at) \subseteq have /\ at \notin have \cup files
       IN /\ dirs' = have
          /\ files' = IF ok THEN files \cup {at} ELSE files
    /\ UNCHANGED <<disk, edits, conf, touched, mapped, now, calls, win>>

\* handle_unlink_like.
Unlink(t) ==
    /\ Call(t, "unlink")
    /\ files' = files \ {Final(th[t].dp, th[t].p)}
    /\ touched' = touched \ {Final(th[t].dp, th[t].p)}
    /\ UNCHANGED <<disk, edits, conf, dirs, mapped, now, calls, win>>

\* handle_single_path_audit with redirect_mutation, for truncate, chmod, chown,
\* utime, xattr and their like.
Meta(t) ==
    /\ Call(t, "meta")
    /\ LET at == Final(th[t].dp, th[t].p)
       IN touched' = IF at \in files THEN touched \cup {at} ELSE touched
    /\ UNCHANGED <<disk, edits, conf, files, dirs, mapped, now, calls, win>>

Empty(p) == Below(files \cup dirs, p) = {}
Rmdir(t) ==
    /\ Call(t, "rmdir")
    /\ LET at == Final(th[t].dp, th[t].p)
       IN dirs' = IF Empty(at) THEN dirs \ {at} ELSE dirs
    /\ UNCHANGED <<disk, edits, conf, files, touched, mapped, now, calls, win>>

-----------------------------------------------------------------------------
(* mkdir.                                                                    *)

Live(list) == SelectSeq(list, LAMBDA e : now - e.at <= MappedTtl)
\* remember_process_mapped_dir.
Remember(p, q) ==
    LET live == Live(mapped)
        kept == IF Len(live) >= MappedMax THEN Tail(live) ELSE live
    IN IF \E i \in DOMAIN live : live[i].req = p
       THEN [i \in DOMAIN live |-> IF live[i].req = p THEN [req |-> p, target |-> q, at |-> now] ELSE live[i]]
       ELSE Append(kept, [req |-> p, target |-> q, at |-> now])

\* should_passthrough_provider_allowed_parent_mkdir: in a window a directory above
\* one that is open to the caller is made where it was asked for.
GoesThrough(t) ==
    LET c == th[t]
        pkg == ServedFor(t, c.p)
    IN /\ c.dp.act = "redirect" /\ ~c.dp.mapping /\ win[t].open # {}
       /\ pkg \in DOMAIN Configs[conf] /\ AboveAllowed(Configs[conf][pkg], c.p)
\* should_virtualize_anonymous_system_writer_mkdir: the provider's own sandbox
\* directory is never made for a request without a caller.
IsVirtual(c) ==
    /\ c.dp.act = "redirect" /\ ~c.dp.mapping
    /\ c.signal = NoCaller /\ IsPrefix(Sandbox(Provider), c.dp.to)
\* is_public_default_sandbox_redirect.
IsSandboxOf(p, q) == \E k \in Packages : q = Sandbox(k) \o p

\* cleanup_empty_redirect_source_dir.
CleanedUp(c, made) ==
    IF /\ ~c.dp.mapping /\ c.dp.act = "redirect" /\ IsSandboxOf(c.p, c.dp.to)
       /\ c.p \in dirs /\ Empty(c.p)
    THEN made \ {c.p} ELSE made
Makes(at, have) == IF Ancestors(at) \subseteq have /\ at \notin files THEN have \cup {at} ELSE have
\* handle_mkdir_like and, for a mapping, handle_mapping_mkdir.
Mkdir(t) ==
    /\ Call(t, "mkdir")
    /\ LET c == th[t]
           at == Final(c.dp, c.p)
           made == Makes(at, IF c.dp.act = "redirect" THEN dirs \cup Ancestors(at) ELSE dirs)
           hides == c.dp.act = "redirect" /\ ~c.dp.mapping /\ win[t].open # {} /\ IsSandboxOf(c.p, c.dp.to)
       IN CASE GoesThrough(t) -> dirs' = Makes(c.p, dirs) /\ UNCHANGED <<mapped, win>>
            [] ~GoesThrough(t) /\ IsVirtual(c) -> UNCHANGED <<dirs, mapped, win>>
            [] OTHER -> /\ mapped' = IF c.dp.mapping THEN Remember(c.p, c.dp.to) ELSE mapped
                        /\ dirs' = IF at \in made THEN CleanedUp(c, made) ELSE made
                        /\ win' = IF hides THEN [win EXCEPT ![t].hidden = @ \cup {c.p}] ELSE win
    /\ UNCHANGED <<disk, edits, conf, files, touched, now, calls>>

\* enter_provider_passthrough, enter_provider_virtual_scope.
Enter(t, w) ==
    /\ t \notin App /\ th[t].pc = "idle" /\ w \notin win[t].open /\ calls < MaxCalls
    /\ win' = [win EXCEPT ![t].open = @ \cup {w}]
    /\ UNCHANGED <<disk, edits, conf, files, dirs, touched, mapped, now, calls, th>>
\* Once the last window of a thread closes, the directories it hid are removed from
\* the public place where they are empty.
Leave(t, w) ==
    /\ th[t].pc = "idle" /\ w \in win[t].open
    /\ LET last == win[t].open = {w}
       IN /\ win' = [win EXCEPT ![t] = IF last THEN Closed ELSE [@ EXCEPT !.open = @ \ {w}]]
          /\ dirs' = IF last THEN dirs \ {d \in win[t].hidden : Empty(d)} ELSE dirs
    /\ UNCHANGED <<disk, edits, conf, files, touched, mapped, now, calls, th>>

-----------------------------------------------------------------------------
(* rename and link.                                                          *)

\* rename_cross_boundary_needs_exdev: an exchange must not cross the border.
CrossesBorder(c) == c.op = "exchange" /\ (c.dp.act = "redirect") # (c.dq.act = "redirect")

\* handle_rename_like, for files.
Rename(t) ==
    /\ Call(t, "rename") \/ Call(t, "exchange")
    /\ LET c == th[t]
           from == Final(c.dp, c.p)
           to == Final(c.dq, c.q)
           have == dirs \cup Ancestors(to)
           ok == from \in files /\ to \notin have /\ from # to /\ (c.op = "exchange" => to \in files)
           move(set) == CASE c.op = "exchange" -> set \cup ({from, to} \cap files)
                          [] OTHER -> (set \ {from}) \cup {to}
       IN IF CrossesBorder(c) THEN UNCHANGED <<files, dirs, touched>>
          ELSE /\ dirs' = have
               /\ files' = IF ok THEN move(files) ELSE files
               /\ touched' = IF ok THEN move(touched) ELSE touched
    /\ UNCHANGED <<disk, edits, conf, mapped, now, calls, win>>

\* handle_link_audit: only the new name is redirected.
Link(t) ==
    /\ Call(t, "link")
    /\ LET c == th[t]
           at == Final(c.dq, c.q)
           ok == c.p \in files /\ Ancestors(at) \subseteq dirs /\ at \notin dirs \cup files
       IN files' = IF ok THEN files \cup {at} ELSE files
    /\ UNCHANGED <<disk, edits, conf, dirs, touched, mapped, now, calls, win>>

-----------------------------------------------------------------------------
(* Queries: stat, access, opendir of a provider thread without a caller.     *)

Exists(p) == p \in files \cup dirs
MappedHit(p) == \E i \in DOMAIN Live(mapped) : IsPrefix(Live(mapped)[i].req, p)
\* A fault in QueryCaller: the path does not tell the owner of the request.
QueryCallerNone(p) == NoCaller
\* register_mapping_request_owner_for_query_fallback.
QueryCaller(p) == MappingOwner(Configs[conf], p)
\* call_query_with_writer_fallback: the request itself, and when it is missing
\* and something vouches for it, where the engine sends it.
Query(p) ==
    IF Exists(p) THEN p
    ELSE IF ~MappedHit(p) /\ MappingOwner(Configs[conf], p) = NoCaller THEN <<>>
    ELSE LET signal == QueryCaller(p)
             d == WriterDecision(Configs[conf], Configs[conf], signal, signal, NoCaller, p, FALSE, FALSE)
         IN IF d.act = "redirect" /\ Exists(d.to) THEN d.to ELSE <<>>

Step(t) ==
    \/ Begin(t) \/ Decide(t) \/ Denied(t)
    \/ Open(t) \/ OpenAt(t) \/ Mknod(t) \/ Unlink(t) \/ Meta(t) \/ Rmdir(t) \/ Mkdir(t) \/ Rename(t) \/ Link(t)
    \/ \E w \in Windows : Enter(t, w) \/ Leave(t, w)

Next == Edit \/ Reload \/ Tick \/ \E t \in Threads : Step(t)
Spec == Init /\ [][Next]_vars

-----------------------------------------------------------------------------
(* Properties.                                                               *)

TypeOK ==
    /\ disk \in 1 .. Len(Configs) /\ conf \in 1 .. Len(Configs)
    /\ touched \subseteq files /\ files \cap dirs = {}
    /\ \A x \in files \cup dirs : Ancestors(x) \subseteq dirs
    /\ Len(mapped) <= MappedMax
    /\ \A t \in Threads : win[t].open \subseteq Windows /\ (win[t].open = {} => win[t] = Closed)

Versions(t) == {Configs[v] : v \in th[t].seen}
\* Where the calls made for a package may create something: what its rules of
\* some configuration in force during the call open, and its own storage.
Home(t, pkg) ==
    LET recs == {cf[pkg] : cf \in {v \in Versions(t) : pkg \in DOMAIN v}}
    IN {x \in Paths \cup files' \cup dirs' \cup UNION {rec.allowed : rec \in recs} :
           \/ IsOwnPrivate(pkg, x)
           \/ \E rec \in recs : \/ Covers(rec.allowed \cup rec.readOnlyEx, x) \/ IsMappingTarget(rec, x)
                                \/ rec.mapOnly \/ ~rec.on}

\* A request served for a redirected application creates files and directories
\* only in its own storage, at the targets of its mappings, below what its rules
\* open and on the way there, whatever call it is and whatever the configuration
\* becomes meanwhile (redirect/engine/policy.rs: process_system_writer_policy,
\* hook/ops/mutation/dir.rs: should_passthrough_provider_allowed_parent_mkdir); but
\* for the paths a Java hook hands on as they are.
Returns(t) == th[t].pc = "call" /\ th'[t].pc = "idle"
Judged(t) == Returns(t) /\ th[t].callers \subseteq Packages /\ ~Bypasses(t)
Confined ==
    [][\A t \in Threads \ App :
          Judged(t) =>
             \A x \in (files' \ files) \cup (dirs' \ dirs) :
                \E k \in th[t].callers : \E y \in Home(t, k) : IsPrefix(x, y)]_vars

\* Nothing below a read-only rule that was in force during the whole call is
\* created, changed or removed for the application the rule belongs to, except
\* at the target of one of its mappings when it is asked for directly
\* (redirect/writer.rs: read_only_check_path_by_caller_paths).
ReadOnlyAll(t, pkg, x) == \A cf \in Versions(t) : pkg \in DOMAIN cf /\ cf[pkg].on /\ IsReadOnly(cf[pkg], x)
Changed == (files \ files') \cup (files' \ files) \cup (touched' \ touched) \cup (dirs' \ dirs)
TargetAsked(t, pkg) ==
    \E cf \in Versions(t), y \in {th[t].p, th[t].q} : pkg \in DOMAIN cf /\ IsMappingTarget(cf[pkg], y)
ReadOnlyKept ==
    [][\A t \in Threads \ App :
          Judged(t) =>
             \A x \in Changed : \E k \in th[t].callers : ~ReadOnlyAll(t, k, x) \/ TargetAsked(t, k)]_vars

\* A directory that was just made at the target of a mapping is found under
\* the path it was asked for, by a thread that knows no caller
\* (hook/context.rs: remember_process_mapped_dir, hook/ops/query.rs).
MappedDirFound ==
    \A i \in DOMAIN Live(mapped) :
        LET e == Live(mapped)[i]
            cf == Configs[conf]
        IN /\ e.target \in dirs
           /\ \E k \in Enabled(cf) : MapPath(cf[k], e.req) = e.target /\ e.req # e.target
           => Query(e.req) \in {e.req, e.target}

\* This, and every variable in its range.
DirsFound == TypeOK /\ MappedDirFound

\* What the engine redirects is opened where it was redirected to
\* (hook/ops/open.rs: OpenCallTarget::for_openat).
RedirectHonoured ==
    [][\A t \in Threads :
          Returns(t) /\ th[t].op = "open" /\ th[t].dp.act = "redirect" =>
             th[t].p \notin (files' \ files) \cup (touched' \ touched) \/ th[t].dp.to = th[t].p]_vars
=============================================================================
