----------------------------- MODULE ConfigHub -----------------------------
(* The configuration inside one process: SettingsHub with its fingerprint,   *)
(* loader and parser (config/), the throttled reloads of the hooks           *)
(* (hook/reload.rs, hook/config_watcher.rs), the router rebuilt from it and  *)
(* the per-thread rule caches of the system writer (redirect/writer.rs).     *)
(* The files are written by the manager, in place or by renaming.            *)
EXTENDS Naturals

CONSTANTS
    Apps, Self,      \* the configured packages; Self is the one the router serves
    Threads, Writers,   \* the hooking threads, and those that handle other callers' writes
    Changing, Kept,  \* the files the manager changes, and what the others hold
    Written,         \* the contents an application's file is written with
    MaxWrites,       \* changes of the disk
    MaxFails         \* reads that fail
ASSUME HubAssumption ==
    /\ Self \in Apps /\ Changing \subseteq {"global"} \cup Apps /\ Writers \subseteq Threads
    /\ MaxWrites \in Nat /\ MaxFails \in Nat

VARIABLES
    disk,     \* per file: stamp (inode, time and size), form and what is written
    writes, fails,
    event,    \* an inotify event is pending
    window,   \* the forced reloads after an event have not ended
    seen,     \* the fingerprint the watcher thread saw last
    hub,      \* SettingsState; of config_version only whether one held is current
    router,   \* the profile the PathRouter serves
    cache,    \* CALLER_ALLOWED_CACHE of every thread, for the caller Self
    th

vars == <<disk, writes, fails, event, window, seen, hub, router, cache, th>>

Files == {"global"} \cup Apps
NoProfile == [on |-> FALSE, allowed |-> {}, excluded |-> {}, readOnly |-> {}]
Idle == [pc |-> "idle"]

-----------------------------------------------------------------------------
(* Files and their parsing.  A written profile lists rules [list, neg, path].*)

Absent == [stamp |-> 0, form |-> "absent", raw |-> {}]
Rules(raw, list, neg) == {r.path : r \in {x \in raw : x.list = list /\ x.neg = neg}}
\* parse_user_profile: a negated rule of the allowed list excludes, and what is
\* excluded is not read-only; the enabled flag is the presence of "on".
Parse(raw) ==
    LET out == Rules(raw, "allowed", TRUE) \cup Rules(raw, "excluded", FALSE)
    IN [on |-> Rules(raw, "on", FALSE) # {}, allowed |-> Rules(raw, "allowed", FALSE),
        excluded |-> out, readOnly |-> Rules(raw, "readOnly", FALSE) \ out]
\* parse_raw_config_entry: the file is read again, past the loaded state; what
\* cannot be parsed counts as no configuration.
RawReadOnly(f) ==
    IF f.form = "ok" /\ Rules(f.raw, "on", FALSE) # {} THEN Rules(f.raw, "readOnly", FALSE) ELSE {}
\* compute_config_fingerprint_snapshot.
Fingerprint == [f \in Files |-> disk[f].stamp]
Unloaded == [loaded |-> FALSE, fp |-> [f \in Files |-> 0], monitor |-> FALSE,
             apps |-> [a \in Apps |-> NoProfile], unread |-> {}]

Init ==
    /\ disk \in [Files -> {Absent} \cup {[stamp |-> 1, form |-> "ok", raw |-> w] : w \in Written \cup {Kept}}]
    /\ \A f \in Files : (disk[f].form = "ok" /\ disk[f].raw = Kept) <=> f \notin Changing
    /\ writes = 0 /\ fails = 0 /\ event = FALSE /\ window = FALSE
    /\ seen = [f \in {"global", Self} |-> disk[f].stamp]
    /\ hub = Unloaded /\ router = NoProfile
    /\ cache = [t \in Writers |-> [current |-> FALSE, profile |-> NoProfile, raw |-> {}]]
    /\ th = [t \in Threads |-> Idle]

-----------------------------------------------------------------------------
(* The manager.  Opening a file for writing truncates it without an event    *)
(* of the watched kinds; closing it, or renaming a new one over it, tells.   *)

Change(f, form, raw) ==
    /\ writes < MaxWrites
    /\ writes' = writes + 1
    /\ disk' = [disk EXCEPT ![f] = [stamp |-> writes + 2, form |-> form, raw |-> raw]]
    /\ UNCHANGED <<fails, window, seen, hub, router, cache, th>>
Truncate(f) == disk[f].form = "ok" /\ Change(f, "empty", {}) /\ UNCHANGED event
WriteHalf(f) == disk[f].form = "empty" /\ Change(f, "half", {}) /\ UNCHANGED event
\* The last write of the file, and its close.
Finish(f) == disk[f].form \in {"empty", "half"} /\ event' = TRUE /\ \E w \in Written : Change(f, "ok", w)
Replace(f) == disk[f].form \in {"ok", "absent"} /\ event' = TRUE /\ \E w \in Written : Change(f, "ok", w)
Delete(f) ==
    /\ disk[f].form = "ok" /\ writes < MaxWrites
    /\ writes' = writes + 1 /\ event' = TRUE
    /\ disk' = [disk EXCEPT ![f] = Absent]
    /\ UNCHANGED <<fails, window, seen, hub, router, cache, th>>

-----------------------------------------------------------------------------
(* A reload: fingerprint, then the files one by one, then the installation.  *)

\* A fault in StoredFp: the fingerprint is taken when the state is installed.
StoredFpLate(c) == Fingerprint
\* The fingerprint is the one from before the files were read.
StoredFp(c) == c.fp
\* A fault in Skips: an application's process loads its configuration once.
SkipsLoaded(kind, fp) == hub.loaded
\* reload_from_dir, init: what is not forced is skipped while nothing changed.
Skips(kind, fp) ==
    \/ kind = "init" /\ hub.loaded
    \/ kind = "check" /\ hub.loaded /\ fp = hub.fp

Loading(kind, via, fp) ==
    [pc |-> "read", kind |-> kind, via |-> via, fp |-> fp, retried |-> FALSE,
     todo |-> {f \in Files : f = "global" \/ fp[f] # 0}, monitor |-> hub.monitor,
     apps |-> [a \in Apps |-> NoProfile], unread |-> {}]
\* What follows a check: the decision path and the watcher thread rebuild the
\* router, whether or not anything was loaded (reload_if_changed is true also
\* then); the other callers do not.
Checked(via) == IF via = "router" THEN [pc |-> "rebuild"] ELSE Idle
StartReload(t, kind, via) ==
    /\ th[t].pc = "idle"
    /\ th' = [th EXCEPT ![t] = IF Skips(kind, Fingerprint) THEN Checked(via)
                               ELSE Loading(kind, via, Fingerprint)]

\* SettingsHub::init, when the process starts.
InitHub(t) ==
    /\ ~hub.loaded /\ StartReload(t, "init", "other")
    /\ UNCHANGED <<disk, writes, fails, event, window, seen, hub, router, cache>>
\* poll_or_check_throttled: an event forces a reload and opens the window in
\* which the following checks force it too.
Poll(t, via) ==
    /\ hub.loaded
    /\ StartReload(t, IF event \/ window THEN "force" ELSE "check", via)
    /\ event' = FALSE
    /\ window' = (event \/ window)
    /\ UNCHANGED <<disk, writes, fails, seen, hub, router, cache>>
WindowEnds ==
    /\ window
    /\ window' = FALSE
    /\ UNCHANGED <<disk, writes, fails, event, seen, hub, router, cache, th>>
\* watch_loop of hook/config_watcher.rs, on a thread that handles no writes.
Watch(t) ==
    /\ t \notin Writers /\ hub.loaded /\ seen # [f \in {"global", Self} |-> disk[f].stamp]
    /\ StartReload(t, "force", "router")
    /\ seen' = [f \in {"global", Self} |-> disk[f].stamp]
    /\ window' = TRUE
    /\ UNCHANGED <<disk, writes, fails, event, hub, router, cache>>

\* read_file: "failed" is an error other than a missing file.
Outcome(f, failed) == IF failed THEN "failed" ELSE disk[f].form
Done(c, f) == [[c EXCEPT !.todo = @ \ {f}] EXCEPT !.retried = FALSE]
\* load_global_config: an empty file is read again once and then means the
\* defaults; what cannot be read or parsed keeps the value in force.
LoadGlobal(c, out) ==
    CASE out = "empty" /\ ~c.retried -> [c EXCEPT !.retried = TRUE]
      [] out = "ok" -> [Done(c, "global") EXCEPT !.monitor = Rules(disk["global"].raw, "on", FALSE) # {}]
      [] out \in {"failed", "half"} -> [Done(c, "global") EXCEPT !.unread = @ \cup {"global"}]
      [] OTHER -> [Done(c, "global") EXCEPT !.monitor = FALSE]
\* load_app_config: whatever yields no configuration is read again once; then
\* the package has none and is noted in invalid_packages.
LoadApp(c, a, out) ==
    CASE out = "ok" -> [Done(c, a) EXCEPT !.apps = [@ EXCEPT ![a] = Parse(disk[a].raw)]]
      [] out = "absent" -> Done(c, a)
      [] OTHER -> IF ~c.retried THEN [c EXCEPT !.retried = TRUE]
                  ELSE [Done(c, a) EXCEPT !.unread = @ \cup {a}]
\* The global file is first; the packages follow in the order of the listing.
ReadNext(t, f, failed) ==
    /\ th[t].pc = "read" /\ f \in th[t].todo
    /\ "global" \in th[t].todo => f = "global"
    /\ failed => (fails < MaxFails /\ disk[f].form # "absent")
    /\ fails' = IF failed THEN fails + 1 ELSE fails
    /\ th' = [th EXCEPT ![t] = IF f = "global" THEN LoadGlobal(@, Outcome(f, failed))
                               ELSE LoadApp(@, f, Outcome(f, failed))]
    /\ UNCHANGED <<disk, writes, event, window, seen, hub, router, cache>>

\* The state is replaced and config_version grows: what any thread holds of
\* the version before is no longer current.
Outdated(c) == IF c.pc \in {"profile", "raw"} THEN [c EXCEPT !.current = FALSE] ELSE c
Install(t) ==
    /\ th[t].pc = "read" /\ th[t].todo = {}
    /\ IF th[t].kind = "init" /\ hub.loaded
       THEN th' = [th EXCEPT ![t] = Checked(th[t].via)] /\ UNCHANGED <<hub, cache>>
       ELSE /\ hub' = [loaded |-> TRUE, fp |-> StoredFp(th[t]), monitor |-> th[t].monitor,
                       apps |-> th[t].apps, unread |-> th[t].unread]
            /\ th' = [u \in Threads |-> IF u = t THEN Checked(th[t].via) ELSE Outdated(th[u])]
            /\ cache' = [u \in Writers |-> [cache[u] EXCEPT !.current = FALSE]]
    /\ UNCHANGED <<disk, writes, fails, event, window, seen, router>>

-----------------------------------------------------------------------------
(* What is derived from the loaded state.                                    *)

\* get_resolved_user_profile_snapshot: a disabled profile is none.
Resolved(a) == IF hub.apps[a].on THEN hub.apps[a] ELSE NoProfile
\* reconfigure_router_from_settings: the snapshot, then PathRouter::configure.
TakeProfile(t) ==
    /\ th[t].pc = "rebuild"
    /\ th' = [th EXCEPT ![t] = [pc |-> "configure", profile |-> Resolved(Self)]]
    /\ UNCHANGED <<disk, writes, fails, event, window, seen, hub, router, cache>>
Configure(t) ==
    /\ th[t].pc = "configure"
    /\ router' = th[t].profile
    /\ th' = [th EXCEPT ![t] = Idle]
    /\ UNCHANGED <<disk, writes, fails, event, window, seen, hub, cache>>

\* with_cached_caller_allowed_cache: the version is read first, then the state
\* and the raw file, each when it is needed.
LookUp(t) ==
    /\ t \in Writers /\ th[t].pc = "idle" /\ hub.loaded /\ ~cache[t].current
    /\ th' = [th EXCEPT ![t] = [pc |-> "profile", current |-> TRUE]]
    /\ UNCHANGED <<disk, writes, fails, event, window, seen, hub, router, cache>>
ReadProfile(t) ==
    /\ th[t].pc = "profile"
    /\ th' = [th EXCEPT ![t] = [pc |-> "raw", current |-> th[t].current, profile |-> Resolved(Self)]]
    /\ UNCHANGED <<disk, writes, fails, event, window, seen, hub, router, cache>>
CachedVersion(c) == c.current
\* refresh_caller_real_paths_cache.
ReadRaw(t) ==
    /\ th[t].pc = "raw"
    /\ cache' = [cache EXCEPT ![t] = [current |-> CachedVersion(th[t]), profile |-> th[t].profile,
                                      raw |-> RawReadOnly(disk[Self])]]
    /\ th' = [th EXCEPT ![t] = Idle]
    /\ UNCHANGED <<disk, writes, fails, event, window, seen, hub, router>>

Work(t) ==
    \/ InitHub(t)
    \/ \E f \in Files, failed \in BOOLEAN : ReadNext(t, f, failed)
    \/ Install(t) \/ TakeProfile(t) \/ Configure(t)
    \/ ReadProfile(t) \/ ReadRaw(t)
Next ==
    \/ \E f \in Changing : Truncate(f) \/ WriteHalf(f) \/ Finish(f) \/ Replace(f) \/ Delete(f)
    \/ WindowEnds
    \/ \E t \in Threads : Work(t) \/ Poll(t, "router") \/ Poll(t, "other") \/ Watch(t) \/ LookUp(t)
\* A thread finishes what it began, and while the process works its decisions
\* poll: the throttle lets one check through per interval, whoever makes it, and a
\* decision that finds its turn taken comes again.  Nothing is assumed of the
\* watcher thread or of the manager.
Fairness == /\ \A t \in Threads : WF_vars(Work(t)) /\ WF_vars(LookUp(t))
            /\ WF_vars(WindowEnds)
            /\ SF_vars(\E t \in Threads : Poll(t, "router"))
Spec == Init /\ [][Next]_vars
LiveSpec == Spec /\ Fairness

-----------------------------------------------------------------------------
(* Properties.                                                               *)

TypeOK ==
    /\ \A f \in Files : disk[f].form \in {"absent", "empty", "half", "ok"} /\ disk[f].stamp <= MaxWrites + 1
    /\ hub.unread \subseteq Files
    /\ \A a \in Apps : hub.apps[a].readOnly \cap hub.apps[a].excluded = {}
    /\ \A t \in Threads : th[t].pc \in {"idle", "read", "rebuild", "configure", "profile", "raw"}
    /\ \A t \in Writers : cache[t].current => hub.loaded

\* The state that carries the fingerprint of the files on disk was read from
\* these files, however the reads, the writes and the reloads of other threads
\* fall: a check that finds nothing changed may be skipped (config/source.rs:
\* reload_from_dir).  A file that could not be read is excepted.
Holds(f) == IF f = "global" THEN hub.monitor = (Rules(disk[f].raw, "on", FALSE) # {})
            ELSE hub.apps[f] = Parse(disk[f].raw)
FingerprintHonest ==
    hub.loaded /\ hub.fp = Fingerprint =>
        \A f \in Files : disk[f].form = "ok" /\ f \notin hub.unread => Holds(f)

\* The rule lists cached under the current version are those of the current
\* state, and once it carries the fingerprint of a file that is there also the
\* part read past it agrees (redirect/writer.rs: with_cached_caller_allowed_cache).
CacheFresh ==
    \A t \in Writers :
        cache[t].current =>
           /\ cache[t].profile = Resolved(Self)
           /\ hub.fp = Fingerprint /\ disk[Self].form # "absent" => cache[t].raw = RawReadOnly(disk[Self])

\* Both, and every variable in its range.
CacheHonest == TypeOK /\ FingerprintHonest /\ CacheFresh

\* Once the files stop changing, the state and the router come to hold them, also a
\* file that was read half written before, without the help of the watcher thread
\* (hook/reload.rs: poll_or_check_throttled; redirect/engine.rs).
Current ==
    /\ \A f \in Files : disk[f].form = "ok" => Holds(f)
    /\ router = Resolved(Self)
CatchesUp == <>[]Current
=============================================================================
