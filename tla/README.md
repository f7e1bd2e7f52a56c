# Storage Redirection X: a TLA+ development

The repository is a Zygisk module for Android. It gives each application its own
view of shared storage: the application's mount namespace receives the view of one
FUSE session shared by all of them (the *host*), or plain bind mounts; hooks inside
the processes redirect the calls the mounts cannot reach. A root daemon keeps those
mounts in place while applications start and die, FUSE sessions die, the user edits
the configuration and the system mounts on the same paths. This directory models the
parts of the module whose correctness depends on the order of events: model-checked
with TLC on small instances, and in part proved with TLAPS for every instance.

Paths below are relative to the Rust crate `src/`. `PROJECT.json` lists components,
runs, the code behind every definition, findings, hazards and theorems.

## 1. Inventory

| Component | State it keeps | Operations | Hard behaviour | Right when |
|---|---|---|---|---|
| Identity ledger (`mount_ledger.rs`, `mount_identity.rs`) | per (package, pid): start time, namespace, recorded mounts, failed detaches; FIFO of FUSE superblocks | record, load, remove, prune, classify | pid, mount id and superblock reuse; eviction; files that cannot be written | only the module's layers are taken for its own |
| Supervisor (`fuse_supervisor.rs`) | none | probe, plan an action per mount, aggregate | a dead FUSE connection; one verdict for several mounts | the severest action wins |
| Mount worker (`daemon_mount.rs`) | state file; a forked child's memory | clear, attach or bind, write state and ledger | every call can fail; the parent kills the child | never a foreign layer detached, never stacked, a poisoned slot left alone |
| Child reclaim (`daemon_mount_reclaim.rs`) | list of children that cannot be killed | park, reap, breaker, sweep of state files | children asleep in the kernel | bounded, and closes by itself |
| Reconcile loop (`daemon.rs`) | round counter, pending flag, cursor, cached batch | collect notifications, choose a mode, execute one plan a round | notifications meeting in one iteration; starvation | everybody served, comes to rest, nothing remounted unasked |
| Shared host (`fuse_host.rs`, `fuse_session.rs`) | generation, heartbeat, watchdog | start, probe, abort, rebuild | all workers blocked; two guards that may both act | only a stalled host is aborted, every stall ends |
| Host control (`fuse_host_control.rs`) | policy table, snapshot file | register, acknowledge, publish | acknowledgements without a key, read by several waiters | the snapshot never claims what the host was not told |
| Application start (`lifecycle/`) | barriers, intent, reply connection | barrier, attach, release | fail-closed; daemon and companion on one pid | "failed" only behind a barrier, "ok" only under a view |
| Mount intent (`mount_intent.rs`) | record per request | begin, finish, prune | crash between the two | an open record means work under way |
| Capability breaker (`fuse_redirect/config.rs`) | snapshot with counts, backoff | record a result, admit | read-modify-write by several processes | no failure lost, admits again |
| FUSE path policy (`fuse_redirect/policy.rs`) | rules of each uid | route a path | mappings, sandbox, fallbacks | no application reaches another's private files |
| FUSE filesystem (`fuse_redirect/mod.rs`, `callbacks.rs`, `inode.rs`) | inode table, listing cache, handles | lookup, open, create, rename, forget, ... | 16 threads, one inode for callers of different policies | table and kernel agree; a cached listing is the directory's |
| Configuration (`config/`, `hook/reload.rs`, `hook/config_watcher.rs`) | snapshot, fingerprint, router, rule caches | load, poll, reload | truncated and half-written files, lost notifications | no cache outlives what it was computed from |
| Redirect engine and native hooks (`redirect/`, `hook/ops/`) | mapped-directory registry | decide and perform a hooked call | configuration reloaded between the steps of a call | a redirected caller stays in its area |
| Caller resolution (`hook/caller.rs`, `hook/context.rs`, `hook/ops/binder.rs`) | thread locals with ages, relay slot | resolve, clear and restore identity | stale evidence on reused threads | work is put down to the application it is done for |
| Process identity (`daemon_identity_query.rs`, scanner in `daemon.rs`) | table file, cache, socket | scan, query, wait | pid reuse, late answers | a process that stays is listed |
| File monitor (`daemon_monitor.rs`, `monitor.rs`, `monitor/`) | hints, parked events, windows; watch tree | record, attribute, watch, rebuild | inotify overflow, renamed directories, several reporters of one change | no record blames who did not ask; every root watched in the end |
| Log daemon (`log_daemon.rs`) | rolling log, counter file, request slots | receive, limit, flush, clear, wake | a socket any process may write to; a crash before a flush | lines in order, the counter never ahead, no request forgotten |
| Zygisk entry, watchdog, Kotlin manager, web UI, scripts | | | | not modelled (section 8) |

Who talks to whom: the loop starts the host, registers policies with it, builds one
plan per running process and executes it in a forked worker; the worker reads and
writes state file and ledger and forks again for the attach. The companion, another
process, mounts a new application on its own and leaves the same files; daemon and
companion meet only in those files, the host's snapshot, the capability snapshot
and the kernel's mount table, which the system changes too. Applications and the
media provider report over the log socket, which also carries the requests of the
manager, and learn process names over the identity socket. Configuration reaches
every process through files.

## 2. Modules

A component has a module of its own; every action is a handler, or one step of a
handler where others may act in between. Components that share no state in the code
beyond what one of them models as its environment are checked side by side: a
module whose name begins with `MC` instantiates them, gives each its own variables,
and a variable `part` picks the one that moves in a behaviour. The state spaces are
added, not multiplied, and a property of one part says nothing of the others.
`Turn(p, A)` restricts the fairness of an action to the part that moves.

### MountRecovery (with Supervision): the mount worker

* `stack[n][t]` is the stack of layers mounted at target `t` in the namespace of
  process instance `n`, the visible one last. A layer has the facts mountinfo
  shows: mount id, superblock (`dev`), what it shows (`src`), and its *kind*,
  the shape the recognisers of `module_mount_source.rs` see. `bind`, `host`,
  `alias`, `barrier` and `repair` are the module's, `system` and `private` the
  system's. An `alias` layer has exactly the shape of a `private` one, as in the
  code; only properties tell them apart.
* `inst`, `alive`: which process runs on the pid. `hostGen`, `hostUp`: the host
  session. `hist`, `ledger`, `state`: the three files. `cfg`: the request the
  configuration calls for. The other variables are the worker's; `pc` names the
  control point of a round.

A round is `BuildPlan`, `Supervise` (the gate; verdicts and actions are the
operators of `Supervision`), `EnterNamespace` (setns), then clearing:
`ClearNextTarget`, `InspectTarget` and `UmountTarget` per layer, `SettleClear` and
`ForgetLedger`, or `SweepUnrecorded` when nothing is recorded; `DecideAfterClear`
counts a failure and refuses a poisoned slot. Attaching is `ReuseHost`, `SkipHost`
or `StartAttach`, `ReplaceTop`, `MoveMount` with its rollbacks, `AttachAlias`.
Without host: `StartBinds`, `BindTarget`, `RepairParent`, `BindFails`. Then
`SaveState` or `RollBackRound`, `RestorePrivate`, `RecordIdentity`. The look at a
mount point and the umount by path are two actions because the code does them one
after the other.

`Faults` says what the environment may do: calls that fail (`umount`, `disk`,
`attach`, `bind`, `clone`), the attach timing out (`timeout`), the child killed
(`kill`), the host dying (`death`), a leftover barrier (`barrier`), explicit
remounts (`forced`), system mounts between rounds (`foreign`) and also during one
(`window`), a bind that reports the superblock of the system FUSE (`fusebind`).

Abstractions: the namespace identity is the process instance; stacks of different
targets are independent (umount of a path that is gone or no mount counts as done, as in
the code), so the cascade of a detach onto mounts below it is not
represented; nobody but the module unmounts; scoped FUSE children, which the code
retires, the fast update through a host layer at the user root, the x86_64 emulator
branch and allowed-real backend mounts are left out; the ledger's generation number
only appears in logs.

### ReconcileCycle: the loop

Each process has what the configuration wants (`want`) and what its files say
(`mnt`: nothing, a ledger without state file, a state file of a dead host, or the
recorded policy). `BeginRound` is the top of the loop: it collects notifications,
chooses mode and scope, restarts the host, takes the cached batch or enumerates,
and finds the start. `FastUpdate`, `PassOver`, `Wrap`, `AttemptSucceeds`,
`AttemptFails`, `AttemptNothing` visit one plan; `EndRound` closes the cycle or
keeps it open. The environment changes the configuration (three kinds of
notification), kills the host, asks explicitly, starts and ends processes, and lets
the companion mount. Executing a plan is MountRecovery's; here it succeeds or fails.

### HostStall, AppStart, CapabilityBreaker (run together by MCHost)

* `HostStall`: requests, worker threads that block, the watchdog's beat and probe,
  the daemon's external monitor with its sampling, verification and cooldown, abort,
  exit and rebuild. `Tick` is time; one tick is about ten seconds of the code.
* `AppStart`: `pre`/`post` specialize in the application, the companion's
  mutex, barriers, intent, forked child, timeout and reply, and one daemon round
  that may fall between any two of those steps. Roles are the kinds of process the
  entry point tells apart.
* `CapabilityBreaker`: recorders take the lock or, when the lock file cannot be
  had, go on without it; they read the snapshot, change it and write it, which may
  fail, admit or refuse; a daemon start rewrites it without the lock. Times are
  the ticks left until they are reached. `CountsKept` claims that no failure is
  forgotten only while locks are had and writes succeed.

### WatchTree, MountChildren, ProcessIdentity (run together by MCDaemon)

* `WatchTree`: directories, inodes as watch descriptors, the event queue with its
  overflow, a walk per root with its budget of directories, owner roots that are
  watched and not walked, reconfiguration by package list or as a whole, the slot
  through which the main loop asks for either after its round of mounts, pruning and
  rebuild. Left out: `reconfigure_changed_packages` returning early when a package
  has no rules (`daemon_monitor.rs:612-615`).
* `MountChildren`: one request at a time, its child's answer, death or sleep in
  the kernel, the two timeouts, the reclaim list, the breaker, the intent record,
  the sweep over all state files (a file that cannot be read fails it, a file that
  cannot be removed does not), and a daemon crash.
* `ProcessIdentity`: the scanner's passes, its table in a file, the hooks' cache,
  the query over a datagram socket, its deadline, and late answers.

### HostControl

The daemon and the workers it forks send policies to the host over one socket and
read acknowledgements that carry only a uid. `StartRound`, `PreRegister` and
`RoundSkips` are the daemon's rounds over the running applications, `HotUpdate` and
`WorkerRegisters` its other registrations; `HostAccepts` and `HostRejects` the host;
`AwaitSucceeds`, `AwaitSkips`, `AwaitTimesOut` and `WorkerKilled` the ends of a wait.
The host dies and is started again; the companion may find the snapshot stale and
remove it. A fingerprint is the number of the configuration it was computed from.
Rounds on a cached plan (`daemon.rs:1211-1235`) and rounds that only add mounts
register nothing; a round of the model is one that does.

### LogDaemon (with ActivationCount; MCLogDaemon runs it beside HostControl)

`Receive` handles one packet: limiter, monitor record, activation count, command.
The log rolls over (`Rotated`), the counter is flushed by batch or age, the main
loop takes both request slots per turn and retries registrations. `ActivationCount`
is the abstract specification of the counter file: it trails the true count, never
leads it, goes back only by a reset, and a crash loses only what it was not told.
`CounterSpec` in LogDaemon is its instance.

### PathPolicy, FuseFs, InodeTable (run together by MCFuse, with the hooks)

`PathPolicy` holds the decision for one path as pure operators. `FuseFs` is the
session with its handlers, each one step, over inodes that several callers share:
lookup memo, open, create, write, release, remove, rename, setattr, listing cache,
re-registration of a policy. `InodeTable` takes the handlers apart at their locks:
two threads, the kernel's counts, forget, handles, rename.
Left out: wildcards, case folding, overlays, lifted view prefixes, exemption of
same-uid siblings from write rules, repair of SQLite files, descriptor passing,
readdirplus.

### RedirectEngine, HookOps

The decision of the engine (mapping, read-only verdict, rule lists, sandbox) and the
calls hooked in a process. A call reads mappings, then rule lists, then runs on the
path decided, and the configuration may be reloaded between the steps. The two
spellings of a storage path are one path. `EffectiveCaller` is the package a call is
decided for: the caller, the caller a path hint names, or the one the path belongs to.
A Java hook around a mutation of the provider opens a window on its thread (`Enter`,
`Leave`): inside one a directory above what the caller's rules open is made where it was
asked for (`GoesThrough`), a sandboxed one is hidden and removed when the last window
closes, and in a window of the passthrough kind every call but `mkdir` takes its path as
it is. `Confined` and `ReadOnlyKept` say nothing of such a path: it was rewritten, and
decided on, in Java.

Left out: callers known by uid alone, other system writers, the download owner and the
call stack as sources of the effective caller, paths below the provider's own private
directory; the answers the provider makes up for queries
(`hook/ops/query.rs:248-310`, 361-372), directories registered from Java,
passthroughs nested deeper than one and their table's limit
(`PROVIDER_PASSTHROUGH_VIRTUAL_DIR_MAX`), the saved caller that the end of a passthrough
clears (`hook/context.rs:599-610`), and bridge processes that own the redirect
(`redirect/engine.rs:403-424`).

### CallerContext, FileMonitor (run together by MCAttribution)

`CallerContext`: what a thread of the media provider remembers about its caller,
each piece with its age, and `req`, the ground truth. `FileMonitor`: request records
and hints of the serving processes, the daemon's own hints and its observations, the
windows within which one change is told once, parked observations. Left out: owner
hints of private paths and token scoring, redirect backend metadata, refinement of
native identities, the `from` path of renames, hints by download owner, stack or
thread.

### ConfigHub

Files rewritten in place or replaced, the fingerprint, `reload_if_changed` with its
publication, the polling of hooks, the router and the rule caches of writer threads.

## 3. Runs

| Run | Module | Checks | Shows |
|---|---|---|---|
| `rounds_faults` | MCRounds | `TypeOK`, `PoisonStopsInjection`, `DetachesOwnLayersOnly`, `NoRedundantRemount` | with every failing call, kills, system mounts and arbitrary mount ids, a poisoned slot is never injected into and only own layers go; in the loop a served process is not remounted unasked, also when the companion mounts it between the enumeration and its turn |
| `rounds_fair` | MCRounds | `NoStacking`, `CurrentMeansServed`, `Converges`, `Rests`, `MissingGetsMounted` | a plan that is skipped is served, no layer over an old one, the application ends up redirected; the loop rests and starves nobody behind a failing process |
| `host` | MCHost | `SidesSound`, `CountsKept`, `AbortedWasStalled`, `StallEnds`, `AnswersHonest`, `RequestsAnswered`, `AdmittedAgain` | neither guard aborts a host that serves, and every stall ends; the companion's answers are true and come; the breaker forgets no failure as long as locks are had and writes succeed, and admits again |
| `daemon` | MCDaemon | `PartsSound`, `WatchedInTheEnd`, `SweptClean`, `TriedAgain`, `EventuallyListed` | the tree at rest is the one its roots ask for, with the exceptions `Covered` names; stuck children are bounded and each application is tried again; a sweep that reports success leaves no running application its layers; a process that stays is listed |
| `log_daemon` | MCLogDaemon | `LogHonest`, `NothingForgotten`, `RefusedWithReason`, `CounterSpec`, `RetriesEnd`, `SnapshotSound`, `SnapshotCatchesUp` | lines in order, nothing kept after a clear, no lost wake-up, refusals only by the limiter or for want of root, the counter implements `ActivationCount`; the snapshot names only what the serving host acknowledged, and catches up for running applications |
| `fuse` | MCFuse | `TableSound`, `ViewEnforced`, `ListingCurrent`, `DirsFound`, `Confined`, `ReadOnlyKept` | maps of the inode table agree, counts the kernel's; sandboxes private, cached listings current, requests on an inode reach the kernel's path; listings committed under the path they were read from; with reloads inside hooked calls, a redirected caller changes only its area and never a read-only path |
| `attribution` | MCAttribution | `SavedIsOurs`, `RightCaller`, `RecordsTrue` | a thread's work is put down to its request's application; records name who asked; no change told twice |
| `config_hub` | MCConfigHub | `CacheHonest`, `CatchesUp` | fingerprint and caches belong to what is published; every process ends with the last content written, also after it met a file half written |
| `host_attach` | MCMountRecovery | `AttachKeepsView` refuted | a view that could not be cloned is taken away all the same (finding) |
| `daemon_lists` | MCDaemon | `BuiltFromConfig` refuted | a list of packages takes the place of the rebuild a global change asked for (finding) |
| `daemon_query` | MCDaemon | `AnsweredInTime` refuted | after one late answer every question reads the answer to the one before (finding) |
| `hooks_openat` | MCFuse | `RedirectHonoured` refuted | an openat with an absolute path opens the path it named (finding) |

A conjunction such as `SidesSound` or `LogHonest` is a list of named parts, each
stated in its module with a comment of its own.

What properties do not see: `AbortedWasStalled` has the last check and the abort in one
step, while the code writes a dump between them (`fuse_redirect/config.rs:1402-1403`,
`fuse_host.rs:2663-2664`), so a host that comes back during the dump is aborted all the
same. `SandboxPrivate`, a part of `ViewEnforced`, is about data and names; a setattr on an
inode opened by another application is outside it. A policy that changes under a listing
already cached (`fuse_redirect/mod.rs:280`) leaves the names of the old one until the
directory changes; `ListingCurrent` and `ViewEnforced` are about storage that changes.
`BlamedAsked`, a part of `RecordsTrue`, accepts a name that a hint of the right path and
time supports, which is what the code promises; two applications with one file name each
are the smallest instance in which that is not the same as any name. `SnapshotCatchesUp`
promises nothing to applications that were registered at boot and never run.
`HostStall` starts no more than two hosts; the breaker's claim on counts ends with the
first lock that is not had, because the code goes on without it.

## 4. Bounds

`rounds_*`: two targets (view root and user root) are enough for one layer's fate;
the third and fourth add a directory below the root and an alias root. Two failed
detaches make the budget (the code has 3), so that a run sees one failure below it
and one at it. `MaxDepth` 2 or 3 shows stacking. Two host generations over a history
of one entry evict once. Mount ids are the lowest free one, or any free one where
ids matter. Three processes with `BatchMax` 1 (the code's value) leave two deferred,
and two events cover every pair of notifications. Killed rounds and host deaths are
not combined for `NoStacking` and `Converges`: together they fail, because a round
killed after the attach leaves a host layer without record, and if that host then
dies no list names the layer any more.

`host`: two threads and a queue of one tell "one blocked" from "all blocked"; the
code's times (no completion 6 s, probe 10 s, confirmation 4 s, throttle 30 s, beat
stale 20 s, external no-completion 25 s, verify throttle 60 s, cooldown 120 s) are
scaled to ticks of about ten seconds with their order kept, verify throttle and
cooldown shortened to values that still outlast one probe. Two recorders, two
applications, budgets of two reach every branch of the breaker; `RetryWindow` and the
first backoff are one tick, the longest two (60, 30 and 60 seconds in the code);
`MaxLate` lets one write of another fall between a read and its write, and `MaxTrouble`
gives a run one lock that is not had or one restart of the daemon. A barrier that
cannot be mounted is the one fault of `AppStart` left out.

`daemon`: five paths with two nested roots and one owner directory, a queue of two
(overflow), three changes of directories and configuration together (`MaxChanges`, so a
configuration may change twice before a rebuild), a walk budget of two directories
(`VisitMax`) and four watches, so that a tree may be over the one and within the other;
a breaker tripped by one child; two pids and two programs of one uid. `Apart` keeps the
reclaim list at one child once the daemon or an application has died, allows one such
death, and sees the two halves of the identity service one at a time: a lookup that ends
at the daemon reads nothing of the scanner's.

`log_daemon`: a socket of one, two records a window of two ticks, one tracked sender of
three, log files of one line, a crash; commands that only the log thread sees and
requests that reach the main loop are exercised in different behaviours. For the
registrations two uids of which one runs, two hosts, two configurations; `Short` bounds
the datagrams under way to one, which no behaviour exceeds before a wait was given up:
until the next host the properties then exempt the socket.

`fuse`: two applications, one mapping into a read-only directory, two threads over two
directories with four requests in all (forgets not counted); a directory is not renamed while others work inside it (`MovesRace`,
section 7). The hooked calls: two provider threads, two calls, one reload. Two threads
call at once only without hints, without Java hooks, with no reload due, and if one of
them makes a directory or renames (`HooksBound`; the decisions do not read the storage,
so other pairs add only their order); a thread is in one Java hook at a time and makes one call there; a call
for a caller known by a hint only (`Hinted`) is the first of its behaviour.
`attribution`: two applications with two files of one name; windows of one or two
ticks. `config_hub`: two contents, two writes, two threads, no failing reads.

Runs with bounded histories end, so they do not check deadlock; `config_hub` does.

## 5. Fairness

Weak fairness of a step means that the thread which has it to do is scheduled:
worker and loop steps of the daemon (its main loop runs for ever with a periodic
timeout and calls `ensure_global` and the pruning at its entry), a companion and its
child that is not killed, timers and ticks, the scanner's period, the walk of the
monitor thread and the post of a change after the round of mounts, reaping and
sweeping, reading and acknowledging on both ends of the host's socket.
`Converges` assumes that application, host and configuration stay as they are
from some point on, and that rounds are not killed for ever. A blocked storage, a
failing disk and an unkillable child are never assumed to recover.

Strong fairness, of a step that is enabled again and again but not all the time, is
assumed of these:

* `HandleEvent` (WatchTree): a turn of the monitor thread may end with events left, and
  the next one returns to the queue; its poll does not starve a readable descriptor.
* `Request(a, "reload")` (MountChildren), per application: the cursor of the loop gives
  every application its turn, which is what `MissingGetsMounted` checks in
  ReconcileCycle.
* `StartRound` (HostControl): other registrations share the daemon's thread, but the loop
  starts a round at least every `PERIODIC_RECONCILE_INTERVAL_MS` (`daemon.rs:31`,
  1080-1091). Inside the round every running application is offered registration by the
  loop over them (`PreRegister` for a uid still in `round`), so nothing is assumed of one
  uid there.
* `SpawnHost` (HostControl): a spawn may fail and is tried again by the following rounds.
* `PolicyAccepted(u)` (HostControl), for a running application: a policy whose storage
  is still locked is rejected, and storage is unlocked some time after boot. Nothing is
  assumed of applications that do not run, and nothing is promised to them.
* The router's poll (ConfigHub): the throttle of `poll_or_check_throttled`
  (`hook/reload.rs:33-61`) is shared by all who poll in the process, so one decision may find the
  interval taken by another caller, one that does not rebuild the router, any number of
  times. That decisions of a process that goes on working get a turn again and again is an
  assumption on its callers and not enforced by the code.


## 6. Proofs
Every theorem holds for every value of the constants that satisfies the named
assumption of its module; no other fact is assumed. Each proof follows the
same path: an inductive invariant (checked by TLC on the run's instance before
it was proved), `Init => Inv`, `Inv /\ [Next]_vars => Inv'` with one step per
action, and `Inv => property`.

| module | theorem | property | the strengthening, and why it is needed |
|---|---|---|---|
| MountRecoveryProofs | `TypeCorrect` | `TypeOK` | inductive as it stands; the lemmas type the stack operations, the superblock history (`RememberedType`, for arrangements of any finite set) and each group of actions |
| MountRecoveryProofs | `PoisonRefused` | `PoisonStopsInjection` | a child in its clearing phase could hold a poisoned ledger and walk into injection: `PoisonInv` says that the ledger is not poisoned at any control point inside the child. The gate establishes it; only the step that counts a failure can break it, where the child stops |
| MountRecoveryProofs | `DetachesOwn` | `DetachesOwnLayersOnly` | under `QuietNamespace` (below); `OwnInv` ties everything the worker believes to what is mounted: superblocks in ledger, history and `known` are the disk's or a host generation's, only system kinds carry the system's superblock, what a round has mounted and not yet recorded is on top of its target, a target being unmounted has a module layer on top |
| MountServedProofs | `CurrentIsServed` | `CurrentMeansServed` | under `OwnedNamespace` (below); the state file is written before the ledger and read rounds later, so `ServedInv` follows the view root through every step: it has one layer at most, an attach in progress holds the layer it took away and nothing else does (`CloneOK`), the host a round attaches is not replaced under it (`RoundOK`), the system view is gone once the root is a recorded target (`RootTaken`), and what the root shows is the recorded host while that lives (`HostShown`) - a killed attach leaves the root bare, and a rollback that would put the old layer back is excluded because an attach to the recorded host never takes one away |
| MountServedProofs | `NothingStacks` | `NoStacking` | under `PlainRounds` (below); what a round mounts over depends on what earlier rounds recorded before they were killed. `PlainInv` adds to `ServedInv` that the layers of each kind of mount point are the host's, one bind or none of the module's (`PlacesOK`, `HostOK`), that a recorded mount is still there with its id or gone, that a recorded view root means a bare redirect root, and that both records are gone before anything is mounted (`RecordOK`), so that clearing always succeeds and leaves of the redirect root only the bind the round asks for (`ClearOK`, with `Attributed` for the verdict on every layer and `SweepClears` for the round that finds nothing recorded) |
| LogDaemonProofs | `LogIsHonest` | `LogHonest` | `Good`: the files, oldest first, and the buffer form one ascending sequence of record numbers, a backup that exists is full, and a number that is missing was lost in one of the three ways the property names (`Missed`); the bound on the file counts the records that crashes may have left in the buffer |
| LogDaemonProofs | `NobodyRefusedForNothing` | `RefusedWithReason` | the limiter's entry of a sender counts accepted records of the last window, a full table holds distinct senders each with one, and the clock never runs behind an entry |
| LogDaemonProofs | `RequestsKept` | `NothingForgotten` | a slot that is set implies a wake-up in flight or a main loop that has not yet looked; after boot each package is in the state its registration left it in |
| LogDaemonProofs | `CounterRefines` | `CounterSpec` | the refinement of `ActivationCount`: every step of the daemon is a count, a write-out, a reset or a stutter of the counter |
| HostControlProofs | `SnapshotIsSound` | `SnapshotSound` | what a snapshot names is in the host's table unless a wait on it was given up; frames in flight and the job under way carry fingerprints that the host has or will have |
| HostProofs | `NobodyAbortedInService` | `AbortedWasStalled` | the abort uses a confirmation made ticks before: `StallInv` says that since the probe failed no thread came free, or one did and the completion it made refutes the stall (`StallTypeCorrect` types the rest) |
| HostProofs | `AnswersAreHonest` | `AnswersHonest` | under the hypothesis that a barrier can be mounted; `StartInv` says that a child works only while the companion waits (`ChildOK`), so nobody but a daemon round touches the view between the bind and the answer, and that a child that bound the rules is still covered or a round has failed since (`BoundOK`); the lemmas on the mount table say what serves the root after each call (`UserMounted`, `HostMounted`, `BarrierUp`). `StartTypeCorrect`, `OkIsCovered` (which needs no hypothesis) and `FailedIsClosed` are its parts |
| HostProofs | `CapturedUntouched` | two parts of `SidesSound` | a captured process has nothing saved, mounted or held (`CapturedOK`), so no recovery, clean-up or release finds anything to take off (`SystemView`) |
| ConfigHubProofs | `CacheIsHonest` | `CacheHonest` | a change stamps a file with a number above every fingerprint held anywhere (`StampInv`), so a stamp that still agrees belongs to the contents read after it: `LoadInv` says so of the loaded state and of every reload under way, for the files it has done; `VersionInv` says that whatever a thread holds as current was taken from the current state |
| CallerContextProofs | `RightlyCalled` | `RightCaller` | `CallerInv`: a header is only on a thread that reads, and is that of the request it serves; an application that could be reused is the one served, or too old, or the header that will replace it is still there and no older (`CurHere`) - here a current caller must expire before a header does (500 ms and 1500 ms in the code); worker threads without a header never hold one |
| CallerContextProofs | `SavedNotLeftOver` | `SavedIsOurs` | a saved caller exists only inside a cleared identity or an open scope of the transaction it was taken from |
| InodeTableProofs | `ListingsCurrent` | `ListingCurrent` | the commit compares the path under the lock, but what it numbers was read before: `IInv` says that the candidates of a commit are children of the path the job remembers, and that numbering them gives each a number with its path (`CommitTable`, `MaterializeSound`) |
| InodeTableProofs | `TableIsSound` | `TableSound` | `LooksRight` and `DrefsRight` hold at every step only together with what the kernel and the jobs refer to: no entry of the kernel's cache, forget under way or job names an inode that the table has not given out (`KernelRight`, `JobsRight`), and numbers only grow (`Grows`); the maps are sound on the record of them (`Sound`), with one lemma per operation (`InoForPathSound`, `RemoveLookupSound`, `RemoveRefsSound`, `RemovePathSound`, `RemapSound`, `MaterializeSound`) |

`QuietNamespace` says that the system does not mount during a round, no bind
reports the system's superblock, and private directories are neither the view
root nor bound by a request. The first two are necessary: with `window` or
`fusebind` among the faults TLC finds a system layer detached. System mounts
between rounds, any mount id allocation, failing calls, kills, host deaths and
any number of processes on the pid are covered by the theorem; `rounds_faults`
has one process.

`OwnedNamespace` says that one process owns the pid, the system mounts nothing of its
own at the module's targets and left no barrier at the view root, and neither the view root nor a
private directory is bound by a rule. Kills, half-done attaches, timeouts, failing writes,
binds that land on FUSE and dying hosts are all covered. The first condition is needed:
`has_current_mount_state` compares neither the start time nor the layers' superblocks, so
when the package starts again on the same pid TLC finds the plan for the new process skipped
on the old state file until `PruneStale`, which the daemon runs throttled, removes it.

`PlainRounds` adds to `OwnedNamespace` that umount and the disk do not fail, the host
does not die, binds show the disk, the only rules are those of the redirect root, and
the redirect root, the aliases and the private directories are different paths; these
are the requests and faults of `rounds_fair`, with failing attaches, clones, binds and
timeouts on top. The code does not promise more: TLC finds a layer of an old round under
one of a new round when an unmount may fail, a bind may land on FUSE or the system may mount
between rounds, and, in combination with killed rounds, when a file may fail to be written, the host may
die, the package may start again on the pid, or requests name rules below the redirect
root.

The other assumptions only say what kind of value a constant is (bounds are
naturals, the served package is configured, identifiers of packets are among the
senders; threads, directories and files are finitely many). The theorems on the
inode table hold with and without `MovesRace`: directories that are renamed while
other threads work inside them cost neither a count nor a listing.

Only model-checked: every liveness property (fairness and ENABLED are out of
the prover's reach), the refinements' fairness, and the invariants and action properties
of the runs that no row above names: `NoRedundantRemount`, `CountsKept`, the parts of
`SidesSound` that no row names, `PartsSound`, `SweptClean`, `ViewEnforced`, `DirsFound`, `Confined`, `ReadOnlyKept`
and `RecordsTrue`. Among these, `ViewEnforced`, `Confined` and `ReadOnlyKept`
depend on the rules of the instance (rules that contradict one another, such as a
read-only rule over a sandbox, have other outcomes), and the properties of
`FileMonitor` on what a fold over its watchers returns, which would need induction
over a sequence; so would the walk of `WatchTree`. `PathsAgree`, a part of
`ViewEnforced`, needs in addition that the kernel holds its
directory locks around every handler that moves a name; it is checked on the
instance of `fuse`.


## 7. Where the code does not do what it says

Four findings have a run (section 3):

* A failed `open_tree` is not looked at before the view is unmounted, so a failed attach
  leaves the application bare, against the comment above it (`fuse_host.rs:790-792`,
  against 778-779).
* A list of changed packages that is posted before the monitor thread's turn takes the
  place of the rebuild a global change asked for, and raises the version as if it had been
  done (`daemon_monitor.rs:604-609`, against `daemon.rs:851-852`).
* An answer of the daemon that comes after the hook gave up stays in the socket, and every
  later question reads the answer to the one before (`daemon_identity_query.rs`).
* An openat with an absolute path opens the path it named
  (`hook/ops/open.rs:395`, 514-516).

The others met while modelling:

* *Mounts.* Every recorded round resets the detach budget, so a stack may grow
  beyond it (`mount_ledger.rs:127`, against `mount_identity.rs:18-20`); a poisoned
  slot is refused by the gate before anything could be detached again
  (`daemon.rs:1439`); an alias layer stays when the ledger has it, because the shape
  decides (`daemon_mount.rs:2025`, against 2014); the state file is stamped with
  the start time of whoever runs on the pid by then (`fuse_session.rs:128`); the
  rollback clone dies with an attach child killed at its deadline
  (`fuse_host.rs:525`, against 779). The sweep unmounts by path and may take a system layer mounted over
  the module's.
* *Loop.* After a change of global files an application may keep its old policy:
  later rounds are MissingOnly (`daemon.rs:1366`, against 803).
* *Host.* A host that never completed a request, or froze before its first
  heartbeat, is not detected; the confirmation window is computed before a probe
  that outlasts it, so it is never waited (`fuse_redirect/config.rs:1176-1178`);
  the host does not exit with its session while a worker is blocked below
  (1298); the external monitor may act although the watchdog is healthy
  (`fuse_host.rs:2527-2530`). After an abandoned wait a late acknowledgement is taken for the
  next registration. A snapshot lost to the companion's race is not republished
  until an entry changes.
* *Breaker.* Failures of one application count against others through the device
  count, and in the probe state every application is admitted, not one
  (`fuse_redirect/config.rs:22-23`, 37-38, 508-512, 652-659, 685-688). A recorder that
  cannot have the lock goes on without it and may lose another's failure (662-663,
  752-759).
* *FUSE.* A directory rename racing work inside it leaves what that work adds
  under the path the directory had before (`fuse_redirect/inode.rs:100-104`; with
  `MovesRace` TLC refutes `PathsAgree`, and no count or listing is lost); the listing cache is keyed by the path
  alone (`policy.rs:361-363`); setxattr has no read-only check; open for writing
  after the route asks for reading (`policy.rs:1137-1145`); the comment at
  `policy.rs:1460-1463` fails for chained mappings.
* *Hooks.* A reload between the reads of one decision may redirect by a mixture of
  two configurations (`redirect/engine.rs:192-214`), hence `App = {}` in the run;
  `mkdir`'s comment (`hook/ops/mutation/dir.rs:462-475`) and code (492-511) differ; an empty
  source directory is removed although the call did not create it.
* *Configuration.* A file that fails to parse does not keep its old entry
  (`config/source.rs:116-117`), and a failed read is not repeated (332), hence
  `MaxFails = 0`.
* *Watch tree.* A reconfiguration by package clears a rebuild that was due, for
  whatever reason (`daemon_monitor.rs:604-609`), so what an overflow lost stays lost; it
  keeps the missing roots of the package's old profile (693). A walk that spends its budget
  of directories ends without a word: the tree below is not watched, nothing is noted as missing or
  over capacity, and no rebuild comes of it (842-850). Created directories bypass the
  capacity check; the rename of an unwatched ancestor goes unseen. `Covered` and its
  neighbours name each of these exceptions through a history variable of its own
  (`lost`, `outdated`, `unread`).
* *Monitor.* Parked events are dropped when the node is gone by then
  (`daemon_monitor.rs:1377-1382`, against 1356-1357); hints renew themselves
  (`monitor.rs:771-803`); read-only queries register as openings for writing.
* *Log daemon.* Two registration tokens share one slot, so one may be lost
  (`log_daemon.rs:95-100`); a failed clear is acknowledged; a failed rename in the
  rotation loses backups.
* *Callers.* A nested clear loses the traceable caller (`hook/ops/binder.rs:15`); a table row
  outlives its time in the hooks' cache (`hook/caller.rs:1109-1127`).
* *Children.* A disable that fails still writes "disabled". The total valve of the
  reclaim list cannot trip at the code's timing. The sweep reports success although
  it could not remove a state file (`daemon_mount_reclaim.rs:168-169`); files of
  processes that are gone may stay behind, which is why `SweptClean` speaks of layers of
  running applications and not of files.

## 8. Not modelled

The Zygisk glue (symbol lookup, function tables), the watchdog (it respawns the
daemon, which the models' crashes already do), the Kotlin manager and the web UI
(their files are inputs of ConfigHub), installation scripts, text formats and log
wording, the running log, the rewriting of JNI queries, healing of the media
provider, device setup and descriptor passing of the host. The abstractions of each
module are in section 2.

## 9. Running

    tlc -config Rounds_Faults.cfg MCRounds
    tlc -config Fuse.cfg MCFuse
    tlapm MountRecoveryProofs.tla

The proofs are in the modules `MountRecoveryProofs`, `MountServedProofs`,
`LogDaemonProofs`, `HostControlProofs`, `HostProofs`, `ConfigHubProofs`,
`CallerContextProofs` and `InodeTableProofs`.

Every `.cfg` belongs to the module the table of section 3 names.
