--------------------------- MODULE MountRecovery ---------------------------
(* The daemon's mount worker for one application slot (package, pid): plan, *)
(* supervision, the forked child that enters the application's mount        *)
(* namespace, clears what the previous round left, attaches the shared FUSE *)
(* host (or falls back to binds), writes the state file and the identity    *)
(* ledger.  Around it: application restarts on the same pid, host session   *)
(* generations, configuration changes, mounts made by the system, failing   *)
(* system calls and SIGKILL of the child.                                   *)
(*                                                                          *)
(* A mount point carries a stack of layers, the visible one last.  Stacks   *)
(* of different targets are independent.                                    *)
EXTENDS Supervision, FiniteSets, Sequences

CONSTANTS
    Targets,            \* mount points of the application's namespace
    AttachRoot,         \* where the shared host is attached (/storage/emulated)
    UserRoot,           \* the redirect root (/storage/emulated/<user>)
    AliasRoots,         \* other names of the storage root that follow the host
    AliasTargets,       \* targets whose bind looks like a system private view
    PrivateDirs,        \* own private directories restored after a round
    Depth,              \* path depth of a target: deeper mounts go first
    Sources,            \* what a bind may show: sandbox roots, mapping targets
    Configs,            \* the requests build_request can produce
    MaxDetachAttempts,  \* MAX_DETACH_ATTEMPTS
    KnownDevsLimit,     \* KNOWN_DEVS_LIMIT
    MaxUnmountPasses,   \* MAX_UNMOUNT_PASSES_HARD_LIMIT
    MaxInst,            \* bound: process instances of the slot
    MaxHostGen,         \* bound: host session generations
    MaxMountId,         \* bound: mount ids of the kernel
    MaxDepth,           \* bound: layers on one mount point (fs.mount-max)
    AnyId,              \* TRUE: the kernel may pick any free mount id
    Faults              \* what the environment may do, a subset of FaultKinds

FaultKinds == {"umount", "disk", "attach", "bind", "kill", "forced",
               "foreign", "window", "fusebind", "barrier", "clone", "timeout", "death"}

\* Superblocks: the disk, the system's FUSE, and one per host generation.
DiskDev == 0
SystemDev == 1
HostDev(g) == g + 1
Devs == 0 .. (MaxHostGen + 1)

MountIds == 1 .. MaxMountId
ModuleKinds == {"host", "bind", "alias", "barrier", "repair"}
SystemKinds == {"system", "private"}
NoSource == "none"
Layer == [id : MountIds, kind : ModuleKinds \cup SystemKinds, dev : Devs,
          src : Sources \cup {NoSource}]

\* What a mount request says: reload or disable, the targets of its path rules,
\* the targets a bind round mounts and from where, path mappings present, host
\* candidate, any rules at all.
Request == [op : {"reload", "disable"}, overlay : SUBSET Targets, binds : SUBSET Targets,
            src : Sources, mapped : BOOLEAN, host : BOOLEAN, ruled : BOOLEAN]

ASSUME ConstantsAssumption ==
    /\ {AttachRoot, UserRoot} \cup AliasRoots \cup AliasTargets \cup PrivateDirs \subseteq Targets
    /\ AttachRoot # UserRoot /\ AttachRoot \notin AliasRoots
    /\ IsFiniteSet(Targets) /\ Depth \in [Targets -> Nat]
    /\ Configs # {} /\ Configs \subseteq Request
    /\ MaxDetachAttempts \in Nat \ {0} /\ KnownDevsLimit \in Nat \ {0}
    /\ MaxUnmountPasses \in Nat \ {0} /\ MaxInst \in Nat \ {0}
    /\ MaxHostGen \in Nat /\ MaxMountId \in Nat /\ MaxDepth \in Nat
    /\ AnyId \in BOOLEAN /\ Faults \subseteq FaultKinds

VARIABLES
    inst, alive,        \* process instance on the pid (its start time), running?
    stack,              \* stack[n][t]: layers at t in the namespace of instance n
    hostGen, hostUp,    \* shared host session: generation, still serving?
    hist,               \* known_devs, the persistent superblock history (FIFO)
    ledger, state,      \* identity ledger and state file of the slot
    cfg,                \* the request the current configuration calls for
    pc,                 \* control point of the worker
    req, ns,            \* its request and the namespace it entered
    todo, cur, passes,  \* targets left, target being cleared, layers detached
    known,              \* known_devs snapshot taken for the current target
    cleared,            \* ClearOutcome::Cleared so far
    via,                \* host generation attached in this round (0: none)
    done,               \* targets this round mounted
    backup              \* detached clone of the layer being replaced

appVars == <<inst, alive>>
hostVars == <<hostGen, hostUp>>
diskVars == <<hist, ledger, state>>
workVars == <<pc, req, ns, todo, cur, passes, known, cleared, via, done, backup>>
vars == <<appVars, stack, hostVars, diskVars, cfg, workVars>>

NoLedger == [start |-> 0, ns |-> 0, mounts |-> {}, attempts |-> 0]
NoRequest == [op |-> "none", overlay |-> {}, binds |-> {}, src |-> NoSource,
              mapped |-> FALSE, host |-> FALSE, ruled |-> FALSE]
NoState == [fp |-> NoRequest, start |-> 0, host |-> 0, targets |-> {}]
HasLedger == ledger # NoLedger
HasState == state # NoState

\* The round is over: the child's memory is gone.
IdleWorker ==
    /\ pc = "idle" /\ req = NoRequest /\ ns = 0
    /\ todo = {} /\ cur = AttachRoot /\ passes = 0 /\ known = {} /\ cleared = TRUE
    /\ via = 0 /\ done = {} /\ backup = NoLayer
EndRound ==
    /\ pc' = "idle" /\ req' = NoRequest /\ ns' = 0
    /\ todo' = {} /\ cur' = AttachRoot /\ passes' = 0 /\ known' = {} /\ cleared' = TRUE
    /\ via' = 0 /\ done' = {} /\ backup' = NoLayer

-----------------------------------------------------------------------------
(* Mount table.                                                             *)

TopOf(s) == IF s = <<>> THEN NoLayer ELSE s[Len(s)]
Pop(s) == SubSeq(s, 1, Len(s) - 1)
\* topmost_live_mount of target t in namespace n.
Topmost(n, t) == TopOf(stack[n][t])
IsFuse(l) == l # NoLayer /\ l.dev # DiskDev

\* A namespace lives as long as a process is in it: the application or the child.
Namespaces == {n \in 1 .. MaxInst : (alive /\ n = inst) \/ n = ns}
UsedIds == UNION {{stack[n][t][i].id : i \in 1 .. Len(stack[n][t])} : n \in Namespaces, t \in Targets}
FreeIds == MountIds \ UsedIds
\* Kernels hand out the lowest free id of a global allocator; mounts outside
\* the model make the choice arbitrary.
FreshIds == IF AnyId THEN FreeIds
            ELSE {i \in FreeIds : \A j \in FreeIds : i <= j}
Room(n, t) == Len(stack[n][t]) < MaxDepth
Push(n, t, l) == [stack EXCEPT ![n][t] = Append(@, l)]
PopAt(n, t) == [stack EXCEPT ![n][t] = Pop(@)]

\* A layer of a host session that is gone answers ENOTCONN, and so may any path
\* that leads through it.
DeadHostLayer(l) == l.kind = "host" /\ ~(hostUp /\ l.dev = HostDev(hostGen))
Reaches(n, t) == t \in AliasRoots \cup {AttachRoot} \/ ~DeadHostLayer(Topmost(n, AttachRoot))
SystemLayer(i, k) == [id |-> i, kind |-> k, dev |-> SystemDev, src |-> NoSource]

Fault(kind) == kind \in Faults

-----------------------------------------------------------------------------
(* Superblock history and the set of devices the module calls its own.     *)

Entries(h) == {h[i] : i \in 1 .. Len(h)}
Arrangements(S) == {s \in [1 .. Cardinality(S) -> S] : S \subseteq Entries(s)}
Newest(s) == IF Len(s) > KnownDevsLimit
             THEN SubSeq(s, Len(s) - KnownDevsLimit + 1, Len(s)) ELSE s
\* remember_module_fuse_devs: append what is new, in the order of the caller's list,
\* and evict the oldest.
Remembered(h, devs) == IF devs \subseteq Entries(h) THEN {h}
                       ELSE {Newest(h \o s) : s \in Arrangements(devs \ Entries(h))}
LedgerFuseDevs(led) == {m.dev : m \in {x \in led.mounts : x.dev # DiskDev}}
CurrentHostDev == IF hostUp THEN {HostDev(hostGen)} ELSE {}
\* known_module_fuse_devs.
KnownDevs == LedgerFuseDevs(ledger) \cup Entries(hist) \cup CurrentHostDev

-----------------------------------------------------------------------------
(* Planning and supervision.                                                *)

\* is_process_instance_alive for a recorded start time.
InstanceAlive(start) == alive /\ inst = start
CurrentNs == IF alive THEN inst ELSE NoNamespace
\* probe_endpoint of a recorded target.
Probe(n, t) == IF DeadHostLayer(Topmost(n, t)) THEN "dead" ELSE "healthy"
IsPoisoned(led) == led.attempts >= MaxDetachAttempts

\* supervise_mount_request: the action for the slot's ledger.
SupervisedAction(r) ==
    LET verdict(t) == ClassifyMount(ledger, t, Topmost(inst, t), CurrentNs, InstanceAlive(ledger.start))
        emptyVerdict == IF r.ruled /\ InstanceAlive(ledger.start) /\ CurrentNs = ledger.ns
                        THEN "detached" ELSE "stale"
    IN  IF ledger.mounts = {}
        THEN PlanRecovery(emptyVerdict, "missing", IsPoisoned(ledger))
        ELSE AggregateActions({PlanRecovery(verdict(m.target), Probe(inst, m.target), IsPoisoned(ledger)) :
                                 m \in ledger.mounts})

\* Mutants: the serving host, or the mounted targets, are not looked at.
StateCurrentOnAnyHost(r) ==
    HasState /\ (\A t \in state.targets : stack[inst][t] # <<>>) /\ state.fp = r
StateCurrentByFile(r) ==
    HasState /\ (state.host # 0 => hostUp /\ state.host = hostGen) /\ state.fp = r
\* has_mount_state_internal and has_current_mount_state: the state file names
\* the serving host, every recorded target is mounted, the policy is the same.
StateCurrent(r) ==
    /\ HasState
    /\ state.host # 0 => hostUp /\ state.host = hostGen
    /\ \A t \in state.targets : stack[inst][t] # <<>>
    /\ state.fp = r
\* ReconcilePlan::new: nothing to do, or done already.
PlanIsCurrent(r) ==
    \/ ~HasState /\ ~r.ruled /\ ~HasLedger
    \/ r.op = "reload" /\ StateCurrent(r)

\* A reconcile round picks the slot up.
BuildPlan ==
    /\ pc = "idle" /\ alive
    /\ ~PlanIsCurrent(cfg) \/ Fault("forced")
    /\ pc' = "planned" /\ req' = cfg
    /\ UNCHANGED <<appVars, stack, hostVars, diskVars, cfg,
                   ns, todo, cur, passes, known, cleared, via, done, backup>>

\* The supervision gate before execution; a stale ledger is dropped on the way,
\* a disable request without state file has nothing to execute.
Supervise ==
    /\ pc = "planned"
    /\ LET action == IF HasLedger THEN SupervisedAction(req) ELSE "reinject"
       IN /\ ledger' = IF action = "drop" THEN NoLedger ELSE ledger
          /\ IF AllowsInject(action) /\ (req.op = "reload" \/ HasState)
             THEN /\ pc' = "fork"
                  /\ UNCHANGED <<req, ns, todo, cur, passes, known, cleared, via, done, backup>>
             ELSE EndRound
    /\ UNCHANGED <<appVars, stack, hostVars, hist, state, cfg>>

-----------------------------------------------------------------------------
(* The forked child: clearing the previous round.                           *)

\* clear_previous_mounts collects its candidates from state file, ledger,
\* request and, for path mappings, the storage root.
ClearTargets(r) ==
    state.targets \cup {m.target : m \in ledger.mounts} \cup r.overlay
        \cup (IF r.op = "reload" /\ r.mapped THEN {UserRoot} ELSE {})

\* set_mount_namespace goes through /proc/<pid>: whichever instance runs now.
EnterNamespace ==
    /\ pc = "fork"
    /\ IF alive
       THEN /\ ns' = inst
            /\ todo' = ClearTargets(req)
            /\ pc' = IF ClearTargets(req) = {} THEN "sweep" ELSE "clear"
            /\ UNCHANGED <<req, cur, passes, known, cleared, via, done, backup>>
       ELSE EndRound
    /\ UNCHANGED <<appVars, stack, hostVars, diskVars, cfg>>

\* app_redirect_mounts_in: layers whose root shape gives them away.
SweepShape(l) == l.kind \in {"bind", "alias"} /\ (l.kind = "alias" => l.dev = DiskDev)
Leftovers(s) == Cardinality({i \in 1 .. Len(s) : SweepShape(s[i])})
Unswept == {t \in Targets : Leftovers(stack[ns][t]) > 0}
MayFail == {t \in Unswept : Fault("umount") \/ ~Reaches(ns, t)}
\* Nothing recorded: the fallback sweep unmounts by path, once per recognised
\* layer; a target may fail, and so may the removal of the state file.
SweepUnrecorded ==
    /\ pc = "sweep"
    /\ \E failed \in SUBSET MayFail,
         removed \in IF HasState /\ Fault("disk") THEN BOOLEAN ELSE {TRUE} :
         /\ cleared' = (failed = {} /\ removed)
         /\ stack' = [stack EXCEPT ![ns] = [t \in Targets |->
                        IF t \in failed THEN @[t]
                        ELSE SubSeq(@[t], 1, Len(@[t]) - Leftovers(@[t]))]]
         /\ state' = IF removed THEN NoState ELSE state
         /\ ledger' = IF removed THEN NoLedger ELSE ledger
    /\ pc' = "decide"
    /\ UNCHANGED <<appVars, hostVars, hist, cfg,
                   req, ns, todo, cur, passes, known, via, done, backup>>

\* should_keep_reload_redirect_root: the sandbox root stays when the shape of
\* the redirect does not change.
KeepRedirectRoot(t) ==
    /\ req.op = "reload" /\ ~req.mapped /\ ~req.host
    /\ t = UserRoot /\ Topmost(ns, t).kind = "bind" /\ Topmost(ns, t).src = req.src

Deepest(S) == {t \in S : \A u \in S : Depth[u] <= Depth[t]}
Shallowest(S) == {t \in S : \A u \in S : Depth[t] <= Depth[u]}

ClearNextTarget ==
    /\ pc = "clear" /\ todo # {}
    /\ \E t \in Deepest(todo) :
         IF KeepRedirectRoot(t)
         THEN /\ todo' = todo \ {t}
              /\ UNCHANGED <<pc, cur, passes, known>>
         ELSE /\ cur' = t /\ passes' = 0 /\ known' = KnownDevs /\ pc' = "inspect"
              /\ UNCHANGED todo
    /\ UNCHANGED <<appVars, stack, hostVars, diskVars, cfg, req, ns, cleared, via, done, backup>>

\* Path mappings switch the ledger's superseded protection off.
CleanupLedger == IF req.mapped THEN NoLedger ELSE ledger
\* A layer newer than everything the ledger records belongs to a newer session.
SupersededLayer(led, t, l) ==
    LET recorded == RecordedAt(led.mounts, t)
    IN  recorded # {} /\ \A m \in recorded : l.id > m.id
\* Mutants: every FUSE layer passes for ours; layers are told by superblock alone.
OwnLayerAnyFuse(l) == l.kind \in {"barrier", "bind"} \/ IsFuse(l)
OwnLayerBySuperblock(l) ==
    l.kind = "barrier" \/ (IsFuse(l) /\ l.dev \in known \cup {m.dev : m \in CleanupLedger.mounts})
\* The attribution rules of clear_mount_target_stack_verified.
OwnLayer(l) ==
    \/ l.kind = "barrier"
    \/ IsFuse(l) /\ l.dev \in known \cup {m.dev : m \in CleanupLedger.mounts}
    \/ l.kind = "bind"
LayerVerdict(l) ==
    IF l = NoLayer THEN "clean"
    ELSE IF SupersededLayer(CleanupLedger, cur, l) THEN "stuck"
    ELSE IF ~OwnLayer(l) THEN (IF l.kind \in {"private", "alias"} THEN "clean" ELSE "stuck")
    ELSE IF passes >= MaxUnmountPasses THEN "stuck"
    ELSE "detach"

FinishTarget(ok) ==
    /\ pc' = "clear" /\ todo' = todo \ {cur} /\ cleared' = (cleared /\ ok)
    /\ passes' = 0 /\ known' = {}

InspectTarget ==
    /\ pc = "inspect"
    /\ LET verdict == LayerVerdict(Topmost(ns, cur))
       IN  IF verdict = "detach"
           THEN pc' = "umount" /\ UNCHANGED <<todo, cleared, passes, known>>
           ELSE FinishTarget(verdict = "clean")
    /\ UNCHANGED <<appVars, stack, hostVars, diskVars, cfg, req, ns, cur, via, done, backup>>

\* umount2 takes a path: it pops whatever is on top by now.  EINVAL and ENOENT (the
\* path no longer leads to that layer) count as cleared, any other error does not.
UmountTarget ==
    /\ pc = "umount"
    /\ \/ /\ stack[ns][cur] # <<>>
          /\ stack' = PopAt(ns, cur) /\ passes' = passes + 1 /\ pc' = "inspect"
          /\ UNCHANGED <<todo, cleared, known>>
       \/ /\ Fault("umount") \/ ~Reaches(ns, cur)
          /\ FinishTarget(FALSE) /\ UNCHANGED stack
       \/ Fault("umount") /\ FinishTarget(TRUE) /\ UNCHANGED stack
    /\ UNCHANGED <<appVars, hostVars, diskVars, cfg, req, ns, cur, via, done, backup>>

\* All targets verified: the state file goes first, then the ledger.
SettleClear ==
    /\ pc = "clear" /\ todo = {}
    /\ \/ cleared /\ state' = NoState /\ pc' = "unrecord" /\ UNCHANGED cleared
       \/ cleared /\ HasState /\ Fault("disk") /\ cleared' = FALSE /\ pc' = "decide" /\ UNCHANGED state
       \/ ~cleared /\ pc' = "decide" /\ UNCHANGED <<state, cleared>>
    /\ UNCHANGED <<appVars, stack, hostVars, hist, ledger, cfg,
                   req, ns, todo, cur, passes, known, via, done, backup>>
ForgetLedger ==
    /\ pc = "unrecord" /\ pc' = "decide" /\ ledger' = NoLedger
    /\ UNCHANGED <<appVars, stack, hostVars, hist, state, cfg,
                   req, ns, todo, cur, passes, known, cleared, via, done, backup>>

\* Mutant: the failures are counted and never looked at.
GivesUpNever(led) == FALSE
\* The budget of failed detaches is used up: the child stops here.
GivesUp(led) == IsPoisoned(led)

\* record_detach_failure, the poisoned refusal, and the end of a disable.
DecideAfterClear ==
    LET counts == req.op = "reload" /\ ~cleared /\ HasLedger
        failed == [ledger EXCEPT !.attempts = @ + 1]
    IN /\ pc = "decide"
       /\ \/ /\ ledger' = IF counts THEN failed
                          ELSE IF req.op = "disable" /\ cleared THEN NoLedger ELSE ledger
             /\ hist' \in IF counts THEN Remembered(hist, LedgerFuseDevs(failed)) ELSE {hist}
          \/ counts /\ Fault("disk") /\ UNCHANGED <<ledger, hist>>
       /\ IF req.op = "disable" \/ (counts /\ GivesUp(failed))
          THEN EndRound
          ELSE /\ pc' = "preattach"
               /\ UNCHANGED <<req, ns, todo, cur, passes, known, cleared, via, done, backup>>
       /\ UNCHANGED <<appVars, stack, hostVars, state, cfg>>

-----------------------------------------------------------------------------
(* The forked child: attaching the shared host.                             *)

\* The serving host already covers the view root: adopt its layer.
ReuseHost ==
    /\ pc = "preattach" /\ req.host /\ hostUp
    /\ Topmost(ns, AttachRoot).dev = HostDev(hostGen)
    /\ via' = hostGen /\ done' = {AttachRoot} /\ pc' = "save"
    /\ UNCHANGED <<appVars, stack, hostVars, diskVars, cfg,
                   req, ns, todo, cur, passes, known, cleared, backup>>

\* No candidate, no host, no budget, or the policy was not acknowledged.
SkipHost ==
    /\ pc = "preattach"
    /\ ~req.host \/ ~hostUp \/ Fault("attach")
    /\ via' = 0 /\ done' = {} /\ pc' = "fallback"
    /\ UNCHANGED <<appVars, stack, hostVars, diskVars, cfg,
                   req, ns, todo, cur, passes, known, cleared, backup>>

StartAttach ==
    /\ pc = "preattach" /\ req.host /\ hostUp
    /\ Topmost(ns, AttachRoot).dev # HostDev(hostGen)
    /\ via' = hostGen /\ pc' = "attach"
    /\ UNCHANGED <<appVars, stack, hostVars, diskVars, cfg,
                   req, ns, todo, cur, passes, known, cleared, done, backup>>

\* attach_app_to_host reports failure: the round goes on without the host.
AttachFailed == via' = 0 /\ done' = {} /\ pc' = "fallback"

\* open_detached_mount of the replaced layer may fail.  Nobody looks at the
\* descriptor before the layer is unmounted, so a lost clone cannot be put back.
LostClone == [NoLayer EXCEPT !.kind = "lost"]
Clones(l) == {l} \cup (IF Fault("clone") /\ l # NoLayer THEN {LostClone} ELSE {})

\* clear_dead_srx_layers_at_target, then the layer on top (the system view) is
\* cloned and unmounted so that the host replaces it.
ReplaceTop ==
    LET top == Topmost(ns, AttachRoot)
    IN /\ pc = "attach"
       /\ \/ /\ DeadHostLayer(top) /\ top.dev \in KnownDevs
             /\ stack' = PopAt(ns, AttachRoot)
             /\ UNCHANGED <<pc, via, done, backup>>
          \/ /\ DeadHostLayer(top) /\ (top.dev \notin KnownDevs \/ Fault("umount"))
             /\ AttachFailed /\ UNCHANGED <<stack, backup>>
          \/ /\ ~DeadHostLayer(top)
             /\ backup' \in Clones(top) /\ pc' = "move"
             /\ stack' = IF top = NoLayer THEN stack ELSE PopAt(ns, AttachRoot)
             /\ UNCHANGED <<via, done>>
          \/ /\ ~DeadHostLayer(top) /\ Fault("umount")
             /\ AttachFailed /\ UNCHANGED <<stack, backup>>
       /\ UNCHANGED <<appVars, hostVars, diskVars, cfg, req, ns, todo, cur, passes, known, cleared>>

HostLayer(i) == [id |-> i, kind |-> "host", dev |-> HostDev(via), src |-> NoSource]
CanMount(n, t) == Room(n, t) /\ FreshIds # {}
\* The clone of a dead session still mounts; only the usability probe, which runs
\* when a layer was replaced, turns it down.
PassesProbe == (hostUp /\ hostGen = via) \/ backup = NoLayer

\* Mutant: the clone is mounted without looking at the descriptor.
RestoresUnchecked == backup # NoLayer /\ CanMount(ns, AttachRoot)
\* The rollback of host_attach_child_main has a clone to put back.
Restores == backup \notin {NoLayer, LostClone} /\ CanMount(ns, AttachRoot)

\* move_mount, propagation and the usability probe.  A failed attach puts the
\* clone back, except when only the propagation change failed.
MoveMount ==
    /\ pc = "move"
    /\ \/ /\ PassesProbe /\ CanMount(ns, AttachRoot)
          /\ \E i \in FreshIds : stack' = Push(ns, AttachRoot, HostLayer(i))
          /\ pc' = "aliases" /\ todo' = AliasRoots /\ done' = {AttachRoot} /\ UNCHANGED via
       \/ /\ Fault("attach") /\ CanMount(ns, AttachRoot)
          /\ \E i \in FreshIds : stack' = Push(ns, AttachRoot, HostLayer(i))
          /\ AttachFailed /\ UNCHANGED todo
       \/ /\ ~PassesProbe \/ ~CanMount(ns, AttachRoot) \/ Fault("attach")
          /\ IF Restores
             THEN \E i \in FreshIds : stack' = Push(ns, AttachRoot, [backup EXCEPT !.id = i])
             ELSE UNCHANGED stack
          /\ AttachFailed /\ UNCHANGED todo
    /\ backup' = NoLayer
    /\ UNCHANGED <<appVars, hostVars, diskVars, cfg, req, ns, cur, passes, known, cleared>>

\* attach_app_to_host stops waiting and kills the attach child where it is; the
\* clone dies with its descriptor.
AttachTimesOut ==
    /\ pc \in {"attach", "move", "aliases"} /\ Fault("timeout")
    /\ AttachFailed /\ backup' = NoLayer /\ todo' = {}
    /\ UNCHANGED <<appVars, stack, hostVars, diskVars, cfg, req, ns, cur, passes, known, cleared>>

\* attach_host_view_to_storage_aliases: dead layers of ours go, a layer of the
\* same session stays, otherwise the host view is bound; failures are tolerated.
AttachAlias ==
    /\ pc = "aliases" /\ todo # {}
    /\ \E t \in todo :
         LET top == Topmost(ns, t)
         IN \/ /\ top.dev = HostDev(via)
               /\ todo' = todo \ {t} /\ UNCHANGED stack
            \/ /\ top.dev # HostDev(via) /\ DeadHostLayer(top) /\ top.dev \in KnownDevs
               /\ stack' = PopAt(ns, t) /\ UNCHANGED todo
            \/ /\ top.dev # HostDev(via) /\ ~(DeadHostLayer(top) /\ top.dev \in KnownDevs)
               /\ Room(ns, t) /\ ~DeadHostLayer(top)
               /\ \E i \in FreshIds : stack' = Push(ns, t, HostLayer(i))
               /\ todo' = todo \ {t}
            \/ /\ top.dev # HostDev(via)
               /\ ~Room(ns, t) \/ FreshIds = {} \/ DeadHostLayer(top) \/ Fault("attach")
               /\ todo' = todo \ {t} /\ UNCHANGED stack
    /\ UNCHANGED <<appVars, hostVars, diskVars, cfg,
                   pc, req, ns, cur, passes, known, cleared, via, done, backup>>

FinishAttach ==
    /\ pc = "aliases" /\ todo = {} /\ pc' = "save"
    /\ UNCHANGED <<appVars, stack, hostVars, diskVars, cfg,
                   req, ns, todo, cur, passes, known, cleared, via, done, backup>>

-----------------------------------------------------------------------------
(* The forked child: binds, state file, ledger.                             *)

\* A request without rules has nothing to mount.  The guard on srx_fuse sources
\* never holds any more (sources are native), so clearing alone decides.
NoRulesShortCircuit ==
    /\ pc = "fallback" /\ ~req.ruled
    /\ ledger' = IF cleared THEN NoLedger ELSE ledger
    /\ EndRound
    /\ UNCHANGED <<appVars, stack, hostVars, hist, state, cfg>>

StartBinds ==
    /\ pc = "fallback" /\ req.ruled
    /\ todo' = req.binds /\ pc' = "bind"
    /\ UNCHANGED <<appVars, stack, hostVars, diskVars, cfg,
                   req, ns, cur, passes, known, cleared, via, done, backup>>

BindKind(t) == IF t \in AliasTargets THEN "alias" ELSE "bind"
BindDevs == {DiskDev} \cup (IF Fault("fusebind") THEN {SystemDev} ELSE {})
\* bind_mount_inner: the same source already mounted is only remounted, unless
\* that layer is a FUSE one.
SameSource(t) ==
    LET top == Topmost(ns, t)
    IN  top.kind = BindKind(t) /\ top.src = req.src /\ ~IsFuse(top)
BindLayer(t, i, d) == [id |-> i, kind |-> BindKind(t), dev |-> d, src |-> req.src]
BindTarget ==
    /\ pc = "bind" /\ todo # {} /\ Reaches(ns, UserRoot)
    /\ \E t \in Shallowest(todo) :
         /\ \/ SameSource(t) /\ UNCHANGED stack
            \/ /\ ~SameSource(t) /\ Room(ns, t)
               /\ \E i \in FreshIds, d \in BindDevs : stack' = Push(ns, t, BindLayer(t, i, d))
         /\ todo' = todo \ {t} /\ done' = done \cup {t}
    /\ UNCHANGED <<appVars, hostVars, diskVars, cfg,
                   pc, req, ns, cur, passes, known, cleared, via, backup>>

\* repair_disconnected_storage_parent: a bind that meets ENOTCONN swaps the dead
\* view root for a bind of the storage backend, which counts as mounted.
RepairParent ==
    /\ pc = "bind" /\ todo # {} /\ ~Reaches(ns, UserRoot)
    /\ \E i \in FreshIds :
         stack' = [stack EXCEPT ![ns][AttachRoot] =
                     Append(Pop(@), [id |-> i, kind |-> "repair", dev |-> DiskDev, src |-> NoSource])]
    /\ done' = done \cup {AttachRoot}
    /\ UNCHANGED <<appVars, hostVars, diskVars, cfg,
                   pc, req, ns, todo, cur, passes, known, cleared, via, backup>>

\* One bind fails: the round is reported failed, what it mounted stays.
BindFails ==
    /\ pc = "bind" /\ todo # {}
    /\ \/ \E t \in Shallowest(todo) :
            ~SameSource(t) /\ (~CanMount(ns, t) \/ Fault("bind"))
       \/ ~Reaches(ns, UserRoot) /\ (FreshIds = {} \/ Fault("umount"))
    /\ EndRound
    /\ UNCHANGED <<appVars, stack, hostVars, diskVars, cfg>>

FinishBinds ==
    /\ pc = "bind" /\ todo = {} /\ pc' = "save"
    /\ UNCHANGED <<appVars, stack, hostVars, diskVars, cfg,
                   req, ns, todo, cur, passes, known, cleared, via, done, backup>>

\* write_mount_state; the start time is read from whatever runs on the pid.
SaveState ==
    /\ pc = "save"
    /\ state' = [fp |-> req, start |-> IF alive THEN inst ELSE 0, host |-> via, targets |-> done]
    /\ pc' = "record"
    /\ UNCHANGED <<appVars, stack, hostVars, hist, ledger, cfg,
                   req, ns, todo, cur, passes, known, cleared, via, done, backup>>

\* The state file could not be written: detach_round_mount_targets and
\* rollback_scoped_fuse_services pop one layer per target of the round.
RollBackRound ==
    /\ pc = "save" /\ Fault("disk")
    /\ stack' = [stack EXCEPT ![ns] = [t \in Targets |->
                   IF t \in done /\ @[t] # <<>> THEN Pop(@[t]) ELSE @[t]]]
    /\ EndRound
    /\ UNCHANGED <<appVars, hostVars, diskVars, cfg>>

\* restore_own_private_system_view binds the system's view of the own private
\* directories back, unless a layer of that shape is there.
NeedsRestore(t) == \A i \in 1 .. Len(stack[ns][t]) : stack[ns][t][i].kind # "private"
RestorePrivate ==
    /\ pc = "record"
    /\ \E t \in PrivateDirs, i \in FreshIds :
         NeedsRestore(t) /\ Room(ns, t) /\ stack' = Push(ns, t, SystemLayer(i, "private"))
    /\ UNCHANGED <<appVars, hostVars, diskVars, cfg, workVars>>

\* record_mount_identity: the topmost layer of every target of the round.
Captured == {[target |-> t, id |-> Topmost(ns, t).id, dev |-> Topmost(ns, t).dev] :
               t \in {u \in done : Topmost(ns, u) # NoLayer}}
NewLedger == [start |-> IF alive THEN inst ELSE 0, ns |-> ns, mounts |-> Captured, attempts |-> 0]
RecordIdentity ==
    /\ pc = "record"
    /\ \A t \in PrivateDirs : ~NeedsRestore(t) \/ ~Room(ns, t) \/ FreshIds = {} \/ Fault("bind")
    /\ \/ ledger' = NewLedger /\ hist' \in Remembered(hist, LedgerFuseDevs(NewLedger))
       \/ Fault("disk") /\ UNCHANGED <<ledger, hist>>
    /\ EndRound
    /\ UNCHANGED <<appVars, stack, hostVars, state, cfg>>

InChild == pc \notin {"idle", "planned"}
\* The parent's deadline: handle_parent_process kills the child where it is.
KillChild ==
    /\ InChild /\ Fault("kill") /\ EndRound
    /\ UNCHANGED <<appVars, stack, hostVars, diskVars, cfg>>

-----------------------------------------------------------------------------
(* Around the worker.                                                       *)

FreshStack(base) == [t \in Targets |-> IF t = AttachRoot THEN base ELSE <<>>]
BarrierLayer(i) == [id |-> i, kind |-> "barrier", dev |-> DiskDev, src |-> NoSource]

\* A new process of the package on the same pid: a fresh namespace whose view
\* root shows the system FUSE, with a barrier above it when the companion was
\* interrupted between the barrier and its removal.
StartApp ==
    /\ ~alive /\ inst < MaxInst
    /\ inst' = inst + 1 /\ alive' = TRUE
    /\ \E i \in FreshIds :
         \/ stack' = [stack EXCEPT ![inst + 1] = FreshStack(<<SystemLayer(i, "system")>>)]
         \/ /\ Fault("barrier")
            /\ \E j \in FreeIds \ {i} :
                 stack' = [stack EXCEPT ![inst + 1] = FreshStack(<<SystemLayer(i, "system"), BarrierLayer(j)>>)]
    /\ UNCHANGED <<hostVars, diskVars, cfg, workVars>>

ExitApp ==
    /\ alive /\ alive' = FALSE
    /\ UNCHANGED <<inst, stack, hostVars, diskVars, cfg, workVars>>

\* ensure_global at the entry of a reconcile round: a new session, whose
\* superblock goes into the history when the snapshot is published.
StartHost ==
    /\ pc = "idle" /\ ~hostUp /\ hostGen < MaxHostGen
    /\ hostGen' = hostGen + 1 /\ hostUp' = TRUE
    /\ hist' \in Remembered(hist, {HostDev(hostGen + 1)})
    /\ UNCHANGED <<appVars, stack, ledger, state, cfg, workVars>>

HostDies ==
    /\ Fault("death") /\ hostUp /\ hostUp' = FALSE
    /\ UNCHANGED <<appVars, stack, hostGen, diskVars, cfg, workVars>>

ChangeConfig ==
    /\ \E c \in Configs \ {cfg} : cfg' = c
    /\ UNCHANGED <<appVars, stack, hostVars, diskVars, workVars>>

\* prune_stale_mount_states and mount_identity::prune_stale.
StateOwnerAlive == IF state.start = 0 THEN alive ELSE InstanceAlive(state.start)
PruneStale ==
    /\ pc = "idle"
    /\ (HasState /\ ~StateOwnerAlive) \/ (HasLedger /\ ~InstanceAlive(ledger.start))
    /\ state' = IF StateOwnerAlive THEN state ELSE NoState
    /\ ledger' = IF InstanceAlive(ledger.start) THEN ledger ELSE NoLedger
    /\ UNCHANGED <<appVars, stack, hostVars, hist, cfg, workVars>>

\* The system mounts something of its own on a path the module uses.  The code
\* reads a path and then unmounts it, mounts and then records it: "window" lets
\* the system act in between.
SystemMounts ==
    /\ Fault("foreign") /\ alive
    /\ InChild => Fault("window")
    /\ \E t \in Targets \ PrivateDirs, i \in FreshIds, k \in SystemKinds :
         /\ Room(inst, t)
         /\ stack' = Push(inst, t, SystemLayer(i, k))
    /\ UNCHANGED <<appVars, hostVars, diskVars, cfg, workVars>>

-----------------------------------------------------------------------------
Init ==
    /\ inst = 0 /\ alive = FALSE
    /\ stack = [n \in 1 .. MaxInst |-> FreshStack(<<>>)]
    /\ hostGen = 0 /\ hostUp = FALSE
    /\ hist = <<>> /\ ledger = NoLedger /\ state = NoState
    /\ cfg \in Configs
    /\ IdleWorker

ClearStep == \/ ClearNextTarget \/ InspectTarget \/ UmountTarget \/ SettleClear \/ ForgetLedger
             \/ SweepUnrecorded \/ DecideAfterClear
AttachStep == \/ ReuseHost \/ SkipHost \/ StartAttach \/ ReplaceTop \/ MoveMount
              \/ AttachTimesOut \/ AttachAlias \/ FinishAttach
MountStep == \/ NoRulesShortCircuit \/ StartBinds \/ BindTarget \/ RepairParent \/ BindFails \/ FinishBinds
             \/ SaveState \/ RollBackRound \/ RestorePrivate \/ RecordIdentity
WorkerStep == BuildPlan \/ Supervise \/ EnterNamespace \/ ClearStep \/ AttachStep \/ MountStep
Environment == \/ KillChild \/ StartApp \/ ExitApp \/ StartHost \/ HostDies
               \/ ChangeConfig \/ PruneStale \/ SystemMounts
Next == WorkerStep \/ Environment
Spec == Init /\ [][Next]_vars

-----------------------------------------------------------------------------
(* Properties.                                                              *)

Identity == [target : Targets, id : MountIds, dev : Devs]
PCs == {"idle", "planned", "fork", "sweep", "clear", "inspect", "umount", "unrecord", "decide",
        "preattach", "attach", "move", "aliases", "fallback", "bind", "save", "record"}

StackType == [1 .. MaxInst -> [Targets -> Seq(Layer)]]
LedgerType == [start : 0 .. MaxInst, ns : 0 .. MaxInst, mounts : SUBSET Identity, attempts : Nat]
StateType == [fp : Configs \cup {NoRequest}, start : 0 .. MaxInst, host : 0 .. MaxHostGen, targets : SUBSET Targets]
WorldOK ==
    /\ inst \in 0 .. MaxInst /\ alive \in BOOLEAN /\ (alive => inst > 0)
    /\ hostGen \in 0 .. MaxHostGen /\ hostUp \in BOOLEAN /\ (hostUp => hostGen > 0)
    /\ cfg \in Configs
DiskOK == hist \in Seq(Devs) /\ ledger \in LedgerType /\ state \in StateType
WorkerOK ==
    /\ pc \in PCs /\ req \in Configs \cup {NoRequest} /\ ns \in 0 .. MaxInst
    /\ todo \subseteq Targets /\ cur \in Targets /\ passes \in Nat
    /\ known \subseteq Devs /\ cleared \in BOOLEAN
    /\ via \in 0 .. MaxHostGen /\ done \subseteq Targets
    /\ backup \in Layer \cup {NoLayer, LostClone}
    /\ pc \notin {"idle", "planned", "fork"} => ns > 0
\* Every variable stays in its range; in particular a child past set_mount_namespace
\* (EnterNamespace) always names a namespace that existed.
TypeOK == WorldOK /\ stack \in StackType /\ DiskOK /\ WorkerOK

\* The layers a step takes away from target t of namespace n.
Removed(n, t) == {stack[n][t][i] : i \in (Len(stack'[n][t]) + 1) .. Len(stack[n][t])}
KeepsSystem(points) ==
    pc \in points => \A n \in 1 .. MaxInst, t \in Targets :
                        \A l \in Removed(n, t) : l.kind \in ModuleKinds

\* Clearing the previous round (clear_mount_target_stack_verified), dropping dead
\* host layers, repairing the storage parent and rolling a round back only unmount
\* layers the module mounted itself: mount ids are reused, sessions change and
\* the process may be another one by now, yet no system layer goes.
DetachesOwnLayersOnly == [][KeepsSystem({"umount", "aliases", "bind", "save"})]_vars

\* What host_attach_child_main replaces it puts back when the attach does not come
\* about: an application may go without the host, never without its storage.
AttachKeepsView ==
    [][pc = "move" /\ backup # NoLayer /\ pc' = "fallback" => stack'[ns][AttachRoot] # <<>>]_vars

Injecting == {"preattach", "attach", "move", "aliases", "fallback", "bind", "save", "record"}
\* Once record_detach_failure reaches MAX_DETACH_ATTEMPTS no round gets as far as
\* mounting anything: neither the supervision gate nor the child lets it pass.
PoisonStopsInjection == pc \in Injecting => ~IsPoisoned(ledger)

ModuleLayers(n, t) == Cardinality({i \in 1 .. Len(stack[n][t]) : stack[n][t][i].kind \in ModuleKinds})
\* Rounds never stack module layers as long as umount succeeds and nobody else
\* mounts: reloads, host generations and interrupted rounds included.
NoStacking == \A n \in 1 .. MaxInst, t \in Targets : ModuleLayers(n, t) <= 1

\* A plan skipped as current (has_current_mount_state) is really served: every
\* recorded target shows a layer of ours, and the view root the serving host's.
CurrentMeansServed ==
    alive /\ cfg.op = "reload" /\ StateCurrent(cfg) =>
        /\ \A t \in state.targets : Topmost(inst, t).kind \in ModuleKinds
        /\ state.host # 0 => Topmost(inst, AttachRoot).dev = HostDev(hostGen)

-----------------------------------------------------------------------------
(* Liveness.  The reconcile loop runs for ever and a child that is not killed *)
(* takes its next step; the loop's entry restarts the host and prunes.        *)

Fairness == WF_vars(WorkerStep) /\ WF_vars(StartHost) /\ WF_vars(PruneStale)
FairSpec == Spec /\ Fairness

Stable == alive /\ hostUp /\ cfg.op = "reload" /\ cfg.host
Redirected ==
    /\ alive /\ ~DeadHostLayer(Topmost(inst, AttachRoot))
    /\ \/ Topmost(inst, AttachRoot).dev = HostDev(hostGen)
       \/ \A t \in cfg.binds : Topmost(inst, t).kind = BindKind(t)
\* Once an application, the host and the configuration stay as they are, the
\* application ends up redirected for good: on the serving host, or on the binds of
\* a round that ran while there was none, and never behind a dead session.  Rounds
\* may be killed anywhere, but not for ever.
Converges == <>[]Stable /\ <>[][~KillChild]_vars => <>[]Redirected

=============================================================================
