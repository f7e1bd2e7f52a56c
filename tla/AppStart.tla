------------------------------ MODULE AppStart ------------------------------
(* One application process from zygote to its first access to storage: the  *)
(* specialize hooks inside the process, the root companion that answers its *)
(* mount request under a fail-closed barrier, the companion's forked child  *)
(* that attaches the view, and a reconcile round of the daemon that may fall *)
(* between any two of those steps.  No lock joins companion and daemon; they *)
(* meet in the mount table, the state file and the ledger.                   *)
(*                                                                          *)
(* A daemon round is one step here; MountRecovery has its inside.           *)
EXTENDS Naturals, Sequences, FiniteSets

CONSTANTS
    Roles,       \* kinds of process the runs start, a subset of RoleKinds
    MaxSessions, \* bound: generations of the shared FUSE host
    MaxRounds,   \* bound: daemon rounds
    MaxFlips,    \* bound: changes of the switch and of the capability gate
    StartFaults \* what may go wrong, a subset of StartFaultKinds

RoleKinds == {"app", "mapped", "captured", "bridge", "writer", "isolated", "plain"}
StartFaultKinds == {"setns", "barrier", "umount", "attach", "bind", "disk", "timeout", "death", "send"}
Fails(f) == f \in StartFaults

ASSUME AppStartAssumption ==
    /\ Roles \subseteq RoleKinds /\ StartFaults \subseteq StartFaultKinds
    /\ MaxSessions \in Nat \ {0} /\ MaxRounds \in Nat /\ MaxFlips \in Nat

VARIABLES
    role,     \* what resolve_specialize_identity made of the process
    phase,    \* "zygote", "specialized" (pre done), "running" (post done)
    reply,    \* the reply connection kept by the process: "none", "open", "closed"
    status,   \* what the companion wrote on it: "none", "applied", "failed"
    applied,  \* is_mount_applied
    ns,       \* layers at /storage/emulated, each with those at the user root below it
    state,    \* state file: the targets it names and the host generation
    ledger,   \* targets of the identity ledger
    session,  \* the shared host: generation, alive, this policy registered
    enabled,  \* the package is switched on
    gate,     \* scoped_mount_allowed_for_scope
    comp,     \* control point of the companion
    roots,    \* barrier_roots of this request is not empty
    fd,       \* a descriptor of the barrier was handed to the child
    child,    \* control point of the forked child
    via,      \* host generation the child attached, 0 for binds
    mounted,  \* targets of this round
    result,   \* datagram from child to companion: "none", "ok", "failed"
    intent,   \* stage in the mount intent file
    wiped,    \* history: a daemon round failed after it had cleared the view
    rounds, flips

appVars == <<role, phase, reply, status, applied>>
diskVars == <<state, ledger, intent>>
compVars == <<comp, roots, fd>>
childVars == <<child, via, mounted, result>>
envVars == <<session, enabled, gate, wiped, rounds, flips>>
startVars == <<appVars, ns, diskVars, compVars, childVars, envVars>>

NoState == [targets |-> {}, gen |-> 0, exists |-> FALSE]
Bare == [kind |-> "bare", gen |-> 0, u |-> <<>>]
System == [Bare EXCEPT !.kind = "system"]
HostLayer(g) == [Bare EXCEPT !.kind = "host", !.gen = g]

StartTypeOK ==
    /\ role \in RoleKinds /\ phase \in {"zygote", "specialized", "running"}
    /\ reply \in {"none", "open", "closed"} /\ status \in {"none", "applied", "failed"}
    /\ applied \in BOOLEAN
    /\ ns # <<>> /\ \A i \in 1 .. Len(ns) :
         /\ ns[i].kind \in {"bare", "system", "host"} /\ ns[i].gen \in 0 .. MaxSessions
         /\ \A j \in 1 .. Len(ns[i].u) : ns[i].u[j] \in {"barrier", "bind"}
    /\ state \in [targets : SUBSET {"emulated", "user"}, gen : 0 .. MaxSessions, exists : BOOLEAN]
    /\ ledger \subseteq {"emulated", "user"}
    /\ session \in [gen : 0 .. MaxSessions, up : BOOLEAN, reg : BOOLEAN]
    /\ {enabled, gate, roots, fd, wiped} \subseteq BOOLEAN
    /\ comp \in {"idle", "ready", "fork", "wait", "settle", "done"}
    /\ child \in {"none", "enter", "cleanup", "release", "attach", "fallback", "save",
                  "record", "conclude", "dead"}
    /\ via \in 0 .. MaxSessions /\ mounted \subseteq {"emulated", "user"}
    /\ result \in {"none", "ok", "failed"}
    /\ intent \in {"none", "disabled", "applying", "mounted", "failed"}
    /\ rounds \in 0 .. MaxRounds /\ flips \in 0 .. MaxFlips

-----------------------------------------------------------------------------
(* The mount table.  Paths are resolved through the top layer of each point. *)

Top(n) == n[Len(n)]
LiveLayer(l) == l.kind = "host" /\ session.up /\ l.gen = session.gen
DeadLayer(l) == l.kind = "host" /\ ~LiveLayer(l)
\* umount2 of /storage/emulated takes the top layer there, k times over; what is
\* mounted below the layer goes with it.  The directory itself (bare) stays.
UmountRoot(n, k) == IF k < Len(n) THEN SubSeq(n, 1, Len(n) - k) ELSE SubSeq(n, 1, 1)
Shorter(u) == IF u = <<>> THEN u ELSE SubSeq(u, 1, Len(u) - 1)
UmountUser(n) == [n EXCEPT ![Len(n)].u = Shorter(@)]
MountUser(n, l) == [n EXCEPT ![Len(n)].u = Append(@, l)]

\* traverse_mountinfo: what serves the user root.
Serving(n) == IF Top(n).u # <<>> THEN Top(n).u[Len(Top(n).u)] ELSE Top(n).kind
\* The process reaches real shared storage with no rule applied; a layer of the
\* module answers it, alive or not.
Raw(n) == Serving(n) = "system"
Covered(n) == Serving(n) \in {"bind", "host"}

\* The barriers on top of the user root, down to the first other layer.
DropBarriers(n) ==
    LET u == Top(n).u
        other == {i \in 1 .. Len(u) : u[i] # "barrier"}
        keep == CHOOSE k \in other \cup {0} : \A i \in other : i <= k
    IN [n EXCEPT ![Len(n)].u = SubSeq(u, 1, keep)]
\* mount_one_storage_view_barrier before its last step: every dead layer of the
\* ledger's superblocks is detached by path, then the barriers of the root.
Recovered(n) == DropBarriers(UmountRoot(n, Cardinality({i \in 1 .. Len(n) : DeadLayer(n[i])})))
\* A descriptor of the barrier takes the top of the stack the barrier stands in,
\* wherever that is; a barrier that is gone takes nothing.
Held(n) == {i \in 1 .. Len(n) : \E j \in 1 .. Len(n[i].u) : n[i].u[j] = "barrier"}
ReleaseHeld(n) ==
    IF Held(n) = {} THEN n
    ELSE LET i == CHOOSE k \in Held(n) : \A m \in Held(n) : m <= k
         IN [n EXCEPT ![i].u = Shorter(@)]

-----------------------------------------------------------------------------
(* The process: pre_app_specialize and post_app_specialize.                 *)

StartInit ==
    /\ role \in Roles /\ phase = "zygote" /\ reply = "none" /\ status = "none" /\ applied = FALSE
    /\ ns = <<Bare, System>>
    /\ state = NoState /\ ledger = {} /\ intent = "none"
    /\ comp = "idle" /\ roots = FALSE /\ fd = FALSE
    /\ child = "none" /\ via = 0 /\ mounted = {} /\ result = "none"
    /\ session = [gen |-> 1, up |-> TRUE, reg |-> FALSE]
    /\ enabled = TRUE /\ gate \in BOOLEAN /\ wiped = FALSE /\ rounds = 0 /\ flips = 0

\* Processes that ask the companion for a mount (a writer redirects by hooks, an
\* isolated or unconfigured process by nothing).
Requests == {"app", "mapped", "captured", "bridge"}

\* send_mount_request_retaining: written to the companion, or not connected.
SendMountRequest ==
    \/ reply' = "open" /\ comp' = "ready"
    \/ Fails("send") /\ UNCHANGED <<reply, comp>>
\* pre_app_specialize: bypass, or the request is written and its reply kept.
PreAppSpecialize ==
    /\ phase = "zygote" /\ phase' = "specialized"
    /\ IF role \in Requests /\ enabled THEN SendMountRequest ELSE UNCHANGED <<reply, comp>>
    /\ UNCHANGED <<role, status, applied, ns, diskVars, roots, fd, childVars, envVars>>

\* discard_mount_reply and await_mount_ack close the connection on every branch.
ReplyAfter == IF reply = "open" THEN "closed" ELSE reply

\* Ordinary redirected processes wait 600 ms for the answer; the others go on.
Awaits == {"app", "mapped"}
\* conclude_mount_readiness without an answer: a sandbox bind at the user root
\* is the only evidence (the shared host covers the directory above it).
ObservedReady == \E j \in 1 .. Len(Top(ns).u) : Top(ns).u[j] = "bind"

PostAppSpecialize ==
    /\ phase = "specialized" /\ phase' = "running" /\ reply' = ReplyAfter
    /\ applied' = IF role \notin Awaits \/ ~enabled THEN FALSE
                  ELSE IF reply = "open" /\ status # "none" THEN status = "applied"
                  ELSE ObservedReady
    /\ UNCHANGED <<role, status, ns, diskVars, compVars, childVars, envVars>>

-----------------------------------------------------------------------------
(* The companion: execute_companion_mount_request.                          *)

\* scoped_fuse_mount_roots_for_request: the user root, or nothing.
ScopedRoots == role = "captured" \/ (role \in {"app", "mapped"} /\ gate)

\* A monitor-only request cleans up and puts no barrier.
InstallsBarrier == role # "captured"

\* mount_one_storage_view_barrier for the one root, in its own forked child.
\* It may fail before anything (setns, isolation) or at the mount itself.
BarrierOutcomes(n) ==
    {IF InstallsBarrier THEN MountUser(Recovered(n), "barrier") ELSE Recovered(n)}
    \cup (IF Fails("barrier") THEN {n, Recovered(n)} ELSE {})

\* open_fail_closed_barrier_fds: a descriptor only of what really is the barrier.
BarrierFds(n) ==
    IF Serving(n) = "barrier" THEN {TRUE} \cup (IF Fails("barrier") THEN {FALSE} ELSE {})
    ELSE {FALSE}
\* mount_intent::mark_state.
Mark(stage) == intent' = stage

\* The switch is read again on this side; a refused request leaves a record.
Deny ==
    /\ comp = "ready" /\ ~enabled
    /\ Mark("disabled") /\ status' = "failed" /\ comp' = "done"
    /\ UNCHANGED <<role, phase, reply, applied, ns, state, ledger, roots, fd, childVars, envVars>>

\* The process has left zygote, or five seconds have passed; then the barrier goes
\* up before the slow part and its descriptor is taken while it is on top.
PressBarrier ==
    /\ comp = "ready" /\ enabled /\ comp' = "fork" /\ Mark("applying")
    /\ roots' = ScopedRoots
    /\ IF ScopedRoots THEN ns' \in BarrierOutcomes(ns) ELSE UNCHANGED ns
    /\ fd' \in IF ScopedRoots /\ InstallsBarrier THEN BarrierFds(ns') ELSE {FALSE}
    /\ UNCHANGED <<appVars, state, ledger, childVars, envVars>>

\* run_mount_in_forked_child; the fork may fail.
ForkChild ==
    /\ comp = "fork"
    /\ \/ comp' = "wait" /\ child' = "enter"
       \/ Fails("bind") /\ comp' = "settle" /\ UNCHANGED child
    /\ UNCHANGED <<appVars, ns, diskVars, roots, fd, via, mounted, result, envVars>>

\* Mutant: without the timeouts of handle_parent_process a child that ends and
\* sends nothing is waited for on a datagram socket that never reports it.
GivesUpNever == FALSE
\* The primary timeout, SIGTERM, the grace period and SIGKILL.
GivesUp == result = "none" /\ (child = "dead" \/ Fails("timeout"))

Killed == "dead"

ParentWaits ==
    /\ comp = "wait"
    /\ \/ result # "none" /\ child = "dead" /\ UNCHANGED child
       \/ GivesUp /\ child' = Killed
    /\ comp' = "settle"
    /\ UNCHANGED <<appVars, ns, diskVars, roots, fd, via, mounted, result, envVars>>

\* Mutant: the barrier the child took off is not put back.
RepressesNever == FALSE
\* A failed request of a protected process gets its barrier again.
Represses == roots /\ InstallsBarrier

\* The end of execute_companion_mount_request and write_status.
Settle ==
    /\ comp = "settle" /\ comp' = "done"
    /\ IF result = "ok"
       THEN Mark("mounted") /\ status' = "applied" /\ UNCHANGED ns
       ELSE /\ Mark("failed") /\ status' = "failed"
            /\ IF Represses THEN ns' \in BarrierOutcomes(ns) ELSE UNCHANGED ns
    /\ UNCHANGED <<role, phase, reply, applied, state, ledger, roots, fd, childVars, envVars>>

-----------------------------------------------------------------------------
(* The forked child: handle_child_process.                                  *)

ChildQuits(r) == child' = "dead" /\ result' = r
OtherVars == <<appVars, compVars, envVars, intent>>

ChildEnters ==
    /\ child = "enter"
    /\ \/ child' = "cleanup" /\ UNCHANGED result
       \/ Fails("setns") /\ ChildQuits("failed")
    /\ UNCHANGED <<OtherVars, ns, state, ledger, via, mounted>>

\* cleanup_previous_companion_mounts: each target of the state file once by path,
\* longer paths first, whoever owns the layer on top there.
ChildCleans ==
    LET user == IF state.exists /\ ("user" \in state.targets \/ role = "mapped")
                THEN UmountUser(ns) ELSE ns
    IN /\ child = "cleanup" /\ child' = "release"
       /\ ns' = IF "emulated" \in state.targets THEN UmountRoot(user, 1) ELSE user
       /\ state' = NoState
       /\ UNCHANGED <<OtherVars, ledger, via, mounted, result>>

\* detach_stale_barriers_not_in (the plan read the gate again) and
\* detach_inherited_fail_closed_barriers.
ChildReleases ==
    /\ child = "release" /\ child' = "attach"
    /\ \E planned \in {roots, ScopedRoots} :
         LET n == IF planned THEN ns ELSE DropBarriers(ns)
         IN ns' = IF fd THEN ReleaseHeld(n) ELSE n
    /\ UNCHANGED <<OtherVars, state, ledger, via, mounted, result>>

\* shared_host_preattach_candidate, the session view and its registered policy.
Candidate == role = "app" /\ gate /\ session.up /\ session.reg

\* preattach_shared_host: adopt the serving layer, or replace the one on top.
ChildAttaches ==
    /\ child = "attach"
    /\ \/ /\ Candidate /\ child' = "save" /\ via' = session.gen /\ mounted' = {"emulated"}
          /\ ns' = IF LiveLayer(Top(ns)) THEN ns ELSE Append(UmountRoot(ns, 1), HostLayer(session.gen))
       \/ /\ ~Candidate \/ Fails("attach")
          /\ child' = "fallback" /\ via' = 0 /\ UNCHANGED <<ns, mounted>>
    /\ UNCHANGED <<OtherVars, state, ledger, result>>

\* A request without rules ends here and sends no result; the others bind.
ChildFallsBack ==
    /\ child = "fallback"
    /\ \/ /\ role = "captured" /\ ChildQuits("none") /\ UNCHANGED <<ns, mounted>>
       \/ /\ role # "captured" /\ child' = "save"
          /\ ns' = MountUser(ns, "bind") /\ mounted' = {"user"} /\ UNCHANGED result
       \/ /\ role # "captured" /\ Fails("bind") /\ ChildQuits("failed") /\ UNCHANGED <<ns, mounted>>
    /\ UNCHANGED <<OtherVars, state, ledger, via>>

\* write_mount_state; without a state file the round is rolled back.
ChildSaves ==
    /\ child = "save"
    /\ \/ /\ state' = [targets |-> mounted, gen |-> via, exists |-> TRUE]
          /\ child' = "record" /\ UNCHANGED <<ns, result>>
       \/ /\ Fails("disk") /\ ChildQuits("failed") /\ UNCHANGED state
          /\ ns' = IF via # 0 THEN UmountRoot(ns, 1) ELSE UmountUser(ns)
    /\ UNCHANGED <<OtherVars, ledger, via, mounted>>

ChildRecords ==
    /\ child = "record" /\ child' = "conclude"
    /\ ledger' \in {mounted} \cup (IF Fails("disk") THEN {ledger} ELSE {})
    /\ UNCHANGED <<OtherVars, ns, state, via, mounted, result>>

\* dispose_barriers_after_view_mount has nothing to take off when the host covers
\* the directory above; a session that does not serve the root fails the request.
Exposed == via # 0 /\ Serving(ns) # "host"

ChildConcludes ==
    /\ child = "conclude"
    /\ \/ ~Exposed /\ ChildQuits("ok")
       \/ Exposed /\ ChildQuits("failed")
       \/ Fails("send") /\ ChildQuits("none")
    /\ UNCHANGED <<OtherVars, ns, state, ledger, via, mounted>>

-----------------------------------------------------------------------------
(* The daemon and the environment.                                          *)

\* has_current_mount_state; a barrier over the recorded target goes unnoticed.
DaemonCurrent ==
    /\ state.exists
    /\ state.gen # 0 => session.up /\ state.gen = session.gen
    /\ "user" \in state.targets => Top(ns).u # <<>>

\* A round of mount_process, inside in MountRecovery: own layers and barriers go,
\* the host is attached or the rules are bound, state file and ledger follow.
ClearedView(n) ==
    LET m == IF Top(n).kind = "host" THEN UmountRoot(n, 1) ELSE n
    IN [m EXCEPT ![Len(m)].u = <<>>]
DaemonRound ==
    /\ rounds < MaxRounds /\ phase # "zygote" /\ role \in {"app", "mapped"} /\ enabled
    /\ ~DaemonCurrent /\ rounds' = rounds + 1
    /\ \/ /\ Candidate /\ ledger' = {"emulated"}
          /\ UNCHANGED wiped
          /\ ns' = LET n == ClearedView(ns) IN Append(UmountRoot(n, 1), HostLayer(session.gen))
          /\ state' = [targets |-> {"emulated"}, gen |-> session.gen, exists |-> TRUE]
       \/ /\ ~Candidate \/ Fails("attach")
          /\ ns' = MountUser(ClearedView(ns), "bind") /\ ledger' = {"user"} /\ UNCHANGED wiped
          /\ state' = [targets |-> {"user"}, gen |-> 0, exists |-> TRUE]
       \/ /\ Fails("bind") /\ ns' = ClearedView(ns) /\ state' = NoState
          /\ wiped' = TRUE /\ UNCHANGED ledger
    /\ UNCHANGED <<appVars, intent, compVars, childVars, session, enabled, gate, flips>>

\* register-policy reaches the daemon; a new host starts without policies.
RegisterPolicy ==
    /\ session.up /\ ~session.reg /\ phase # "zygote" /\ session' = [session EXCEPT !.reg = TRUE]
    /\ UNCHANGED <<appVars, ns, diskVars, compVars, childVars, enabled, gate, wiped, rounds, flips>>
SessionEnds ==
    /\ Fails("death") /\ session.up /\ session.gen < MaxSessions
    /\ session' = [session EXCEPT !.up = FALSE, !.reg = FALSE]
    /\ UNCHANGED <<appVars, ns, diskVars, compVars, childVars, enabled, gate, wiped, rounds, flips>>
NewSession ==
    /\ ~session.up /\ session' = [gen |-> session.gen + 1, up |-> TRUE, reg |-> FALSE]
    /\ UNCHANGED <<appVars, ns, diskVars, compVars, childVars, enabled, gate, wiped, rounds, flips>>
\* The user switches the package off or on; an outcome opens or closes the gate.
Flip ==
    /\ flips < MaxFlips /\ flips' = flips + 1
    /\ (enabled' = ~enabled /\ UNCHANGED gate) \/ (gate' = ~gate /\ UNCHANGED enabled)
    /\ UNCHANGED <<appVars, ns, diskVars, compVars, childVars, session, wiped, rounds>>

CompanionStep == Deny \/ PressBarrier \/ ForkChild \/ ParentWaits \/ Settle
ChildStep ==
    \/ ChildEnters \/ ChildCleans \/ ChildReleases \/ ChildAttaches
    \/ ChildFallsBack \/ ChildSaves \/ ChildRecords \/ ChildConcludes
StartNext ==
    \/ PreAppSpecialize \/ PostAppSpecialize \/ CompanionStep \/ ChildStep
    \/ DaemonRound \/ RegisterPolicy \/ SessionEnds \/ NewSession \/ Flip

\* The kernel runs the companion and its child; the parent's socket has timeouts.
StartFairness == WF_startVars(CompanionStep) /\ WF_startVars(ChildStep) /\ WF_startVars(PostAppSpecialize)
StartSpec == StartInit /\ [][StartNext]_startVars /\ StartFairness

-----------------------------------------------------------------------------
(* Properties.                                                              *)

\* The companion answers "failed" to a protected process only with the storage
\* view closed: raw shared storage is out of reach, whatever the child had taken
\* off, mounted or left behind and whatever the daemon did meanwhile.
FailClosed ==
    [][Settle /\ status' = "failed" /\ roots /\ role # "captured" => ~Raw(ns')]_startVars

\* The child answers "ok" only when a layer of the module serves the user root:
\* never the raw view, never the read-only barrier in front of the new mount.  Only
\* a daemon round that clears the view in between and then fails defeats it.
OkMeansCovered == [][ChildConcludes /\ result' = "ok" => Covered(ns') \/ wiped]_startVars

\* What a request is answered with is true of the view, "failed" as well as "ok".
AnswersHonest == FailClosed /\ OkMeansCovered

\* A process that is only monitored keeps the system's own view at every moment,
\* however its request ends (recover_storage_view_roots_for_monitor: fail open).
CapturedKeepsView == role = "captured" => ns = <<Bare, System>>

\* No connection to the companion is left in a running application.
ReplyConsumed == phase = "running" => reply # "open"

\* Every request is answered, also when the child ends without a result, and the
\* process never waits for more than that.
RequestsAnswered == comp = "ready" ~> comp = "done"

=============================================================================
