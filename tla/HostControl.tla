---------------------------- MODULE HostControl -----------------------------
(* Registration of application policies with the shared FUSE host.  The     *)
(* daemon and the mount workers it forks send policies over one datagram     *)
(* socket and read acknowledgements that carry a uid and nothing else; the   *)
(* host keeps the policy table; a snapshot file tells companions, which are  *)
(* other processes, which uid the host serves with which fingerprint.        *)
(*                                                                          *)
(* A fingerprint is the number of the configuration it was computed from.   *)
EXTENDS Naturals, Sequences

CONSTANTS
    AppUids,        \* application uids
    Stable,      \* bound: uids whose configuration is not edited
    Running,     \* uids with a running process; the others are registered at boot
    MaxVersion,  \* bound: configurations of the other uids
    MaxGen,      \* bound: host processes started
    SkipLimit,   \* HOST_POLICY_ACK_SKIP_LIMIT
    Faults       \* what may go wrong, a subset of FaultKinds

FaultKinds == {"spawn", "die", "reject", "late", "kill", "reader"}
Fault(f) == f \in Faults

ASSUME HostControlAssumption ==
    /\ Faults \subseteq FaultKinds /\ "root" \notin AppUids /\ Running \subseteq AppUids
    /\ MaxVersion \in Nat \ {0} /\ MaxGen \in Nat \ {0} /\ SkipLimit \in Nat \ {0}

VARIABLES
    cfg,     \* fingerprint that build_request computes for a uid now
    host,    \* host process: generation, alive, policy table by uid
    toHost,  \* datagrams on the way to the host
    acks,    \* acknowledgements not yet read, shared by daemon and workers
    hostSlot,    \* generation in FUSE_HOST, 0 for None
    fd,      \* generation whose socket HOST_CONTROL_FD is, 0 for -1
    reg,     \* HOST_REGISTRY of the daemon
    wreg,    \* HOST_REGISTRY of the forked worker, empty when there is none
    snap,    \* snapshot file, generation 0 when it is missing
    pre,     \* PRE_REGISTERED_HOST_POLICIES
    nsDone,  \* uids whose running instance is in REGISTERED_APP_NAMESPACES
    round,   \* running uids the reconcile round has still to register
    job,     \* registration under way in the daemon or in its worker
    reader,  \* a companion found the snapshot stale and is about to remove it
    left,    \* history: this host's socket still has or will get an unread ack
    lost     \* history: the snapshot of a living host was removed

daemonVars == <<hostSlot, fd, reg, pre, nsDone>>
wireVars == <<toHost, acks, left>>
controlVars == <<cfg, host, toHost, acks, hostSlot, fd, reg, wreg, snap, pre, nsDone, round, job, reader, left, lost>>

Version == 1 .. MaxVersion
Table == [AppUids -> 0 .. MaxVersion]
NoPolicies == [u \in AppUids |-> 0]
NoSnap == [gen |-> 0, fps |-> NoPolicies]
NoPre == [gen |-> 0, fp |-> 0]
\* kind "view" stands between the two halves of pre_register_host_policy.
Start(who, k, u, f) == [who |-> who, kind |-> k, uid |-> u, fp |-> f, keyed |-> FALSE, skips |-> 0]
Idle == Start("none", "none", "root", 0)
Message == [kind : {"policy", "ns", "root"}, uid : AppUids \cup {"root"}, fp : 0 .. MaxVersion]
Ack == [uid : AppUids \cup {"root"}, ok : BOOLEAN]
Job == [who : {"none", "daemon", "worker"}, kind : {"none", "policy", "ns", "root", "view"},
        uid : AppUids \cup {"root"}, fp : 0 .. MaxVersion, keyed : BOOLEAN, skips : 0 .. SkipLimit]

ControlTypeOK ==
    /\ cfg \in [AppUids -> Version]
    /\ host \in [gen : 0 .. MaxGen, up : BOOLEAN, table : Table]
    /\ toHost \in Seq(Message) /\ acks \in Seq(Ack)
    /\ hostSlot \in 0 .. host.gen /\ fd \in 0 .. host.gen
    /\ reg \in Table /\ wreg \in Table
    /\ snap \in [gen : 0 .. host.gen, fps : Table]
    /\ pre \in [AppUids -> [gen : 0 .. host.gen, fp : 0 .. MaxVersion]]
    /\ nsDone \subseteq AppUids /\ round \subseteq AppUids /\ job \in Job
    /\ reader \in BOOLEAN /\ left \in BOOLEAN /\ lost \in BOOLEAN

ControlInit ==
    /\ cfg = [u \in AppUids |-> 1]
    /\ host = [gen |-> 0, up |-> FALSE, table |-> NoPolicies]
    /\ toHost = <<>> /\ acks = <<>> /\ left = FALSE
    /\ hostSlot = 0 /\ fd = 0 /\ reg = NoPolicies /\ wreg = NoPolicies
    /\ snap = NoSnap /\ pre = [u \in AppUids |-> NoPre] /\ nsDone = {}
    /\ round = {} /\ job = Idle /\ reader = FALSE /\ lost = FALSE

-----------------------------------------------------------------------------
(* The host session as the daemon sees it.                                  *)

\* get_fuse_host: the handle in the slot is a living process.
Alive == hostSlot # 0 /\ hostSlot = host.gen /\ host.up
\* read_host_session_view accepts the file: this boot, a living process.
Valid(s) == s.gen # 0 /\ s.gen = host.gen /\ host.up
Awaiting == job.kind \in {"policy", "ns", "root"}

\* spawn_fuse_host and set_global: a new generation with an empty table, an empty
\* registry, a fresh snapshot, and the daemon's own namespace sent for registration.
SpawnHost ==
    /\ job = Idle /\ ~Alive /\ host.gen < MaxGen
    /\ host' = [gen |-> host.gen + 1, up |-> TRUE, table |-> NoPolicies]
    /\ hostSlot' = host'.gen /\ fd' = host'.gen /\ reg' = NoPolicies
    /\ snap' = [gen |-> host'.gen, fps |-> NoPolicies]
    /\ toHost' = <<[kind |-> "root", uid |-> "root", fp |-> 0]>> /\ acks' = <<>> /\ left' = FALSE
    /\ job' = Start("daemon", "root", "root", 0)
    /\ UNCHANGED <<round, cfg, wreg, pre, nsDone, reader, lost>>

\* spawn_fuse_host fails.  When only the mount identity could not be captured,
\* HOST_CONTROL_FD already holds the socket of the child that was reaped.
SpawnFails ==
    /\ Fault("spawn") /\ job = Idle /\ ~Alive
    /\ hostSlot' = 0
    /\ \/ fd' = (IF hostSlot = 0 THEN fd ELSE 0) /\ UNCHANGED <<host, left>>
       \/ /\ host.gen < MaxGen /\ fd' = host.gen + 1
          /\ host' = [gen |-> fd', up |-> FALSE, table |-> host.table] /\ left' = FALSE
    /\ toHost' = <<>> /\ acks' = <<>>
    /\ UNCHANGED <<round, cfg, reg, wreg, snap, pre, nsDone, job, reader, lost>>

\* clear_if_dead_with_reason("pidfd").
ClearIfDead ==
    /\ job = Idle /\ hostSlot # 0 /\ ~Alive
    /\ hostSlot' = 0 /\ fd' = 0
    /\ UNCHANGED <<round, cfg, host, wireVars, reg, wreg, snap, pre, nsDone, job, reader, lost>>

\* The host process ends; its table and its sockets go with it.
HostDies ==
    /\ Fault("die") /\ host.up
    /\ host' = [gen |-> host.gen, up |-> FALSE, table |-> NoPolicies] /\ toHost' = <<>> /\ acks' = <<>>
    /\ left' = FALSE
    /\ UNCHANGED <<round, cfg, daemonVars, wreg, snap, job, reader, lost>>

\* SharedPolicyTable.register; register_namespace_only leaves the table by uid alone.
Registered(h, m) ==
    IF m.kind = "policy" THEN [h EXCEPT !.table = [@ EXCEPT ![m.uid] = m.fp]] ELSE h
Reply(m, ok) ==
    /\ toHost' = Tail(toHost)
    /\ acks' = Append(acks, [uid |-> m.uid, ok |-> ok])
    /\ UNCHANGED <<round, cfg, daemonVars, wreg, snap, job, reader, left, lost>>
\* spawn_host_control_loop: one datagram is applied and acknowledged.
HostAccepts ==
    /\ host.up /\ toHost # <<>>
    /\ host' = Registered(host, Head(toHost))
    /\ Reply(Head(toHost), TRUE)
\* The policy could not be built, or the process of the namespace is gone.
HostRejects ==
    /\ Fault("reject") /\ host.up /\ toHost # <<>>
    /\ host' = host
    /\ Reply(Head(toHost), FALSE)

-----------------------------------------------------------------------------
(* The snapshot file.                                                       *)

\* Mutant: the fingerprint is computed again when it is written.
PublishedNow(r, old) == [gen |-> hostSlot, fps |-> [r EXCEPT ![job.uid] = cfg[job.uid]]]
\* publish_host_snapshot after record_registered_policy: only when the entry is
\* new, only with a living host.
Published(r, old) == IF r # old /\ Alive THEN [gen |-> hostSlot, fps |-> r] ELSE snap

\* read_host_session_view in a companion: the file names a host that is gone;
\* revoke_host_snapshot has compared the identity and removes the path next.
CompanionFindsStale ==
    /\ Fault("reader") /\ ~reader /\ snap.gen # 0 /\ ~Valid(snap)
    /\ reader' = TRUE
    /\ UNCHANGED <<round, cfg, host, wireVars, daemonVars, wreg, snap, job, lost>>
\* HOST_SNAPSHOT_LOCK is a lock of one process: the daemon may have published.
CompanionRemoves ==
    /\ reader /\ reader' = FALSE
    /\ snap' = NoSnap /\ lost' = (lost \/ Valid(snap))
    /\ UNCHANGED <<round, cfg, host, wireVars, daemonVars, wreg, job>>

-----------------------------------------------------------------------------
(* Registration.                                                            *)

\* send_policy_config up to the send: FALSE when no living host has the socket.
CanSend == fd # 0 /\ fd = host.gen /\ host.up
SendPolicy(k, u, f) == toHost' = Append(toHost, [kind |-> k, uid |-> u, fp |-> f])

\* reconcile_running_apps: a round that lists the processes anew registers every
\* running application before it mounts anything, and nothing else meanwhile.
StartRound ==
    /\ job = Idle /\ round = {} /\ round' = Running
    /\ UNCHANGED <<cfg, host, wireVars, daemonVars, wreg, snap, job, reader, lost>>

\* pre_register_host_policy, from the round or from a trigger: the boot pass, its
\* retries, and the request that a companion sends when an application starts.
\* register_app_namespace_ahead goes first, for a running instance that is not
\* registered; the boot pass has no process and skips it.
PreRegister(u) ==
    /\ job = Idle /\ Alive /\ (round = {} \/ u \in round)
    /\ round' = round \ {u}
    /\ \/ /\ u \in Running \ nsDone /\ CanSend
          /\ SendPolicy("ns", u, cfg[u]) /\ job' = Start("daemon", "ns", u, cfg[u])
       \/ job' = Start("daemon", "view", u, cfg[u]) /\ UNCHANGED toHost
    /\ UNCHANGED <<cfg, host, acks, left, daemonVars, wreg, snap, reader, lost>>
\* Without a host there is nothing to register with.
RoundSkips ==
    /\ job = Idle /\ ~Alive /\ round # {} /\ round' = {}
    /\ UNCHANGED <<cfg, host, wireVars, daemonVars, wreg, snap, job, reader, lost>>

\* Mutant: any registration that this daemon made counts, whichever host has it.
AlreadyAnyHost(u, f) == pre[u].fp = f
\* The snapshot and the daemon's own table agree on host and fingerprint.
Already(u, f) ==
    /\ Valid(snap) /\ snap.fps[u] # 0
    /\ snap.fps[u] = f /\ pre[u] = [gen |-> snap.gen, fp |-> f]

\* The second half: nothing to do, or the policy is sent.  A snapshot of a dead
\* host is removed on the way.
PreRegisterPolicy ==
    /\ job.kind = "view"
    /\ snap' = IF Valid(snap) THEN snap ELSE NoSnap
    /\ IF Already(job.uid, job.fp) \/ ~CanSend
       THEN job' = Idle /\ UNCHANGED toHost
       ELSE /\ SendPolicy("policy", job.uid, job.fp)
            /\ job' = [Start(job.who, "policy", job.uid, job.fp)
                         EXCEPT !.keyed = Valid(snap) /\ snap.fps[job.uid] # 0]
    /\ UNCHANGED <<round, cfg, host, acks, left, daemonVars, wreg, reader, lost>>

\* The hot update of a policy sends it whatever the tables say.
HotUpdate(u) ==
    /\ job = Idle /\ round = {} /\ Alive /\ CanSend
    /\ SendPolicy("policy", u, cfg[u]) /\ job' = Start("daemon", "policy", u, cfg[u])
    /\ UNCHANGED <<round, cfg, host, acks, left, daemonVars, wreg, snap, reader, lost>>

\* A forked worker registers the policy of its request before it attaches.  The
\* daemon waits for it; the worker has a copy of the registry.
WorkerRegisters(u) ==
    /\ job = Idle /\ round = {} /\ Alive /\ CanSend
    /\ SendPolicy("policy", u, cfg[u]) /\ job' = Start("worker", "policy", u, cfg[u])
    /\ wreg' = reg
    /\ UNCHANGED <<round, cfg, host, acks, left, daemonVars, snap, reader, lost>>

\* A registration that failed: the namespace half goes on, the others are over.
Failed == IF job.kind = "ns" THEN Start(job.who, "view", job.uid, job.fp) ELSE Idle

WregAfter(j) == IF j = Idle THEN NoPolicies ELSE wreg

\* register_app_policy and register_app_namespace_only after a positive ack.
Record ==
    LET r == IF job.who = "worker" THEN wreg ELSE reg
        r1 == [r EXCEPT ![job.uid] = job.fp]
    IN /\ job' = Failed
       /\ CASE job.kind = "ns" ->
                 nsDone' = nsDone \cup {job.uid} /\ UNCHANGED <<reg, wreg, snap, pre>>
            [] job.kind = "policy" ->
                 /\ snap' = Published(r1, r)
                 /\ IF job.who = "worker" THEN wreg' = NoPolicies /\ UNCHANGED reg ELSE reg' = r1 /\ UNCHANGED wreg
                 /\ pre' = IF job.keyed THEN [pre EXCEPT ![job.uid] = [gen |-> hostSlot, fp |-> job.fp]] ELSE pre
                 /\ UNCHANGED nsDone
            [] OTHER -> UNCHANGED <<reg, wreg, snap, pre, nsDone>>

\* await_policy_ack found its own uid with a table that is not empty.
AckTaken == acks # <<>> /\ Head(acks).uid = job.uid /\ Head(acks).ok

AwaitSucceeds ==
    /\ Awaiting /\ AckTaken /\ acks' = Tail(acks)
    /\ Record
    /\ UNCHANGED <<round, cfg, host, toHost, left, hostSlot, fd, reader, lost>>

\* Another uid's acknowledgement is consumed, up to SkipLimit; a rejection ends
\* the wait.
AwaitSkips ==
    /\ Awaiting /\ acks # <<>> /\ ~AckTaken /\ acks' = Tail(acks)
    /\ job' = IF Head(acks).uid = job.uid \/ job.skips + 1 = SkipLimit
              THEN Failed ELSE [job EXCEPT !.skips = @ + 1]
    /\ left' = (left \/ Head(acks).uid # job.uid)
    /\ wreg' = WregAfter(job')
    /\ UNCHANGED <<round, cfg, host, toHost, daemonVars, snap, reader, lost>>

\* recv times out or the peer is gone.  The answer may still come.
AwaitTimesOut ==
    /\ Awaiting /\ acks = <<>> /\ (Fault("late") \/ ~host.up)
    /\ job' = Failed /\ left' = (left \/ host.up)
    /\ wreg' = WregAfter(job')
    /\ UNCHANGED <<round, cfg, host, toHost, acks, daemonVars, snap, reader, lost>>

\* The daemon's own wait for the worker ends first: it is killed.
WorkerKilled ==
    /\ Fault("kill") /\ job.who = "worker"
    /\ job' = Idle /\ left' = (left \/ host.up)
    /\ wreg' = WregAfter(job')
    /\ UNCHANGED <<round, cfg, host, toHost, acks, daemonVars, snap, reader, lost>>

\* invalidate_pre_registered_host_policies.
Invalidate ==
    /\ job = Idle /\ round = {} /\ pre' = [u \in AppUids |-> NoPre] /\ nsDone' = {}
    /\ UNCHANGED <<round, cfg, host, wireVars, hostSlot, fd, reg, wreg, snap, job, reader, lost>>

ChangeConfig(u) ==
    /\ u \notin Stable /\ cfg[u] < MaxVersion /\ cfg' = [cfg EXCEPT ![u] = @ + 1]
    /\ UNCHANGED <<round, host, wireVars, daemonVars, wreg, snap, job, reader, lost>>
\* A new instance has a new namespace; REGISTERED_APP_NAMESPACES knows the old one.
AppRestarts(u) ==
    /\ job.uid # u /\ u \in nsDone /\ nsDone' = nsDone \ {u}
    /\ UNCHANGED <<round, cfg, host, wireVars, hostSlot, fd, reg, pre, wreg, snap, job, reader, lost>>

ControlNext ==
    \/ SpawnHost \/ SpawnFails \/ ClearIfDead \/ HostDies
    \/ HostAccepts \/ HostRejects
    \/ CompanionFindsStale \/ CompanionRemoves
    \/ PreRegisterPolicy \/ AwaitSucceeds \/ AwaitSkips \/ AwaitTimesOut
    \/ WorkerKilled \/ Invalidate \/ StartRound \/ RoundSkips
    \/ \E u \in AppUids :
         PreRegister(u) \/ HotUpdate(u) \/ WorkerRegisters(u) \/ ChangeConfig(u) \/ AppRestarts(u)

PolicyAccepted(u) == HostAccepts /\ job.who = "daemon" /\ job.kind = "policy" /\ job.uid = u
\* The main loop begins a round at least every PERIODIC_RECONCILE_INTERVAL_MS
\* whatever else it is asked to do, and goes through it; a missing host is spawned
\* again and again and comes up in the end; the host reads its socket, and a
\* companion that began to remove the file does it.  A policy is not rejected for
\* ever: its storage is unlocked some time after boot.
ControlFairness ==
    /\ SF_controlVars(StartRound) /\ WF_controlVars(RoundSkips \/ \E u \in round : PreRegister(u))
    /\ SF_controlVars(SpawnHost) /\ WF_controlVars(HostAccepts \/ HostRejects)
    /\ WF_controlVars(CompanionRemoves) /\ WF_controlVars(PreRegisterPolicy)
    /\ WF_controlVars(AwaitSucceeds) /\ WF_controlVars(AwaitSkips) /\ WF_controlVars(AwaitTimesOut)
    /\ \A u \in Running : SF_controlVars(PolicyAccepted(u))
ControlSpec == ControlInit /\ [][ControlNext]_controlVars /\ ControlFairness

-----------------------------------------------------------------------------
(* Properties.                                                              *)

\* A companion attaches an application when the snapshot names its uid with its
\* fingerprint (wait_for_host_session_view): the living host then serves that
\* policy or a later one, across host generations, rejected policies, the two
\* copies of the registry and companions that remove the file.  The one
\* exception is a socket on which a wait was given up: an acknowledgement that comes
\* late is then taken for the answer to the next registration.
SnapshotNotAhead ==
    Valid(snap) /\ ~left => \A u \in AppUids : snap.fps[u] <= host.table[u]

\* This, and every variable in its range.
SnapshotSound == ControlTypeOK /\ SnapshotNotAhead

\* When the host stays up, no wait is given up and the file is not taken away,
\* every running application is in the end published and served with its last
\* configuration, although a worker's registration is unknown to the daemon's
\* registry and the daemon's next write drops it from the file.  The rounds see to
\* that (daemon.rs: reconcile_running_apps, daemon_mount.rs: pre_register_host_policy).
SnapshotCatchesUp ==
    <>[](host.up /\ ~left /\ ~lost)
        => \A u \in Running : <>[](Valid(snap) /\ snap.fps[u] = cfg[u] /\ host.table[u] = cfg[u])

=============================================================================
