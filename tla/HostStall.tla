----------------------------- MODULE HostStall ------------------------------
(* A FUSE request has no timeout in the kernel: when every worker thread of  *)
(* the shared host blocks, every application that touches storage blocks     *)
(* with it.  The watchdog thread inside the host probes and aborts the       *)
(* connection; the daemon does the same from outside, from the host's        *)
(* heartbeat file, in case the watchdog cannot.  Time is discrete and a      *)
(* request that a free thread can take is answered within one tick.          *)
EXTENDS Naturals

CONSTANTS
    Threads,          \* worker threads of the session (16 in the code)
    MaxQueue,         \* bound: requests no thread has taken
    MaxGen,           \* bound: host processes
    NoCompletion,     \* HOST_STALL_NO_COMPLETION_MS, in ticks as all below
    ProbeTimeout,     \* HOST_STALL_PROBE_TIMEOUT_MS
    Confirm,          \* HOST_STALL_CONFIRM_MS
    ProbeThrottle,    \* HOST_STALL_PROBE_THROTTLE_MS
    BeatStale,        \* EXTERNAL_ABORT_BEAT_STALE_MS
    ExtNoCompletion,  \* EXTERNAL_ABORT_NO_COMPLETION_MS
    Sample,           \* EXTERNAL_ABORT_VERIFY_SAMPLE_MS
    VerifyTime,       \* both samples and EXTERNAL_ABORT_PROBE_TIMEOUT_MS
    VerifyThrottle,   \* EXTERNAL_ABORT_VERIFY_THROTTLE_MS
    Cooldown,         \* EXTERNAL_ABORT_COOLDOWN_MS
    Faults            \* what may go wrong, a subset of FaultKinds

FaultKinds == {"self", "storage", "freeze", "dog", "die"}
Fault(f) == f \in Faults

ASSUME HostStallAssumption ==
    /\ Faults \subseteq FaultKinds
    /\ {Threads, MaxQueue, MaxGen, NoCompletion, Confirm, Sample} \subseteq Nat \ {0}
    /\ {ProbeThrottle, BeatStale, ExtNoCompletion, VerifyThrottle, Cooldown} \subseteq Nat \ {0}
    /\ ProbeTimeout \in Nat /\ Confirm < ProbeTimeout /\ ProbeTimeout < ProbeThrottle
    /\ VerifyTime \in Nat /\ 2 * Sample < VerifyTime

VARIABLES
    host,    \* generation, process alive, connection "live" or "aborted", frozen
    self,    \* threads blocked on a path this host serves; an abort frees them
    store,   \* threads blocked in the storage below
    queue,   \* requests waiting for a thread
    flow,    \* LAST_COMPLETION_MS is not 0
    age,     \* ticks since LAST_COMPLETION_MS
    dog,     \* watchdog thread: control point, flow_seen, confirm, ages
    beat,    \* heartbeat file and its age; generation 0 when there is none
    ext,     \* external monitor: control point, suspect, timers
    stall    \* history: ticks a request has waited that no thread could take

vars == <<host, self, store, queue, flow, age, dog, beat, ext, stall>>
sessionVars == <<self, store, queue, flow, age>>

MaxAge == ExtNoCompletion + 1
MaxStall == Cooldown + VerifyTime + 1
Capped(n, m) == IF n < m THEN n + 1 ELSE m
Down(n) == IF n = 0 THEN 0 ELSE n - 1

hung == self + store
\* /sys/fs/fuse/connections/<n>/waiting counts queued and unanswered requests.
waiting == hung + queue
Live == host.up /\ host.conn = "live"
\* A stat of the mount point is answered: by a thread, or with an error.
Answered == ~Live \/ (~host.frozen /\ hung < Threads)

TypeOK ==
    /\ host \in [gen : 0 .. MaxGen, up : BOOLEAN, conn : {"live", "aborted"}, frozen : BOOLEAN]
    /\ self \in 0 .. Threads /\ store \in 0 .. Threads /\ hung <= Threads
    /\ queue \in 0 .. MaxQueue /\ flow \in BOOLEAN /\ age \in 0 .. MaxAge
    /\ dog \in [pc : {"poll", "probe", "off"}, flow : BOOLEAN, confirm : BOOLEAN,
                since : 0 .. ProbeThrottle, prog : 0 .. ProbeTimeout]
    /\ beat \in [gen : 0 .. MaxGen, waiting : BOOLEAN, flow : BOOLEAN, comp : 0 .. MaxAge, old : 0 .. MaxAge]
    /\ ext \in [pc : {"watch", "verify"}, gen : 0 .. MaxGen, prog : 0 .. VerifyTime,
                rest : 0 .. VerifyThrottle, cool : 0 .. Cooldown]
    /\ stall \in 0 .. MaxStall

NoBeat == [gen |-> 0, waiting |-> FALSE, flow |-> FALSE, comp |-> 0, old |-> 0]
Watch == [pc |-> "watch", gen |-> 0, prog |-> 0, rest |-> 0, cool |-> 0]
\* host_stall_watchdog_main starts with no completion seen and no probe made.
Dog(pc) == [pc |-> pc, flow |-> FALSE, confirm |-> FALSE, since |-> ProbeThrottle, prog |-> 0]

Init ==
    /\ host = [gen |-> 0, up |-> FALSE, conn |-> "aborted", frozen |-> FALSE]
    /\ self = 0 /\ store = 0 /\ queue = 0 /\ flow = FALSE /\ age = 0 /\ stall = 0
    /\ dog = Dog("off") /\ beat = NoBeat /\ ext = Watch

-----------------------------------------------------------------------------
(* The session.                                                             *)

\* spawn_fuse_host, mount_host_fuse: the watchdog starts after the mount; it is
\* missing when the connection's number or its descriptors could not be had.
Rebuild ==
    /\ ~host.up /\ host.gen < MaxGen
    /\ host' = [gen |-> host.gen + 1, up |-> TRUE, conn |-> "live", frozen |-> FALSE]
    /\ self' = 0 /\ store' = 0 /\ queue' = 0 /\ flow' = FALSE /\ age' = 0 /\ stall' = 0
    /\ dog' \in {Dog(pc) : pc \in {"poll"} \cup (IF Fault("dog") THEN {"off"} ELSE {})}
    /\ UNCHANGED <<beat, ext>>

Request ==
    /\ Live /\ queue < MaxQueue /\ queue' = queue + 1
    /\ UNCHANGED <<host, self, store, flow, age, dog, beat, ext, stall>>

Free == Live /\ ~host.frozen /\ queue > 0 /\ hung < Threads
\* A request is dispatched and answered: end_request stamps the time and wakes
\* the watchdog.
Complete == flow' = TRUE /\ age' = 0 /\ dog' = [dog EXCEPT !.flow = dog.pc # "off"]
Serve ==
    /\ Free /\ queue' = queue - 1 /\ Complete
    /\ UNCHANGED <<host, self, store, beat, ext, stall>>
\* The dispatch blocks.
Block ==
    /\ Free /\ queue' = queue - 1
    /\ \/ Fault("self") /\ self' = self + 1 /\ UNCHANGED store
       \/ Fault("storage") /\ store' = store + 1 /\ UNCHANGED self
    /\ UNCHANGED <<host, flow, age, dog, beat, ext, stall>>
\* The storage answers after all; a thread whose connection is gone ends.
Unblock ==
    /\ store > 0 /\ host.up /\ ~host.frozen /\ store' = store - 1
    /\ IF Live THEN Complete /\ stall' = 0 ELSE UNCHANGED <<flow, age, dog, stall>>
    /\ UNCHANGED <<host, self, queue, beat, ext>>

Freeze ==
    /\ Fault("freeze") /\ Live /\ ~host.frozen /\ host' = [host EXCEPT !.frozen = TRUE]
    /\ UNCHANGED <<sessionVars, dog, beat, ext, stall>>

HostGone == [host EXCEPT !.up = FALSE, !.conn = "aborted", !.frozen = FALSE]
GoneSession ==
    /\ self' = 0 /\ store' = 0 /\ queue' = 0 /\ stall' = 0 /\ flow' = FALSE /\ age' = 0
    /\ dog' = Dog("off")
\* The main loop sees the session thread finished, which has joined every worker
\* thread: a thread still blocked in the storage keeps the process.
HostExits ==
    /\ host.up /\ host.conn = "aborted" /\ hung = 0 /\ ~host.frozen
    /\ host' = HostGone /\ GoneSession /\ UNCHANGED <<beat, ext>>
\* attach_app_to_host meets ENOTCONN, host_endpoint_alive says no, and the host
\* is killed.
AttachKills ==
    /\ host.up /\ host.conn = "aborted"
    /\ host' = HostGone /\ GoneSession /\ UNCHANGED <<beat, ext>>
\* The process ends otherwise: killed, or its backend anchor could not be rebuilt.
HostDies ==
    /\ Fault("die") /\ host.up
    /\ host' = HostGone /\ GoneSession /\ UNCHANGED <<beat, ext>>

-----------------------------------------------------------------------------
(* One tick of the watchdog, the heartbeat and the external monitor.        *)

\* Mutant: the time of the last completion is not looked at again.
StalledForGood == waiting > 0 /\ dog.flow
\* host_stall_watchdog_main: requests wait, none completed for NoCompletion, and
\* some completion was seen before.
Stalled == waiting > 0 /\ dog.flow /\ age >= NoCompletion

\* probe_mount_point_alive: ten seconds without an answer.  The confirmation
\* deadline was computed from the time before the probe and is already over.
ProbeFailed == dog.prog + 1 >= ProbeTimeout /\ ~Answered

DogAborts == host.up /\ ~host.frozen /\ dog.pc = "poll" /\ Live /\ Stalled /\ dog.confirm
DogTick ==
    LET since1 == Capped(dog.since, ProbeThrottle)
        polled == [dog EXCEPT !.since = since1]
    IN dog' =
        IF ~host.up \/ host.frozen \/ dog.pc = "off" THEN dog
        ELSE IF ~Live \/ DogAborts THEN Dog("off")
        ELSE IF dog.pc = "poll" THEN
             IF ~Stalled THEN [polled EXCEPT !.confirm = FALSE]
             ELSE IF dog.since >= ProbeThrottle
                  THEN [dog EXCEPT !.pc = "probe", !.prog = 0, !.since = 0]
                  ELSE polled
        ELSE IF ProbeFailed THEN [polled EXCEPT !.pc = "poll", !.prog = 0, !.confirm = TRUE]
        ELSE IF Answered THEN [polled EXCEPT !.pc = "poll", !.prog = 0, !.flow = TRUE]
        ELSE [polled EXCEPT !.prog = Capped(@, ProbeTimeout)]

\* host_heartbeat_loop.
BeatTick ==
    beat' = IF host.up /\ ~host.frozen
            THEN [gen |-> host.gen, waiting |-> Live /\ waiting > 0, flow |-> flow, comp |-> age, old |-> 0]
            ELSE [beat EXCEPT !.old = Capped(@, MaxAge)]

\* Mutant: only a stale heartbeat makes a suspect.
SuspectStale == beat.gen # 0 /\ beat.gen = host.gen /\ host.up /\ beat.old > BeatStale
\* external_abort_monitor_main: a heartbeat of a living host that is stale, or
\* that shows requests waiting and no completion for ExtNoCompletion.
Suspect ==
    /\ beat.gen # 0 /\ beat.gen = host.gen /\ host.up
    /\ \/ beat.old > BeatStale
       \/ beat.waiting /\ beat.flow /\ beat.comp + beat.old > ExtNoCompletion

\* verify_host_stall_externally: no request waits at a sample, or the stat after
\* the second sample is answered.
Cleared ==
    \/ ext.gen # host.gen \/ ~Live
    \/ ext.prog \in {0, Sample} /\ waiting = 0
    \/ ext.prog >= 2 * Sample /\ Answered
VerifyFails == ext.pc = "verify" /\ ~Cleared /\ ext.prog + 1 >= VerifyTime
\* abort_host_connection_externally enters the namespace of the suspect first.
OwnNamespace == host.up /\ ext.gen = host.gen
ExtAborts == VerifyFails /\ OwnNamespace

ExtTick ==
    LET aged == [ext EXCEPT !.rest = Down(@), !.cool = Down(@)]
    IN ext' =
        IF ext.pc = "watch" THEN
             IF ext.cool = 0 /\ ext.rest = 0 /\ Suspect
             THEN [aged EXCEPT !.pc = "verify", !.gen = beat.gen, !.prog = 0, !.rest = VerifyThrottle]
             ELSE aged
        ELSE IF VerifyFails THEN [aged EXCEPT !.pc = "watch", !.gen = 0, !.prog = 0, !.cool = Cooldown]
        ELSE IF Cleared THEN [aged EXCEPT !.pc = "watch", !.gen = 0, !.prog = 0]
        ELSE [aged EXCEPT !.prog = @ + 1]

\* A probe of either kind that a thread answers is a completed request.
Verifying == ext.pc = "verify" /\ ext.gen = host.gen /\ ext.prog >= 2 * Sample
ProbeServed == Live /\ Answered /\ (dog.pc = "probe" \/ Verifying)

\* Writing to abort errors out every request; the threads that waited for this
\* very connection are freed and end.
Tick ==
    /\ ~Free
    /\ DogTick /\ BeatTick /\ ExtTick
    /\ IF DogAborts \/ ExtAborts
       THEN /\ host' = [host EXCEPT !.conn = "aborted"] /\ self' = 0 /\ queue' = 0 /\ stall' = 0
       ELSE /\ UNCHANGED <<host, self, queue>>
            /\ stall' = IF Live /\ (waiting > 0 \/ Verifying) /\ ~Answered THEN Capped(stall, MaxStall) ELSE 0
    /\ age' = IF ProbeServed THEN 0 ELSE Capped(age, MaxAge)
    /\ flow' = (flow \/ ProbeServed)
    /\ UNCHANGED store

Next ==
    \/ Tick \/ Rebuild \/ Request \/ Serve \/ Block \/ Unblock \/ Freeze
    \/ HostExits \/ AttachKills \/ HostDies

\* Time passes, the daemon rebuilds a host that is gone, and reconcile rounds
\* keep attaching applications whose view is dead.
Fairness ==
    /\ WF_vars(Tick) /\ WF_vars(Serve \/ Block) /\ WF_vars(Rebuild)
    /\ WF_vars(HostExits) /\ WF_vars(AttachKills)
Spec == Init /\ [][Next]_vars /\ Fairness

-----------------------------------------------------------------------------
(* Properties.                                                              *)

\* The watchdog thread runs and has seen this host complete a request.
DogHealthy == dog.pc # "off" /\ dog.flow /\ ~host.frozen

\* A host that has completed a request and written a heartbeat never blocks its callers longer than the
\* two guards take: a probe throttled by an earlier one and the probe itself;
\* without the watchdog the external monitor's cooldown and its verification.
StallBounded ==
    flow /\ beat.gen = host.gen =>
            /\ DogHealthy => stall <= ProbeThrottle + ProbeTimeout
            /\ stall <= MaxStall - 1

\* Neither guard aborts a connection that could still answer: at the abort no
\* thread of this very host can take a request, although the suspicion, the probe
\* or the verification and the abort are steps apart, threads come free and hosts
\* are replaced in between.
AbortedWasStalled ==
    [][(DogAborts \/ ExtAborts) /\ host'.conn # host.conn => ~Answered]_vars

\* A stalled host that completed a request before is answered again or replaced,
\* also when a thread blocked below keeps the aborted process from exiting.
StallEnds ==
    (Live /\ flow /\ beat.gen = host.gen /\ hung = Threads /\ host.gen < MaxGen)
        ~> (hung < Threads /\ ~host.frozen)

=============================================================================
