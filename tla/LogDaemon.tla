----------------------------- MODULE LogDaemon -----------------------------
(* The daemon's log thread and what it hands to the main loop.  The log      *)
(* thread (log_daemon.rs) takes packets from one datagram socket that any    *)
(* process may write to: file-monitor records and activation counts, limited *)
(* per sender, and control commands of root.  It keeps the rolling monitor   *)
(* log, the activation counter, and two one-place request slots that the     *)
(* main loop (daemon.rs) empties once per turn, woken by an eventfd.  The    *)
(* main loop also retries the policy registrations that failed at boot.      *)
EXTENDS Integers, Sequences, FiniteSets, Functions

CONSTANTS Uids,        \* senders
          Root,        \* the uid whose control commands count
          Packets,     \* [uid, tag, arg] that senders may send
          Apps,        \* configured packages to register at boot
          SocketMax,   \* packets the socket buffers
          MaxRecords,  \* MAX_RECORDS_PER_UID_WINDOW
          Window,      \* RATE_LIMIT_WINDOW_MS
          MaxTracked,  \* MAX_TRACKED_SENDERS
          FlushBatch,  \* FLUSH_BATCH_LINES
          MaxLines,    \* MAX_MONITOR_BYTES, in lines
          MaxAttempts, \* POLICY_RETRY_MAX_ATTEMPTS
          PerCycle,    \* POLICY_RETRY_PER_CYCLE
          MaxSends, MaxTime, MaxCrashes \* bounds of the model

ASSUME LogAssumption ==
    /\ Root \in Uids /\ \A p \in Packets : p.uid \in Uids
    /\ IsFiniteSet(Uids) /\ IsFiniteSet(Apps)
    /\ {SocketMax, MaxRecords, Window, MaxTracked, FlushBatch, MaxLines, MaxAttempts, PerCycle}
         \subseteq Nat \ {0}
    /\ {MaxSends, MaxTime, MaxCrashes} \subseteq Nat

Slots == {"reconcile", "register"}

None == "none"

Untracked == [start |-> -1, count |-> 0]

VARIABLES
    socket,   \* packets in flight, in order
    quotas,   \* sender_quotas
    log,      \* monitor log: [file, pend, b1, b2], record numbers, oldest first
    count, dirty, saved, \* runtime_activations, stats_dirty, the statistics file
    slot,     \* RECONCILE_REQUEST and POLICY_REGISTER_REQUEST
    waking,   \* the slot whose lock the log thread holds while it wakes the main loop
    wake,     \* the eventfd is readable
    pc, taken, due, \* main loop: where it is, what it took, 30 s have passed
    passes,   \* boot-time registrations of every package still to come
    retries,  \* PENDING_POLICY_RETRIES
    now, sends, crashes, \* clock and bounds
    next,     \* history: number of the next record accepted
    cleared,  \* history: last record accepted before the clear last acknowledged
    gone,     \* history: records a crash took
    accepted, \* history: who had a record accepted when
    registered, dropped, \* history: packages registered; given up or no longer configured
    served    \* history: register-policy tokens served

logVars == <<quotas, log, count, dirty, saved, next, cleared, accepted>>
mainVars == <<pc, taken, due, passes, retries, registered, dropped, served>>
vars == <<socket, slot, waking, wake, now, sends, crashes, gone, logVars, mainVars>>

Empty == [file |-> <<>>, pend |-> <<>>, b1 |-> <<>>, b2 |-> <<>>]

Init == /\ socket = <<>> /\ quotas = [u \in Uids |-> Untracked]
        /\ log = Empty /\ count = 0 /\ dirty = FALSE /\ saved = 0
        /\ slot = [s \in Slots |-> None] /\ waking = None /\ wake = FALSE
        /\ pc = "boot" /\ taken = [s \in Slots |-> None] /\ due = FALSE
        /\ passes = {"boot", "media"} /\ retries = <<>>
        /\ now = 0 /\ sends = 0 /\ crashes = 0
        /\ next = 1 /\ cleared = 0 /\ gone = {} /\ accepted = {}
        /\ registered = {} /\ dropped = {} /\ served = {}
-----------------------------------------------------------------------------
(* The socket.  A sender that finds it full gives up (non-blocking send).    *)
Send(p) == /\ sends < MaxSends /\ Len(socket) < SocketMax
           /\ socket' = Append(socket, p)
           /\ sends' = sends + 1
           /\ UNCHANGED <<slot, waking, wake, now, crashes, gone, logVars, mainVars>>

(* allow_from_sender: a fixed window per sender; a full table first drops    *)
(* the senders whose window is over.                                         *)
ExpiredLate(q) == now - q.start > Window

Expired(q) == now - q.start >= Window

Tracked(qs) == {u \in Uids : qs[u] # Untracked}

Retained(u) ==
    IF Cardinality(Tracked(quotas)) >= MaxTracked /\ u \notin Tracked(quotas)
    THEN [v \in Uids |-> IF Expired(quotas[v]) THEN Untracked ELSE quotas[v]]
    ELSE quotas

TableFull(u) == /\ u \notin Tracked(quotas)
                /\ Cardinality(Tracked(Retained(u))) >= MaxTracked

Current(u) == IF u \in Tracked(quotas) /\ ~Expired(quotas[u])
              THEN quotas[u] ELSE [start |-> now, count |-> 0]

Allowed(u) == ~TableFull(u) /\ Current(u).count < MaxRecords

Charged(u) ==
    IF TableFull(u) THEN Retained(u)
    ELSE [Retained(u) EXCEPT ![u] = IF Allowed(u) THEN [Current(u) EXCEPT !.count = @ + 1]
                                                  ELSE Current(u)]

(* RollingLog.  A flush that finds the file too long rotates it: .2 is       *)
(* removed, .1 becomes .2, the file becomes .1.                              *)
RotateOver(l) == [file |-> <<>>, pend |-> <<>>, b1 |-> l.file, b2 |-> l.b2]

Rotate(l) == [file |-> <<>>, pend |-> <<>>, b1 |-> l.file, b2 |-> l.b1]

Flush(l) == LET f == [file |-> l.file \o l.pend, pend |-> <<>>, b1 |-> l.b1, b2 |-> l.b2]
            IN  IF Len(f.file) > MaxLines THEN Rotate(f) ELSE f

Line(l, n) == LET a == [l EXCEPT !.pend = Append(@, n)]
              IN  IF Len(a.pend) >= FlushBatch THEN Flush(a) ELSE a

Clear(l) == Empty

Monitor(u) ==
    /\ quotas' = Charged(u)
    /\ IF Allowed(u)
       THEN /\ log' = Line(log, next) /\ next' = next + 1
            /\ accepted' = accepted \cup {[uid |-> u, at |-> now, n |-> Cardinality(accepted)]}
       ELSE UNCHANGED <<log, next, accepted>>
    /\ UNCHANGED <<count, dirty, saved, cleared, slot, waking>>

AddStats(u) ==
    /\ quotas' = Charged(u)
    /\ IF Allowed(u)
       THEN /\ count' = count + 1 /\ dirty' = TRUE
            /\ accepted' = accepted \cup {[uid |-> u, at |-> now, n |-> Cardinality(accepted)]}
       ELSE UNCHANGED <<count, dirty, accepted>>
    /\ UNCHANGED <<log, next, saved, cleared, slot, waking>>

(* flush_pending; writing the statistics file may fail, which leaves it due. *)
FlushPending ==
    /\ log' = Flush(log)
    /\ \/ dirty /\ saved' = count /\ dirty' = FALSE
       \/ UNCHANGED <<saved, dirty>>
    /\ UNCHANGED <<quotas, count, next, cleared, accepted>>

ClearMonitor == /\ log' = Flush(Clear(log)) /\ cleared' = next - 1
                /\ UNCHANGED <<quotas, count, dirty, saved, next, accepted, slot, waking>>

ResetStatsInMemory ==
    /\ count' = 0 /\ dirty' = FALSE
    /\ UNCHANGED <<saved, quotas, log, next, cleared, accepted, slot, waking>>

ResetStats ==
    /\ \/ saved' = 0 /\ count' = 0 /\ dirty' = FALSE
       \/ UNCHANGED <<saved, count, dirty>>  \* persist_runtime_activations(0) failed
    /\ UNCHANGED <<quotas, log, next, cleared, accepted, slot, waking>>

(* A request takes the slot's lock, replaces what is in the slot, and wakes  *)
(* the main loop before it lets go of the lock.                              *)
RequestSilently(s, token) == /\ slot' = [slot EXCEPT ![s] = token]
                             /\ waking' = IF s = "register" THEN None ELSE s
                             /\ UNCHANGED logVars

Request(s, token) == /\ slot' = [slot EXCEPT ![s] = token]
                     /\ waking' = s
                     /\ UNCHANGED logVars

Control(p) ==
    \/ p.tag = "clear" /\ ClearMonitor
    \/ p.tag = "flush" /\ FlushPending /\ UNCHANGED <<slot, waking>>
    \/ p.tag = "reset" /\ ResetStats
    \/ p.tag \in Slots /\ Request(p.tag, p.arg)

Records == {"monitor", "stats"}

Receive ==
    /\ waking = None /\ socket # <<>>
    /\ socket' = Tail(socket)
    /\ LET p == Head(socket) IN
         \/ p.tag = "monitor" /\ Monitor(p.uid)
         \/ p.tag = "stats" /\ AddStats(p.uid)
         \/ p.tag \notin Records /\ p.uid = Root /\ Control(p)
         \/ p.tag \notin Records /\ p.uid # Root /\ UNCHANGED <<slot, waking, logVars>>
    /\ UNCHANGED <<wake, now, sends, crashes, gone, mainVars>>

WakeDaemon == /\ waking # None
              /\ wake' = TRUE /\ waking' = None
              /\ UNCHANGED <<socket, slot, now, sends, crashes, gone, logVars, mainVars>>

(* poll timed out, or two seconds have passed at the end of a drain round.   *)
FlushIfDue == /\ waking = None /\ (log.pend # <<>> \/ dirty)
              /\ FlushPending
              /\ UNCHANGED <<socket, slot, waking, wake, now, sends, crashes, gone, mainVars>>
-----------------------------------------------------------------------------
(* The main loop.                                                            *)
Others == <<socket, slot, waking, wake, now, sends, crashes, gone, logVars>>

Orders(S) == {q \in [1 .. Cardinality(S) -> S] : Range(q) = S}

Queued(q) == {q[i].app : i \in DOMAIN q}

(* enqueue_policy_retry, for every one of a sequence of packages.            *)
Enqueued(q) == retries \o [i \in DOMAIN q |-> [app |-> q[i], tries |-> 0]]

(* pre_register_all_configured_apps: the ones refused are queued, once each. *)
PreRegisterAll(pass) ==
    \E refused \in SUBSET Apps : \E q \in Orders(refused \ Queued(retries)) :
        /\ passes' = passes \ {pass}
        /\ registered' = registered \cup (Apps \ refused)
        /\ retries' = Enqueued(q)

(* The top of a turn: the registration that waited for the storage key.      *)
Boot == /\ pc = "boot"
        /\ \/ "boot" \in passes /\ PreRegisterAll("boot")
           \/ UNCHANGED <<passes, registered, retries>>
        /\ pc' = "reconcile"
        /\ UNCHANGED <<taken, due, dropped, served, Others>>

(* take_reconcile_request, then take_policy_register_request.                *)
Take(s, then) == /\ pc = s /\ waking # s
                 /\ taken' = [taken EXCEPT ![s] = slot[s]]
                 /\ slot' = [slot EXCEPT ![s] = None]
                 /\ pc' = then
                 /\ UNCHANGED <<socket, waking, wake, now, sends, crashes, gone, logVars,
                                due, passes, retries, registered, dropped, served>>

(* drain_pending_policy_retries: entries from the front, until PerCycle of   *)
(* them have been tried; one whose configuration is gone is not a try.       *)
OneMoreForgotten(tries) == tries

OneMore(tries) == tries + 1

GivesUp(tries) == tries >= MaxAttempts

Tried(i, out) == Cardinality({j \in 1 .. (i - 1) : out[j] # "unconfigured"}) < PerCycle

Leaves(i, q, out) == /\ Tried(i, out)
                     /\ out[i] # "refused" \/ GivesUp(OneMore(q[i].tries))

\* The entries that stay keep their order: at lists their places.
Stay(q, out) == {i \in DOMAIN q : ~Leaves(i, q, out)}

Ascending(S) == {at \in Orders(S) : \A i, j \in DOMAIN at : i < j => at[i] < at[j]}

Drained(q, out, at) ==
    [queue |-> [k \in DOMAIN at |->
                  [q[at[k]] EXCEPT !.tries = IF Tried(at[k], out) THEN OneMore(@) ELSE @]],
     ok |-> {q[i].app : i \in {j \in DOMAIN q : Tried(j, out) /\ out[j] = "registered"}},
     left |-> {q[i].app : i \in {j \in DOMAIN q : Leaves(j, q, out) /\ out[j] # "registered"}}]

(* reconcile_running_apps, of which only the registrations matter here.  It  *)
(* runs for a request, every 30 s, and for causes outside this module; the   *)
(* first run that finds the media provider registers every package again.    *)
Skip == /\ pc = "work" /\ taken["reconcile"] = None /\ ~due
        /\ pc' = "serve"
        /\ UNCHANGED <<taken, due, passes, retries, registered, dropped, served, Others>>

Reconcile == /\ pc = "work"
             /\ \/ "media" \in passes /\ PreRegisterAll("media")
                \/ UNCHANGED <<passes, registered, retries>>
             /\ due' = FALSE /\ pc' = "drain"
             /\ UNCHANGED <<taken, dropped, served, Others>>

Drain == /\ pc = "drain"
         /\ \E out \in [DOMAIN retries -> {"registered", "refused", "unconfigured"}] :
            \E at \in Ascending(Stay(retries, out)) :
              LET d == Drained(retries, out, at) IN
              /\ retries' = d.queue
              /\ registered' = registered \cup d.ok
              /\ dropped' = dropped \cup d.left
         /\ pc' = "serve"
         /\ UNCHANGED <<taken, due, passes, served, Others>>

(* register_policy_for_pid_token, then the end of the turn.                  *)
Serve == /\ pc = "serve"
         /\ served' = served \cup ({taken["register"]} \ {None})
         /\ taken' = [s \in Slots |-> None]
         /\ pc' = "poll"
         /\ UNCHANGED <<due, passes, retries, registered, dropped, Others>>

(* wait_for_daemon_events: the eventfd is read before the slots are.         *)
PollWoken == /\ pc = "poll" /\ wake
             /\ wake' = FALSE /\ pc' = "boot"
             /\ UNCHANGED <<socket, slot, waking, now, sends, crashes, gone, logVars,
                            taken, due, passes, retries, registered, dropped, served>>

(* Another descriptor is readable, or the poll timed out.                    *)
PollElse == /\ pc = "poll" /\ ~wake
            /\ pc' = "boot"
            /\ UNCHANGED <<taken, due, passes, retries, registered, dropped, served, Others>>

(* The interval of the periodic reconcile has passed.                        *)
Elapse == /\ ~due /\ due' = TRUE
          /\ UNCHANGED <<pc, taken, passes, retries, registered, dropped, served, Others>>

Main == \/ Boot \/ Take("reconcile", "register") \/ Take("register", "work")
        \/ Skip \/ Reconcile \/ Drain \/ Serve \/ PollWoken \/ PollElse \/ Elapse
-----------------------------------------------------------------------------
Tick == /\ now < MaxTime /\ now' = now + 1
        /\ UNCHANGED <<socket, slot, waking, wake, sends, crashes, gone, logVars, mainVars>>

(* The daemon dies and the watchdog starts it again.  What was buffered is   *)
(* lost but for what the buffer had already passed on.                       *)
Crash == /\ crashes < MaxCrashes /\ crashes' = crashes + 1
         /\ \E k \in 0 .. Len(log.pend) :
              /\ log' = [file |-> log.file \o SubSeq(log.pend, 1, k), pend |-> <<>>,
                          b1 |-> log.b1, b2 |-> log.b2]
              /\ gone' = gone \cup Range(SubSeq(log.pend, k + 1, Len(log.pend)))
         /\ socket' = <<>> /\ quotas' = [u \in Uids |-> Untracked]
         /\ count' = saved /\ dirty' = FALSE
         /\ slot' = [s \in Slots |-> None] /\ waking' = None /\ wake' = FALSE
         /\ pc' = "boot" /\ taken' = [s \in Slots |-> None] /\ due' = FALSE
         /\ passes' = {"boot", "media"} /\ retries' = <<>>
         /\ registered' = {} /\ dropped' = {} /\ accepted' = {}
         /\ UNCHANGED <<saved, next, cleared, served, now, sends>>

Next == \/ \E p \in Packets : Send(p)
        \/ Receive \/ WakeDaemon \/ FlushIfDue
        \/ Main \/ Tick \/ Crash

Spec == Init /\ [][Next]_vars

(* The threads of the daemon keep running, a poll that nothing ends early    *)
(* times out, and time passes.                                               *)
Fairness == /\ WF_vars(Boot) /\ WF_vars(Take("reconcile", "register"))
            /\ WF_vars(Take("register", "work")) /\ WF_vars(Skip \/ Reconcile)
            /\ WF_vars(Drain) /\ WF_vars(Serve) /\ WF_vars(PollWoken \/ PollElse)
            /\ WF_vars(Elapse) /\ WF_vars(WakeDaemon)

LiveSpec == Spec /\ Fairness
-----------------------------------------------------------------------------
Numbers == 1 .. (next - 1)

TypeOK == /\ socket \in Seq(Packets) /\ Len(socket) <= SocketMax
          /\ \A u \in Uids : quotas[u] = Untracked \/ (quotas[u].start \in 0 .. now
                                                       /\ quotas[u].count \in 0 .. MaxRecords)
          /\ Cardinality(Tracked(quotas)) <= MaxTracked
          /\ Len(log.pend) < FlushBatch /\ Len(log.file) <= MaxLines + crashes * FlushBatch
          /\ count \in Nat /\ dirty \in BOOLEAN /\ saved \in Nat
          /\ waking \in Slots \cup {None} /\ wake \in BOOLEAN
          /\ pc \in {"boot", "work", "drain", "serve", "poll"} \cup Slots
          /\ \A i \in DOMAIN retries : /\ retries[i].app \in Apps
                                       /\ retries[i].tries \in 0 .. (MaxAttempts - 1)
          /\ \A i, j \in DOMAIN retries : retries[i].app = retries[j].app => i = j

(* The files of the monitor log, read oldest first, hold the accepted        *)
(* records in the order of acceptance, and one is missing only when a crash  *)
(* took it, a clear removed it, or two full files of newer ones were written *)
(* (RollingLog::append, flush, rotate, LOG_BACKUPS).                         *)
KeptInOrder ==
    LET all == log.b2 \o log.b1 \o log.file \o log.pend IN
    /\ \A i, j \in DOMAIN all : i < j => all[i] < all[j]
    /\ \A n \in Numbers : n \in Range(all) \/ n \in gone \/ n <= cleared
                          \/ Cardinality({m \in Range(all) : m > n}) > 2 * MaxLines

(* Once the manager sees the acknowledgement of its clear, no record from    *)
(* before is in the log, its backups or the buffer, also after a crash       *)
(* (clear_monitor, remove_numeric_backups).                                  *)
ClearedIsGone ==
    \A n \in Range(log.b2 \o log.b1 \o log.file \o log.pend) : n > cleared

LogHonest == TypeOK /\ KeptInOrder /\ ClearedIsGone

(* While the main loop sleeps with nothing to wake it, no request of the     *)
(* manager or the companion is waiting in a slot (wake_daemon under the      *)
(* slot's lock; wait_for_daemon_events reads the eventfd before the slots).  *)
NoLostWake == pc = "poll" /\ ~wake /\ waking = None => \A s \in Slots : slot[s] = None

(* After the registration at boot, every configured package is registered,   *)
(* queued for another attempt, or was given up after MaxAttempts tries       *)
(* (enqueue_policy_retry, drain_pending_policy_retries).                     *)
Accounted == "boot" \notin passes
                 => Apps \subseteq registered \cup Queued(retries) \cup dropped

NothingForgotten == NoLostWake /\ Accounted

Recent(u) == {a \in accepted : a.uid = u /\ now - a.at < Window}

HasReason(u) == \/ Cardinality(Recent(u)) >= MaxRecords
                \/ Cardinality({v \in Uids \ {u} : Recent(v) # {}}) >= MaxTracked

(* The limiter turns a record away only for a reason: the sender had its     *)
(* full share accepted within the last window, or as many other senders as   *)
(* the table holds each had a record accepted within it (allow_from_sender). *)
RefusedWithReason ==
    [][Receive /\ Head(socket).tag \in Records /\ accepted' = accepted
         => HasReason(Head(socket).uid)]_vars

(* The counter implements what it promises its readers (add_stats,           *)
(* flush_pending, reset_stats, persist_runtime_activations).                 *)
Counter == INSTANCE ActivationCount WITH total <- count, shown <- saved

CounterSpec == Counter!Spec

(* A registration that failed at boot does not stay queued for ever: it      *)
(* succeeds, its package leaves the configuration, or it is given up         *)
(* (drain_pending_policy_retries).                                           *)
RetriesEnd == \A a \in Apps : a \in Queued(retries) ~> a \notin Queued(retries)
=============================================================================
