-------------------------- MODULE CapabilityBreaker --------------------------
(***************************************************************************)
(* The FUSE capability snapshot and the gate it makes                      *)
(* (fuse_redirect/config.rs, fuse_redirect/scoped_mount.rs).               *)
(*                                                                         *)
(* The daemon's mount children, the companions and the host manager share  *)
(* one snapshot file.  Each records the result of an attempt by a          *)
(* read-modify-write under a file lock, and goes on without the lock when  *)
(* that cannot be had; the daemon rewrites the file at its start without   *)
(* it.  Every write may fail.  The snapshot holds two counts: failures     *)
(* of one application, which stop that application for a window, and       *)
(* failures in a row of different applications, which stop all of them     *)
(* with a doubling backoff.                                                *)
(*                                                                         *)
(* Times are kept as the ticks left until they are reached, in the file    *)
(* and in the copy a recorder holds alike.                                 *)
(***************************************************************************)
EXTENDS Integers, Sequences, FiniteSets

CONSTANTS Apps,        \* applications in the automatic mode
          Host,        \* scope of the host manager, "srx_fuse_host"
          Procs,       \* processes that try and record
          Budget,      \* SCOPED_MOUNT_FAILURE_BUDGET
          MinScopes,   \* DEVICE_UNAVAILABLE_MIN_SCOPES
          RetryWindow, \* SCOPE_RETRY_WINDOW_MS in ticks
          BackoffBase, \* RETRY_BACKOFF_BASE_MS in ticks
          BackoffMax,  \* RETRY_BACKOFF_MAX_MS in ticks
          MaxScopes,   \* MAX_TRACKED_SCOPES
          MaxCount,    \* bound: where the model lets a counter saturate
          MaxLate,     \* bound: writes of others between a read and its write
          MaxTrouble   \* bound: restarts of the daemon and recorders that
                       \* do not get the lock, together

BreakerAssumption ==
  /\ Host \notin Apps
  /\ {Budget, MinScopes, RetryWindow, BackoffBase, BackoffMax, MaxScopes,
      MaxCount} \subseteq Nat \ {0}
  /\ BackoffBase <= BackoffMax
  /\ Budget <= MaxCount /\ MinScopes <= MaxCount
  /\ {MaxLate, MaxTrouble} \subseteq Nat

VARIABLES file,     \* content of the snapshot file
          node,     \* whether /dev/fuse can be opened
          lock,     \* holder of the snapshot lock, or "free"
          pc,       \* where a process stands
          scope,    \* scope it records for
          outcome,  \* what it records: "ok", "failed", or "teardown"
          seen,     \* snapshot it has read
          late,     \* writes of others since it read
          fails,    \* history: failures of an application recorded in a row
          failed,   \* history: applications failed since a success was recorded
          total,    \* history: failures of an application, counted for ever
          unlocked, \* history: somebody went on without the lock
          trouble

pvars == <<pc, scope, outcome, seen, late>>
hist == <<fails, failed, total, unlocked>>
vars == <<file, node, lock, pvars, hist, trouble>>

Scopes == Apps \cup {Host}
Bucket == [app : Scopes, count : 1..MaxCount, left : 0..RetryWindow]
Snapshots == [cap : {"unknown", "available", "unavailable"}, dev : 0..MaxCount,
              last : Scopes \cup {"none"}, buckets : Seq(Bucket),
              retry : 0..BackoffMax, step : 0..MaxCount]

\* record_fuse_capability_result with either result, record_fuse_teardown_failure.
Results == {"ok", "failed", "teardown"}

Fresh == [cap |-> "unknown", dev |-> 0, last |-> "none", buckets |-> <<>>,
          retry |-> 0, step |-> 0]

TypeOK ==
  /\ file \in Snapshots
  /\ node \in BOOLEAN
  /\ lock \in Procs \cup {"free"}
  /\ pc \in [Procs -> {"idle", "trying", "read"}]
  /\ scope \in [Procs -> Scopes]
  /\ outcome \in [Procs -> Results]
  /\ seen \in [Procs -> Snapshots]
  /\ late \in [Procs -> 0..MaxLate]
  /\ Len(file.buckets) <= MaxScopes
  /\ \A i, j \in DOMAIN file.buckets : 
       i # j => file.buckets[i].app # file.buckets[j].app

\* refresh_fuse_capability_snapshot: everything counted is forgotten.
Refreshed == [Fresh EXCEPT !.cap = IF node THEN "unknown" ELSE "unavailable"]

NoFails == [a \in Apps |-> 0]

Init ==
  /\ node \in BOOLEAN
  /\ file = Refreshed
  /\ lock = "free"
  /\ pc = [p \in Procs |-> "idle"]
  /\ scope = [p \in Procs |-> Host]
  /\ outcome = [p \in Procs |-> "teardown"]
  /\ seen = [p \in Procs |-> Fresh]
  /\ late = [p \in Procs |-> 0]
  /\ fails = NoFails
  /\ failed = {}
  /\ total = NoFails
  /\ unlocked = FALSE
  /\ trouble = 0

-----------------------------------------------------------------------------
(* The gate *)

Plus(n) == IF n < MaxCount THEN n + 1 ELSE n
Least(m, n) == IF m < n THEN m ELSE n

BucketsOf(s, a) == {i \in DOMAIN s.buckets : s.buckets[i].app = a}

\* scope_budget_exhausted for good: without the retry window.
BudgetExhaustedForGood(s, a) ==
  \E i \in BucketsOf(s, a) : s.buckets[i].count >= Budget

\* scope_budget_exhausted: the budget is used up and the window not over.
BudgetExhausted(s, a) ==
  \E i \in BucketsOf(s, a) : s.buckets[i].count >= Budget /\ s.buckets[i].left > 0

\* scoped_mount_allowed_for_scope, automatic mode, snapshot present.
Allowed(a) ==
  /\ ~BudgetExhausted(file, a)
  /\ file.cap = "unavailable" => file.retry = 0

-----------------------------------------------------------------------------
(* An attempt *)

\* An application is let through the gate.
Try(p, a) ==
  /\ pc[p] = "idle"
  /\ Allowed(a)
  /\ pc' = [pc EXCEPT ![p] = "trying"]
  /\ scope' = [scope EXCEPT ![p] = a]
  /\ UNCHANGED <<file, node, lock, outcome, seen, late, hist, trouble>>

\* A host session is up, or is found alive when an attachment failed on the
\* side of its target: always a success.
HostReady(p) ==
  /\ pc[p] = "idle" /\ node
  /\ pc' = [pc EXCEPT ![p] = "trying"]
  /\ scope' = [scope EXCEPT ![p] = Host]
  /\ UNCHANGED <<file, node, lock, outcome, seen, late, hist, trouble>>

\* How an attempt can end: without the device it cannot succeed.  A session that is
\* up may also fail to be taken down later.
Outcomes(p) == IF scope[p] = Host THEN {"ok", "teardown"}
               ELSE {"failed"} \cup (IF node THEN {"ok"} ELSE {})

Forgets(p) ==
  /\ pc' = [pc EXCEPT ![p] = "idle"]
  /\ scope' = [scope EXCEPT ![p] = Host]
  /\ outcome' = [outcome EXCEPT ![p] = "teardown"]
  /\ seen' = [seen EXCEPT ![p] = Fresh]

-----------------------------------------------------------------------------
(* Recording a result *)

\* The lock is not waited for.
HoldsLockNever(p) == lock' = lock

\* CapabilitySnapshotLock::acquire
HoldsLock(p) == lock = "free" /\ lock' = p

\* The attempt has ended and its result is to be recorded: under the lock or, when
\* the lock file cannot be opened or locked, without it.
Acquire(p) ==
  /\ pc[p] = "trying"
  /\ \E o \in Outcomes(p) : outcome' = [outcome EXCEPT ![p] = o]
  /\ \/ HoldsLock(p) /\ UNCHANGED <<fails, failed, unlocked, trouble>>
     \/ trouble < MaxTrouble /\ trouble' = trouble + 1
        /\ unlocked' = TRUE /\ fails' = NoFails /\ failed' = {} /\ UNCHANGED lock
  /\ seen' = [seen EXCEPT ![p] = file]
  /\ pc' = [pc EXCEPT ![p] = "read"]
  /\ UNCHANGED <<file, node, scope, late, total>>

Others(s, a) == SelectSeq(s.buckets, LAMBDA b : b.app # a)

CountOf(s, a) ==
  IF BucketsOf(s, a) = {} THEN 0
  ELSE s.buckets[CHOOSE i \in BucketsOf(s, a) : TRUE].count

\* bump_scope_failure: latest failure first, over the limit the oldest go.
Bumped(s, a) ==
  LET all == <<[app |-> a, count |-> Plus(CountOf(s, a)), left |-> RetryWindow]>>
             \o Others(s, a)
  IN SubSeq(all, 1, Least(Len(all), MaxScopes))

\* retry_backoff_ms
Backoff(step) ==
  Least(BackoffBase * (IF step <= 1 THEN 1 ELSE 2 ^ Least(step - 1, 5)), BackoffMax)

AfterSuccess(s, a) ==
  [s EXCEPT !.cap = "available", !.dev = 0, !.last = "none",
            !.buckets = Others(s, a), !.retry = 0, !.step = 0]

\* Failures of the device in a row: one application failing again counts once.
FailuresInRow(s, a) == IF s.last # a THEN Plus(s.dev) ELSE s.dev

AfterFailure(s, a) ==
  LET dev == FailuresInRow(s, a)
      counted == [s EXCEPT !.dev = dev, !.last = a, !.buckets = Bumped(s, a)]
      step == Plus(s.step)
  IN IF dev >= MinScopes
     THEN [counted EXCEPT !.cap = "unavailable", !.step = step,
                          !.retry = Backoff(step)]
     ELSE [counted EXCEPT !.cap = "unknown", !.retry = 0]

\* The snapshot a recorder writes; the count of failed teardowns stops nobody.
Recorded(p) == CASE outcome[p] = "ok" -> AfterSuccess(seen[p], scope[p])
                 [] outcome[p] = "failed" -> AfterFailure(seen[p], scope[p])
                 [] outcome[p] = "teardown" -> seen[p]

\* What is known of the past: `fails` and `failed` only while everybody got the lock.
Counted(p) ==
  LET more(f) == [a \in Apps |-> IF a = scope[p] THEN Plus(f[a]) ELSE f[a]]
  IN CASE outcome[p] = "ok" ->
            /\ fails' = [a \in Apps |-> IF a = scope[p] THEN 0 ELSE fails[a]]
            /\ failed' = {} /\ UNCHANGED total
       [] outcome[p] = "failed" ->
            /\ fails' = IF unlocked THEN fails ELSE more(fails)
            /\ failed' = IF unlocked THEN failed ELSE failed \cup {scope[p]}
            /\ total' = more(total)
       [] outcome[p] = "teardown" -> UNCHANGED <<fails, failed, total>>

\* The copies the others hold are a write behind.
Outdates(p) ==
  LET reading == {q \in Procs \ {p} : pc[q] = "read"}
  IN /\ \A q \in reading : late[q] < MaxLate
     /\ late' = [q \in Procs |-> IF q = p THEN 0 ELSE IF q \in reading THEN late[q] + 1 ELSE late[q]]

\* write_fuse_capability_snapshot, which may fail, and the release of the lock.
Write(p) ==
  /\ pc[p] = "read"
  /\ \/ file' = Recorded(p) /\ Counted(p)
     \/ UNCHANGED <<file, fails, failed, total>>
  /\ lock' = IF lock = p THEN "free" ELSE lock
  /\ Forgets(p) /\ Outdates(p)
  /\ UNCHANGED <<node, unlocked, trouble>>

-----------------------------------------------------------------------------
(* The rest of the system *)

\* The daemon starts: the file is written anew, without the lock, or that fails.
Refresh ==
  /\ trouble < MaxTrouble
  /\ trouble' = trouble + 1
  /\ \/ file' = Refreshed /\ fails' = NoFails
     \/ UNCHANGED <<file, fails>>
  /\ UNCHANGED <<node, lock, pvars, failed, total, unlocked>>

\* An attempt ends without a result, or the process is killed; the kernel
\* releases its lock.
Killed(p) ==
  /\ pc[p] # "idle"
  /\ Forgets(p) /\ late' = [late EXCEPT ![p] = 0]
  /\ lock' = IF lock = p THEN "free" ELSE lock
  /\ UNCHANGED <<file, node, hist, trouble>>

Elapsed(n) == IF n > 0 THEN n - 1 ELSE 0

Older(s) == [s EXCEPT !.retry = Elapsed(@),
                      !.buckets = [i \in DOMAIN @ |->
                                     [@[i] EXCEPT !.left = Elapsed(@)]]]

Tick ==
  /\ file.retry > 0 \/ \E i \in DOMAIN file.buckets : file.buckets[i].left > 0
  /\ file' = Older(file)
  /\ seen' = [p \in Procs |-> Older(seen[p])]
  /\ UNCHANGED <<node, lock, pc, scope, outcome, late, hist, trouble>>

Next ==
  \/ \E p \in Procs : \/ \E a \in Apps : Try(p, a)
                      \/ HostReady(p) \/ Acquire(p) \/ Write(p) \/ Killed(p)
  \/ Refresh \/ Tick

Spec == Init /\ [][Next]_vars

\* Time passes.  Nobody needs to try, and a recorder may be slow for ever.
Fairness == WF_vars(Tick)

LiveSpec == Spec /\ Fairness

-----------------------------------------------------------------------------
(* Properties *)

\* One application that fails again and again does not close the gate for the
\* others: the device is given up only once different applications have failed
\* with no success recorded between (config.rs, DEVICE_UNAVAILABLE_MIN_SCOPES).
DeviceNeedsMany == file.dev >= MinScopes => Cardinality(failed) >= MinScopes

\* Concurrent recorders lose no failure: an application in the list carries at
\* least the failures recorded for it since its last success.
NoFailureLost ==
  \A i \in DOMAIN file.buckets :
    file.buckets[i].app \in Apps =>
      file.buckets[i].count >= fails[file.buckets[i].app]

\* Whatever overlaps without the lock, and whichever write fails, nobody is charged
\* with a failure that did not happen, and the device is given up only if enough
\* different applications have failed.
NothingInvented ==
  /\ \A i \in DOMAIN file.buckets :
       file.buckets[i].app \in Apps => file.buckets[i].count <= total[file.buckets[i].app]
  /\ file.dev >= MinScopes => Cardinality({a \in Apps : total[a] > 0}) >= MinScopes

\* The lock is what the precision of the counts rests on, and nothing else
\* (record_fuse_capability_result): both counts are exact as long as everybody got it.
CountsKept == NothingInvented /\ (~unlocked => DeviceNeedsMany /\ NoFailureLost)

\* Nobody is shut out for good, by his own failures or by those of others.
AdmittedAgain == \A a \in Apps : []<>Allowed(a)

=============================================================================
