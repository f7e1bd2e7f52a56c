---------------------------- MODULE Supervision ----------------------------
(* The recovery decision of the root daemon: mount_identity.rs compares the *)
(* identity ledger of one application process with the live mount table,    *)
(* fuse_supervisor.rs turns the verdicts into one action for the namespace. *)
(* Everything here is a pure operator; MountRecovery drives it.             *)
EXTENDS Naturals

\* No mount at a path, and the absence of a current mount namespace.
NoLayer == [id |-> 0, kind |-> "none", dev |-> 0, src |-> "none"]
NoNamespace == 0

\* mounts is the set of recorded identities [target, id, dev] of a ledger.
RecordedAt(mounts, t) == {m \in mounts : m.target = t}

(* classify_mount: ownership is proved before anything is touched.  A ledger *)
(* of another process instance or namespace is stale; an unrecorded or empty *)
(* mount point is detached; only the same mount id on the same superblock is *)
(* owned.                                                                    *)
ClassifyMount(led, t, live, currentNs, targetIsCurrent) ==
    IF ~targetIsCurrent \/ currentNs = NoNamespace \/ currentNs # led.ns
        THEN "stale"
    ELSE IF RecordedAt(led.mounts, t) = {} \/ live = NoLayer
        THEN "detached"
    ELSE IF \E m \in RecordedAt(led.mounts, t) : m.id = live.id /\ m.dev = live.dev
        THEN "owned"
    ELSE "superseded"

\* plan_recovery with normalize_for_health folded in: convergence (poisoned)
\* outranks every verdict, and an absent endpoint needs no detach.
PlanRecovery(verdict, health, poisoned) ==
    IF poisoned THEN "poisoned"
    ELSE CASE verdict = "stale" -> "drop"
           [] verdict = "superseded" -> "superseded"
           [] verdict = "detached" -> "reinject"
           [] verdict = "owned" -> IF health = "missing" THEN "reinject" ELSE "detach"

\* severity: the higher, the more conservative.
Severity == [reinject |-> 0, detach |-> 1, superseded |-> 2, drop |-> 3, poisoned |-> 4]

\* aggregate_actions: one action for the whole namespace.
AggregateActions(actions) ==
    CHOOSE a \in actions : \A b \in actions : Severity[b] <= Severity[a]

\* RecoveryAction::allows_inject.
AllowsInject(action) == action \in {"detach", "reinject", "drop"}

=============================================================================
