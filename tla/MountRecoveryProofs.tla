------------------------ MODULE MountRecoveryProofs ------------------------
(* What TLAPS establishes about MountRecovery for every set of targets, every *)
(* configuration and every bound: type correctness, the refusal of a poisoned *)
(* slot, and that only the module's own layers are unmounted.                 *)
EXTENDS MountRecovery, TLAPS, SequenceTheorems, FiniteSetTheorems

-----------------------------------------------------------------------------
(* Mount table and superblock history.                                       *)

\* A prefix of a sequence is a sequence over the same set.
LEMMA PrefixType ==
    ASSUME NEW S, NEW s \in Seq(S), NEW k \in Nat
    PROVE  SubSeq(s, 1, Len(s) - k) \in Seq(S)
<1>1. Len(s) - k \in Int /\ \A i \in 1 .. Len(s) - k : s[i] \in S
  OBVIOUS
<1> QED BY <1>1, SubSeqProperties

\* Unmounting one layer of a stack (umount2) leaves a stack.
LEMMA PopType ==
    ASSUME NEW s \in Seq(Layer)
    PROVE  Pop(s) \in Seq(Layer)
BY PrefixType DEF Pop

\* A path shows one layer or none (topmost_live_mount).
LEMMA TopmostType ==
    ASSUME stack \in StackType, NEW n \in 1 .. MaxInst, NEW t \in Targets
    PROVE  /\ Topmost(n, t) \in Layer \cup {NoLayer}
           /\ Topmost(n, t) # NoLayer => stack[n][t] # <<>>
<1>1. stack[n][t] \in Seq(Layer)
  BY DEF StackType
<1>2. CASE stack[n][t] = <<>>
  BY <1>2 DEF Topmost, TopOf
<1>3. CASE stack[n][t] # <<>>
  <2>1. Len(stack[n][t]) \in 1 .. Len(stack[n][t])
    BY <1>1, <1>3, EmptySeq
  <2> QED BY <1>1, <1>3, <2>1, ElementOfSeq DEF Topmost, TopOf
<1> QED BY <1>2, <1>3

\* Mounting a layer (mount, move_mount) keeps the mount table well formed.
LEMMA PushType ==
    ASSUME stack \in StackType, NEW n \in 1 .. MaxInst, NEW t \in Targets, NEW l \in Layer
    PROVE  Push(n, t, l) \in StackType
<1>1. Append(stack[n][t], l) \in Seq(Layer)
  BY AppendProperties DEF StackType
<1> QED BY <1>1 DEF Push, StackType

\* Unmounting the visible layer of a path keeps the mount table well formed.
LEMMA PopAtType ==
    ASSUME stack \in StackType, NEW n \in 1 .. MaxInst, NEW t \in Targets
    PROVE  PopAt(n, t) \in StackType
<1>1. Pop(stack[n][t]) \in Seq(Layer)
  BY PopType DEF StackType
<1> QED BY <1>1 DEF PopAt, StackType

\* The kernel's free mount ids are mount ids.
LEMMA FreshType == FreshIds \subseteq MountIds /\ FreeIds \subseteq MountIds
BY DEF FreshIds, FreeIds

\* remember_module_fuse_devs adds nothing to the history but what it is told.
LEMMA RememberedType ==
    ASSUME NEW D \in SUBSET Devs, NEW h \in Seq(D), NEW devs \in SUBSET D
    PROVE  Remembered(h, devs) \subseteq Seq(D)
<1>1. ASSUME NEW s \in Arrangements(devs \ Entries(h))
      PROVE  Newest(h \o s) \in Seq(D)
  <2>1. IsFiniteSet(devs \ Entries(h))
    <3>1. IsFiniteSet(Devs)
      BY FS_Interval, ConstantsAssumption DEF Devs
    <3> QED BY <3>1, FS_Subset
  <2>2. Cardinality(devs \ Entries(h)) \in Nat
    BY <2>1, FS_CardinalityType
  <2>3. s \in [1 .. Cardinality(devs \ Entries(h)) -> D]
    BY DEF Arrangements
  <2>4. s \in Seq(D)
    <3>1. Seq(D) = UNION {[1 .. n -> D] : n \in Nat}
      BY SeqDef
    <3> QED BY <2>2, <2>3, <3>1, Zenon
  <2>5. h \o s \in Seq(D)
    BY <2>4, ConcatProperties
  <2>6. CASE Len(h \o s) > KnownDevsLimit
    <3>1. /\ Len(h \o s) \in Nat /\ KnownDevsLimit \in Nat
          /\ \A i \in Len(h \o s) - KnownDevsLimit + 1 .. Len(h \o s) : (h \o s)[i] \in D
      BY <2>5, <2>6, ConstantsAssumption, LenProperties, ElementOfSeq
    <3> QED BY <2>6, <3>1, SubSeqProperties DEF Newest
  <2> QED BY <2>5, <2>6 DEF Newest
<1> QED BY <1>1 DEF Remembered

\* What the module calls its own superblocks are superblocks.
LEMMA KnownDevsType ==
    ASSUME TypeOK
    PROVE  KnownDevs \subseteq Devs /\ LedgerFuseDevs(ledger) \subseteq Devs
<1>1. Entries(hist) \subseteq Devs
  BY ElementOfSeq DEF TypeOK, DiskOK, Entries
<1>2. LedgerFuseDevs(ledger) \subseteq Devs
  BY DEF TypeOK, DiskOK, LedgerType, LedgerFuseDevs, Identity
<1>3. CurrentHostDev \subseteq Devs
  BY ConstantsAssumption DEF TypeOK, WorldOK, CurrentHostDev, HostDev, Devs
<1> QED BY <1>1, <1>2, <1>3 DEF KnownDevs

-----------------------------------------------------------------------------
(* Type correctness: one lemma per phase of the worker.                     *)

\* The constants, in the form the steps below use.
LEMMA ConstantFacts ==
    /\ AttachRoot \in Targets /\ UserRoot \in Targets
    /\ AliasRoots \subseteq Targets /\ PrivateDirs \subseteq Targets
    /\ Configs \subseteq Request /\ Configs # {}
    /\ MaxInst \in Nat \ {0} /\ MaxHostGen \in Nat /\ MaxDetachAttempts \in Nat \ {0}
BY ConstantsAssumption

\* The worker's variables in range: what EndRound establishes.
LEMMA EndRoundType == EndRound => WorkerOK'
BY ConstantFacts DEF EndRound, WorkerOK, PCs

\* The empty ledger and the absent state file are well formed.
LEMMA NothingRecordedType == NoLedger \in LedgerType /\ NoState \in StateType
BY ConstantFacts DEF NoLedger, NoState, LedgerType, StateType

\* A fresh namespace shows its base at the view root and nothing elsewhere.
LEMMA FreshStackType ==
    ASSUME NEW base \in Seq(Layer)
    PROVE  FreshStack(base) \in [Targets -> Seq(Layer)]
<1>1. <<>> \in Seq(Layer)
  BY EmptySeq
<1> QED BY <1>1 DEF FreshStack

\* The initial state is in range.
LEMMA InitType == Init => TypeOK
<1> SUFFICES ASSUME Init PROVE TypeOK
  OBVIOUS
<1>1. stack \in StackType
  BY EmptySeq, FreshStackType DEF Init, StackType
<1>2. DiskOK
  BY EmptySeq, NothingRecordedType DEF Init, DiskOK
<1>3. WorldOK
  <2>1. ~alive /\ ~hostUp /\ alive \in BOOLEAN /\ hostUp \in BOOLEAN
    BY Zenon DEF Init
  <2>2. inst \in 0 .. MaxInst /\ hostGen \in 0 .. MaxHostGen /\ cfg \in Configs
    BY ConstantFacts DEF Init
  <2> QED BY <2>1, <2>2 DEF WorldOK
<1>4. WorkerOK
  BY ConstantFacts DEF Init, IdleWorker, WorkerOK, PCs
<1> QED BY <1>1, <1>2, <1>3, <1>4 DEF TypeOK

\* Planning and supervision (ReconcilePlan::new, supervise_mount_request, set_mount_namespace).
LEMMA PlanningType == TypeOK /\ (BuildPlan \/ Supervise \/ EnterNamespace) => TypeOK'
<1> SUFFICES ASSUME TypeOK, BuildPlan \/ Supervise \/ EnterNamespace PROVE TypeOK'
  OBVIOUS
<1> USE DEF TypeOK
<1>1. CASE BuildPlan
  BY <1>1 DEF BuildPlan, WorldOK, DiskOK, WorkerOK, PCs, appVars, hostVars, diskVars
<1>2. CASE Supervise
  <2>1. ledger' \in {ledger, NoLedger}
    BY <1>2 DEF Supervise
  <2>2. DiskOK' /\ WorldOK' /\ stack' \in StackType
    BY <1>2, <2>1, NothingRecordedType DEF Supervise, DiskOK, WorldOK, appVars, hostVars
  <2>3. WorkerOK'
    <3>1. CASE EndRound
      BY <3>1, EndRoundType
    <3>2. CASE ~EndRound
      BY <1>2, <3>2 DEF Supervise, WorkerOK, PCs
    <3> QED BY <3>1, <3>2
  <2> QED BY <2>2, <2>3
<1>3. CASE EnterNamespace
  <2>1. ClearTargets(req) \subseteq Targets
    <3>1. req.overlay \subseteq Targets
      BY ConstantFacts DEF WorkerOK, Request, NoRequest
    <3> QED BY <3>1, ConstantFacts DEF ClearTargets, DiskOK, LedgerType, StateType, Identity
  <2>2. DiskOK' /\ WorldOK' /\ stack' \in StackType
    BY <1>3 DEF EnterNamespace, DiskOK, WorldOK, appVars, hostVars, diskVars
  <2>3. WorkerOK'
    <3>1. CASE alive
      BY <1>3, <2>1, <3>1 DEF EnterNamespace, WorkerOK, WorldOK, PCs
    <3>2. CASE ~alive
      BY <1>3, <3>2, EndRoundType DEF EnterNamespace
    <3> QED BY <3>1, <3>2
  <2> QED BY <2>2, <2>3
<1> QED BY <1>1, <1>2, <1>3

\* Finishing a target keeps the outcome of clearing a truth value.
LEMMA FinishTargetType ==
    ASSUME NEW ok, FinishTarget(ok)
    PROVE  cleared' \in BOOLEAN
<1>1. cleared' = (cleared /\ ok)
  BY DEF FinishTarget
<1> QED BY <1>1, Zenon

\* Clearing what the previous round left (clear_previous_mounts).
LEMMA ClearType == TypeOK /\ ClearStep => TypeOK'
<1> SUFFICES ASSUME TypeOK, ClearStep PROVE TypeOK'
  OBVIOUS
<1> USE DEF TypeOK
<1>1. CASE ClearNextTarget
  <2>1. WorkerOK'
    BY <1>1, KnownDevsType DEF ClearNextTarget, Deepest, WorkerOK, PCs
  <2> QED BY <1>1, <2>1 DEF ClearNextTarget, WorldOK, DiskOK, appVars, hostVars, diskVars
<1>2. CASE InspectTarget
  <2>1. cleared' \in BOOLEAN
    BY <1>2, FinishTargetType DEF InspectTarget, WorkerOK
  <2>2. WorkerOK'
    BY <1>2, <2>1 DEF InspectTarget, FinishTarget, WorkerOK, PCs
  <2> QED BY <1>2, <2>2 DEF InspectTarget, WorldOK, DiskOK, appVars, hostVars, diskVars
<1>3. CASE UmountTarget
  <2>1. ns \in 1 .. MaxInst /\ cur \in Targets
    BY <1>3 DEF UmountTarget, WorkerOK
  <2>2. stack' \in StackType
    BY <1>3, <2>1, PopAtType DEF UmountTarget
  <2>3. cleared' \in BOOLEAN
    BY <1>3, FinishTargetType DEF UmountTarget, WorkerOK
  <2>4. WorkerOK'
    BY <1>3, <2>3 DEF UmountTarget, FinishTarget, WorkerOK, PCs
  <2> QED BY <1>3, <2>2, <2>4 DEF UmountTarget, WorldOK, DiskOK, appVars, hostVars, diskVars
<1>4. CASE SettleClear
  <2>1. WorkerOK'
    BY <1>4 DEF SettleClear, WorkerOK, PCs
  <2> QED BY <1>4, <2>1, NothingRecordedType DEF SettleClear, WorldOK, DiskOK, appVars, hostVars
<1>5. CASE ForgetLedger
  <2>1. WorkerOK'
    BY <1>5 DEF ForgetLedger, WorkerOK, PCs
  <2> QED BY <1>5, <2>1, NothingRecordedType DEF ForgetLedger, WorldOK, DiskOK, appVars, hostVars
<1>6. CASE SweepUnrecorded
  <2>1. ASSUME NEW s \in Seq(Layer)
        PROVE  SubSeq(s, 1, Len(s) - Leftovers(s)) \in Seq(Layer)
    <3>1. IsFiniteSet(1 .. Len(s))
      BY FS_Interval
    <3>2. IsFiniteSet({i \in 1 .. Len(s) : SweepShape(s[i])})
      BY <3>1, FS_Subset
    <3>3. Leftovers(s) \in Nat
      BY <3>2, FS_CardinalityType DEF Leftovers
    <3> QED BY <3>3, PrefixType
  <2>2. ns \in 1 .. MaxInst
    BY <1>6 DEF SweepUnrecorded, WorkerOK
  <2>3. PICK failed \in SUBSET MayFail :
            stack' = [stack EXCEPT ![ns] = [t \in Targets |->
                        IF t \in failed THEN @[t]
                        ELSE SubSeq(@[t], 1, Len(@[t]) - Leftovers(@[t]))]]
    BY <1>6 DEF SweepUnrecorded
  <2>4. ASSUME NEW t \in Targets
        PROVE  (IF t \in failed THEN stack[ns][t]
                ELSE SubSeq(stack[ns][t], 1, Len(stack[ns][t]) - Leftovers(stack[ns][t]))) \in Seq(Layer)
    BY <2>1, <2>2 DEF StackType
  <2>5. stack' \in StackType
    BY <2>2, <2>3, <2>4 DEF StackType
  <2>6. state' \in {state, NoState} /\ ledger' \in {ledger, NoLedger} /\ cleared' \in BOOLEAN
    BY <1>6 DEF SweepUnrecorded
  <2>7. WorkerOK'
    BY <1>6, <2>6 DEF SweepUnrecorded, WorkerOK, PCs
  <2> QED BY <1>6, <2>5, <2>6, <2>7, NothingRecordedType DEF SweepUnrecorded, WorldOK, DiskOK, appVars, hostVars
<1>7. CASE DecideAfterClear
  <2>1. [ledger EXCEPT !.attempts = @ + 1] \in LedgerType
    BY DEF DiskOK, LedgerType
  <2>2. LedgerFuseDevs([ledger EXCEPT !.attempts = @ + 1]) \subseteq Devs
    BY <2>1 DEF LedgerFuseDevs, LedgerType, Identity
  <2>3. hist' \in Seq(Devs)
    BY <1>7, <2>2, RememberedType DEF DecideAfterClear, DiskOK
  <2>4. ledger' \in LedgerType
    BY <1>7, <2>1, NothingRecordedType DEF DecideAfterClear, DiskOK
  <2>5. WorkerOK'
    <3>1. CASE EndRound
      BY <3>1, EndRoundType
    <3>2. CASE ~EndRound
      BY <1>7, <3>2 DEF DecideAfterClear, WorkerOK, PCs
    <3> QED BY <3>1, <3>2
  <2> QED BY <1>7, <2>3, <2>4, <2>5 DEF DecideAfterClear, WorldOK, DiskOK, appVars, hostVars
<1> QED BY <1>1, <1>2, <1>3, <1>4, <1>5, <1>6, <1>7 DEF ClearStep

\* The host layer of a round is a layer.
LEMMA HostLayerType ==
    ASSUME TypeOK, NEW i \in FreshIds
    PROVE  HostLayer(i) \in Layer
<1>1. HostDev(via) \in Devs
  BY ConstantFacts DEF TypeOK, WorkerOK, HostDev, Devs
<1> QED BY <1>1, FreshType DEF HostLayer, Layer, ModuleKinds

\* Attaching the shared host (attach_app_to_host, host_attach_child_main, aliases).
LEMMA AttachType == TypeOK /\ AttachStep => TypeOK'
<1> SUFFICES ASSUME TypeOK, AttachStep PROVE TypeOK'
  OBVIOUS
<1> USE DEF TypeOK
<1>1. CASE ReuseHost
  <2>1. WorkerOK'
    BY <1>1, ConstantFacts DEF ReuseHost, WorkerOK, WorldOK, PCs
  <2> QED BY <1>1, <2>1 DEF ReuseHost, WorldOK, DiskOK, appVars, hostVars, diskVars
<1>2. CASE SkipHost
  <2>1. WorkerOK'
    BY <1>2, ConstantFacts DEF SkipHost, WorkerOK, PCs
  <2> QED BY <1>2, <2>1 DEF SkipHost, WorldOK, DiskOK, appVars, hostVars, diskVars
<1>3. CASE StartAttach
  <2>1. WorkerOK'
    BY <1>3 DEF StartAttach, WorkerOK, WorldOK, PCs
  <2> QED BY <1>3, <2>1 DEF StartAttach, WorldOK, DiskOK, appVars, hostVars, diskVars
<1>4. CASE ReplaceTop
  <2>1. ns \in 1 .. MaxInst
    BY <1>4 DEF ReplaceTop, WorkerOK
  <2>2. stack' \in StackType
    BY <1>4, <2>1, PopAtType, ConstantFacts DEF ReplaceTop
  <2>3. Clones(Topmost(ns, AttachRoot)) \subseteq Layer \cup {NoLayer, LostClone}
    BY <2>1, TopmostType, ConstantFacts DEF Clones
  <2>4. backup' \in Layer \cup {NoLayer, LostClone}
    BY <1>4, <2>3 DEF ReplaceTop, WorkerOK
  <2>5. WorkerOK'
    BY <1>4, <2>4, ConstantFacts DEF ReplaceTop, AttachFailed, WorkerOK, PCs
  <2> QED BY <1>4, <2>2, <2>5 DEF ReplaceTop, WorldOK, DiskOK, appVars, hostVars, diskVars
<1>5. CASE MoveMount
  <2>1. ns \in 1 .. MaxInst
    BY <1>5 DEF MoveMount, WorkerOK
  <2>2. ASSUME Restores, NEW i \in FreshIds
        PROVE  [backup EXCEPT !.id = i] \in Layer
    BY <2>2, FreshType DEF Restores, WorkerOK, Layer
  <2>3. stack' \in StackType
    <3>1. CASE \E i \in FreshIds : stack' = Push(ns, AttachRoot, HostLayer(i))
      BY <2>1, <3>1, HostLayerType, PushType, ConstantFacts
    <3>2. CASE Restores /\ \E i \in FreshIds : stack' = Push(ns, AttachRoot, [backup EXCEPT !.id = i])
      BY <2>1, <2>2, <3>2, PushType, ConstantFacts
    <3>3. CASE UNCHANGED stack
      BY <3>3
    <3> QED BY <1>5, <3>1, <3>2, <3>3 DEF MoveMount
  <2>4. WorkerOK'
    BY <1>5, ConstantFacts DEF MoveMount, AttachFailed, WorkerOK, PCs
  <2> QED BY <1>5, <2>3, <2>4 DEF MoveMount, WorldOK, DiskOK, appVars, hostVars, diskVars
<1>6. CASE AttachTimesOut
  <2>1. WorkerOK'
    BY <1>6, ConstantFacts DEF AttachTimesOut, AttachFailed, WorkerOK, PCs
  <2> QED BY <1>6, <2>1 DEF AttachTimesOut, WorldOK, DiskOK, appVars, hostVars, diskVars
<1>7. CASE AttachAlias
  <2>1. ns \in 1 .. MaxInst
    BY <1>7 DEF AttachAlias, WorkerOK
  <2>2. PICK t \in todo :
            /\ todo' \in {todo, todo \ {t}}
            /\ \/ UNCHANGED stack
               \/ stack' = PopAt(ns, t)
               \/ \E i \in FreshIds : stack' = Push(ns, t, HostLayer(i))
    BY <1>7 DEF AttachAlias
  <2>3. t \in Targets
    BY DEF WorkerOK
  <2>4. stack' \in StackType
    BY <2>1, <2>2, <2>3, HostLayerType, PushType, PopAtType
  <2>5. WorkerOK'
    BY <1>7, <2>2 DEF AttachAlias, WorkerOK
  <2> QED BY <1>7, <2>4, <2>5 DEF AttachAlias, WorldOK, DiskOK, appVars, hostVars, diskVars
<1>8. CASE FinishAttach
  <2>1. WorkerOK'
    BY <1>8 DEF FinishAttach, WorkerOK, PCs
  <2> QED BY <1>8, <2>1 DEF FinishAttach, WorldOK, DiskOK, appVars, hostVars, diskVars
<1> QED BY <1>1, <1>2, <1>3, <1>4, <1>5, <1>6, <1>7, <1>8 DEF AttachStep

\* A round's ledger is well formed (record_mount_identity).
LEMMA NewLedgerType ==
    ASSUME TypeOK, ns \in 1 .. MaxInst
    PROVE  NewLedger \in LedgerType /\ LedgerFuseDevs(NewLedger) \subseteq Devs
<1>1. ASSUME NEW t \in done, Topmost(ns, t) # NoLayer
      PROVE  [target |-> t, id |-> Topmost(ns, t).id, dev |-> Topmost(ns, t).dev] \in Identity
  <2>1. Topmost(ns, t) \in Layer
    BY <1>1, TopmostType DEF TypeOK, WorkerOK
  <2> QED BY <2>1 DEF Layer, Identity, TypeOK, WorkerOK
<1>2. Captured \subseteq Identity
  BY <1>1 DEF Captured
<1>3. NewLedger \in LedgerType
  BY <1>2, ConstantFacts DEF NewLedger, LedgerType, TypeOK, WorldOK, WorkerOK
<1>4. LedgerFuseDevs(NewLedger) \subseteq Devs
  BY <1>2 DEF LedgerFuseDevs, NewLedger, Identity
<1> QED BY <1>3, <1>4

\* Binds, state file and ledger (apply_sdcard_redirect, write_mount_state, record_mount_identity).
LEMMA MountType == TypeOK /\ MountStep => TypeOK'
<1> SUFFICES ASSUME TypeOK, MountStep PROVE TypeOK'
  OBVIOUS
<1> USE DEF TypeOK
<1>1. CASE NoRulesShortCircuit
  BY <1>1, EndRoundType, NothingRecordedType DEF NoRulesShortCircuit, WorldOK, DiskOK, appVars, hostVars
<1>2. CASE StartBinds
  <2>1. req.binds \subseteq Targets
    BY ConstantFacts DEF WorkerOK, Request, NoRequest
  <2>2. WorkerOK'
    BY <1>2, <2>1 DEF StartBinds, WorkerOK, PCs
  <2> QED BY <1>2, <2>2 DEF StartBinds, WorldOK, DiskOK, appVars, hostVars, diskVars
<1>3. CASE BindTarget
  <2>1. ns \in 1 .. MaxInst
    BY <1>3 DEF BindTarget, WorkerOK
  <2>2. req.src \in Sources \cup {NoSource}
    BY ConstantFacts DEF WorkerOK, Request, NoRequest
  <2>3. BindDevs \subseteq Devs
    BY ConstantFacts DEF BindDevs, DiskDev, SystemDev, Devs
  <2>4. ASSUME NEW t \in Targets, NEW i \in FreshIds, NEW d \in BindDevs
        PROVE  BindLayer(t, i, d) \in Layer
    BY <2>2, <2>3, FreshType DEF BindLayer, BindKind, Layer, ModuleKinds
  <2>5. PICK t \in todo :
            /\ UNCHANGED stack \/ \E i \in FreshIds, d \in BindDevs : stack' = Push(ns, t, BindLayer(t, i, d))
            /\ todo' = todo \ {t} /\ done' = done \cup {t}
    BY <1>3 DEF BindTarget, Shallowest
  <2>6. stack' \in StackType
    BY <2>1, <2>4, <2>5, PushType DEF WorkerOK
  <2>7. WorkerOK'
    BY <1>3, <2>5 DEF BindTarget, WorkerOK
  <2> QED BY <1>3, <2>6, <2>7 DEF BindTarget, WorldOK, DiskOK, appVars, hostVars, diskVars
<1>4. CASE RepairParent
  <2>1. ns \in 1 .. MaxInst
    BY <1>4 DEF RepairParent, WorkerOK
  <2>2. PICK i \in FreshIds :
            stack' = [stack EXCEPT ![ns][AttachRoot] =
                        Append(Pop(@), [id |-> i, kind |-> "repair", dev |-> DiskDev, src |-> NoSource])]
    BY <1>4 DEF RepairParent
  <2>3. [id |-> i, kind |-> "repair", dev |-> DiskDev, src |-> NoSource] \in Layer
    BY FreshType, ConstantFacts DEF Layer, ModuleKinds, DiskDev, Devs
  <2>4. Append(Pop(stack[ns][AttachRoot]), [id |-> i, kind |-> "repair", dev |-> DiskDev, src |-> NoSource])
            \in Seq(Layer)
    BY <2>1, <2>3, PopType, AppendProperties, ConstantFacts DEF StackType
  <2>5. stack' \in StackType
    BY <2>1, <2>2, <2>4, ConstantFacts DEF StackType
  <2>6. WorkerOK'
    BY <1>4, ConstantFacts DEF RepairParent, WorkerOK
  <2> QED BY <1>4, <2>5, <2>6 DEF RepairParent, WorldOK, DiskOK, appVars, hostVars, diskVars
<1>5. CASE BindFails
  BY <1>5, EndRoundType DEF BindFails, WorldOK, DiskOK, appVars, hostVars, diskVars
<1>6. CASE FinishBinds
  <2>1. WorkerOK'
    BY <1>6 DEF FinishBinds, WorkerOK, PCs
  <2> QED BY <1>6, <2>1 DEF FinishBinds, WorldOK, DiskOK, appVars, hostVars, diskVars
<1>7. CASE SaveState
  <2>1. state' \in StateType
    BY <1>7, ConstantFacts DEF SaveState, StateType, WorkerOK, WorldOK
  <2>2. WorkerOK'
    BY <1>7 DEF SaveState, WorkerOK, PCs
  <2> QED BY <1>7, <2>1, <2>2 DEF SaveState, WorldOK, DiskOK, appVars, hostVars
<1>8. CASE RollBackRound
  <2>1. ns \in 1 .. MaxInst
    BY <1>8 DEF RollBackRound, WorkerOK
  <2>2. \A s \in Seq(Layer) : Pop(s) \in Seq(Layer)
    BY PopType
  <2>3. stack' \in StackType
    BY <1>8, <2>1, <2>2 DEF RollBackRound, StackType
  <2> QED BY <1>8, <2>3, EndRoundType DEF RollBackRound, WorldOK, DiskOK, appVars, hostVars, diskVars
<1>9. CASE RestorePrivate
  <2>1. ns \in 1 .. MaxInst
    BY <1>9 DEF RestorePrivate, WorkerOK
  <2>2. \A i \in FreshIds : SystemLayer(i, "private") \in Layer
    BY FreshType, ConstantFacts DEF SystemLayer, Layer, SystemKinds, SystemDev, Devs
  <2>3. stack' \in StackType
    BY <1>9, <2>1, <2>2, PushType, ConstantFacts DEF RestorePrivate
  <2> QED BY <1>9, <2>3 DEF RestorePrivate, WorldOK, DiskOK, WorkerOK, appVars, hostVars, diskVars, workVars
<1>10. CASE RecordIdentity
  <2>1. ns \in 1 .. MaxInst
    BY <1>10 DEF RecordIdentity, WorkerOK
  <2>2. DiskOK'
    BY <1>10, <2>1, NewLedgerType, RememberedType DEF RecordIdentity, DiskOK
  <2> QED BY <1>10, <2>2, EndRoundType DEF RecordIdentity, WorldOK, appVars, hostVars
<1> QED BY <1>1, <1>2, <1>3, <1>4, <1>5, <1>6, <1>7, <1>8, <1>9, <1>10 DEF MountStep

\* What happens around the worker.
LEMMA EnvironmentType == TypeOK /\ Environment => TypeOK'
<1> SUFFICES ASSUME TypeOK, Environment PROVE TypeOK'
  OBVIOUS
<1> USE DEF TypeOK
<1>1. CASE KillChild
  BY <1>1, EndRoundType DEF KillChild, WorldOK, DiskOK, appVars, hostVars, diskVars
<1>2. CASE StartApp
  <2>1. inst + 1 \in 1 .. MaxInst
    BY <1>2, ConstantFacts DEF StartApp, WorldOK
  <2>2. ASSUME NEW i \in FreeIds
        PROVE  SystemLayer(i, "system") \in Layer /\ BarrierLayer(i) \in Layer
    BY FreshType, ConstantFacts
       DEF SystemLayer, BarrierLayer, Layer, SystemKinds, ModuleKinds, SystemDev, DiskDev, Devs
  <2>3. FreshIds \subseteq FreeIds
    BY DEF FreshIds
  <2>4. PICK base \in Seq(Layer) : stack' = [stack EXCEPT ![inst + 1] = FreshStack(base)]
    <3>1. PICK i \in FreshIds :
            \/ stack' = [stack EXCEPT ![inst + 1] = FreshStack(<<SystemLayer(i, "system")>>)]
            \/ \E j \in FreeIds \ {i} :
                 stack' = [stack EXCEPT ![inst + 1] = FreshStack(<<SystemLayer(i, "system"), BarrierLayer(j)>>)]
      BY <1>2 DEF StartApp
    <3>2. <<SystemLayer(i, "system")>> \in Seq(Layer)
      BY <2>2, <2>3
    <3>3. \A j \in FreeIds : <<SystemLayer(i, "system"), BarrierLayer(j)>> \in Seq(Layer)
      BY <2>2, <2>3
    <3> QED BY <3>1, <3>2, <3>3
  <2>5. stack' \in StackType
    BY <2>1, <2>4, FreshStackType DEF StackType
  <2>6. WorldOK'
    BY <1>2, <2>1 DEF StartApp, WorldOK, hostVars
  <2> QED BY <1>2, <2>5, <2>6 DEF StartApp, DiskOK, WorkerOK, diskVars, workVars
<1>3. CASE ExitApp
  BY <1>3 DEF ExitApp, WorldOK, DiskOK, WorkerOK, hostVars, diskVars, workVars
<1>4. CASE StartHost
  <2>1. {HostDev(hostGen + 1)} \subseteq Devs /\ hostGen + 1 \in 0 .. MaxHostGen /\ hostGen + 1 > 0
    BY <1>4, ConstantFacts DEF StartHost, WorldOK, HostDev, Devs
  <2>2. DiskOK'
    BY <1>4, <2>1, RememberedType DEF StartHost, DiskOK
  <2>3. WorldOK'
    BY <1>4, <2>1 DEF StartHost, WorldOK, appVars
  <2> QED BY <1>4, <2>2, <2>3 DEF StartHost, WorkerOK, workVars
<1>5. CASE HostDies
  BY <1>5 DEF HostDies, WorldOK, DiskOK, WorkerOK, appVars, diskVars, workVars
<1>6. CASE ChangeConfig
  BY <1>6 DEF ChangeConfig, WorldOK, DiskOK, WorkerOK, appVars, hostVars, diskVars, workVars
<1>7. CASE PruneStale
  <2>1. DiskOK'
    BY <1>7, NothingRecordedType DEF PruneStale, DiskOK
  <2> QED BY <1>7, <2>1 DEF PruneStale, WorldOK, WorkerOK, appVars, hostVars, workVars
<1>8. CASE SystemMounts
  <2>1. inst \in 1 .. MaxInst
    BY <1>8 DEF SystemMounts, WorldOK
  <2>2. \A i \in FreshIds, k \in SystemKinds : SystemLayer(i, k) \in Layer
    BY FreshType, ConstantFacts DEF SystemLayer, Layer, SystemDev, Devs
  <2>3. stack' \in StackType
    BY <1>8, <2>1, <2>2, PushType DEF SystemMounts
  <2> QED BY <1>8, <2>3 DEF SystemMounts, WorldOK, DiskOK, WorkerOK, appVars, hostVars, diskVars, workVars
<1> QED BY <1>1, <1>2, <1>3, <1>4, <1>5, <1>6, <1>7, <1>8 DEF Environment

\* No step, a stuttering one included, leaves the ranges.
LEMMA StepType == TypeOK /\ [Next]_vars => TypeOK'
<1>1. TypeOK /\ UNCHANGED vars => TypeOK'
  BY DEF TypeOK, WorldOK, DiskOK, WorkerOK, vars, appVars, hostVars, diskVars, workVars
<1> QED BY <1>1, PlanningType, ClearType, AttachType, MountType, EnvironmentType DEF Next, WorkerStep

\* Type correctness, for every configuration of targets, requests, bounds and faults: a
\* child past set_mount_namespace names an existing namespace, a detached clone that is
\* mounted back is a real one, and nothing but devices enters the superblock history.
THEOREM TypeCorrect == Spec => []TypeOK
BY InitType, StepType, PTL DEF Spec

-----------------------------------------------------------------------------
(* A poisoned slot is refused.  PoisonStopsInjection says nothing of the steps *)
(* before injection, so it is not inductive: the invariant below extends it to *)
(* every step of the child.  Only the child's own decision can push the count  *)
(* over the budget, and then it ends the round; the gate lets no child start   *)
(* on a ledger over the budget.                                                *)

PoisonInv == TypeOK /\ (InChild => ~IsPoisoned(ledger))

\* A poisoned ledger aggregates to the poisoned action, whatever its mounts look like.
LEMMA PoisonedSupervision ==
    ASSUME NEW r, IsPoisoned(ledger)
    PROVE  ~AllowsInject(SupervisedAction(r))
<1>1. \A v, h : PlanRecovery(v, h, IsPoisoned(ledger)) = "poisoned"
  BY DEF PlanRecovery
<1>2. CASE ledger.mounts = {}
  BY <1>1, <1>2 DEF SupervisedAction, AllowsInject
<1>3. CASE ledger.mounts # {}
  <2>1. {PlanRecovery(ClassifyMount(ledger, m.target, Topmost(inst, m.target), CurrentNs, InstanceAlive(ledger.start)),
                      Probe(inst, m.target), IsPoisoned(ledger)) : m \in ledger.mounts} = {"poisoned"}
    BY <1>1, <1>3
  <2>2. AggregateActions({"poisoned"}) = "poisoned"
    BY DEF AggregateActions, Severity
  <2> QED BY <1>3, <2>1, <2>2 DEF SupervisedAction, AllowsInject
<1> QED BY <1>2, <1>3

\* The absent ledger is not poisoned: the budget is at least one failure.
LEMMA NoLedgerNotPoisoned == ~IsPoisoned(NoLedger)
BY ConstantFacts DEF IsPoisoned, NoLedger

\* A finished round has no child.
LEMMA EndRoundNotInChild == EndRound => ~InChild'
BY DEF EndRound, InChild

\* Every step of the system keeps a poisoned slot out of the child.
LEMMA PoisonStep == PoisonInv /\ [Next]_vars => PoisonInv'
<1> SUFFICES ASSUME PoisonInv, [Next]_vars PROVE (InChild => ~IsPoisoned(ledger))'
  BY StepType DEF PoisonInv
<1>1. CASE BuildPlan
  BY <1>1 DEF BuildPlan, InChild
<1>2. CASE Supervise
  <2>1. CASE ~EndRound
    <3>1. ~IsPoisoned(ledger)
      BY <1>2, <2>1, PoisonedSupervision, NoLedgerNotPoisoned DEF Supervise, HasLedger
    <3> QED BY <1>2, <3>1, NoLedgerNotPoisoned DEF Supervise
  <2> QED BY <2>1, EndRoundNotInChild
<1>3. CASE EnterNamespace
  BY <1>3, EndRoundNotInChild DEF EnterNamespace, PoisonInv, InChild, diskVars
<1>4. CASE ClearStep
  <2>1. CASE DecideAfterClear
    <3>1. CASE ~EndRound
      BY <2>1, <3>1, NoLedgerNotPoisoned DEF DecideAfterClear, GivesUp, PoisonInv, InChild
    <3> QED BY <3>1, EndRoundNotInChild
  <2>2. CASE ForgetLedger \/ SweepUnrecorded
    BY <2>2, NoLedgerNotPoisoned DEF ForgetLedger, SweepUnrecorded, PoisonInv, InChild
  <2>3. CASE ClearNextTarget \/ InspectTarget \/ UmountTarget \/ SettleClear
    BY <2>3 DEF ClearNextTarget, InspectTarget, UmountTarget, SettleClear, PoisonInv, InChild, diskVars
  <2> QED BY <1>4, <2>1, <2>2, <2>3 DEF ClearStep
<1>5. CASE AttachStep
  BY <1>5 DEF AttachStep, ReuseHost, SkipHost, StartAttach, ReplaceTop, MoveMount, AttachTimesOut, AttachAlias,
              FinishAttach, PoisonInv, InChild, diskVars
<1>6. CASE MountStep
  <2>1. CASE NoRulesShortCircuit \/ BindFails \/ RollBackRound \/ RecordIdentity
    BY <2>1, EndRoundNotInChild DEF NoRulesShortCircuit, BindFails, RollBackRound, RecordIdentity
  <2>2. CASE StartBinds \/ BindTarget \/ RepairParent \/ FinishBinds \/ SaveState \/ RestorePrivate
    BY <2>2 DEF StartBinds, BindTarget, RepairParent, FinishBinds, SaveState, RestorePrivate,
                PoisonInv, InChild, diskVars, workVars
  <2> QED BY <1>6, <2>1, <2>2 DEF MountStep
<1>7. CASE Environment
  <2>1. CASE KillChild
    BY <2>1, EndRoundNotInChild DEF KillChild
  <2>2. CASE PruneStale
    BY <2>2 DEF PruneStale, InChild, workVars
  <2>3. CASE StartApp \/ ExitApp \/ StartHost \/ HostDies \/ ChangeConfig \/ SystemMounts
    BY <2>3 DEF StartApp, ExitApp, StartHost, HostDies, ChangeConfig, SystemMounts,
                PoisonInv, InChild, diskVars, workVars
  <2> QED BY <1>7, <2>1, <2>2, <2>3 DEF Environment
<1>8. CASE UNCHANGED vars
  BY <1>8 DEF vars, PoisonInv, InChild, diskVars, workVars
<1> QED BY <1>1, <1>2, <1>3, <1>4, <1>5, <1>6, <1>7, <1>8 DEF Next, WorkerStep

\* Once record_detach_failure has used up MAX_DETACH_ATTEMPTS nothing is injected any
\* more, whatever fails and whoever is killed.
THEOREM PoisonRefused == Spec => []PoisonStopsInjection
<1>1. Init => PoisonInv
  BY InitType DEF Init, IdleWorker, PoisonInv, InChild
<1>2. PoisonInv => PoisonStopsInjection
  BY DEF PoisonInv, PoisonStopsInjection, Injecting, InChild
<1> QED BY <1>1, <1>2, PoisonStep, PTL DEF Spec

-----------------------------------------------------------------------------
(* The daemon unmounts by path, and mount ids, host sessions and processes     *)
(* change under it; still no layer of the system goes.  Proved under the       *)
(* conditions the runs show to be needed (see DetachesOwnLayersOnly in the     *)
(* README): nobody mounts between the look and the umount, and no bind source  *)
(* is on FUSE.                                                                 *)

\* No foreign mount inside the child's look-then-unmount windows, no bind of a FUSE
\* directory, and the restored private directories are not redirect targets.
QuietNamespace ==
    /\ ~Fault("window") /\ ~Fault("fusebind")
    /\ AttachRoot \notin PrivateDirs
    /\ \A c \in Configs : c.binds \cap PrivateDirs = {}

-----------------------------------------------------------------------------
(* The inductive invariant.                                                 *)

\* The system's layers, and only they, are on the system's FUSE.
LayerOK(l) == l.kind \in SystemKinds <=> l.dev = SystemDev
LayersOK(st) == \A n \in 1 .. MaxInst, t \in Targets : \A i \in 1 .. Len(st[n][t]) : LayerOK(st[n][t][i])
\* No record ever takes the system's superblock for one of the module's.
OwnDevs == Devs \ {SystemDev}
DevicesOK == hist \in Seq(OwnDevs) /\ known \subseteq OwnDevs /\ \A m \in ledger.mounts : m.dev \in OwnDevs
\* A namespace is empty until its process starts, and a child is only in an older one.
NamespacesOK ==
    /\ ns <= inst
    /\ \A n \in 1 .. MaxInst : n > inst => \A t \in Targets : stack[n][t] = <<>>
\* Where the round stands: a host to attach, and which targets it has mounted.
ProgressOK ==
    /\ pc \in {"attach", "move", "aliases"} => via > 0
    /\ pc = "aliases" => todo \subseteq AliasRoots /\ done = {AttachRoot}
    /\ pc = "fallback" => done = {}
    /\ pc \in {"bind", "save", "record"} => done \cap PrivateDirs = {}
    /\ pc = "bind" => todo \cap PrivateDirs = {}
\* The layer about to be unmounted, and those the round mounted, are the module's.
TopsOK ==
    /\ pc = "umount" => Topmost(ns, cur).kind \in ModuleKinds
    /\ pc \in {"aliases", "bind", "save", "record"} => \A t \in done : Topmost(ns, t).kind \in ModuleKinds
OwnInv == TypeOK /\ LayersOK(stack) /\ LayerOK(backup) /\ DevicesOK /\ NamespacesOK /\ ProgressOK /\ TopsOK

-----------------------------------------------------------------------------
(* Stacks.                                                                  *)

\* The positions of a stack are as many as its layers.
LEMMA IntervalSize ==
    ASSUME NEW n \in Nat
    PROVE  IsFiniteSet(1 .. n) /\ Cardinality(1 .. n) = n
<1>1. 1 \in Int /\ n \in Int
  OBVIOUS
<1>2. IsFiniteSet(1 .. n) /\ Cardinality(1 .. n) = IF 1 > n THEN 0 ELSE n - 1 + 1
  BY <1>1, FS_Interval
<1> QED BY <1>2

\* A prefix of a stack keeps its layers in place.
LEMMA PrefixProperties ==
    ASSUME NEW s \in Seq(Layer), NEW k \in Nat, k <= Len(s)
    PROVE  Len(SubSeq(s, 1, k)) = k /\ \A i \in 1 .. k : SubSeq(s, 1, k)[i] = s[i]
<1>1. \A i \in 1 .. k : s[i] \in Layer
  BY ElementOfSeq, LenProperties
<1>2. /\ Len(SubSeq(s, 1, k)) = IF 1 <= k THEN k - 1 + 1 ELSE 0
      /\ \A i \in 1 .. k - 1 + 1 : SubSeq(s, 1, k)[i] = s[1 + i - 1]
  BY <1>1, SubSeqProperties
<1>3. k - 1 + 1 = k /\ \A i \in 1 .. k : 1 + i - 1 = i
  OBVIOUS
<1> QED BY <1>2, <1>3

\* The layers below the one that goes stay as they are.
LEMMA PopProperties ==
    ASSUME NEW s \in Seq(Layer), s # <<>>
    PROVE  /\ Len(Pop(s)) = Len(s) - 1
           /\ \A i \in 1 .. Len(s) - 1 : Pop(s)[i] = s[i]
           /\ TopOf(s) = s[Len(s)] /\ Len(s) \in Nat \ {0}
<1>1. Len(s) \in Nat \ {0}
  BY EmptySeq
<1>2. /\ Len(SubSeq(s, 1, Len(s) - 1)) = Len(s) - 1
      /\ \A i \in 1 .. Len(s) - 1 : SubSeq(s, 1, Len(s) - 1)[i] = s[i]
  <2>1. Len(s) - 1 \in Nat /\ Len(s) - 1 <= Len(s)
    BY <1>1
  <2> QED BY <2>1, PrefixProperties
<1> QED BY <1>1, <1>2 DEF Pop, TopOf

\* The visible layer of a path is attributed like any other.
LEMMA TopmostOK ==
    ASSUME stack \in StackType, LayersOK(stack), NEW n \in 1 .. MaxInst, NEW t \in Targets
    PROVE  /\ LayerOK(Topmost(n, t))
           /\ Topmost(n, t) # NoLayer => (Topmost(n, t).kind \in ModuleKinds <=> Topmost(n, t).dev # SystemDev)
<1>1. stack[n][t] \in Seq(Layer)
  BY DEF StackType
<1>2. CASE stack[n][t] = <<>>
  BY <1>2 DEF Topmost, TopOf, NoLayer, LayerOK, SystemKinds, SystemDev
<1>3. CASE stack[n][t] # <<>>
  <2>1. Len(stack[n][t]) \in 1 .. Len(stack[n][t]) /\ Topmost(n, t) = stack[n][t][Len(stack[n][t])]
    BY <1>1, <1>3, PopProperties DEF Topmost
  <2>2. LayerOK(Topmost(n, t)) /\ Topmost(n, t) \in Layer
    BY <1>1, <2>1, ElementOfSeq DEF LayersOK
  <2> QED BY <2>2 DEF LayerOK, Layer, ModuleKinds, SystemKinds
<1> QED BY <1>2, <1>3

\* Mounting a layer: it is the visible one, everything else stays.
LEMMA PushProperties ==
    ASSUME stack \in StackType, NEW n \in 1 .. MaxInst, NEW t \in Targets, NEW l \in Layer
    PROVE  /\ Push(n, t, l)[n][t] = Append(stack[n][t], l)
           /\ TopOf(Push(n, t, l)[n][t]) = l
           /\ \A m \in 1 .. MaxInst, u \in Targets : m # n \/ u # t => Push(n, t, l)[m][u] = stack[m][u]
           /\ LayersOK(stack) /\ LayerOK(l) => LayersOK(Push(n, t, l))
           /\ \A m \in 1 .. MaxInst, u \in Targets : Len(Push(n, t, l)[m][u]) >= Len(stack[m][u])
<1>1. stack[n][t] \in Seq(Layer)
  BY DEF StackType
<1>2. Push(n, t, l)[n][t] = Append(stack[n][t], l)
  BY DEF Push, StackType
<1>3. /\ Len(Append(stack[n][t], l)) = Len(stack[n][t]) + 1 /\ Append(stack[n][t], l) # <<>>
      /\ Append(stack[n][t], l)[Len(stack[n][t]) + 1] = l
      /\ \A i \in 1 .. Len(stack[n][t]) : Append(stack[n][t], l)[i] = stack[n][t][i]
      /\ Len(stack[n][t]) \in Nat
  BY <1>1, AppendProperties, LenProperties
<1>4. TopOf(Push(n, t, l)[n][t]) = l
  BY <1>2, <1>3 DEF TopOf
<1>5. \A m \in 1 .. MaxInst, u \in Targets : m # n \/ u # t => Push(n, t, l)[m][u] = stack[m][u]
  BY DEF Push, StackType
<1>6. ASSUME LayersOK(stack), LayerOK(l), NEW m \in 1 .. MaxInst, NEW u \in Targets,
             NEW i \in 1 .. Len(Push(n, t, l)[m][u])
      PROVE  LayerOK(Push(n, t, l)[m][u][i])
  <2>1. CASE m = n /\ u = t
    <3>1. CASE i = Len(stack[n][t]) + 1
      BY <1>2, <1>3, <1>6, <2>1, <3>1
    <3>2. CASE i # Len(stack[n][t]) + 1
      <4>1. i \in 1 .. Len(stack[n][t])
        BY <1>2, <1>3, <2>1, <3>2
      <4> QED BY <1>2, <1>3, <1>6, <2>1, <4>1 DEF LayersOK
    <3> QED BY <3>1, <3>2
  <2>2. CASE m # n \/ u # t
    BY <1>5, <1>6, <2>2 DEF LayersOK
  <2> QED BY <2>1, <2>2
<1>7. \A m \in 1 .. MaxInst, u \in Targets : Len(Push(n, t, l)[m][u]) >= Len(stack[m][u])
  <2> SUFFICES ASSUME NEW m \in 1 .. MaxInst, NEW u \in Targets
               PROVE  Len(Push(n, t, l)[m][u]) >= Len(stack[m][u])
    OBVIOUS
  <2>1. Len(stack[m][u]) \in Nat
    BY LenProperties DEF StackType
  <2>2. CASE m = n /\ u = t
    BY <1>2, <1>3, <2>2
  <2>3. CASE m # n \/ u # t
    BY <1>5, <2>1, <2>3
  <2> QED BY <2>2, <2>3
<1>8. LayersOK(stack) /\ LayerOK(l) => LayersOK(Push(n, t, l))
  BY <1>6 DEF LayersOK
<1> QED BY <1>2, <1>4, <1>5, <1>7, <1>8

\* Unmounting a path: its visible layer goes, everything else stays.
LEMMA PopAtProperties ==
    ASSUME stack \in StackType, NEW n \in 1 .. MaxInst, NEW t \in Targets, stack[n][t] # <<>>
    PROVE  /\ PopAt(n, t)[n][t] = Pop(stack[n][t])
           /\ \A m \in 1 .. MaxInst, u \in Targets : m # n \/ u # t => PopAt(n, t)[m][u] = stack[m][u]
           /\ LayersOK(stack) => LayersOK(PopAt(n, t))
<1>1. PopAt(n, t)[n][t] = Pop(stack[n][t])
  BY DEF PopAt, StackType
<1>2. \A m \in 1 .. MaxInst, u \in Targets : m # n \/ u # t => PopAt(n, t)[m][u] = stack[m][u]
  BY DEF PopAt, StackType
<1>3. stack[n][t] \in Seq(Layer)
  BY DEF StackType
<1>4. ASSUME LayersOK(stack), NEW m \in 1 .. MaxInst, NEW u \in Targets, NEW i \in 1 .. Len(PopAt(n, t)[m][u])
      PROVE  LayerOK(PopAt(n, t)[m][u][i])
  <2>1. CASE m = n /\ u = t
    <3>1. i \in 1 .. Len(stack[n][t]) - 1 /\ i \in 1 .. Len(stack[n][t])
      BY <1>1, <1>3, <2>1, PopProperties
    <3>2. PopAt(n, t)[m][u][i] = stack[n][t][i]
      BY <1>1, <1>3, <2>1, <3>1, PopProperties
    <3> QED BY <1>4, <3>1, <3>2 DEF LayersOK
  <2>2. CASE m # n \/ u # t
    BY <1>2, <1>4, <2>2 DEF LayersOK
  <2> QED BY <2>1, <2>2
<1>5. LayersOK(stack) => LayersOK(PopAt(n, t))
  BY <1>4 DEF LayersOK
<1> QED BY <1>1, <1>2, <1>5

\* A stack that is cut from above keeps its attribution.
LEMMA CutProperties ==
    ASSUME stack \in StackType, LayersOK(stack), NEW st \in StackType,
           \A n \in 1 .. MaxInst, t \in Targets : \E k \in 0 .. Len(stack[n][t]) : st[n][t] = SubSeq(stack[n][t], 1, k)
    PROVE  LayersOK(st)
<1> SUFFICES ASSUME NEW n \in 1 .. MaxInst, NEW t \in Targets, NEW i \in 1 .. Len(st[n][t])
             PROVE  LayerOK(st[n][t][i])
  BY DEF LayersOK
<1>1. stack[n][t] \in Seq(Layer) /\ Len(stack[n][t]) \in Nat
  BY LenProperties DEF StackType
<1>2. PICK k \in 0 .. Len(stack[n][t]) : st[n][t] = SubSeq(stack[n][t], 1, k)
  OBVIOUS
<1>3. k \in Nat /\ k <= Len(stack[n][t])
  BY <1>1
<1>4. Len(st[n][t]) = k /\ st[n][t][i] = stack[n][t][i] /\ i \in 1 .. Len(stack[n][t])
  BY <1>1, <1>2, <1>3, PrefixProperties
<1> QED BY <1>4 DEF LayersOK

\* The fallback sweep takes layers off stacks from above.
LEMMA SweepCuts ==
    ASSUME TypeOK, SweepUnrecorded, NEW n \in 1 .. MaxInst, NEW t \in Targets
    PROVE  \E k \in 0 .. Len(stack[n][t]) : stack'[n][t] = SubSeq(stack[n][t], 1, k)
<1>0. stack \in StackType /\ ns \in 1 .. MaxInst
  BY DEF SweepUnrecorded, TypeOK, WorkerOK
<1>1. PICK failed \in SUBSET MayFail :
          stack' = [stack EXCEPT ![ns] = [u \in Targets |->
                      IF u \in failed THEN @[u]
                      ELSE SubSeq(@[u], 1, Len(@[u]) - Leftovers(@[u]))]]
  BY DEF SweepUnrecorded
<1>2. stack[n][t] \in Seq(Layer) /\ Len(stack[n][t]) \in Nat
  BY <1>0, LenProperties DEF StackType
<1>3. IsFiniteSet(1 .. Len(stack[n][t])) /\ Cardinality(1 .. Len(stack[n][t])) = Len(stack[n][t])
  BY <1>2, IntervalSize
<1>4. Leftovers(stack[n][t]) \in Nat /\ Leftovers(stack[n][t]) <= Len(stack[n][t])
  <2>1. {i \in 1 .. Len(stack[n][t]) : SweepShape(stack[n][t][i])} \in SUBSET (1 .. Len(stack[n][t]))
    OBVIOUS
  <2> QED BY <1>3, <2>1, FS_Subset, FS_CardinalityType DEF Leftovers
<1>5. CASE stack'[n][t] = stack[n][t]
  <2>1. SubSeq(stack[n][t], 1, Len(stack[n][t])) = stack[n][t]
    BY <1>2
  <2> QED BY <1>2, <1>5, <2>1
<1>6. CASE stack'[n][t] = SubSeq(stack[n][t], 1, Len(stack[n][t]) - Leftovers(stack[n][t]))
  <2>1. Len(stack[n][t]) - Leftovers(stack[n][t]) \in 0 .. Len(stack[n][t])
    BY <1>2, <1>4
  <2> QED BY <1>6, <2>1
<1> QED BY <1>0, <1>1, <1>5, <1>6 DEF StackType

\* Rolling a round back takes at most the visible layer of a path.
LEMMA RollBackCuts ==
    ASSUME TypeOK, RollBackRound, NEW n \in 1 .. MaxInst, NEW t \in Targets
    PROVE  \E k \in 0 .. Len(stack[n][t]) : stack'[n][t] = SubSeq(stack[n][t], 1, k)
<1>0. stack \in StackType /\ ns \in 1 .. MaxInst
  BY DEF RollBackRound, TypeOK, WorkerOK
<1>1. stack[n][t] \in Seq(Layer) /\ Len(stack[n][t]) \in Nat
  BY <1>0, LenProperties DEF StackType
<1>2. \/ stack'[n][t] = stack[n][t]
      \/ stack[n][t] # <<>> /\ stack'[n][t] = Pop(stack[n][t])
  BY <1>0 DEF RollBackRound, StackType
<1>3. CASE stack'[n][t] = stack[n][t]
  <2>1. SubSeq(stack[n][t], 1, Len(stack[n][t])) = stack[n][t]
    BY <1>1
  <2> QED BY <1>1, <1>3, <2>1
<1>4. CASE stack[n][t] # <<>> /\ stack'[n][t] = Pop(stack[n][t])
  <2>1. Len(stack[n][t]) - 1 \in 0 .. Len(stack[n][t])
    BY <1>1, <1>4, EmptySeq
  <2> QED BY <1>4, <2>1 DEF Pop
<1> QED BY <1>2, <1>3, <1>4

\* A dead host layer is a layer of the module, and it is there.
LEMMA DeadLayerThere ==
    ASSUME stack \in StackType, NEW n \in 1 .. MaxInst, NEW t \in Targets, DeadHostLayer(Topmost(n, t))
    PROVE  stack[n][t] # <<>> /\ Topmost(n, t).kind \in ModuleKinds
BY TopmostType DEF DeadHostLayer, NoLayer, ModuleKinds

-----------------------------------------------------------------------------
(* Attribution of the layers.                                               *)

\* Layers of the module never come from the system's FUSE, those of the system always do,
\* whatever the child or anybody else mounts.
LEMMA LayersStep ==
    ASSUME OwnInv, QuietNamespace, Next
    PROVE  LayersOK(stack') /\ LayerOK(backup')
<1> USE DEF OwnInv
<1>0. stack \in StackType /\ stack' \in StackType
  BY StepType DEF TypeOK
<1>a. LayerOK(NoLayer) /\ LayerOK(LostClone)
  BY DEF LayerOK, NoLayer, LostClone, SystemKinds, SystemDev
<1>b. EndRound => LayerOK(backup')
  BY <1>a DEF EndRound
<1>c. pc \in {"attach", "move", "aliases"} => \A i \in FreshIds : HostLayer(i) \in Layer /\ LayerOK(HostLayer(i))
  <2>1. ASSUME pc \in {"attach", "move", "aliases"} PROVE via \in Nat /\ via > 0
    BY <2>1, ConstantFacts DEF ProgressOK, TypeOK, WorkerOK
  <2> QED BY <2>1, HostLayerType DEF HostLayer, LayerOK, HostDev, SystemKinds, SystemDev
<1>1. CASE BuildPlan \/ Supervise \/ EnterNamespace
  BY <1>1, <1>b DEF BuildPlan, Supervise, EnterNamespace
<1>2. CASE ClearNextTarget \/ InspectTarget \/ SettleClear \/ ForgetLedger \/ DecideAfterClear
  BY <1>2, <1>b DEF ClearNextTarget, InspectTarget, SettleClear, ForgetLedger, DecideAfterClear
<1>3. CASE UmountTarget
  <2>1. ns \in 1 .. MaxInst /\ cur \in Targets
    BY <1>3 DEF UmountTarget, TypeOK, WorkerOK
  <2> QED BY <1>0, <1>3, <2>1, PopAtProperties DEF UmountTarget
<1>4. CASE SweepUnrecorded
  BY <1>0, <1>4, SweepCuts, CutProperties DEF SweepUnrecorded
<1>5. CASE ReuseHost \/ SkipHost \/ StartAttach \/ AttachTimesOut \/ FinishAttach
  BY <1>5, <1>a DEF ReuseHost, SkipHost, StartAttach, AttachTimesOut, FinishAttach
<1>6. CASE ReplaceTop
  <2>1. ns \in 1 .. MaxInst /\ AttachRoot \in Targets
    BY <1>6, ConstantFacts DEF ReplaceTop, TypeOK, WorkerOK
  <2>2. LayerOK(backup')
    BY <1>0, <1>6, <1>a, <2>1, TopmostOK DEF ReplaceTop, Clones
  <2>3. stack' = stack \/ (stack[ns][AttachRoot] # <<>> /\ stack' = PopAt(ns, AttachRoot))
    BY <1>0, <1>6, <2>1, DeadLayerThere, TopmostType DEF ReplaceTop
  <2> QED BY <1>0, <2>1, <2>2, <2>3, PopAtProperties
<1>7. CASE MoveMount
  <2>1. ns \in 1 .. MaxInst /\ AttachRoot \in Targets
    BY <1>7, ConstantFacts DEF MoveMount, TypeOK, WorkerOK
  <2>2. ASSUME Restores, NEW i \in FreshIds
        PROVE  [backup EXCEPT !.id = i] \in Layer /\ LayerOK([backup EXCEPT !.id = i])
    BY <2>2, FreshType DEF Restores, TypeOK, WorkerOK, Layer, LayerOK
  <2>3. \/ stack' = stack
        \/ \E i \in FreshIds : stack' = Push(ns, AttachRoot, HostLayer(i))
        \/ Restores /\ \E i \in FreshIds : stack' = Push(ns, AttachRoot, [backup EXCEPT !.id = i])
    BY <1>7 DEF MoveMount
  <2>4. pc = "move" /\ LayerOK(backup')
    BY <1>7, <1>a DEF MoveMount
  <2>5. CASE \E i \in FreshIds : stack' = Push(ns, AttachRoot, HostLayer(i))
    BY <1>0, <1>c, <2>1, <2>4, <2>5, PushProperties
  <2>6. CASE Restores /\ \E i \in FreshIds : stack' = Push(ns, AttachRoot, [backup EXCEPT !.id = i])
    BY <1>0, <2>1, <2>2, <2>4, <2>6, PushProperties
  <2> QED BY <2>3, <2>4, <2>5, <2>6
<1>8. CASE AttachAlias
  <2>1. ns \in 1 .. MaxInst
    BY <1>8 DEF AttachAlias, TypeOK, WorkerOK
  <2>2. PICK t \in todo :
            \/ stack' = stack
            \/ DeadHostLayer(Topmost(ns, t)) /\ stack' = PopAt(ns, t)
            \/ \E i \in FreshIds : stack' = Push(ns, t, HostLayer(i))
    BY <1>8 DEF AttachAlias
  <2>3. t \in Targets /\ pc = "aliases" /\ backup' = backup
    BY <1>8 DEF AttachAlias, TypeOK, WorkerOK
  <2> QED BY <1>0, <1>c, <2>1, <2>2, <2>3, DeadLayerThere, PushProperties, PopAtProperties
<1>9. CASE NoRulesShortCircuit \/ StartBinds \/ BindFails \/ FinishBinds \/ SaveState \/ RecordIdentity
  BY <1>9, <1>b DEF NoRulesShortCircuit, StartBinds, BindFails, FinishBinds, SaveState, RecordIdentity
<1>10. CASE BindTarget
  <2>1. ns \in 1 .. MaxInst
    BY <1>10 DEF BindTarget, TypeOK, WorkerOK
  <2>2. PICK t \in todo :
            stack' = stack \/ \E i \in FreshIds, d \in BindDevs : stack' = Push(ns, t, BindLayer(t, i, d))
    BY <1>10 DEF BindTarget, Shallowest
  <2>3. req.src \in Sources \cup {NoSource}
    BY ConstantFacts DEF TypeOK, WorkerOK, Request, NoRequest
  <2>4. BindDevs = {DiskDev} /\ DiskDev \in Devs
    BY ConstantFacts DEF BindDevs, QuietNamespace, DiskDev, Devs
  <2>5. ASSUME NEW i \in FreshIds, NEW d \in BindDevs
        PROVE  BindLayer(t, i, d) \in Layer /\ LayerOK(BindLayer(t, i, d))
    BY <2>3, <2>4, FreshType
       DEF BindLayer, BindKind, Layer, ModuleKinds, LayerOK, SystemKinds, SystemDev, DiskDev
  <2>6. t \in Targets /\ backup' = backup
    BY <1>10 DEF BindTarget, TypeOK, WorkerOK
  <2> QED BY <1>0, <2>1, <2>2, <2>5, <2>6, PushProperties
<1>11. CASE RepairParent
  <2> DEFINE r(i) == [id |-> i, kind |-> "repair", dev |-> DiskDev, src |-> NoSource]
             s == stack[ns][AttachRoot]
  <2>1. ns \in 1 .. MaxInst /\ AttachRoot \in Targets /\ backup' = backup
    BY <1>11, ConstantFacts DEF RepairParent, TypeOK, WorkerOK
  <2>2. PICK i \in FreshIds : stack' = [stack EXCEPT ![ns][AttachRoot] = Append(Pop(@), r(i))]
    BY <1>11 DEF RepairParent
  <2>3. r(i) \in Layer /\ LayerOK(r(i))
    BY FreshType, ConstantFacts
       DEF Layer, ModuleKinds, LayerOK, SystemKinds, SystemDev, DiskDev, Devs
  <2>4. DeadHostLayer(Topmost(ns, AttachRoot))
    BY <1>11 DEF RepairParent, Reaches
  <2>5. s \in Seq(Layer) /\ s # <<>>
    BY <1>0, <2>1, <2>4, DeadLayerThere DEF StackType
  <2>6. /\ Len(Append(Pop(s), r(i))) = Len(s)
        /\ Append(Pop(s), r(i))[Len(s)] = r(i)
        /\ \A j \in 1 .. Len(s) - 1 : Append(Pop(s), r(i))[j] = s[j]
    <3>1. Pop(s) \in Seq(Layer) /\ Len(Pop(s)) = Len(s) - 1 /\ Len(s) \in Nat \ {0}
          /\ \A j \in 1 .. Len(s) - 1 : Pop(s)[j] = s[j]
      BY <2>5, PopType, PopProperties
    <3>2. /\ Len(Append(Pop(s), r(i))) = Len(Pop(s)) + 1
          /\ Append(Pop(s), r(i))[Len(Pop(s)) + 1] = r(i)
          /\ \A j \in 1 .. Len(Pop(s)) : Append(Pop(s), r(i))[j] = Pop(s)[j]
      BY <2>3, <3>1, AppendProperties
    <3> HIDE DEF r, s
    <3> QED BY <3>1, <3>2
  <2>7. /\ stack'[ns][AttachRoot] = Append(Pop(s), r(i))
        /\ \A m \in 1 .. MaxInst, u \in Targets : m # ns \/ u # AttachRoot => stack'[m][u] = stack[m][u]
    BY <1>0, <2>1, <2>2 DEF StackType
  <2>8. ASSUME NEW m \in 1 .. MaxInst, NEW u \in Targets, NEW j \in 1 .. Len(stack'[m][u])
        PROVE  LayerOK(stack'[m][u][j])
    <3>1. CASE m = ns /\ u = AttachRoot
      <4>1. Len(s) \in Nat /\ j \in 1 .. Len(s)
        BY <2>5, <2>6, <2>7, <3>1, LenProperties
      <4>2. CASE j = Len(s)
        BY <2>3, <2>6, <2>7, <3>1, <4>2
      <4>3. CASE j # Len(s)
        <5>1. j \in 1 .. Len(s) - 1
          BY <4>1, <4>3
        <5>2. stack'[m][u][j] = s[j]
          BY <2>6, <2>7, <3>1, <5>1
        <5> QED BY <2>1, <4>1, <5>2 DEF LayersOK
      <4> QED BY <4>2, <4>3
    <3>2. CASE m # ns \/ u # AttachRoot
      BY <2>7, <3>2 DEF LayersOK
    <3> QED BY <3>1, <3>2
  <2> QED BY <2>1, <2>8 DEF LayersOK
<1>12. CASE RollBackRound
  BY <1>0, <1>12, <1>b, RollBackCuts, CutProperties DEF RollBackRound
<1>13. CASE RestorePrivate
  <2>1. ns \in 1 .. MaxInst /\ backup' = backup
    BY <1>13 DEF RestorePrivate, TypeOK, WorkerOK, workVars
  <2>2. \A i \in FreshIds : SystemLayer(i, "private") \in Layer /\ LayerOK(SystemLayer(i, "private"))
    BY FreshType, ConstantFacts DEF SystemLayer, Layer, LayerOK, SystemKinds, SystemDev, Devs
  <2> QED BY <1>0, <1>13, <2>1, <2>2, PushProperties, ConstantFacts DEF RestorePrivate
<1>14. CASE KillChild \/ ExitApp \/ StartHost \/ HostDies \/ ChangeConfig \/ PruneStale
  BY <1>14, <1>b DEF KillChild, ExitApp, StartHost, HostDies, ChangeConfig, PruneStale, workVars
<1>15. CASE StartApp
  <2>1. inst + 1 \in 1 .. MaxInst /\ backup' = backup
    BY <1>15, ConstantFacts DEF StartApp, TypeOK, WorldOK, workVars
  <2>2. PICK i \in FreshIds :
            \/ stack' = [stack EXCEPT ![inst + 1] = FreshStack(<<SystemLayer(i, "system")>>)]
            \/ \E j \in FreeIds \ {i} :
                 stack' = [stack EXCEPT ![inst + 1] = FreshStack(<<SystemLayer(i, "system"), BarrierLayer(j)>>)]
    BY <1>15 DEF StartApp
  <2>3. \A j : LayerOK(SystemLayer(j, "system")) /\ LayerOK(BarrierLayer(j))
    BY DEF SystemLayer, BarrierLayer, LayerOK, SystemKinds, SystemDev, DiskDev
  <2>4. ASSUME NEW m \in 1 .. MaxInst, NEW u \in Targets, NEW k \in 1 .. Len(stack'[m][u])
        PROVE  LayerOK(stack'[m][u][k])
    <3>1. CASE m # inst + 1
      BY <1>0, <2>1, <2>2, <3>1 DEF LayersOK, StackType
    <3>2. CASE m = inst + 1
      <4>1. PICK base : /\ stack' = [stack EXCEPT ![inst + 1] = FreshStack(base)]
                        /\ \/ base = <<SystemLayer(i, "system")>>
                           \/ \E j \in FreeIds : base = <<SystemLayer(i, "system"), BarrierLayer(j)>>
        BY <2>2
      <4>2. stack'[m] = FreshStack(base)
        BY <1>0, <2>1, <3>2, <4>1 DEF StackType
      <4>3. CASE u # AttachRoot
        BY <4>2, <4>3 DEF FreshStack
      <4>4. CASE u = AttachRoot
        <5>1. stack'[m][u] = base
          BY <4>2, <4>4 DEF FreshStack
        <5> QED BY <2>3, <4>1, <5>1
      <4> QED BY <4>3, <4>4
    <3> QED BY <3>1, <3>2
  <2> QED BY <2>1, <2>4 DEF LayersOK
<1>16. CASE SystemMounts
  <2>1. inst \in 1 .. MaxInst /\ backup' = backup
    BY <1>16 DEF SystemMounts, TypeOK, WorldOK, workVars
  <2>2. \A i \in FreshIds, k \in SystemKinds : SystemLayer(i, k) \in Layer /\ LayerOK(SystemLayer(i, k))
    BY FreshType, ConstantFacts DEF SystemLayer, Layer, LayerOK, SystemDev, Devs
  <2> QED BY <1>0, <1>16, <2>1, <2>2, PushProperties DEF SystemMounts
<1> QED BY <1>1, <1>2, <1>3, <1>4, <1>5, <1>6, <1>7, <1>8, <1>9, <1>10, <1>11, <1>12, <1>13, <1>14, <1>15, <1>16
       DEF Next, WorkerStep, ClearStep, AttachStep, MountStep, Environment

-----------------------------------------------------------------------------
(* Devices the module takes for its own.                                    *)

\* remember_module_fuse_devs on own superblocks remembers own superblocks.
LEMMA OwnHistory ==
    ASSUME NEW h \in Seq(OwnDevs), NEW devs \in SUBSET OwnDevs, NEW g \in Remembered(h, devs)
    PROVE  g \in Seq(OwnDevs)
<1>1. OwnDevs \in SUBSET Devs
  BY DEF OwnDevs
<1> QED BY <1>1, RememberedType

\* A host session never has the superblock of the system's FUSE.
LEMMA HostDevOwn ==
    ASSUME NEW g \in 1 .. MaxHostGen
    PROVE  HostDev(g) \in OwnDevs
BY ConstantFacts DEF HostDev, OwnDevs, Devs, SystemDev

\* The system's superblock enters neither ledger, history nor known_module_fuse_devs.
LEMMA DevicesStep ==
    ASSUME OwnInv, QuietNamespace, Next
    PROVE  DevicesOK'
<1> USE DEF OwnInv
<1>a. EndRound => known' \subseteq OwnDevs
  BY DEF EndRound
<1>b. \A m \in NoLedger.mounts : m.dev \in OwnDevs
  BY DEF NoLedger
<1>1. CASE BuildPlan \/ EnterNamespace \/ BindFails \/ RollBackRound \/ KillChild
  BY <1>1, <1>a DEF BuildPlan, EnterNamespace, BindFails, RollBackRound, KillChild, DevicesOK, diskVars
<1>2. CASE Supervise \/ NoRulesShortCircuit
  BY <1>2, <1>a, <1>b DEF Supervise, NoRulesShortCircuit, DevicesOK
<1>3. CASE ClearNextTarget
  <2>1. KnownDevs \subseteq OwnDevs
    <3>1. Entries(hist) \subseteq OwnDevs
      BY ElementOfSeq DEF DevicesOK, Entries
    <3>2. CurrentHostDev \subseteq OwnDevs
      BY HostDevOwn, ConstantFacts DEF CurrentHostDev, TypeOK, WorldOK
    <3>3. LedgerFuseDevs(ledger) \subseteq OwnDevs
      BY DEF LedgerFuseDevs, DevicesOK
    <3> QED BY <3>1, <3>2, <3>3 DEF KnownDevs
  <2> QED BY <1>3, <2>1 DEF ClearNextTarget, DevicesOK, diskVars
<1>4. CASE InspectTarget \/ UmountTarget
  BY <1>4 DEF InspectTarget, UmountTarget, FinishTarget, DevicesOK, diskVars
<1>5. CASE SettleClear \/ ForgetLedger \/ SweepUnrecorded
  BY <1>5, <1>b DEF SettleClear, ForgetLedger, SweepUnrecorded, DevicesOK
<1>6. CASE DecideAfterClear
  <2>1. [ledger EXCEPT !.attempts = @ + 1].mounts = ledger.mounts
    BY DEF TypeOK, DiskOK, LedgerType
  <2>2. LedgerFuseDevs([ledger EXCEPT !.attempts = @ + 1]) \subseteq OwnDevs
    BY <2>1 DEF LedgerFuseDevs, DevicesOK
  <2>3. hist' \in Seq(OwnDevs)
    BY <1>6, <2>2, OwnHistory DEF DecideAfterClear, DevicesOK
  <2>4. \A m \in ledger'.mounts : m.dev \in OwnDevs
    BY <1>6, <1>b, <2>1 DEF DecideAfterClear, DevicesOK
  <2>5. known' \subseteq OwnDevs
    BY <1>6, <1>a DEF DecideAfterClear, DevicesOK
  <2> QED BY <2>3, <2>4, <2>5 DEF DevicesOK
<1>7. CASE AttachStep
  BY <1>7 DEF AttachStep, ReuseHost, SkipHost, StartAttach, ReplaceTop, MoveMount, AttachTimesOut, AttachAlias,
              FinishAttach, DevicesOK, diskVars
<1>8. CASE StartBinds \/ BindTarget \/ RepairParent \/ FinishBinds \/ SaveState \/ RestorePrivate
  BY <1>8 DEF StartBinds, BindTarget, RepairParent, FinishBinds, SaveState, RestorePrivate, DevicesOK,
              diskVars, workVars
<1>9. CASE RecordIdentity
  <2>1. ns \in 1 .. MaxInst /\ pc = "record"
    BY <1>9 DEF RecordIdentity, TypeOK, WorkerOK
  <2>2. ASSUME NEW t \in done PROVE Topmost(ns, t).dev \in OwnDevs
    <3>1. t \in Targets /\ Topmost(ns, t).kind \in ModuleKinds
      BY <2>1 DEF TypeOK, WorkerOK, TopsOK
    <3>2. Topmost(ns, t) \in Layer /\ Topmost(ns, t).dev # SystemDev
      BY <2>1, <3>1, TopmostType, TopmostOK DEF TypeOK, NoLayer, ModuleKinds
    <3> QED BY <3>2 DEF Layer, OwnDevs
  <2>3. NewLedger.mounts = Captured /\ \A m \in Captured : m.dev \in OwnDevs
    BY <2>2 DEF Captured, NewLedger
  <2>4. LedgerFuseDevs(NewLedger) \subseteq OwnDevs
    BY <2>3 DEF LedgerFuseDevs
  <2>5. hist' \in Seq(OwnDevs) /\ \A m \in ledger'.mounts : m.dev \in OwnDevs
    BY <1>9, <2>3, <2>4, OwnHistory DEF RecordIdentity, DevicesOK
  <2> QED BY <1>9, <1>a, <2>5 DEF RecordIdentity, DevicesOK
<1>10. CASE StartApp \/ ExitApp \/ HostDies \/ ChangeConfig \/ SystemMounts
  BY <1>10 DEF StartApp, ExitApp, HostDies, ChangeConfig, SystemMounts, DevicesOK, diskVars, workVars
<1>11. CASE StartHost
  <2>1. hostGen + 1 \in 1 .. MaxHostGen
    BY <1>11, ConstantFacts DEF StartHost, TypeOK, WorldOK
  <2>2. {HostDev(hostGen + 1)} \in SUBSET OwnDevs
    BY <2>1, HostDevOwn
  <2>3. hist' \in Seq(OwnDevs)
    BY <1>11, <2>2, OwnHistory DEF StartHost, DevicesOK
  <2> QED BY <1>11, <2>3 DEF StartHost, DevicesOK, workVars
<1>12. CASE PruneStale
  BY <1>12, <1>b DEF PruneStale, DevicesOK, workVars
<1> QED BY <1>1, <1>2, <1>3, <1>4, <1>5, <1>6, <1>7, <1>8, <1>9, <1>10, <1>11, <1>12
       DEF Next, WorkerStep, ClearStep, MountStep, Environment

-----------------------------------------------------------------------------
(* Namespaces and the progress of a round.                                  *)

\* A step mounts and unmounts in the child's namespace, in the application's, or makes
\* the namespace of a new process; every other one stays as it is.
LEMMA OtherNamespaces ==
    ASSUME OwnInv, QuietNamespace, Next
    PROVE  \A n \in 1 .. MaxInst : n # ns /\ n # inst /\ ~(StartApp /\ n = inst + 1) => stack'[n] = stack[n]
<1> USE DEF OwnInv
<1>0. stack \in StackType
  BY DEF TypeOK
<1>1. CASE UmountTarget \/ ReplaceTop \/ MoveMount \/ AttachAlias \/ BindTarget \/ RestorePrivate
  BY <1>0, <1>1 DEF UmountTarget, ReplaceTop, MoveMount, AttachAlias, BindTarget, RestorePrivate,
                    Push, PopAt, StackType
<1>2. CASE SweepUnrecorded \/ RepairParent \/ RollBackRound
  BY <1>0, <1>2 DEF SweepUnrecorded, RepairParent, RollBackRound, StackType
<1>3. CASE StartApp \/ SystemMounts
  BY <1>0, <1>3 DEF StartApp, SystemMounts, Push, StackType
<1>4. CASE BuildPlan \/ Supervise \/ EnterNamespace \/ ClearNextTarget \/ InspectTarget \/ SettleClear
           \/ ForgetLedger \/ DecideAfterClear
  BY <1>4 DEF BuildPlan, Supervise, EnterNamespace, ClearNextTarget, InspectTarget, SettleClear,
              ForgetLedger, DecideAfterClear
<1>5. CASE ReuseHost \/ SkipHost \/ StartAttach \/ AttachTimesOut \/ FinishAttach
  BY <1>5 DEF ReuseHost, SkipHost, StartAttach, AttachTimesOut, FinishAttach
<1>6. CASE NoRulesShortCircuit \/ StartBinds \/ BindFails \/ FinishBinds \/ SaveState \/ RecordIdentity
  BY <1>6 DEF NoRulesShortCircuit, StartBinds, BindFails, FinishBinds, SaveState, RecordIdentity
<1>7. CASE KillChild \/ ExitApp \/ StartHost \/ HostDies \/ ChangeConfig \/ PruneStale
  BY <1>7 DEF KillChild, ExitApp, StartHost, HostDies, ChangeConfig, PruneStale
<1> QED BY <1>1, <1>2, <1>3, <1>4, <1>5, <1>6, <1>7
       DEF Next, WorkerStep, ClearStep, AttachStep, MountStep, Environment

\* The instance counts process starts, and the child's namespace is that of an instance.
LEMMA InstanceStep ==
    ASSUME OwnInv, QuietNamespace, Next
    PROVE  /\ inst' = IF StartApp THEN inst + 1 ELSE inst
           /\ ns' \in {0, ns, inst} /\ inst' >= inst
<1> USE DEF OwnInv
<1>0. inst \in Nat /\ ns \in Nat
  BY ConstantFacts DEF TypeOK, WorldOK, WorkerOK
<1>1. EndRound => ns' = 0
  BY DEF EndRound
<1>2. CASE BuildPlan \/ Supervise \/ EnterNamespace \/ ClearStep
  <2>1. inst' = inst
    BY <1>2 DEF BuildPlan, Supervise, EnterNamespace, ClearStep, ClearNextTarget, InspectTarget, UmountTarget,
                SettleClear, ForgetLedger, SweepUnrecorded, DecideAfterClear, appVars
  <2>2. CASE BuildPlan \/ Supervise \/ EnterNamespace
    BY <1>1, <2>2, <2>1, <1>0 DEF BuildPlan, Supervise, EnterNamespace, StartApp
  <2>3. CASE ClearStep
    <3>1. ns' \in {0, ns}
      BY <1>1, <2>3 DEF ClearStep, ClearNextTarget, InspectTarget, UmountTarget, SettleClear, ForgetLedger,
                        SweepUnrecorded, DecideAfterClear
    <3> QED BY <1>0, <2>1, <3>1 DEF StartApp
  <2> QED BY <1>2, <2>2, <2>3
<1>3. CASE AttachStep
  BY <1>0, <1>3 DEF AttachStep, ReuseHost, SkipHost, StartAttach, ReplaceTop, MoveMount, AttachTimesOut,
                    AttachAlias, FinishAttach, StartApp, appVars
<1>4. CASE MountStep
  BY <1>0, <1>1, <1>4
     DEF MountStep, NoRulesShortCircuit, StartBinds, BindTarget, RepairParent, BindFails, FinishBinds, SaveState,
         RollBackRound, RestorePrivate, RecordIdentity, StartApp, appVars, workVars
<1>5. CASE StartApp
  BY <1>0, <1>5 DEF StartApp, workVars
<1>6. CASE KillChild \/ ExitApp \/ StartHost \/ HostDies \/ ChangeConfig \/ PruneStale \/ SystemMounts
  <2>1. inst' = inst /\ ns' \in {0, ns}
    BY <1>1, <1>6 DEF KillChild, ExitApp, StartHost, HostDies, ChangeConfig, PruneStale, SystemMounts,
                      appVars, workVars
  <2> QED BY <1>0, <2>1 DEF StartApp
<1> QED BY <1>2, <1>3, <1>4, <1>5, <1>6 DEF Next, WorkerStep, Environment

\* Namespaces come into being with their process.
LEMMA NamespacesStep ==
    ASSUME OwnInv, QuietNamespace, Next
    PROVE  NamespacesOK'
<1> USE DEF OwnInv
<1>0. inst \in Nat /\ ns \in Nat /\ inst' \in Nat
  BY StepType, ConstantFacts DEF TypeOK, WorldOK, WorkerOK
<1>1. ns' <= inst'
  BY <1>0, InstanceStep DEF NamespacesOK
<1>2. ASSUME NEW n \in 1 .. MaxInst, n > inst', NEW t \in Targets PROVE stack'[n][t] = <<>>
  <2>1. n > inst /\ n # inst /\ n # ns /\ ~(StartApp /\ n = inst + 1)
    BY <1>0, <1>2, InstanceStep DEF NamespacesOK
  <2> QED BY <2>1, OtherNamespaces DEF NamespacesOK
<1> QED BY <1>1, <1>2 DEF NamespacesOK

\* A round that mounts goes through its control points in order, with the targets the
\* invariant names.
LEMMA ProgressStep ==
    ASSUME OwnInv, QuietNamespace, Next
    PROVE  ProgressOK'
<1> USE DEF OwnInv
<1>a. EndRound => ProgressOK'
  BY DEF EndRound, ProgressOK
<1>1. CASE BuildPlan \/ Supervise \/ EnterNamespace
  BY <1>1, <1>a DEF BuildPlan, Supervise, EnterNamespace, ProgressOK
<1>2. CASE ClearNextTarget \/ InspectTarget \/ UmountTarget \/ SettleClear \/ ForgetLedger \/ SweepUnrecorded
  BY <1>2 DEF ClearNextTarget, InspectTarget, UmountTarget, SettleClear, ForgetLedger, SweepUnrecorded,
              FinishTarget, ProgressOK
<1>3. CASE DecideAfterClear
  BY <1>3, <1>a DEF DecideAfterClear, ProgressOK
<1>4. CASE ReuseHost \/ SkipHost
  BY <1>4 DEF ReuseHost, SkipHost, QuietNamespace, ProgressOK
<1>5. CASE StartAttach
  BY <1>5 DEF StartAttach, TypeOK, WorldOK, ProgressOK
<1>6. CASE ReplaceTop \/ MoveMount \/ AttachTimesOut
  BY <1>6 DEF ReplaceTop, MoveMount, AttachTimesOut, AttachFailed, ProgressOK
<1>7. CASE AttachAlias \/ FinishAttach
  BY <1>7 DEF AttachAlias, FinishAttach, QuietNamespace, ProgressOK
<1>8. CASE NoRulesShortCircuit \/ BindFails \/ RollBackRound \/ RecordIdentity \/ KillChild
  BY <1>8, <1>a DEF NoRulesShortCircuit, BindFails, RollBackRound, RecordIdentity, KillChild
<1>9. CASE StartBinds
  <2>1. req.binds \cap PrivateDirs = {}
    BY DEF QuietNamespace, TypeOK, WorkerOK, NoRequest
  <2> QED BY <1>9, <2>1 DEF StartBinds, ProgressOK
<1>10. CASE BindTarget
  BY <1>10 DEF BindTarget, Shallowest, ProgressOK
<1>11. CASE RepairParent \/ FinishBinds \/ SaveState \/ RestorePrivate
  BY <1>11 DEF RepairParent, FinishBinds, SaveState, RestorePrivate, QuietNamespace, ProgressOK, workVars
<1>12. CASE StartApp \/ ExitApp \/ StartHost \/ HostDies \/ ChangeConfig \/ PruneStale \/ SystemMounts
  BY <1>12 DEF StartApp, ExitApp, StartHost, HostDies, ChangeConfig, PruneStale, SystemMounts, ProgressOK, workVars
<1> QED BY <1>1, <1>2, <1>3, <1>4, <1>5, <1>6, <1>7, <1>8, <1>9, <1>10, <1>11, <1>12
       DEF Next, WorkerStep, ClearStep, AttachStep, MountStep, Environment

-----------------------------------------------------------------------------
(* The visible layers the child relies on.                                  *)

\* The attribution rules of clear_mount_target_stack_verified never take a system layer.
LEMMA OwnLayerIsOurs ==
    ASSUME OwnInv, NEW n \in 1 .. MaxInst, NEW t \in Targets, Topmost(n, t) # NoLayer, OwnLayer(Topmost(n, t))
    PROVE  Topmost(n, t).kind \in ModuleKinds
<1> USE DEF OwnInv
<1>1. CASE Topmost(n, t).kind \in {"barrier", "bind"}
  BY <1>1 DEF ModuleKinds
<1>2. CASE Topmost(n, t).dev \in known \cup {m.dev : m \in CleanupLedger.mounts}
  <2>1. CleanupLedger \in {ledger, NoLedger}
    BY DEF CleanupLedger
  <2>2. \A m \in CleanupLedger.mounts : m.dev \in OwnDevs
    BY <2>1 DEF NoLedger, DevicesOK
  <2>3. Topmost(n, t).dev # SystemDev
    BY <1>2, <2>2 DEF DevicesOK, OwnDevs
  <2> QED BY <2>3, TopmostOK DEF TypeOK
<1> QED BY <1>1, <1>2 DEF OwnLayer

\* What the child has found, or mounted itself, is still there when it acts on it.
LEMMA TopsStep ==
    ASSUME OwnInv, QuietNamespace, Next
    PROVE  TopsOK'
<1> USE DEF OwnInv
<1>0. stack \in StackType /\ ns \in 0 .. MaxInst /\ cur \in Targets /\ done \subseteq Targets
  BY DEF TypeOK, WorkerOK
<1>a. EndRound => TopsOK'
  BY DEF EndRound, TopsOK
<1>1. CASE BuildPlan \/ Supervise \/ EnterNamespace \/ ClearNextTarget \/ SettleClear \/ ForgetLedger
           \/ SweepUnrecorded \/ DecideAfterClear
  BY <1>1, <1>a DEF BuildPlan, Supervise, EnterNamespace, ClearNextTarget, SettleClear, ForgetLedger,
                    SweepUnrecorded, DecideAfterClear, TopsOK
<1>2. CASE InspectTarget
  <2>1. ns \in 1 .. MaxInst
    BY <1>2 DEF InspectTarget, TypeOK, WorkerOK
  <2>2. LayerVerdict(Topmost(ns, cur)) = "detach" => Topmost(ns, cur).kind \in ModuleKinds
    BY <1>0, <2>1, OwnLayerIsOurs DEF LayerVerdict
  <2> QED BY <1>2, <2>2 DEF InspectTarget, FinishTarget, TopsOK, Topmost
<1>3. CASE UmountTarget \/ SkipHost \/ StartAttach \/ ReplaceTop \/ AttachTimesOut
  BY <1>3 DEF UmountTarget, FinishTarget, SkipHost, StartAttach, ReplaceTop, AttachTimesOut, AttachFailed, TopsOK
<1>4. CASE ReuseHost
  <2>1. ns \in 1 .. MaxInst /\ AttachRoot \in Targets /\ HostDev(hostGen) \in OwnDevs /\ HostDev(hostGen) # 0
    BY <1>4, ConstantFacts, HostDevOwn DEF ReuseHost, TypeOK, WorkerOK, WorldOK, HostDev
  <2>2. Topmost(ns, AttachRoot).kind \in ModuleKinds
    BY <1>0, <1>4, <2>1, TopmostOK DEF ReuseHost, OwnDevs, NoLayer
  <2> QED BY <1>4, <2>2 DEF ReuseHost, TopsOK, Topmost
<1>5. CASE MoveMount
  <2>1. ns \in 1 .. MaxInst /\ AttachRoot \in Targets
    BY <1>5, ConstantFacts DEF MoveMount, TypeOK, WorkerOK
  <2>2. CASE pc' = "aliases"
    <3>1. PICK i \in FreshIds : stack' = Push(ns, AttachRoot, HostLayer(i))
      BY <1>5, <2>2 DEF MoveMount, AttachFailed
    <3>2. TopOf(stack'[ns][AttachRoot]) = HostLayer(i)
      BY <1>0, <2>1, <3>1, HostLayerType, PushProperties
    <3>3. done' = {AttachRoot} /\ ns' = ns
      BY <1>5, <2>2 DEF MoveMount, AttachFailed
    <3> QED BY <2>2, <3>2, <3>3 DEF TopsOK, Topmost, HostLayer, ModuleKinds
  <2>3. CASE pc' = "fallback"
    BY <2>3 DEF TopsOK
  <2> QED BY <1>5, <2>2, <2>3 DEF MoveMount, AttachFailed
<1>6. CASE AttachAlias
  <2>1. ns \in 1 .. MaxInst /\ AttachRoot \in Targets /\ pc = "aliases"
    BY <1>6, ConstantFacts DEF AttachAlias, TypeOK, WorkerOK
  <2>2. PICK t \in todo :
            \/ stack' = stack
            \/ DeadHostLayer(Topmost(ns, t)) /\ stack' = PopAt(ns, t)
            \/ \E i \in FreshIds : stack' = Push(ns, t, HostLayer(i))
    BY <1>6 DEF AttachAlias
  <2>3. t \in Targets /\ t # AttachRoot /\ done = {AttachRoot}
    BY <2>1, ConstantsAssumption DEF TypeOK, WorkerOK, ProgressOK
  <2>4. stack'[ns][AttachRoot] = stack[ns][AttachRoot]
    BY <1>0, <2>1, <2>2, <2>3, DeadLayerThere, HostLayerType, PushProperties, PopAtProperties
  <2> QED BY <1>6, <2>1, <2>3, <2>4 DEF AttachAlias, TopsOK, Topmost
<1>7. CASE FinishAttach \/ FinishBinds \/ SaveState
  BY <1>7 DEF FinishAttach, FinishBinds, SaveState, TopsOK, Topmost
<1>8. CASE NoRulesShortCircuit \/ BindFails \/ RollBackRound \/ RecordIdentity \/ KillChild
  BY <1>8, <1>a DEF NoRulesShortCircuit, BindFails, RollBackRound, RecordIdentity, KillChild
<1>9. CASE StartBinds
  BY <1>9 DEF StartBinds, ProgressOK, TopsOK
<1>10. CASE BindTarget
  <2>1. ns \in 1 .. MaxInst /\ pc = "bind" /\ pc' = "bind" /\ ns' = ns
    BY <1>10 DEF BindTarget, TypeOK, WorkerOK
  <2>2. PICK t \in todo :
            /\ \/ SameSource(t) /\ stack' = stack
               \/ \E i \in FreshIds, d \in BindDevs : stack' = Push(ns, t, BindLayer(t, i, d))
            /\ done' = done \cup {t}
    BY <1>10 DEF BindTarget, Shallowest
  <2>3. t \in Targets
    BY DEF TypeOK, WorkerOK
  <2>4. req.src \in Sources \cup {NoSource} /\ BindDevs \subseteq Devs
    BY ConstantFacts DEF TypeOK, WorkerOK, Request, NoRequest, BindDevs, DiskDev, SystemDev, Devs
  <2>5. \A i \in FreshIds, d \in BindDevs : BindLayer(t, i, d) \in Layer /\ BindLayer(t, i, d).kind \in ModuleKinds
    BY <2>4, FreshType DEF BindLayer, BindKind, Layer, ModuleKinds
  <2>6. TopOf(stack'[ns][t]).kind \in ModuleKinds
    BY <1>0, <2>1, <2>2, <2>3, <2>5, PushProperties DEF SameSource, BindKind, ModuleKinds, Topmost
  <2>7. \A u \in Targets : u # t => stack'[ns][u] = stack[ns][u]
    BY <1>0, <2>1, <2>2, <2>3, <2>5, PushProperties
  <2>8. ASSUME NEW u \in done' PROVE TopOf(stack'[ns][u]).kind \in ModuleKinds
    BY <1>0, <2>1, <2>2, <2>6, <2>7 DEF TopsOK, Topmost
  <2> QED BY <2>1, <2>8 DEF TopsOK, Topmost
<1>11. CASE RepairParent
  <2>1. ns \in 1 .. MaxInst /\ AttachRoot \in Targets /\ pc = "bind" /\ pc' = "bind" /\ ns' = ns
    BY <1>11, ConstantFacts DEF RepairParent, TypeOK, WorkerOK
  <2>2. PICK i \in FreshIds :
            stack' = [stack EXCEPT ![ns][AttachRoot] =
                        Append(Pop(@), [id |-> i, kind |-> "repair", dev |-> DiskDev, src |-> NoSource])]
    BY <1>11 DEF RepairParent
  <2> DEFINE r == [id |-> i, kind |-> "repair", dev |-> DiskDev, src |-> NoSource]
             p == Pop(stack[ns][AttachRoot])
  <2>3. r \in Layer /\ r.kind \in ModuleKinds
    BY FreshType, ConstantFacts DEF Layer, ModuleKinds, DiskDev, Devs
  <2>4. p \in Seq(Layer)
    BY <1>0, <2>1, PopType DEF StackType
  <2>5. TopOf(Append(p, r)) = r
    <3> HIDE DEF r, p
    <3>1. Append(p, r) # <<>> /\ Append(p, r)[Len(p) + 1] = r /\ Len(Append(p, r)) = Len(p) + 1
      BY <2>3, <2>4, AppendProperties
    <3> QED BY <3>1 DEF TopOf
  <2>6. stack'[ns][AttachRoot] = Append(p, r) /\ \A u \in Targets : u # AttachRoot => stack'[ns][u] = stack[ns][u]
    BY <1>0, <2>1, <2>2 DEF StackType
  <2>7. ASSUME NEW u \in done' PROVE TopOf(stack'[ns][u]).kind \in ModuleKinds
    <3>1. u \in done \cup {AttachRoot}
      BY <1>11 DEF RepairParent
    <3>2. CASE u = AttachRoot
      BY <2>3, <2>5, <2>6, <3>2
    <3>3. CASE u # AttachRoot
      BY <1>0, <2>1, <2>6, <3>1, <3>3 DEF TopsOK, Topmost
    <3> QED BY <3>2, <3>3
  <2> QED BY <2>1, <2>7 DEF TopsOK, Topmost
<1>12. CASE RestorePrivate
  <2>1. ns \in 1 .. MaxInst /\ pc = "record" /\ pc' = pc /\ ns' = ns /\ done' = done
    BY <1>12 DEF RestorePrivate, TypeOK, WorkerOK, workVars
  <2>2. PICK t \in PrivateDirs, i \in FreshIds : stack' = Push(ns, t, SystemLayer(i, "private"))
    BY <1>12 DEF RestorePrivate
  <2>3. SystemLayer(i, "private") \in Layer /\ t \in Targets
    BY FreshType, ConstantFacts DEF SystemLayer, Layer, SystemKinds, SystemDev, Devs
  <2>4. \A u \in done : stack'[ns][u] = stack[ns][u]
    BY <1>0, <2>1, <2>2, <2>3, PushProperties DEF ProgressOK
  <2> QED BY <2>1, <2>4 DEF TopsOK, Topmost
<1>13. CASE ExitApp \/ StartHost \/ HostDies \/ ChangeConfig \/ PruneStale
  BY <1>13 DEF ExitApp, StartHost, HostDies, ChangeConfig, PruneStale, TopsOK, Topmost, workVars
<1>14. CASE StartApp
  <2>1. pc' = pc /\ ns' = ns /\ cur' = cur /\ done' = done /\ inst + 1 \in 1 .. MaxInst
    BY <1>14, ConstantFacts DEF StartApp, TypeOK, WorldOK, workVars
  <2>2. pc \notin {"idle", "planned", "fork"} => ns \in 1 .. MaxInst /\ ns # inst + 1
    BY <1>0, <2>1 DEF TypeOK, WorkerOK, WorldOK, NamespacesOK
  <2>3. pc \notin {"idle", "planned", "fork"} => stack'[ns] = stack[ns]
    BY <1>0, <1>14, <2>1, <2>2 DEF StartApp, StackType
  <2> QED BY <2>1, <2>3 DEF TopsOK, Topmost
<1>15. CASE SystemMounts
  BY <1>15 DEF SystemMounts, QuietNamespace, InChild, TopsOK, workVars
<1> QED BY <1>1, <1>2, <1>3, <1>4, <1>5, <1>6, <1>7, <1>8, <1>9, <1>10, <1>11, <1>12, <1>13, <1>14, <1>15
       DEF Next, WorkerStep, ClearStep, AttachStep, MountStep, Environment

-----------------------------------------------------------------------------
(* The theorem.                                                             *)

\* The invariant holds at the start and every step keeps it.
LEMMA OwnInvInit == Init => OwnInv
<1> SUFFICES ASSUME Init PROVE OwnInv
  OBVIOUS
<1>1. TypeOK
  BY InitType
<1>2. \A n \in 1 .. MaxInst, t \in Targets : stack[n][t] = <<>>
  BY DEF Init, FreshStack
<1>3. LayersOK(stack) /\ LayerOK(backup)
  BY <1>2 DEF Init, IdleWorker, LayersOK, LayerOK, NoLayer, SystemKinds, SystemDev
<1>4. DevicesOK
  BY EmptySeq DEF Init, IdleWorker, DevicesOK, NoLedger
<1>5. NamespacesOK /\ ProgressOK /\ TopsOK
  BY <1>2 DEF Init, IdleWorker, NamespacesOK, ProgressOK, TopsOK
<1> QED BY <1>1, <1>3, <1>4, <1>5 DEF OwnInv

\* Every step, a stuttering one included, keeps the invariant.
LEMMA OwnInvStep ==
    ASSUME QuietNamespace
    PROVE  OwnInv /\ [Next]_vars => OwnInv'
<1>1. OwnInv /\ Next => OwnInv'
  BY LayersStep, DevicesStep, NamespacesStep, ProgressStep, TopsStep, StepType DEF OwnInv
<1>2. OwnInv /\ UNCHANGED vars => OwnInv'
  BY StepType DEF OwnInv, LayersOK, DevicesOK, NamespacesOK, ProgressOK, TopsOK, Topmost,
                  vars, appVars, hostVars, diskVars, workVars
<1> QED BY <1>1, <1>2

\* The steps that unmount at the four control points take layers of the module only.
LEMMA OwnInvDetaches ==
    ASSUME QuietNamespace, OwnInv, Next
    PROVE  KeepsSystem({"umount", "aliases", "bind", "save"})
<1> USE DEF OwnInv
<1> SUFFICES ASSUME pc \in {"umount", "aliases", "bind", "save"}, NEW n \in 1 .. MaxInst, NEW t \in Targets
             PROVE  \A l \in Removed(n, t) : l.kind \in ModuleKinds
  BY DEF KeepsSystem
<1>0. stack \in StackType /\ stack' \in StackType /\ ns \in 1 .. MaxInst
  BY StepType DEF TypeOK, WorkerOK
<1>1. /\ stack[n][t] \in Seq(Layer) /\ Len(stack[n][t]) \in Nat
      /\ stack'[n][t] \in Seq(Layer) /\ Len(stack'[n][t]) \in Nat
  BY <1>0, LenProperties DEF StackType
<1>2. CASE Len(stack'[n][t]) >= Len(stack[n][t])
  BY <1>1, <1>2 DEF Removed
<1>3. ASSUME stack[n][t] # <<>>, stack'[n][t] = Pop(stack[n][t]), Topmost(n, t).kind \in ModuleKinds
      PROVE  \A l \in Removed(n, t) : l.kind \in ModuleKinds
  <2>1. Len(stack'[n][t]) = Len(stack[n][t]) - 1 /\ Topmost(n, t) = stack[n][t][Len(stack[n][t])]
    BY <1>1, <1>3, PopProperties DEF Topmost
  <2>2. Removed(n, t) = {Topmost(n, t)}
    BY <1>1, <2>1 DEF Removed
  <2> QED BY <1>3, <2>2
<1>4. CASE UmountTarget
  <2>1. cur \in Targets /\ pc = "umount"
    BY <1>4 DEF UmountTarget, TypeOK, WorkerOK
  <2>2. CASE stack' = stack
    BY <1>1, <1>2, <2>2
  <2>3. CASE stack[ns][cur] # <<>> /\ stack' = PopAt(ns, cur)
    <3>1. CASE n = ns /\ t = cur
      BY <1>0, <1>3, <2>1, <2>3, <3>1, PopAtProperties DEF TopsOK
    <3>2. CASE n # ns \/ t # cur
      BY <1>0, <1>1, <1>2, <2>1, <2>3, <3>2, PopAtProperties
    <3> QED BY <3>1, <3>2
  <2> QED BY <1>4, <2>2, <2>3 DEF UmountTarget
<1>5. CASE AttachAlias
  <2>1. PICK u \in todo :
            \/ stack' = stack
            \/ DeadHostLayer(Topmost(ns, u)) /\ stack' = PopAt(ns, u)
            \/ \E i \in FreshIds : stack' = Push(ns, u, HostLayer(i))
    BY <1>5 DEF AttachAlias
  <2>2. u \in Targets
    BY DEF TypeOK, WorkerOK
  <2>3. CASE stack' = stack
    BY <1>1, <1>2, <2>3
  <2>4. CASE \E i \in FreshIds : stack' = Push(ns, u, HostLayer(i))
    BY <1>0, <1>1, <1>2, <2>2, <2>4, HostLayerType, PushProperties
  <2>5. CASE DeadHostLayer(Topmost(ns, u)) /\ stack' = PopAt(ns, u)
    <3>1. stack[ns][u] # <<>> /\ Topmost(ns, u).kind \in ModuleKinds
      BY <1>0, <2>2, <2>5, DeadLayerThere
    <3>2. CASE n = ns /\ t = u
      BY <1>0, <1>3, <2>2, <2>5, <3>1, <3>2, PopAtProperties
    <3>3. CASE n # ns \/ t # u
      BY <1>0, <1>1, <1>2, <2>2, <2>5, <3>1, <3>3, PopAtProperties
    <3> QED BY <3>2, <3>3
  <2> QED BY <2>1, <2>3, <2>4, <2>5
<1>6. CASE BindTarget
  <2>1. PICK u \in todo :
            stack' = stack \/ \E i \in FreshIds, d \in BindDevs : stack' = Push(ns, u, BindLayer(u, i, d))
    BY <1>6 DEF BindTarget, Shallowest
  <2>2. req.src \in Sources \cup {NoSource} /\ BindDevs \subseteq Devs /\ u \in Targets
    BY ConstantFacts DEF TypeOK, WorkerOK, Request, NoRequest, BindDevs, DiskDev, SystemDev, Devs
  <2>3. \A i \in FreshIds, d \in BindDevs : BindLayer(u, i, d) \in Layer
    BY <2>2, FreshType DEF BindLayer, BindKind, Layer, ModuleKinds
  <2>4. CASE stack' = stack
    BY <1>1, <1>2, <2>4
  <2>5. CASE \E i \in FreshIds, d \in BindDevs : stack' = Push(ns, u, BindLayer(u, i, d))
    BY <1>0, <1>1, <1>2, <2>2, <2>3, <2>5, PushProperties
  <2> QED BY <2>1, <2>4, <2>5
<1>7. CASE RepairParent
  <2>1. PICK i \in FreshIds :
            stack' = [stack EXCEPT ![ns][AttachRoot] =
                        Append(Pop(@), [id |-> i, kind |-> "repair", dev |-> DiskDev, src |-> NoSource])]
    BY <1>7 DEF RepairParent
  <2>2. AttachRoot \in Targets /\ DeadHostLayer(Topmost(ns, AttachRoot))
    BY <1>7, ConstantFacts DEF RepairParent, Reaches
  <2>3. stack[ns][AttachRoot] \in Seq(Layer) /\ stack[ns][AttachRoot] # <<>>
    BY <1>0, <2>2, DeadLayerThere DEF StackType
  <2>4. CASE n = ns /\ t = AttachRoot
    <3> DEFINE r == [id |-> i, kind |-> "repair", dev |-> DiskDev, src |-> NoSource]
    <3>1. stack'[n][t] = Append(Pop(stack[n][t]), r)
      BY <1>0, <2>1, <2>2, <2>4 DEF StackType
    <3>2. r \in Layer
      BY FreshType, ConstantFacts DEF Layer, ModuleKinds, DiskDev, Devs
    <3>3. Pop(stack[n][t]) \in Seq(Layer) /\ Len(Pop(stack[n][t])) = Len(stack[n][t]) - 1
      BY <2>3, <2>4, PopType, PopProperties
    <3>4. Len(stack'[n][t]) = Len(Pop(stack[n][t])) + 1
      BY <3>1, <3>2, <3>3, AppendProperties
    <3> QED BY <1>1, <1>2, <3>3, <3>4
  <2>5. CASE n # ns \/ t # AttachRoot
    <3>1. stack'[n][t] = stack[n][t]
      BY <1>0, <2>1, <2>2, <2>5 DEF StackType
    <3> QED BY <1>1, <1>2, <3>1
  <2> QED BY <2>4, <2>5
<1>8. CASE RollBackRound
  <2>1. \/ stack'[n][t] = stack[n][t]
        \/ n = ns /\ t \in done /\ stack[n][t] # <<>> /\ stack'[n][t] = Pop(stack[n][t])
    BY <1>0, <1>8 DEF RollBackRound, StackType
  <2>2. n = ns /\ t \in done => Topmost(n, t).kind \in ModuleKinds
    BY <1>8 DEF RollBackRound, TopsOK
  <2> QED BY <1>1, <1>2, <1>3, <2>1, <2>2
<1>9. CASE StartApp
  <2>1. inst + 1 \in 1 .. MaxInst /\ inst + 1 > inst
    BY <1>9, ConstantFacts DEF StartApp, TypeOK, WorldOK
  <2>2. CASE n # inst + 1
    <3>1. stack'[n][t] = stack[n][t]
      BY <1>0, <1>9, <2>1, <2>2 DEF StartApp, StackType
    <3> QED BY <1>1, <1>2, <3>1
  <2>3. CASE n = inst + 1
    <3>1. stack[n][t] = <<>>
      BY <2>1, <2>3 DEF NamespacesOK
    <3> QED BY <1>1, <1>2, <3>1, EmptySeq
  <2> QED BY <2>2, <2>3
<1>10. CASE SystemMounts
  BY <1>10 DEF SystemMounts, QuietNamespace, InChild
<1>11. CASE FinishAttach \/ AttachTimesOut \/ BindFails \/ FinishBinds \/ SaveState
            \/ KillChild \/ ExitApp \/ StartHost \/ HostDies \/ ChangeConfig \/ PruneStale
  <2>1. stack' = stack
    BY <1>11 DEF FinishAttach, AttachTimesOut, BindFails, FinishBinds, SaveState,
                 KillChild, ExitApp, StartHost, HostDies, ChangeConfig, PruneStale
  <2> QED BY <1>1, <1>2, <2>1
<1>12. CASE BuildPlan \/ Supervise \/ EnterNamespace \/ ClearNextTarget \/ InspectTarget \/ SettleClear
            \/ ForgetLedger \/ SweepUnrecorded \/ DecideAfterClear
  BY <1>12 DEF BuildPlan, Supervise, EnterNamespace, ClearNextTarget, InspectTarget, SettleClear,
               ForgetLedger, SweepUnrecorded, DecideAfterClear
<1>13. CASE ReuseHost \/ SkipHost \/ StartAttach \/ ReplaceTop \/ MoveMount \/ NoRulesShortCircuit \/ StartBinds
            \/ RestorePrivate \/ RecordIdentity
  BY <1>13 DEF ReuseHost, SkipHost, StartAttach, ReplaceTop, MoveMount, NoRulesShortCircuit, StartBinds,
               RestorePrivate, RecordIdentity
<1> QED BY <1>4, <1>5, <1>6, <1>7, <1>8, <1>9, <1>10, <1>11, <1>12, <1>13
       DEF Next, WorkerStep, ClearStep, AttachStep, MountStep, Environment

\* In a namespace where nobody else mounts inside the child's windows, clearing, dropping
\* dead sessions, repairing and rolling back never unmount a layer of the system: whatever
\* mount ids are reused, calls fail, children are killed and processes replaced.
THEOREM DetachesOwn ==
    ASSUME QuietNamespace
    PROVE  Spec => DetachesOwnLayersOnly
<1>1. OwnInv /\ [Next]_vars => [KeepsSystem({"umount", "aliases", "bind", "save"})]_vars
  BY OwnInvDetaches
<1> QED BY <1>1, OwnInvInit, OwnInvStep, PTL DEF Spec, DetachesOwnLayersOnly

=============================================================================
