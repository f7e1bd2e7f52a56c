------------------------- MODULE MountServedProofs -------------------------
(* A slot the plan skips as current is really served, although its state file *)
(* is written before the ledger, rounds are killed anywhere, attaches fail or  *)
(* time out half way, and hosts die and are replaced.  Proved for every set of *)
(* targets and every bound, for a namespace the system leaves alone.  On top of *)
(* it: no target ever holds two of the module's layers.                        *)
EXTENDS MountRecoveryProofs

\* One process owns the pid, the system puts nothing over the module's layers and left
\* no barrier there, and the redirect rules bind neither the view root nor a private
\* directory that a round restores.
OwnedNamespace ==
    /\ MaxInst = 1
    /\ ~Fault("foreign") /\ ~Fault("barrier")
    /\ AttachRoot \notin PrivateDirs
    /\ \A c \in Configs : c.binds \cap (PrivateDirs \cup {AttachRoot}) = {}

-----------------------------------------------------------------------------
(* The inductive invariant.                                                 *)

Root(n) == stack[n][AttachRoot]
RepairLayer(i) == [id |-> i, kind |-> "repair", dev |-> DiskDev, src |-> NoSource]
\* A set of layers without one of the system.
AllOurs(S) == \A l \in S : l.kind \in ModuleKinds

\* The view root shows one layer at most: the host replaces the system view, a repair
\* replaces the host, and a failed attach puts back the one it took.
SingleView == \A n \in 1 .. MaxInst : Len(Root(n)) <= 1
\* What an attach in progress holds in its hands, and nothing else does.
CloneOK ==
    /\ pc = "move" => Root(ns) = <<>>
    /\ pc # "move" => backup = NoLayer
    /\ backup.kind \in SystemKinds => backup.dev = SystemDev
\* Everywhere else only the module mounts; the system's view is on its own superblock.
KindsOK ==
    /\ \A n \in 1 .. MaxInst, t \in Targets \ (PrivateDirs \cup {AttachRoot}) : AllOurs(Entries(stack[n][t]))
    /\ \A n \in 1 .. MaxInst : \A l \in Entries(Root(n)) : l.kind \in SystemKinds => l.dev = SystemDev
\* Before the first process there is nothing; later the round knows its targets and
\* its host, which cannot be replaced under it.
RoundOK ==
    /\ inst = 0 => pc = "idle" /\ state = NoState
    /\ pc = "idle" => done = {}
    /\ pc \in {"attach", "move", "aliases"} => via = hostGen
    /\ pc \in {"fallback", "bind"} => via = 0
    /\ pc = "save" => via \in {0, hostGen}
    /\ pc = "aliases" => todo \subseteq AliasRoots
    /\ pc = "bind" => todo \subseteq req.binds
    /\ (state.targets \cup done) \cap PrivateDirs = {}
    /\ state.host <= hostGen
    /\ state.host # 0 => AttachRoot \in state.targets
\* Once the view root is among the targets the system's view is gone from it for good.
RootTaken ==
    AttachRoot \in state.targets \cup done =>
        (\A n \in 1 .. MaxInst : AllOurs(Entries(Root(n)))) /\ backup.kind \notin SystemKinds
\* The host a round is about to record, or did record, is what the view root shows,
\* if it shows anything.
HostShown ==
    /\ pc = "attach" => \A l \in Entries(Root(ns)) : l.dev # HostDev(hostGen)
    /\ pc = "aliases" \/ (pc = "save" /\ via # 0) =>
            AttachRoot \in done /\ \A l \in Entries(Root(ns)) : l.dev = HostDev(via)
    /\ hostUp /\ state.host = hostGen =>
            /\ \A n \in 1 .. MaxInst : \A l \in Entries(Root(n)) : l.dev = HostDev(hostGen)
            /\ pc = "move" => backup \in {NoLayer, LostClone}
ServedInv == TypeOK /\ SingleView /\ CloneOK /\ KindsOK /\ RoundOK /\ RootTaken /\ HostShown

-----------------------------------------------------------------------------
(* Stacks of one layer at most.                                             *)

\* What a stack of no layer, and one of a single layer, show.
LEMMA NoneOrOne ==
    ASSUME NEW l
    PROVE  /\ Entries(<<>>) = {} /\ Len(<<>>) = 0 /\ Append(<<>>, l) = <<l>>
           /\ Entries(<<l>>) = {l} /\ Len(<<l>>) = 1 /\ TopOf(<<l>>) = l /\ Pop(<<l>>) = <<>>
<1>1. Len(<<l>>) = 1 /\ <<l>>[1] = l /\ <<l>> # <<>> /\ <<l>> \in Seq({l})
  OBVIOUS
<1>2. Entries(<<l>>) = {l}
  BY <1>1 DEF Entries
<1>3. Pop(<<l>>) = <<>>
  BY <1>1 DEF Pop
<1> QED BY <1>1, <1>2, <1>3 DEF Entries, TopOf

\* There are no others of that length.
LEMMA AtMostOne ==
    ASSUME NEW s \in Seq(Layer), Len(s) <= 1
    PROVE  s = <<>> \/ \E l \in Layer : s = <<l>>
<1>1. CASE Len(s) = 0
  BY <1>1, EmptySeq
<1>2. CASE Len(s) = 1
  <2>1. s[1] \in Layer /\ s = <<s[1]>>
    BY <1>2
  <2> QED BY <2>1
<1>3. Len(s) \in Nat
  BY LenProperties
<1> QED BY <1>1, <1>2, <1>3

\* Cutting such a stack keeps or empties it.
LEMMA CutOne ==
    ASSUME NEW s \in Seq(Layer), Len(s) <= 1, NEW k \in 0 .. Len(s)
    PROVE  SubSeq(s, 1, k) \in {s, <<>>}
<1>1. Len(s) \in Nat
  BY LenProperties
<1>2. CASE k = Len(s)
  <2>1. SubSeq(s, 1, Len(s)) = s
    OBVIOUS
  <2> QED BY <1>2, <2>1
<1>3. CASE k = 0
  <2>1. SubSeq(s, 1, 0) = <<>>
    OBVIOUS
  <2> QED BY <1>3, <2>1
<1> QED BY <1>1, <1>2, <1>3

\* The visible layer of the view root is the only one.
LEMMA RootTop ==
    ASSUME TypeOK, SingleView, NEW n \in 1 .. MaxInst
    PROVE  /\ Root(n) \in Seq(Layer)
           /\ \/ Root(n) = <<>> /\ Entries(Root(n)) = {} /\ Topmost(n, AttachRoot) = NoLayer
              \/ /\ Root(n) = <<Topmost(n, AttachRoot)>> /\ Entries(Root(n)) = {Topmost(n, AttachRoot)}
                 /\ Topmost(n, AttachRoot) \in Layer /\ Pop(Root(n)) = <<>>
<1>1. Root(n) \in Seq(Layer) /\ Len(Root(n)) <= 1
  BY ConstantFacts DEF TypeOK, StackType, SingleView, Root
<1>2. CASE Root(n) = <<>>
  BY <1>1, <1>2 DEF Topmost, TopOf, Root, Entries
<1>3. ASSUME NEW l \in Layer, Root(n) = <<l>>
      PROVE  Topmost(n, AttachRoot) = l /\ Entries(Root(n)) = {l} /\ Pop(Root(n)) = <<>>
  BY <1>3, NoneOrOne DEF Topmost, Root
<1> QED BY <1>1, <1>2, <1>3, AtMostOne

-----------------------------------------------------------------------------
(* What a step does to the view root.                                       *)

\* It stays, it is emptied, or it gets the one layer an attach, its rollback, a repair or
\* a new process puts there.
RootUntouched(n) == stack'[n][AttachRoot] \in {Root(n), <<>>}
RootAttached(n) == pc = "move" /\ n = ns /\ \E i \in FreshIds : stack'[n][AttachRoot] = <<HostLayer(i)>>
RootPutBack(n) ==
    /\ pc = "move" /\ n = ns /\ Restores /\ AttachFailed
    /\ \E i \in FreshIds : stack'[n][AttachRoot] = <<[backup EXCEPT !.id = i]>>
RootRepaired(n) ==
    /\ pc = "bind" /\ n = ns /\ DeadHostLayer(Topmost(n, AttachRoot))
    /\ \E i \in FreshIds : stack'[n][AttachRoot] = <<RepairLayer(i)>>
RootFresh(n) ==
    /\ StartApp /\ n = inst + 1
    /\ \E i \in FreshIds : stack'[n][AttachRoot] = <<SystemLayer(i, "system")>>

LEMMA RootStep ==
    ASSUME ServedInv, OwnedNamespace, Next, NEW n \in 1 .. MaxInst
    PROVE  RootUntouched(n) \/ RootAttached(n) \/ RootPutBack(n) \/ RootRepaired(n) \/ RootFresh(n)
<1> USE DEF ServedInv
<1>0. stack \in StackType /\ stack' \in StackType /\ AttachRoot \in Targets
  BY StepType, ConstantFacts DEF TypeOK
<1>1. Root(n) \in Seq(Layer) /\ Len(Root(n)) <= 1
  BY RootTop DEF SingleView
<1>2. ASSUME NEW t \in Targets, stack' = PopAt(ns, t), stack[ns][t] # <<>>, ns \in 1 .. MaxInst
      PROVE  RootUntouched(n)
  <2>1. CASE n = ns /\ t = AttachRoot
    BY <1>0, <1>2, <2>1, PopAtProperties, RootTop DEF RootUntouched, Root
  <2>2. CASE n # ns \/ t # AttachRoot
    BY <1>0, <1>2, <2>2, PopAtProperties DEF RootUntouched, Root
  <2> QED BY <2>1, <2>2
<1>3. ASSUME NEW t \in Targets \ {AttachRoot}, NEW l \in Layer, stack' = Push(ns, t, l), ns \in 1 .. MaxInst
      PROVE  RootUntouched(n)
  BY <1>0, <1>3, PushProperties DEF RootUntouched, Root
<1>4. CASE stack' = stack
  BY <1>4 DEF RootUntouched, Root
<1>5. ASSUME \E k \in 0 .. Len(stack[n][AttachRoot]) : stack'[n][AttachRoot] = SubSeq(stack[n][AttachRoot], 1, k)
      PROVE  RootUntouched(n)
  BY <1>1, <1>5, CutOne DEF RootUntouched, Root
<1>6. CASE UmountTarget
  <2>1. ns \in 1 .. MaxInst /\ cur \in Targets
    BY <1>6 DEF UmountTarget, TypeOK, WorkerOK
  <2>2. stack' = stack \/ (stack[ns][cur] # <<>> /\ stack' = PopAt(ns, cur))
    BY <1>6 DEF UmountTarget
  <2> QED BY <1>2, <1>4, <2>1, <2>2
<1>7. CASE SweepUnrecorded
  BY <1>0, <1>5, <1>7, SweepCuts
<1>8. CASE RollBackRound
  BY <1>0, <1>5, <1>8, RollBackCuts
<1>9. CASE ReplaceTop
  <2>1. ns \in 1 .. MaxInst
    BY <1>9 DEF ReplaceTop, TypeOK, WorkerOK
  <2>2. stack' = stack \/ (stack[ns][AttachRoot] # <<>> /\ stack' = PopAt(ns, AttachRoot))
    BY <1>0, <1>9, <2>1, DeadLayerThere, TopmostType DEF ReplaceTop
  <2> QED BY <1>0, <1>2, <1>4, <2>1, <2>2
<1>10. CASE MoveMount
  <2>1. ns \in 1 .. MaxInst /\ pc = "move" /\ Root(ns) = <<>>
    BY <1>10 DEF MoveMount, TypeOK, WorkerOK, CloneOK
  <2>2. \/ stack' = stack
        \/ \E i \in FreshIds : stack' = Push(ns, AttachRoot, HostLayer(i))
        \/ Restores /\ AttachFailed /\ \E i \in FreshIds : stack' = Push(ns, AttachRoot, [backup EXCEPT !.id = i])
    BY <1>10 DEF MoveMount
  <2>3. ASSUME NEW l \in Layer, stack' = Push(ns, AttachRoot, l)
        PROVE  stack'[n][AttachRoot] = IF n = ns THEN <<l>> ELSE Root(n)
    <3>1. Append(<<>>, l) = <<l>>
      BY NoneOrOne
    <3> QED BY <1>0, <2>1, <2>3, <3>1, PushProperties DEF Root
  <2>4. CASE \E i \in FreshIds : stack' = Push(ns, AttachRoot, HostLayer(i))
    <3>1. PICK i \in FreshIds : stack' = Push(ns, AttachRoot, HostLayer(i))
      BY <2>4
    <3>2. HostLayer(i) \in Layer
      BY HostLayerType
    <3> QED BY <2>1, <2>3, <3>1, <3>2 DEF RootAttached, RootUntouched
  <2>5. CASE Restores /\ AttachFailed /\ \E i \in FreshIds : stack' = Push(ns, AttachRoot, [backup EXCEPT !.id = i])
    <3>1. PICK i \in FreshIds : stack' = Push(ns, AttachRoot, [backup EXCEPT !.id = i])
      BY <2>5
    <3>2. [backup EXCEPT !.id = i] \in Layer
      BY <2>5, FreshType DEF Restores, TypeOK, WorkerOK, Layer
    <3> QED BY <2>1, <2>3, <2>5, <3>1, <3>2 DEF RootPutBack, RootUntouched
  <2> QED BY <1>4, <2>2, <2>4, <2>5
<1>11. CASE AttachAlias
  <2>1. ns \in 1 .. MaxInst
    BY <1>11 DEF AttachAlias, TypeOK, WorkerOK
  <2>2. PICK t \in todo :
            \/ stack' = stack
            \/ DeadHostLayer(Topmost(ns, t)) /\ stack' = PopAt(ns, t)
            \/ \E i \in FreshIds : stack' = Push(ns, t, HostLayer(i))
    BY <1>11 DEF AttachAlias
  <2>3. t \in Targets
    BY DEF TypeOK, WorkerOK
  <2>4. CASE DeadHostLayer(Topmost(ns, t)) /\ stack' = PopAt(ns, t)
    BY <1>0, <1>2, <2>1, <2>3, <2>4, DeadLayerThere
  <2>5. t # AttachRoot
    BY <1>11, ConstantsAssumption DEF AttachAlias, RoundOK
  <2>6. CASE \E i \in FreshIds : stack' = Push(ns, t, HostLayer(i))
    BY <1>3, <2>1, <2>3, <2>5, <2>6, HostLayerType
  <2> QED BY <1>4, <2>2, <2>4, <2>6
<1>12. CASE BindTarget
  <2>1. ns \in 1 .. MaxInst /\ pc = "bind"
    BY <1>12 DEF BindTarget, TypeOK, WorkerOK
  <2>2. PICK t \in todo :
            stack' = stack \/ \E i \in FreshIds, d \in BindDevs : stack' = Push(ns, t, BindLayer(t, i, d))
    BY <1>12 DEF BindTarget, Shallowest
  <2>3. req.src \in Sources \cup {NoSource} /\ BindDevs \subseteq Devs /\ t \in Targets
    BY ConstantFacts DEF TypeOK, WorkerOK, Request, NoRequest, BindDevs, DiskDev, SystemDev, Devs
  <2>4. \A i \in FreshIds, d \in BindDevs : BindLayer(t, i, d) \in Layer
    BY <2>3, FreshType DEF BindLayer, BindKind, Layer, ModuleKinds
  <2>5. t # AttachRoot
    BY <2>1 DEF RoundOK, OwnedNamespace, TypeOK, WorkerOK, NoRequest
  <2> QED BY <1>3, <1>4, <2>1, <2>2, <2>3, <2>4, <2>5
<1>13. CASE RepairParent
  <2>1. ns \in 1 .. MaxInst /\ pc = "bind" /\ DeadHostLayer(Topmost(ns, AttachRoot))
    BY <1>13 DEF RepairParent, Reaches, TypeOK, WorkerOK
  <2>2. PICK i \in FreshIds :
            stack' = [stack EXCEPT ![ns][AttachRoot] =
                        Append(Pop(@), [id |-> i, kind |-> "repair", dev |-> DiskDev, src |-> NoSource])]
    BY <1>13 DEF RepairParent
  <2>3. Pop(Root(ns)) = <<>> /\ Append(<<>>, RepairLayer(i)) = <<RepairLayer(i)>>
    BY <1>0, <2>1, DeadLayerThere, RootTop DEF Root
  <2>4. n = ns => stack'[n][AttachRoot] = <<RepairLayer(i)>>
    BY <1>0, <2>1, <2>2, <2>3 DEF StackType, Root, RepairLayer
  <2>5. n # ns => stack'[n][AttachRoot] = Root(n)
    BY <1>0, <2>1, <2>2 DEF StackType, Root
  <2> QED BY <2>1, <2>4, <2>5 DEF RootRepaired, RootUntouched
<1>14. CASE RestorePrivate
  <2>1. ns \in 1 .. MaxInst
    BY <1>14 DEF RestorePrivate, TypeOK, WorkerOK
  <2>2. \A i \in FreshIds : SystemLayer(i, "private") \in Layer
    BY FreshType, ConstantFacts DEF SystemLayer, Layer, SystemKinds, SystemDev, Devs
  <2> QED BY <1>3, <1>14, <2>1, <2>2, ConstantFacts DEF RestorePrivate, OwnedNamespace
<1>15. CASE StartApp
  <2>1. inst + 1 \in 1 .. MaxInst
    BY <1>15, ConstantFacts DEF StartApp, TypeOK, WorldOK
  <2>2. PICK i \in FreshIds : stack' = [stack EXCEPT ![inst + 1] = FreshStack(<<SystemLayer(i, "system")>>)]
    BY <1>15 DEF StartApp, OwnedNamespace
  <2>3. n = inst + 1 => stack'[n][AttachRoot] = <<SystemLayer(i, "system")>>
    BY <1>0, <2>1, <2>2 DEF StackType, FreshStack
  <2>4. n # inst + 1 => stack'[n][AttachRoot] = Root(n)
    BY <1>0, <2>1, <2>2 DEF StackType, Root
  <2> QED BY <1>15, <2>3, <2>4 DEF RootFresh, RootUntouched
<1>16. CASE SystemMounts
  BY <1>16 DEF SystemMounts, OwnedNamespace
<1>17. CASE BuildPlan \/ Supervise \/ EnterNamespace \/ ClearNextTarget \/ InspectTarget \/ SettleClear
            \/ ForgetLedger \/ DecideAfterClear \/ ReuseHost \/ SkipHost \/ StartAttach \/ AttachTimesOut
  BY <1>4, <1>17 DEF BuildPlan, Supervise, EnterNamespace, ClearNextTarget, InspectTarget, SettleClear,
               ForgetLedger, DecideAfterClear, ReuseHost, SkipHost, StartAttach, AttachTimesOut
<1>18. CASE FinishAttach \/ NoRulesShortCircuit \/ StartBinds \/ BindFails \/ FinishBinds \/ SaveState
            \/ RecordIdentity \/ KillChild \/ ExitApp \/ StartHost \/ HostDies \/ ChangeConfig \/ PruneStale
  BY <1>4, <1>18 DEF FinishAttach, NoRulesShortCircuit, StartBinds, BindFails, FinishBinds, SaveState,
               RecordIdentity, KillChild, ExitApp, StartHost, HostDies, ChangeConfig, PruneStale
<1> QED BY <1>6, <1>7, <1>8, <1>9, <1>10, <1>11, <1>12, <1>13, <1>14, <1>15, <1>16, <1>17, <1>18
       DEF Next, WorkerStep, ClearStep, AttachStep, MountStep, Environment

-----------------------------------------------------------------------------
(* One lemma per part of the invariant.                                     *)

\* The view root never has a second layer.
LEMMA SingleStep ==
    ASSUME ServedInv, OwnedNamespace, Next
    PROVE  SingleView'
<1> SUFFICES ASSUME NEW n \in 1 .. MaxInst PROVE Len(stack'[n][AttachRoot]) <= 1
  BY DEF SingleView, Root
<1>1. Len(Root(n)) <= 1 /\ Len(<<>>) = 0
  BY DEF ServedInv, SingleView
<1>2. CASE RootUntouched(n)
  BY <1>1, <1>2 DEF RootUntouched
<1>3. CASE \E l : stack'[n][AttachRoot] = <<l>>
  BY <1>3
<1>4. RootAttached(n) \/ RootPutBack(n) \/ RootRepaired(n) \/ RootFresh(n) => \E l : stack'[n][AttachRoot] = <<l>>
  BY Zenon DEF RootAttached, RootPutBack, RootRepaired, RootFresh
<1> QED BY <1>2, <1>3, <1>4, RootStep

\* The clone is taken by ReplaceTop, kept while the environment moves, and gone after.
CloneTaken ==
    /\ ReplaceTop /\ ~DeadHostLayer(Topmost(ns, AttachRoot))
    /\ pc' = "move" /\ ns' = ns /\ backup' \in Clones(Topmost(ns, AttachRoot))
    /\ stack' = IF Topmost(ns, AttachRoot) = NoLayer THEN stack ELSE PopAt(ns, AttachRoot)
CloneKept == pc = "move" /\ stack' = stack /\ UNCHANGED workVars
LEMMA BackupStep ==
    ASSUME ServedInv, OwnedNamespace, Next
    PROVE  (pc' # "move" /\ backup' = NoLayer) \/ CloneTaken \/ CloneKept
<1> USE DEF ServedInv, CloneOK
<1>1. CASE BuildPlan \/ Supervise \/ EnterNamespace
  BY <1>1 DEF BuildPlan, Supervise, EnterNamespace, EndRound
<1>2. CASE ClearStep
  BY <1>2 DEF ClearStep, ClearNextTarget, InspectTarget, UmountTarget, FinishTarget, SettleClear, ForgetLedger,
              SweepUnrecorded, DecideAfterClear, EndRound
<1>3. CASE ReplaceTop
  BY <1>3 DEF ReplaceTop, AttachFailed, CloneTaken
<1>4. CASE ReuseHost \/ SkipHost \/ StartAttach \/ MoveMount \/ AttachTimesOut \/ AttachAlias \/ FinishAttach
  BY <1>4 DEF ReuseHost, SkipHost, StartAttach, MoveMount, AttachTimesOut, AttachAlias, FinishAttach, AttachFailed
<1>5. CASE MountStep
  BY <1>5 DEF MountStep, NoRulesShortCircuit, StartBinds, BindTarget, RepairParent, BindFails, FinishBinds,
              SaveState, RollBackRound, RestorePrivate, RecordIdentity, EndRound, workVars
<1>6. CASE KillChild
  BY <1>6 DEF KillChild, EndRound
<1>7. CASE StartApp
  <2>1. pc = "idle"
    BY <1>7, ConstantFacts DEF StartApp, OwnedNamespace, RoundOK, TypeOK, WorldOK
  <2> QED BY <1>7, <2>1 DEF StartApp, workVars
<1>8. CASE ExitApp \/ StartHost \/ HostDies \/ ChangeConfig \/ PruneStale
  BY <1>8 DEF ExitApp, StartHost, HostDies, ChangeConfig, PruneStale, workVars, CloneKept
<1>9. CASE SystemMounts
  BY <1>9 DEF SystemMounts, OwnedNamespace
<1> QED BY <1>1, <1>2, <1>3, <1>4, <1>5, <1>6, <1>7, <1>8, <1>9
       DEF Next, WorkerStep, AttachStep, Environment

LEMMA CloneStep ==
    ASSUME ServedInv, OwnedNamespace, Next
    PROVE  CloneOK'
<1> USE DEF ServedInv
<1>1. CASE pc' # "move" /\ backup' = NoLayer
  BY <1>1 DEF CloneOK, NoLayer, SystemKinds
<1>2. CASE CloneTaken
  <2>1. pc = "attach" /\ ns \in 1 .. MaxInst /\ AttachRoot \in Targets
    BY <1>2, ConstantFacts DEF CloneTaken, ReplaceTop, TypeOK, WorkerOK
  <2>2. stack'[ns][AttachRoot] = <<>>
    <3>1. CASE Topmost(ns, AttachRoot) = NoLayer
      BY <1>2, <2>1, <3>1, RootTop DEF CloneTaken, Root, Layer, NoLayer, ModuleKinds, SystemKinds
    <3>2. CASE Topmost(ns, AttachRoot) # NoLayer
      BY <1>2, <2>1, <3>2, RootTop, PopAtProperties, TopmostType DEF CloneTaken, Root, TypeOK
    <3> QED BY <3>1, <3>2
  <2>3. backup'.kind \in SystemKinds => backup'.dev = SystemDev
    <3>1. Topmost(ns, AttachRoot).kind \in SystemKinds => Topmost(ns, AttachRoot).dev = SystemDev
      BY <2>1, RootTop DEF KindsOK, NoLayer, SystemKinds
    <3> QED BY <1>2, <3>1 DEF CloneTaken, Clones, LostClone, NoLayer, SystemKinds
  <2> QED BY <1>2, <2>2, <2>3 DEF CloneTaken, CloneOK, Root
<1>3. CASE CloneKept
  BY <1>3 DEF CloneKept, CloneOK, workVars, Root
<1> QED BY <1>1, <1>2, <1>3, BackupStep

-----------------------------------------------------------------------------
(* The other targets.                                                       *)

\* A prefix shows no layer that was not there.
LEMMA CutEntries ==
    ASSUME NEW s \in Seq(Layer), NEW k \in 0 .. Len(s)
    PROVE  Entries(SubSeq(s, 1, k)) \subseteq Entries(s)
<1>1. Len(s) \in Nat /\ k \in Nat /\ k <= Len(s)
  BY LenProperties
<1>2. Len(SubSeq(s, 1, k)) = k /\ \A i \in 1 .. k : SubSeq(s, 1, k)[i] = s[i]
  BY <1>1, PrefixProperties
<1>3. 1 .. k \subseteq 1 .. Len(s)
  BY <1>1
<1> QED BY <1>2, <1>3 DEF Entries

\* A layer that is mounted is the only one added.
LEMMA AppendEntries ==
    ASSUME NEW s \in Seq(Layer), NEW l \in Layer
    PROVE  Entries(Append(s, l)) = Entries(s) \cup {l}
<1>1. /\ Len(s) \in Nat /\ Len(Append(s, l)) = Len(s) + 1 /\ Append(s, l)[Len(s) + 1] = l
      /\ \A i \in 1 .. Len(s) : Append(s, l)[i] = s[i]
  BY AppendProperties, LenProperties
<1>2. ASSUME NEW i \in 1 .. Len(s) + 1 PROVE Append(s, l)[i] \in Entries(s) \cup {l}
  BY <1>1 DEF Entries
<1>3. ASSUME NEW i \in 1 .. Len(s) PROVE s[i] \in Entries(Append(s, l))
  BY <1>1 DEF Entries
<1>4. l \in Entries(Append(s, l))
  BY <1>1 DEF Entries
<1> QED BY <1>1, <1>2, <1>3, <1>4 DEF Entries

\* Who puts a layer anywhere else: an alias of the host view, a bind, a private directory.
AliasPushed(u, l) ==
    AttachAlias /\ u \in todo /\ Topmost(ns, u).dev # HostDev(via) /\ \E i \in FreshIds : l = HostLayer(i)
BindPushed(u, l) ==
    BindTarget /\ u \in todo /\ ~SameSource(u) /\ \E i \in FreshIds, d \in BindDevs : l = BindLayer(u, i, d)
PrivatePushed(u, l) == RestorePrivate /\ u \in PrivateDirs /\ \E i \in FreshIds : l = SystemLayer(i, "private")
Pushed(u, l) == AliasPushed(u, l) \/ BindPushed(u, l) \/ PrivatePushed(u, l)

\* Away from the view root a step cuts a stack or one of the three mounts a layer; a new
\* process finds nothing there.
LEMMA OtherStep ==
    ASSUME ServedInv, OwnedNamespace, Next, NEW n \in 1 .. MaxInst, NEW u \in Targets \ {AttachRoot}
    PROVE  \/ \E k \in 0 .. Len(stack[n][u]) : stack'[n][u] = SubSeq(stack[n][u], 1, k)
           \/ \E l \in Layer : stack'[n][u] = Append(stack[n][u], l) /\ n = ns /\ Pushed(u, l)
<1> USE DEF ServedInv
<1>0. stack \in StackType /\ stack' \in StackType /\ AttachRoot \in Targets
  BY StepType, ConstantFacts DEF TypeOK
<1>1. /\ stack[n][u] \in Seq(Layer) /\ Len(stack[n][u]) \in Nat
      /\ SubSeq(stack[n][u], 1, Len(stack[n][u])) = stack[n][u] /\ SubSeq(stack[n][u], 1, 0) = <<>>
  BY <1>0, LenProperties DEF StackType
<1>2. ASSUME NEW t \in Targets, stack' = PopAt(ns, t), stack[ns][t] # <<>>, ns \in 1 .. MaxInst
      PROVE  \E k \in 0 .. Len(stack[n][u]) : stack'[n][u] = SubSeq(stack[n][u], 1, k)
  <2>1. CASE n = ns /\ t = u
    <3>1. Len(stack[n][u]) - 1 \in 0 .. Len(stack[n][u])
      BY <1>1, <1>2, <2>1, PopProperties
    <3> QED BY <1>0, <1>2, <2>1, <3>1, PopAtProperties DEF Pop
  <2>2. CASE n # ns \/ t # u
    <3>1. stack'[n][u] = stack[n][u]
      BY <1>0, <1>2, <2>2, PopAtProperties
    <3> QED BY <1>1, <3>1
  <2> QED BY <2>1, <2>2
<1>3. ASSUME NEW t \in Targets, NEW l \in Layer, stack' = Push(ns, t, l), ns \in 1 .. MaxInst
      PROVE  \/ \E k \in 0 .. Len(stack[n][u]) : stack'[n][u] = SubSeq(stack[n][u], 1, k)
             \/ n = ns /\ t = u /\ stack'[n][u] = Append(stack[n][u], l)
  <2>1. CASE n = ns /\ t = u
    BY <1>0, <1>3, <2>1, PushProperties
  <2>2. CASE n # ns \/ t # u
    <3>1. stack'[n][u] = stack[n][u]
      BY <1>0, <1>3, <2>2, PushProperties
    <3> QED BY <1>1, <3>1
  <2> QED BY <2>1, <2>2
<1>4. CASE stack' = stack
  BY <1>1, <1>4
<1>6. CASE UmountTarget
  <2>1. ns \in 1 .. MaxInst /\ cur \in Targets
    BY <1>6 DEF UmountTarget, TypeOK, WorkerOK
  <2>2. stack' = stack \/ (stack[ns][cur] # <<>> /\ stack' = PopAt(ns, cur))
    BY <1>6 DEF UmountTarget
  <2> QED BY <1>2, <1>4, <2>1, <2>2
<1>7. CASE SweepUnrecorded
  BY <1>7, SweepCuts
<1>8. CASE RollBackRound
  BY <1>8, RollBackCuts
<1>9. CASE ReplaceTop
  <2>1. ns \in 1 .. MaxInst
    BY <1>9 DEF ReplaceTop, TypeOK, WorkerOK
  <2>2. stack' = stack \/ (stack[ns][AttachRoot] # <<>> /\ stack' = PopAt(ns, AttachRoot))
    BY <1>0, <1>9, <2>1, DeadLayerThere, TopmostType DEF ReplaceTop
  <2> QED BY <1>0, <1>2, <1>4, <2>1, <2>2
<1>10. CASE MoveMount
  <2>1. ns \in 1 .. MaxInst
    BY <1>10 DEF MoveMount, TypeOK, WorkerOK
  <2>2. stack' = stack \/ \E l \in Layer : stack' = Push(ns, AttachRoot, l)
    <3>1. ASSUME NEW i \in FreshIds PROVE HostLayer(i) \in Layer /\ (Restores => [backup EXCEPT !.id = i] \in Layer)
      BY HostLayerType, FreshType DEF Restores, TypeOK, WorkerOK, Layer
    <3> QED BY <1>10, <3>1 DEF MoveMount
  <2> QED BY <1>0, <1>3, <1>4, <2>1, <2>2
<1>11. CASE AttachAlias
  <2>1. ns \in 1 .. MaxInst
    BY <1>11 DEF AttachAlias, TypeOK, WorkerOK
  <2>2. PICK t \in todo :
            \/ stack' = stack
            \/ DeadHostLayer(Topmost(ns, t)) /\ stack' = PopAt(ns, t)
            \/ \E i \in FreshIds : Topmost(ns, t).dev # HostDev(via) /\ stack' = Push(ns, t, HostLayer(i))
    BY <1>11 DEF AttachAlias
  <2>3. t \in Targets
    BY DEF TypeOK, WorkerOK
  <2>4. ASSUME NEW i \in FreshIds, Topmost(ns, t).dev # HostDev(via)
        PROVE  HostLayer(i) \in Layer /\ Pushed(t, HostLayer(i))
    BY <1>11, <2>4, HostLayerType DEF Pushed, AliasPushed
  <2> QED BY <1>0, <1>2, <1>3, <1>4, <2>1, <2>2, <2>3, <2>4, DeadLayerThere
<1>12. CASE BindTarget
  <2>1. ns \in 1 .. MaxInst
    BY <1>12 DEF BindTarget, TypeOK, WorkerOK
  <2>2. PICK t \in todo :
            \/ stack' = stack
            \/ ~SameSource(t) /\ \E i \in FreshIds, d \in BindDevs : stack' = Push(ns, t, BindLayer(t, i, d))
    BY <1>12 DEF BindTarget, Shallowest
  <2>3. req.src \in Sources \cup {NoSource} /\ BindDevs \subseteq Devs /\ t \in Targets
    BY ConstantFacts DEF TypeOK, WorkerOK, Request, NoRequest, BindDevs, DiskDev, SystemDev, Devs
  <2>4. \A i \in FreshIds, d \in BindDevs : BindLayer(t, i, d) \in Layer
    BY <2>3, FreshType DEF BindLayer, BindKind, Layer, ModuleKinds
  <2>5. \A i \in FreshIds, d \in BindDevs : ~SameSource(t) => Pushed(t, BindLayer(t, i, d))
    BY <1>12 DEF Pushed, BindPushed
  <2> QED BY <1>3, <1>4, <2>1, <2>2, <2>3, <2>4, <2>5
<1>13. CASE RepairParent
  <2>1. ns \in 1 .. MaxInst
    BY <1>13 DEF RepairParent, TypeOK, WorkerOK
  <2>2. stack'[n][u] = stack[n][u]
    BY <1>0, <1>13, <2>1 DEF RepairParent, StackType
  <2> QED BY <1>1, <2>2
<1>14. CASE RestorePrivate
  <2>1. ns \in 1 .. MaxInst
    BY <1>14 DEF RestorePrivate, TypeOK, WorkerOK
  <2>2. PICK t \in PrivateDirs, i \in FreshIds : stack' = Push(ns, t, SystemLayer(i, "private"))
    BY <1>14 DEF RestorePrivate
  <2>3. SystemLayer(i, "private") \in Layer /\ t \in Targets
    BY FreshType, ConstantFacts DEF SystemLayer, Layer, SystemKinds, SystemDev, Devs
  <2>4. Pushed(t, SystemLayer(i, "private"))
    BY <1>14 DEF Pushed, PrivatePushed
  <2> QED BY <1>3, <2>1, <2>2, <2>3, <2>4
<1>15. CASE StartApp
  <2>1. inst + 1 \in 1 .. MaxInst
    BY <1>15, ConstantFacts DEF StartApp, TypeOK, WorldOK
  <2>2. PICK i \in FreshIds : stack' = [stack EXCEPT ![inst + 1] = FreshStack(<<SystemLayer(i, "system")>>)]
    BY <1>15 DEF StartApp, OwnedNamespace
  <2>3. CASE n # inst + 1
    <3>1. stack'[n][u] = stack[n][u]
      BY <1>0, <2>1, <2>2, <2>3 DEF StackType
    <3> QED BY <1>1, <3>1
  <2>4. CASE n = inst + 1
    <3>1. stack'[n][u] = <<>>
      BY <1>0, <2>1, <2>2, <2>4 DEF StackType, FreshStack
    <3>2. 0 \in 0 .. Len(stack[n][u])
      BY <1>1
    <3> QED BY <1>1, <3>1, <3>2
  <2> QED BY <2>3, <2>4
<1>16. CASE SystemMounts
  BY <1>16 DEF SystemMounts, OwnedNamespace
<1>17. CASE BuildPlan \/ Supervise \/ EnterNamespace \/ ClearNextTarget \/ InspectTarget \/ SettleClear
            \/ ForgetLedger \/ DecideAfterClear \/ ReuseHost \/ SkipHost \/ StartAttach \/ AttachTimesOut
  BY <1>4, <1>17 DEF BuildPlan, Supervise, EnterNamespace, ClearNextTarget, InspectTarget, SettleClear,
               ForgetLedger, DecideAfterClear, ReuseHost, SkipHost, StartAttach, AttachTimesOut
<1>18. CASE FinishAttach \/ NoRulesShortCircuit \/ StartBinds \/ BindFails \/ FinishBinds \/ SaveState
            \/ RecordIdentity \/ KillChild \/ ExitApp \/ StartHost \/ HostDies \/ ChangeConfig \/ PruneStale
  BY <1>4, <1>18 DEF FinishAttach, NoRulesShortCircuit, StartBinds, BindFails, FinishBinds, SaveState,
               RecordIdentity, KillChild, ExitApp, StartHost, HostDies, ChangeConfig, PruneStale
<1> QED BY <1>6, <1>7, <1>8, <1>9, <1>10, <1>11, <1>12, <1>13, <1>14, <1>15, <1>16, <1>17, <1>18
       DEF Next, WorkerStep, ClearStep, AttachStep, MountStep, Environment

\* What the module mounts is the module's, and the system's view keeps its superblock.
LEMMA KindsStep ==
    ASSUME ServedInv, OwnedNamespace, Next
    PROVE  KindsOK'
<1> USE DEF ServedInv
<1>0. stack \in StackType /\ stack' \in StackType /\ AttachRoot \in Targets
  BY StepType, ConstantFacts DEF TypeOK
<1>1. ASSUME NEW n \in 1 .. MaxInst, NEW t \in Targets \ (PrivateDirs \cup {AttachRoot})
      PROVE  AllOurs(Entries(stack'[n][t]))
  <2>1. stack[n][t] \in Seq(Layer) /\ AllOurs(Entries(stack[n][t]))
    BY <1>0 DEF StackType, KindsOK
  <2>2. CASE \E k \in 0 .. Len(stack[n][t]) : stack'[n][t] = SubSeq(stack[n][t], 1, k)
    BY <2>1, <2>2, CutEntries DEF AllOurs
  <2>3. CASE \E l \in Layer : stack'[n][t] = Append(stack[n][t], l) /\ l.kind \in ModuleKinds
    BY <2>1, <2>3, AppendEntries DEF AllOurs
  <2>4. \A l \in Layer : Pushed(t, l) => l.kind \in ModuleKinds
    BY DEF Pushed, AliasPushed, BindPushed, PrivatePushed, HostLayer, BindLayer, BindKind, ModuleKinds
  <2> QED BY <2>2, <2>3, <2>4, OtherStep
<1>2. ASSUME NEW n \in 1 .. MaxInst, NEW l \in Entries(stack'[n][AttachRoot]), l.kind \in SystemKinds
      PROVE  l.dev = SystemDev
  <2>1. CASE RootUntouched(n)
    BY <1>2, <2>1, NoneOrOne DEF RootUntouched, KindsOK, Entries
  <2>2. CASE RootAttached(n)
    <3>1. PICK i \in FreshIds : stack'[n][AttachRoot] = <<HostLayer(i)>>
      BY <2>2 DEF RootAttached
    <3>2. l = HostLayer(i)
      BY <1>2, <3>1, NoneOrOne
    <3> QED BY <1>2, <3>2 DEF HostLayer, SystemKinds
  <2>3. CASE RootPutBack(n)
    <3>1. PICK i \in FreshIds : stack'[n][AttachRoot] = <<[backup EXCEPT !.id = i]>>
      BY <2>3 DEF RootPutBack
    <3>2. l = [backup EXCEPT !.id = i]
      BY <1>2, <3>1, NoneOrOne
    <3>3. backup \in Layer
      BY <2>3 DEF RootPutBack, Restores, TypeOK, WorkerOK
    <3>4. l.kind = backup.kind /\ l.dev = backup.dev
      BY <3>2, <3>3 DEF Layer
    <3> QED BY <1>2, <3>4 DEF CloneOK
  <2>4. CASE RootRepaired(n)
    <3>1. PICK i \in FreshIds : stack'[n][AttachRoot] = <<RepairLayer(i)>>
      BY <2>4 DEF RootRepaired
    <3>2. l = RepairLayer(i)
      BY <1>2, <3>1, NoneOrOne
    <3> QED BY <1>2, <3>2 DEF RepairLayer, SystemKinds
  <2>5. CASE RootFresh(n)
    <3>1. PICK i \in FreshIds : stack'[n][AttachRoot] = <<SystemLayer(i, "system")>>
      BY <2>5 DEF RootFresh
    <3>2. l = SystemLayer(i, "system")
      BY <1>2, <3>1, NoneOrOne
    <3> QED BY <3>2 DEF SystemLayer
  <2> QED BY <2>1, <2>2, <2>3, <2>4, <2>5, RootStep
<1> QED BY <1>1, <1>2 DEF KindsOK, Root

\* Targets and host of the round are those of its request and of the session.
LEMMA RoundStep ==
    ASSUME ServedInv, OwnedNamespace, Next
    PROVE  RoundOK'
<1> USE DEF ServedInv, RoundOK
<1>0. /\ inst \in Nat /\ hostGen \in Nat /\ via \in Nat /\ AttachRoot \notin PrivateDirs /\ AliasRoots \subseteq Targets
      /\ NoState.host = 0 /\ NoState.targets = {} /\ state.host \in Nat /\ NoRequest.binds = {}
      /\ req.binds \cap PrivateDirs = {}
  BY ConstantFacts DEF TypeOK, WorldOK, WorkerOK, DiskOK, StateType, OwnedNamespace, NoState, NoRequest
<1>a. pc # "idle" => inst > 0
  BY <1>0
<1>1. CASE BuildPlan \/ Supervise \/ EnterNamespace
  <2>1. CASE BuildPlan
    BY <1>0, <2>1 DEF BuildPlan, appVars, hostVars, diskVars, TypeOK, WorldOK
  <2>2. CASE Supervise
    BY <1>0, <1>a, <2>2 DEF Supervise, EndRound, appVars, hostVars
  <2>3. CASE EnterNamespace
    BY <1>0, <1>a, <2>3 DEF EnterNamespace, EndRound, appVars, hostVars, diskVars
  <2> QED BY <1>1, <2>1, <2>2, <2>3
<1>2. CASE ClearNextTarget \/ InspectTarget \/ UmountTarget
  BY <1>0, <1>2, <1>a DEF ClearNextTarget, InspectTarget, UmountTarget, FinishTarget, appVars, hostVars, diskVars
<1>3. CASE SettleClear \/ ForgetLedger \/ SweepUnrecorded \/ DecideAfterClear
  <2>1. CASE SettleClear
    BY <1>0, <1>a, <2>1 DEF SettleClear, appVars, hostVars
  <2>2. CASE ForgetLedger
    BY <1>0, <1>a, <2>2 DEF ForgetLedger, appVars, hostVars
  <2>3. CASE SweepUnrecorded
    <3>1. /\ state' \in {state, NoState} /\ pc = "sweep" /\ pc' = "decide"
          /\ UNCHANGED <<inst, hostGen, req, todo, via, done>>
      BY <2>3 DEF SweepUnrecorded, appVars, hostVars
    <3> QED BY <1>0, <1>a, <3>1
  <2>4. CASE DecideAfterClear
    <3>1. /\ pc = "decide" /\ UNCHANGED <<inst, hostGen, state>>
          /\ EndRound \/ (pc' = "preattach" /\ UNCHANGED <<req, todo, via, done>>)
      BY <2>4 DEF DecideAfterClear, appVars, hostVars
    <3> QED BY <1>0, <1>a, <3>1 DEF EndRound
  <2> QED BY <1>3, <2>1, <2>2, <2>3, <2>4
<1>4. CASE ReuseHost \/ SkipHost \/ StartAttach \/ AttachTimesOut \/ FinishAttach
  BY <1>0, <1>4, <1>a DEF ReuseHost, SkipHost, StartAttach, AttachTimesOut, FinishAttach, AttachFailed, appVars, hostVars, diskVars
<1>5. CASE ReplaceTop
  BY <1>0, <1>5, <1>a DEF ReplaceTop, AttachFailed, appVars, hostVars, diskVars
<1>6. CASE MoveMount
  BY <1>0, <1>6, <1>a DEF MoveMount, AttachFailed, appVars, hostVars, diskVars
<1>7. CASE AttachAlias
  BY <1>0, <1>7, <1>a DEF AttachAlias, appVars, hostVars, diskVars
<1>8. CASE NoRulesShortCircuit \/ StartBinds \/ BindFails \/ FinishBinds \/ RollBackRound \/ RecordIdentity
  BY <1>0, <1>8, <1>a DEF NoRulesShortCircuit, StartBinds, BindFails, FinishBinds, RollBackRound, RecordIdentity, EndRound,
                  appVars, hostVars, diskVars
<1>9. CASE BindTarget
  BY <1>0, <1>9, <1>a DEF BindTarget, Shallowest, appVars, hostVars, diskVars
<1>10. CASE RepairParent
  BY <1>0, <1>10, <1>a DEF RepairParent, appVars, hostVars, diskVars
<1>11. CASE SaveState
  BY <1>0, <1>11, <1>a DEF SaveState, HostShown, appVars, hostVars, diskVars
<1>12. CASE RestorePrivate
  BY <1>0, <1>12, <1>a DEF RestorePrivate, appVars, hostVars, diskVars, workVars
<1>13. CASE KillChild
  BY <1>0, <1>13, <1>a DEF KillChild, InChild, EndRound, appVars, hostVars, diskVars
<1>14. CASE StartApp
  BY <1>0, <1>14, <1>a DEF StartApp, hostVars, diskVars, workVars
<1>15. CASE ExitApp \/ HostDies \/ ChangeConfig
  BY <1>0, <1>15, <1>a DEF ExitApp, HostDies, ChangeConfig, appVars, hostVars, diskVars, workVars
<1>16. CASE StartHost
  BY <1>0, <1>16, <1>a DEF StartHost, appVars, workVars
<1>17. CASE PruneStale
  BY <1>0, <1>17, <1>a DEF PruneStale, appVars, hostVars, workVars
<1>18. CASE SystemMounts
  BY <1>18 DEF SystemMounts, OwnedNamespace
<1> QED BY <1>1, <1>2, <1>3, <1>4, <1>5, <1>6, <1>7, <1>8, <1>9, <1>10, <1>11, <1>12, <1>13, <1>14, <1>15, <1>16, <1>17, <1>18
       DEF Next, WorkerStep, ClearStep, AttachStep, MountStep, Environment

\* Only adopting the host, mounting it and repairing the parent make the view root a target.
LEMMA TargetsStep ==
    ASSUME ServedInv, OwnedNamespace, Next, AttachRoot \in state'.targets \cup done'
    PROVE  \/ AttachRoot \in state.targets \cup done
           \/ ReuseHost \/ RepairParent
           \/ MoveMount /\ \E i \in FreshIds : stack' = Push(ns, AttachRoot, HostLayer(i))
<1> USE DEF ServedInv
<1>0. NoState.targets = {} /\ (pc = "bind" => AttachRoot \notin req.binds)
  BY DEF TypeOK, WorkerOK, NoRequest, OwnedNamespace, NoState
<1>1. CASE state' \in {state, NoState} /\ done' \in {done, {}}
  BY <1>0, <1>1
<1>2. CASE BuildPlan \/ Supervise \/ EnterNamespace
  BY <1>1, <1>2 DEF BuildPlan, Supervise, EnterNamespace, EndRound, diskVars
<1>3. CASE ClearNextTarget \/ InspectTarget \/ UmountTarget \/ SettleClear \/ ForgetLedger
  BY <1>1, <1>3 DEF ClearNextTarget, InspectTarget, UmountTarget, FinishTarget, SettleClear, ForgetLedger, diskVars
<1>4. CASE SweepUnrecorded
  BY <1>1, <1>4 DEF SweepUnrecorded
<1>5. CASE DecideAfterClear
  BY <1>1, <1>5 DEF DecideAfterClear, EndRound
<1>6. CASE SkipHost \/ StartAttach \/ ReplaceTop \/ AttachTimesOut \/ AttachAlias \/ FinishAttach
  BY <1>1, <1>6 DEF SkipHost, StartAttach, ReplaceTop, AttachTimesOut, AttachAlias, FinishAttach, AttachFailed, diskVars
<1>7. CASE MoveMount
  <2>1. state' = state /\ (done' = {} \/ \E i \in FreshIds : stack' = Push(ns, AttachRoot, HostLayer(i)))
    BY <1>7 DEF MoveMount, AttachFailed, diskVars
  <2> QED BY <1>1, <1>7, <2>1
<1>8. CASE NoRulesShortCircuit \/ StartBinds \/ BindFails \/ FinishBinds \/ RollBackRound \/ RecordIdentity \/ KillChild
  BY <1>1, <1>8 DEF NoRulesShortCircuit, StartBinds, BindFails, FinishBinds, RollBackRound, RecordIdentity,
              KillChild, EndRound, diskVars
<1>9. CASE BindTarget
  <2>1. PICK t \in todo : pc = "bind" /\ done' = done \cup {t} /\ state' = state
    BY <1>9 DEF BindTarget, Shallowest, diskVars
  <2> QED BY <1>0, <2>1 DEF RoundOK
<1>10. CASE SaveState
  BY <1>10 DEF SaveState
<1>11. CASE RestorePrivate \/ StartApp \/ ExitApp \/ StartHost \/ HostDies \/ ChangeConfig \/ PruneStale
  BY <1>1, <1>11 DEF RestorePrivate, StartApp, ExitApp, StartHost, HostDies, ChangeConfig, PruneStale, diskVars, workVars
<1>12. CASE SystemMounts
  BY <1>12 DEF SystemMounts, OwnedNamespace
<1> QED BY <1>2, <1>3, <1>4, <1>5, <1>6, <1>7, <1>8, <1>9, <1>10, <1>11, <1>12
       DEF Next, WorkerStep, ClearStep, AttachStep, MountStep, Environment

\* What the view root shows when a round mounts on it is the module's.
LEMMA RootOurs ==
    ASSUME ServedInv, OwnedNamespace, Next, NEW n \in 1 .. MaxInst,
           AllOurs(Entries(Root(n))), backup.kind \notin SystemKinds, ~StartApp
    PROVE  AllOurs(Entries(stack'[n][AttachRoot]))
<1> USE DEF ServedInv
<1>1. CASE RootUntouched(n)
  BY <1>1, NoneOrOne DEF RootUntouched, AllOurs
<1>2. ASSUME NEW l, stack'[n][AttachRoot] = <<l>>, l.kind \in ModuleKinds
      PROVE  AllOurs(Entries(stack'[n][AttachRoot]))
  BY <1>2, NoneOrOne DEF AllOurs
<1>3. CASE RootAttached(n)
  <2>1. \A i : HostLayer(i).kind \in ModuleKinds
    BY DEF HostLayer, ModuleKinds
  <2> QED BY <1>2, <1>3, <2>1 DEF RootAttached
<1>4. CASE RootPutBack(n)
  <2>1. backup \in Layer
    BY <1>4 DEF RootPutBack, Restores, TypeOK, WorkerOK
  <2>2. backup.kind \in ModuleKinds /\ \A i : [backup EXCEPT !.id = i].kind = backup.kind
    BY <2>1 DEF Layer
  <2> QED BY <1>2, <1>4, <2>2 DEF RootPutBack
<1>5. CASE RootRepaired(n)
  <2>1. \A i : RepairLayer(i).kind \in ModuleKinds
    BY DEF RepairLayer, ModuleKinds
  <2> QED BY <1>2, <1>5, <2>1 DEF RootRepaired
<1> QED BY <1>1, <1>3, <1>4, <1>5, RootStep DEF RootFresh

\* The view root belongs to the round once it is one of its targets.
LEMMA TakenStep ==
    ASSUME ServedInv, OwnedNamespace, Next
    PROVE  RootTaken'
<1> USE DEF ServedInv
<1> SUFFICES ASSUME AttachRoot \in state'.targets \cup done'
             PROVE  /\ \A n \in 1 .. MaxInst : AllOurs(Entries(stack'[n][AttachRoot]))
                    /\ backup'.kind \notin SystemKinds
  BY DEF RootTaken, Root
<1>0. /\ stack \in StackType /\ stack' \in StackType /\ AttachRoot \in Targets
      /\ MaxInst = 1 /\ inst \in Nat /\ hostGen \in Nat /\ (hostUp = TRUE => hostGen > 0)
      /\ NoLayer.kind \notin SystemKinds /\ LostClone.kind \notin SystemKinds
  BY StepType, ConstantFacts DEF TypeOK, WorldOK, OwnedNamespace, NoLayer, LostClone, SystemKinds
<1>1. CASE AttachRoot \in state.targets \cup done
  <2>1. (\A n \in 1 .. MaxInst : AllOurs(Entries(Root(n)))) /\ backup.kind \notin SystemKinds
    BY <1>1 DEF RootTaken
  <2>2. ~StartApp
    <3>1. NoState.targets = {}
      BY DEF NoState
    <3>2. StartApp => inst = 0
      BY <1>0 DEF StartApp
    <3> QED BY <1>1, <3>1, <3>2 DEF RoundOK
  <2>3. \A n \in 1 .. MaxInst : AllOurs(Entries(stack'[n][AttachRoot]))
    BY <2>1, <2>2, RootOurs
  <2>4. backup'.kind \notin SystemKinds
    <3>1. CASE CloneTaken
      <4>1. ns \in 1 .. MaxInst
        BY <3>1 DEF CloneTaken, ReplaceTop, TypeOK, WorkerOK
      <4>2. Topmost(ns, AttachRoot).kind \notin SystemKinds
        BY <1>0, <2>1, <4>1, RootTop DEF AllOurs, ModuleKinds, SystemKinds
      <4> QED BY <1>0, <3>1, <4>2 DEF CloneTaken, Clones
    <3>2. CASE CloneKept
      BY <2>1, <3>2 DEF CloneKept, workVars
    <3> QED BY <1>0, <3>1, <3>2, BackupStep
  <2> QED BY <2>3, <2>4
<1>2. CASE ReuseHost
  <2>1. /\ ns = 1 /\ stack' = stack /\ backup' = NoLayer /\ hostGen > 0
        /\ Topmost(ns, AttachRoot).dev = HostDev(hostGen)
    BY <1>0, <1>2 DEF ReuseHost, TypeOK, WorkerOK, CloneOK
  <2>2. HostDev(hostGen) # SystemDev
    BY <1>0, <2>1 DEF HostDev, SystemDev
  <2>3. AllOurs(Entries(Root(1)))
    <3>1. CASE Entries(Root(1)) = {}
      BY <3>1 DEF AllOurs
    <3>2. CASE Entries(Root(1)) = {Topmost(1, AttachRoot)} /\ Topmost(1, AttachRoot) \in Layer
      <4>1. Topmost(1, AttachRoot).kind \notin SystemKinds
        BY <1>0, <2>1, <2>2, <3>2 DEF KindsOK
      <4>2. Topmost(1, AttachRoot).kind \in ModuleKinds
        BY <3>2, <4>1 DEF Layer
      <4> QED BY <3>2, <4>2 DEF AllOurs
    <3> QED BY <1>0, <3>1, <3>2, RootTop
  <2> QED BY <1>0, <2>1, <2>3 DEF Root
<1>3. CASE RepairParent
  <2>1. pc = "bind" /\ backup' = backup /\ ns = 1 /\ DeadHostLayer(Topmost(1, AttachRoot))
    BY <1>0, <1>3 DEF RepairParent, Reaches, TypeOK, WorkerOK
  <2>2. Topmost(1, AttachRoot).kind = "host" /\ backup = NoLayer
    BY <2>1 DEF DeadHostLayer, CloneOK
  <2>3. AllOurs(Entries(Root(1)))
    BY <1>0, <2>2, RootTop DEF AllOurs, ModuleKinds, NoLayer
  <2>4. ~StartApp
    BY <1>0, <2>1 DEF StartApp, RoundOK
  <2> QED BY <1>0, <2>1, <2>2, <2>3, <2>4, RootOurs
<1>4. CASE MoveMount /\ \E i \in FreshIds : stack' = Push(ns, AttachRoot, HostLayer(i))
  <2>1. PICK i \in FreshIds : stack' = Push(ns, AttachRoot, HostLayer(i))
    BY <1>4
  <2>2. ns = 1 /\ pc = "move" /\ backup' = NoLayer /\ Root(1) = <<>>
    BY <1>0, <1>4 DEF MoveMount, TypeOK, WorkerOK, CloneOK
  <2>3. Append(<<>>, HostLayer(i)) = <<HostLayer(i)>> /\ Entries(<<HostLayer(i)>>) = {HostLayer(i)}
    BY NoneOrOne
  <2>4. stack'[1][AttachRoot] = <<HostLayer(i)>>
    BY <1>0, <2>1, <2>2, <2>3, HostLayerType, PushProperties DEF Root
  <2>5. HostLayer(i).kind \in ModuleKinds
    BY DEF HostLayer, ModuleKinds
  <2> QED BY <1>0, <2>2, <2>3, <2>4, <2>5 DEF AllOurs
<1> QED BY <1>1, <1>2, <1>3, <1>4, TargetsStep

\* Where a round may be after a step, as far as the host it attaches is concerned.
LEMMA RoundMoves ==
    ASSUME ServedInv, OwnedNamespace, Next
    PROVE  /\ pc' = "attach" => (StartAttach \/ pc = "attach") /\ UNCHANGED <<ns, hostGen>> /\ ~StartApp
           /\ pc' = "aliases" \/ (pc' = "save" /\ via' # 0) =>
                 \/ ReuseHost
                 \/ MoveMount /\ \E i \in FreshIds : stack' = Push(ns, AttachRoot, HostLayer(i)) /\ via' = via /\ done' = {AttachRoot}
                 \/ (pc = "aliases" \/ (pc = "save" /\ via # 0)) /\ UNCHANGED <<ns, via, done>> /\ ~StartApp
<1> USE DEF ServedInv
<1>0. pc # "idle" => ~StartApp
  BY ConstantFacts DEF RoundOK, StartApp, OwnedNamespace, TypeOK, WorldOK
<1>1. CASE BuildPlan \/ Supervise \/ EnterNamespace
  BY <1>1 DEF BuildPlan, Supervise, EnterNamespace, EndRound
<1>2. CASE ClearNextTarget \/ InspectTarget \/ UmountTarget \/ SettleClear \/ ForgetLedger \/ SweepUnrecorded
  BY <1>2 DEF ClearNextTarget, InspectTarget, UmountTarget, FinishTarget, SettleClear, ForgetLedger, SweepUnrecorded
<1>3. CASE DecideAfterClear
  BY <1>3 DEF DecideAfterClear, EndRound
<1>4. CASE ReuseHost \/ SkipHost \/ AttachTimesOut
  BY <1>4 DEF ReuseHost, SkipHost, AttachTimesOut, AttachFailed
<1>5. CASE StartAttach
  BY <1>0, <1>5 DEF StartAttach, hostVars
<1>6. CASE ReplaceTop
  BY <1>0, <1>6 DEF ReplaceTop, AttachFailed, hostVars
<1>7. CASE MoveMount
  BY <1>7 DEF MoveMount, AttachFailed
<1>8. CASE AttachAlias \/ FinishAttach
  <2>1. pc = "aliases" /\ pc' \in {"aliases", "save"} /\ UNCHANGED <<ns, via, done>>
    BY <1>8 DEF AttachAlias, FinishAttach
  <2> QED BY <1>0, <2>1
<1>9. CASE NoRulesShortCircuit \/ StartBinds \/ BindFails \/ FinishBinds \/ RollBackRound \/ RecordIdentity \/ KillChild
  BY <1>9 DEF NoRulesShortCircuit, StartBinds, BindFails, FinishBinds, RollBackRound, RecordIdentity, KillChild, EndRound, RoundOK
<1>10. CASE BindTarget \/ RepairParent \/ SaveState \/ RestorePrivate
  BY <1>10 DEF BindTarget, RepairParent, SaveState, RestorePrivate, workVars
<1>11. CASE StartApp \/ StartHost \/ PruneStale
  BY <1>0, <1>11 DEF StartApp, StartHost, PruneStale, workVars
<1>12. CASE ExitApp \/ HostDies \/ ChangeConfig
  BY <1>0, <1>12 DEF ExitApp, HostDies, ChangeConfig, workVars, hostVars
<1>13. CASE SystemMounts
  BY <1>13 DEF SystemMounts, OwnedNamespace
<1> QED BY <1>1, <1>2, <1>3, <1>4, <1>5, <1>6, <1>7, <1>8, <1>9, <1>10, <1>11, <1>12, <1>13
       DEF Next, WorkerStep, ClearStep, AttachStep, MountStep, Environment

\* A live host found in the state file was there before, unless it was saved just now.
LEMMA SavedHost ==
    ASSUME ServedInv, OwnedNamespace, Next, hostUp' = TRUE, state'.host = hostGen'
    PROVE  /\ hostUp = TRUE /\ hostGen' = hostGen /\ hostGen > 0 /\ hostGen \in Nat
           /\ \/ SaveState /\ via = hostGen
              \/ state' = state
<1> USE DEF ServedInv
<1>0. /\ hostGen \in Nat /\ (hostUp = TRUE => hostGen > 0) /\ state.host \in Nat /\ NoState.host = 0
      /\ state.host <= hostGen
  BY ConstantFacts DEF TypeOK, WorldOK, DiskOK, StateType, NoState, RoundOK
<1>1. ~StartHost
  <2> SUFFICES ASSUME StartHost PROVE FALSE
    OBVIOUS
  <2>1. state' = state /\ hostGen' = hostGen + 1
    BY DEF StartHost
  <2> QED BY <1>0, <2>1
<1>2. /\ hostUp = TRUE /\ hostGen' = hostGen
      /\ state' \in {state, NoState} \/ SaveState
  <2>1. CASE BuildPlan \/ Supervise \/ EnterNamespace
    BY <2>1 DEF BuildPlan, Supervise, EnterNamespace, hostVars, diskVars
  <2>2. CASE ClearStep
    BY <2>2 DEF ClearStep, ClearNextTarget, InspectTarget, UmountTarget, SettleClear, ForgetLedger,
                SweepUnrecorded, DecideAfterClear, hostVars, diskVars
  <2>3. CASE AttachStep
    BY <2>3 DEF AttachStep, ReuseHost, SkipHost, StartAttach, ReplaceTop, MoveMount, AttachTimesOut, AttachAlias,
                FinishAttach, hostVars, diskVars
  <2>4. CASE MountStep
    BY <2>4 DEF MountStep, NoRulesShortCircuit, StartBinds, BindTarget, RepairParent, BindFails, FinishBinds,
                SaveState, RollBackRound, RestorePrivate, RecordIdentity, hostVars, diskVars
  <2>5. CASE Environment
    BY <1>1, <2>5 DEF Environment, KillChild, StartApp, ExitApp, HostDies, ChangeConfig, PruneStale, SystemMounts,
                hostVars, diskVars
  <2> QED BY <2>1, <2>2, <2>3, <2>4, <2>5 DEF Next, WorkerStep
<1>3. SaveState => state'.host = via
  BY DEF SaveState
<1> QED BY <1>0, <1>2, <1>3

\* What a round records as served is shown by the view root.
LEMMA ShownStep ==
    ASSUME ServedInv, OwnedNamespace, Next
    PROVE  HostShown'
<1> USE DEF ServedInv
<1>0. /\ stack \in StackType /\ stack' \in StackType /\ AttachRoot \in Targets
      /\ MaxInst = 1 /\ inst \in Nat
      /\ (pc \notin {"idle", "planned", "fork"} => ns = 1)
  BY StepType, ConstantFacts DEF TypeOK, WorldOK, WorkerOK, OwnedNamespace
<1>1. ASSUME NEW n \in 1 .. MaxInst, NEW l \in Entries(stack'[n][AttachRoot]), RootUntouched(n)
      PROVE  l \in Entries(Root(n))
  BY <1>1, NoneOrOne DEF RootUntouched
<1>2. ASSUME pc' = "attach", NEW l \in Entries(stack'[ns'][AttachRoot])
      PROVE  l.dev # HostDev(hostGen')
  <2>1. (StartAttach \/ pc = "attach") /\ ns' = ns /\ hostGen' = hostGen /\ ~StartApp
    BY <1>2, RoundMoves
  <2>2. ns \in 1 .. MaxInst /\ pc \in {"preattach", "attach"}
    BY <1>0, <2>1 DEF StartAttach
  <2>3. RootUntouched(ns)
    BY <2>1, <2>2, RootStep DEF RootAttached, RootPutBack, RootRepaired, RootFresh
  <2>4. l \in Entries(Root(ns))
    BY <1>1, <1>2, <2>1, <2>2, <2>3
  <2>5. CASE StartAttach
    BY <2>1, <2>2, <2>4, <2>5, RootTop DEF StartAttach
  <2>6. CASE pc = "attach"
    BY <2>1, <2>4, <2>6 DEF HostShown
  <2> QED BY <2>1, <2>5, <2>6
<1>3. ASSUME pc' = "aliases" \/ (pc' = "save" /\ via' # 0)
      PROVE  AttachRoot \in done' /\ \A l \in Entries(stack'[ns'][AttachRoot]) : l.dev = HostDev(via')
  <2>1. CASE ReuseHost
    <3>1. /\ ns' = ns /\ stack' = stack /\ done' = {AttachRoot} /\ via' = hostGen
          /\ Topmost(ns, AttachRoot).dev = HostDev(hostGen) /\ ns \in 1 .. MaxInst
      BY <1>0, <2>1 DEF ReuseHost
    <3>2. \A l \in Entries(Root(ns)) : l = Topmost(ns, AttachRoot)
      BY <3>1, RootTop
    <3> QED BY <3>1, <3>2 DEF Root
  <2>2. CASE MoveMount /\ \E i \in FreshIds : stack' = Push(ns, AttachRoot, HostLayer(i)) /\ via' = via /\ done' = {AttachRoot}
    <3>1. PICK i \in FreshIds : stack' = Push(ns, AttachRoot, HostLayer(i)) /\ via' = via /\ done' = {AttachRoot}
      BY <2>2
    <3>2. ns = 1 /\ ns' = ns /\ Root(1) = <<>>
      BY <1>0, <2>2 DEF MoveMount, CloneOK
    <3>3. Append(<<>>, HostLayer(i)) = <<HostLayer(i)>> /\ Entries(<<HostLayer(i)>>) = {HostLayer(i)}
      BY NoneOrOne
    <3>4. stack'[1][AttachRoot] = <<HostLayer(i)>>
      BY <1>0, <3>1, <3>2, <3>3, HostLayerType, PushProperties DEF Root
    <3>5. HostLayer(i).dev = HostDev(via)
      BY DEF HostLayer
    <3> QED BY <3>1, <3>2, <3>3, <3>4, <3>5
  <2>3. CASE (pc = "aliases" \/ (pc = "save" /\ via # 0)) /\ UNCHANGED <<ns, via, done>> /\ ~StartApp
    <3>1. ns \in 1 .. MaxInst /\ ns' = ns /\ via' = via /\ done' = done
      BY <1>0, <2>3
    <3>2. RootUntouched(ns)
      BY <2>3, <3>1, RootStep DEF RootAttached, RootPutBack, RootRepaired, RootFresh
    <3>3. AttachRoot \in done /\ \A l \in Entries(Root(ns)) : l.dev = HostDev(via)
      BY <2>3 DEF HostShown
    <3> QED BY <1>1, <3>1, <3>2, <3>3
  <2> QED BY <1>3, <2>1, <2>2, <2>3, RoundMoves
<1>4. ASSUME hostUp' = TRUE, state'.host = hostGen'
      PROVE  /\ \A n \in 1 .. MaxInst : \A l \in Entries(stack'[n][AttachRoot]) : l.dev = HostDev(hostGen')
             /\ pc' = "move" => backup' \in {NoLayer, LostClone}
  <2>1. /\ hostUp = TRUE /\ hostGen' = hostGen /\ hostGen > 0 /\ hostGen \in Nat
        /\ (SaveState /\ via = hostGen) \/ state' = state
    BY <1>4, SavedHost
  <2>2. CASE SaveState /\ via = hostGen
    <3>1. pc = "save" /\ via # 0 /\ stack' = stack /\ pc' = "record" /\ ns = 1
      BY <1>0, <2>1, <2>2 DEF SaveState
    <3> QED BY <1>0, <2>1, <2>2, <3>1 DEF HostShown, Root
  <2>3. CASE state' = state
    <3>1. /\ \A n \in 1 .. MaxInst : \A l \in Entries(Root(n)) : l.dev = HostDev(hostGen)
          /\ pc = "move" => backup \in {NoLayer, LostClone}
      BY <1>4, <2>1, <2>3 DEF HostShown
    <3>2. ASSUME NEW n \in 1 .. MaxInst, NEW l \in Entries(stack'[n][AttachRoot])
          PROVE  l.dev = HostDev(hostGen)
      <4>1. CASE RootUntouched(n)
        BY <1>1, <3>1, <3>2, <4>1
      <4>2. CASE RootAttached(n)
        <5>1. PICK i \in FreshIds : stack'[n][AttachRoot] = <<HostLayer(i)>>
          BY <4>2 DEF RootAttached
        <5>2. l = HostLayer(i) /\ via = hostGen
          BY <3>2, <4>2, <5>1, NoneOrOne DEF RootAttached, RoundOK
        <5> QED BY <5>2 DEF HostLayer
      <4>3. ~RootPutBack(n)
        BY <3>1 DEF RootPutBack, Restores
      <4>4. ~RootRepaired(n)
        <5>1. CASE Topmost(n, AttachRoot) = NoLayer
          BY <5>1 DEF RootRepaired, DeadHostLayer, NoLayer
        <5>2. CASE Topmost(n, AttachRoot).dev = HostDev(hostGen)
          BY <2>1, <5>2 DEF RootRepaired, DeadHostLayer
        <5> QED BY <3>1, <5>1, <5>2, RootTop
      <4>5. ~RootFresh(n)
        <5>1. NoState.host = 0
          BY DEF NoState
        <5>2. StartApp => inst = 0
          BY <1>0 DEF StartApp
        <5> QED BY <1>4, <2>1, <2>3, <5>1, <5>2 DEF RootFresh, RoundOK
      <4> QED BY <4>1, <4>2, <4>3, <4>4, <4>5, RootStep
    <3>3. ASSUME pc' = "move" PROVE backup' \in {NoLayer, LostClone}
      <4>1. CASE CloneTaken
        <5>1. pc = "attach" /\ ns \in 1 .. MaxInst
          BY <1>0, <4>1 DEF CloneTaken, ReplaceTop
        <5>2. Topmost(ns, AttachRoot) = NoLayer
          BY <3>1, <5>1, RootTop DEF HostShown
        <5> QED BY <4>1, <5>2 DEF CloneTaken, Clones
      <4>2. CASE CloneKept
        BY <3>1, <4>2 DEF CloneKept, workVars
      <4> QED BY <3>3, <4>1, <4>2, BackupStep
    <3> QED BY <2>1, <3>2, <3>3
  <2> QED BY <2>1, <2>2, <2>3
<1> QED BY <1>2, <1>3, <1>4 DEF HostShown, Root

\* The invariant holds at the start and every step keeps it.
LEMMA ServedInit == OwnedNamespace /\ Init => ServedInv
<1> SUFFICES ASSUME OwnedNamespace, Init PROVE ServedInv
  OBVIOUS
<1>1. TypeOK
  BY InitType
<1>2. \A n \in 1 .. MaxInst, t \in Targets : stack[n][t] = <<>>
  BY DEF Init, FreshStack
<1>3. Entries(<<>>) = {} /\ Len(<<>>) = 0
  BY NoneOrOne
<1>4. pc = "idle" /\ backup = NoLayer /\ state = NoState /\ done = {} /\ hostGen = 0 /\ hostUp = FALSE /\ inst = 0
  BY DEF Init, IdleWorker
<1>5. SingleView /\ CloneOK /\ KindsOK
  BY <1>2, <1>3, <1>4, ConstantFacts DEF SingleView, CloneOK, KindsOK, Root, AllOurs, NoLayer, SystemKinds
<1>6. RoundOK /\ RootTaken /\ HostShown
  BY <1>4 DEF RoundOK, RootTaken, HostShown, NoState
<1> QED BY <1>1, <1>5, <1>6 DEF ServedInv

LEMMA ServedStep == OwnedNamespace /\ ServedInv /\ [Next]_vars => ServedInv'
<1>1. ServedInv /\ UNCHANGED vars => ServedInv'
  BY DEF ServedInv, TypeOK, WorldOK, DiskOK, WorkerOK, SingleView, CloneOK, KindsOK, RoundOK, RootTaken, HostShown,
         Root, vars, appVars, hostVars, diskVars, workVars
<1>2. OwnedNamespace /\ ServedInv /\ Next => ServedInv'
  BY StepType, SingleStep, CloneStep, KindsStep, RoundStep, TakenStep, ShownStep DEF ServedInv
<1> QED BY <1>1, <1>2

\* A plan that has_current_mount_state skips is served: every recorded target shows a layer
\* of the module and the view root the serving host's, although the state file is
\* written while rounds are killed, attaches fail half way and sessions are replaced.
THEOREM CurrentIsServed == ASSUME OwnedNamespace PROVE Spec => []CurrentMeansServed
<1>1. ServedInv => CurrentMeansServed
  <2> SUFFICES ASSUME ServedInv, alive = TRUE, StateCurrent(cfg)
               PROVE  /\ \A t \in state.targets : Topmost(inst, t).kind \in ModuleKinds
                      /\ state.host # 0 => Topmost(inst, AttachRoot).dev = HostDev(hostGen)
    BY DEF CurrentMeansServed
  <2> USE DEF ServedInv
  <2>1. inst \in 1 .. MaxInst /\ stack \in StackType /\ state.targets \subseteq Targets
    BY ConstantFacts DEF TypeOK, WorldOK, DiskOK, StateType
  <2>2. ASSUME NEW t \in state.targets PROVE Topmost(inst, t).kind \in ModuleKinds
    <3>1. t \in Targets \ PrivateDirs /\ stack[inst][t] # <<>> /\ stack[inst][t] \in Seq(Layer)
      BY <2>1 DEF RoundOK, StateCurrent, StackType
    <3>2. AllOurs(Entries(stack[inst][t]))
      BY <2>1, <3>1 DEF KindsOK, RootTaken, Root
    <3>3. Topmost(inst, t) \in Entries(stack[inst][t])
      BY <3>1, PopProperties DEF Topmost, Entries
    <3> QED BY <3>2, <3>3 DEF AllOurs
  <2>3. ASSUME state.host # 0 PROVE Topmost(inst, AttachRoot).dev = HostDev(hostGen)
    <3>1. hostUp /\ state.host = hostGen /\ AttachRoot \in state.targets
      BY <2>3 DEF StateCurrent, RoundOK
    <3>2. Root(inst) # <<>>
      BY <3>1 DEF StateCurrent, Root
    <3>3. Topmost(inst, AttachRoot) \in Entries(Root(inst))
      BY <2>1, <3>2, RootTop
    <3> QED BY <2>1, <3>1, <3>3 DEF HostShown
  <2> QED BY <2>2, <2>3
<1> QED BY <1>1, ServedInit, ServedStep, PTL DEF Spec

-----------------------------------------------------------------------------
(* No module layer is ever mounted over another.  Proved for applications that *)
(* are redirected at one root, by the shared host or by a bind, while rounds   *)
(* are killed anywhere and attaches, clones and binds fail.                    *)

\* On top of that: umount and the disk work, the host serves on, binds show the disk, and
\* the only rules are those of the redirect root; README.md, section 6, lists what the layers
\* do stack with.
PlainRounds ==
    /\ OwnedNamespace
    /\ Faults \cap {"umount", "disk", "death", "fusebind"} = {}
    /\ \A c \in Configs : c.overlay \cup c.binds \subseteq {UserRoot}
    /\ UserRoot \notin AliasRoots \cup AliasTargets \cup PrivateDirs
    /\ AliasRoots \cap PrivateDirs = {}

User == stack[1][UserRoot]
RecordedTargets == state.targets \cup {m.target : m \in ledger.mounts}

\* A host that was started serves, and every host layer is one of its.
HostOK ==
    /\ hostUp = TRUE \/ hostGen = 0
    /\ pc \in {"attach", "move", "aliases"} => hostUp = TRUE
    /\ pc \in {"inspect", "umount"} /\ hostUp = TRUE => HostDev(hostGen) \in known
    /\ \A t \in Targets : \A l \in Entries(stack[1][t]) :
            l.kind = "host" => hostUp = TRUE /\ l.dev = HostDev(hostGen)
    /\ backup.kind = "host" => hostUp = TRUE /\ backup.dev = HostDev(hostGen)
\* The module mounts the host on the view root and its aliases, a bind on the redirect
\* root, and nothing anywhere else; an alias and the redirect root hold one layer.
PlacesOK ==
    /\ \A l \in Entries(Root(1)) : l.kind \in {"host"} \cup SystemKinds
    /\ backup.kind \in {"host", "none", "lost"} \cup SystemKinds
    /\ \A t \in AliasRoots : Len(stack[1][t]) <= 1 /\ \A l \in Entries(stack[1][t]) : l.kind = "host"
    /\ Len(User) <= 1 /\ \A l \in Entries(User) : l.kind = "bind" /\ l.dev = DiskDev
    /\ \A t \in Targets \ ({AttachRoot, UserRoot} \cup AliasRoots) :
            \A l \in Entries(stack[1][t]) : l.kind \notin ModuleKinds
\* What is recorded is still there or gone, and is forgotten before anything is mounted.
RecordOK ==
    /\ inst = 0 => ledger = NoLedger
    /\ RecordedTargets \cup done \subseteq {AttachRoot, UserRoot}
    /\ AttachRoot \in RecordedTargets \cup done =>
            User = <<>> /\ \A l \in Entries(Root(1)) : l.kind = "host"
    /\ \A m \in ledger.mounts : stack[1][m.target] # <<>> => Topmost(1, m.target).id = m.id
    /\ pc \in Injecting \cup {"decide"} => ledger = NoLedger
    /\ pc \in (Injecting \cup {"unrecord", "decide"}) \ {"record"} => state = NoState
    /\ pc \notin {"aliases", "bind", "save", "record"} => done = {}
    /\ pc = "bind" => AttachRoot \notin done
\* The redirect root is bare, or keeps the bind this round would mount.
Kept == User = <<>> \/ KeepRedirectRoot(UserRoot)
\* Clearing succeeds and leaves nothing of an earlier round that this one mounts over.
ClearOK ==
    /\ cleared = TRUE
    /\ pc \in {"clear", "inspect", "umount"} =>
            /\ todo \subseteq {AttachRoot, UserRoot}
            /\ AttachRoot \in todo => AttachRoot \in RecordedTargets
            /\ UserRoot \in todo \/ Kept
    /\ pc \in {"inspect", "umount"} => cur \in todo
    /\ pc = "inspect" => passes = 0 \/ stack[1][cur] = <<>>
    /\ pc = "umount" => passes = 0
    /\ pc \in {"unrecord", "decide", "preattach", "fallback"} => Kept
    /\ pc \in {"attach", "move", "aliases"} => User = <<>>
    /\ pc = "bind" /\ UserRoot \in todo => User = <<>> \/ Topmost(1, UserRoot).src = req.src
PlainInv == ServedInv /\ HostOK /\ PlacesOK /\ RecordOK /\ ClearOK

\* One namespace, and what cannot happen in it.
LEMMA PlainFacts ==
    ASSUME PlainInv, PlainRounds
    PROVE  /\ OwnedNamespace /\ MaxInst = 1 /\ 1 \in 1 .. MaxInst
           /\ ~Fault("umount") /\ ~Fault("disk") /\ ~Fault("death")
           /\ BindDevs = {DiskDev} /\ UserRoot # AttachRoot
           /\ stack \in StackType /\ UserRoot \in Targets /\ AttachRoot \in Targets
           /\ pc \notin {"idle", "planned", "fork"} => ns = 1
           /\ req.binds \cup req.overlay \subseteq {UserRoot}
<1>1. MaxInst = 1 /\ 1 \in 1 .. MaxInst
  BY DEF PlainRounds, OwnedNamespace
<1>2. pc \notin {"idle", "planned", "fork"} => ns = 1
  BY <1>1 DEF PlainInv, ServedInv, TypeOK, WorkerOK
<1>3. req.binds \cup req.overlay \subseteq {UserRoot}
  BY DEF PlainInv, ServedInv, TypeOK, WorkerOK, NoRequest, PlainRounds
<1>4. OwnedNamespace /\ ~Fault("umount") /\ ~Fault("disk") /\ ~Fault("death") /\ BindDevs = {DiskDev}
  BY DEF PlainRounds, Fault, BindDevs
<1>5. stack \in StackType
  BY DEF PlainInv, ServedInv, TypeOK
<1> QED BY <1>1, <1>2, <1>3, <1>4, <1>5, ConstantsAssumption, ConstantFacts

\* The layer a target shows is one of its stack.
LEMMA ShownThere ==
    ASSUME PlainInv, PlainRounds, NEW t \in Targets
    PROVE  /\ stack[1][t] \in Seq(Layer)
           /\ \/ stack[1][t] = <<>> /\ Topmost(1, t) = NoLayer
              \/ stack[1][t] # <<>> /\ Topmost(1, t) # NoLayer /\ Topmost(1, t) \in Layer
                 /\ Topmost(1, t) \in Entries(stack[1][t])
<1>1. stack[1][t] \in Seq(Layer)
  BY PlainFacts DEF StackType
<1>2. CASE stack[1][t] = <<>>
  BY <1>1, <1>2 DEF Topmost, TopOf
<1>3. CASE stack[1][t] # <<>>
  <2>1. TopOf(stack[1][t]) = stack[1][t][Len(stack[1][t])] /\ Len(stack[1][t]) \in Nat \ {0}
    BY <1>1, <1>3, PopProperties
  <2>2. Topmost(1, t) \in Entries(stack[1][t]) /\ Topmost(1, t) \in Layer
    BY <1>1, <2>1, ElementOfSeq DEF Topmost, Entries
  <2>3. NoLayer \notin Layer
    BY DEF NoLayer, Layer, MountIds
  <2> QED BY <1>1, <1>3, <2>2, <2>3
<1> QED BY <1>1, <1>2, <1>3

\* No path is dead, so nothing is repaired and no unmount is refused.
LEMMA NothingDead ==
    ASSUME PlainInv, PlainRounds, NEW t \in Targets
    PROVE  ~DeadHostLayer(Topmost(1, t)) /\ Reaches(1, t)
<1>1. \A u \in Targets : ~DeadHostLayer(Topmost(1, u))
  <2>1. ASSUME NEW u \in Targets PROVE ~DeadHostLayer(Topmost(1, u))
    <3>1. CASE Topmost(1, u) = NoLayer
      BY <3>1 DEF DeadHostLayer, NoLayer
    <3>2. CASE Topmost(1, u) \in Entries(stack[1][u])
      BY <3>2 DEF DeadHostLayer, PlainInv, HostOK
    <3> QED BY <3>1, <3>2, ShownThere
  <2> QED BY <2>1
<1> QED BY <1>1, PlainFacts DEF Reaches

\* These four are therefore ruled out.
LEMMA NeverHere ==
    ASSUME PlainInv, PlainRounds
    PROVE  ~RepairParent /\ ~RollBackRound /\ ~HostDies /\ ~SystemMounts
<1>1. ~RepairParent
  <2>1. RepairParent => ns = 1 /\ ~Reaches(ns, UserRoot)
    BY PlainFacts DEF RepairParent
  <2> QED BY <2>1, PlainFacts, NothingDead
<1>2. ~RollBackRound /\ ~HostDies
  BY PlainFacts DEF RollBackRound, HostDies
<1>3. ~SystemMounts
  BY DEF SystemMounts, PlainRounds, OwnedNamespace
<1> QED BY <1>1, <1>2, <1>3

-----------------------------------------------------------------------------
(* What a step does to the four kinds of mount points.                      *)

\* The view root.
LEMMA RootLayers ==
    ASSUME PlainInv, PlainRounds, Next, NEW l \in Entries(stack'[1][AttachRoot])
    PROVE  \/ l \in Entries(Root(1))
           \/ l.kind = "host" /\ l.dev = HostDev(hostGen) /\ pc = "move"
           \/ l.kind = backup.kind /\ l.dev = backup.dev /\ backup \in Layer
           \/ l.kind = "system" /\ StartApp
<1> USE DEF PlainInv
<1>1. CASE RootUntouched(1)
  BY <1>1, NoneOrOne DEF RootUntouched
<1>2. CASE RootAttached(1)
  <2>1. PICK i \in FreshIds : stack'[1][AttachRoot] = <<HostLayer(i)>>
    BY <1>2 DEF RootAttached
  <2>2. l = HostLayer(i)
    BY <2>1, NoneOrOne
  <2>3. pc = "move" /\ via = hostGen
    BY <1>2 DEF RootAttached, ServedInv, RoundOK
  <2> QED BY <2>2, <2>3 DEF HostLayer
<1>3. CASE RootPutBack(1)
  <2>1. PICK i \in FreshIds : stack'[1][AttachRoot] = <<[backup EXCEPT !.id = i]>>
    BY <1>3 DEF RootPutBack
  <2>2. l = [backup EXCEPT !.id = i]
    BY <2>1, NoneOrOne
  <2>3. backup \in Layer /\ pc = "move"
    BY <1>3 DEF RootPutBack, Restores, ServedInv, TypeOK, WorkerOK
  <2> QED BY <2>2, <2>3 DEF Layer
<1>4. CASE RootRepaired(1)
  BY <1>4, NothingDead, PlainFacts DEF RootRepaired
<1>5. CASE RootFresh(1)
  <2>1. PICK i \in FreshIds : stack'[1][AttachRoot] = <<SystemLayer(i, "system")>>
    BY <1>5 DEF RootFresh
  <2>2. l = SystemLayer(i, "system")
    BY <2>1, NoneOrOne
  <2> QED BY <1>5, <2>2 DEF RootFresh, SystemLayer
<1> QED BY <1>1, <1>2, <1>3, <1>4, <1>5, RootStep, PlainFacts

\* The redirect root: bind_mount_inner mounts on it only when it is bare.
LEMMA UserStep ==
    ASSUME PlainInv, PlainRounds, Next
    PROVE  \/ stack'[1][UserRoot] \in {User, <<>>}
           \/ /\ BindTarget /\ User = <<>> /\ UserRoot \in todo
              /\ \E i \in FreshIds : stack'[1][UserRoot] = <<BindLayer(UserRoot, i, DiskDev)>>
<1> USE DEF PlainInv
<1>1. UserRoot \in Targets \ {AttachRoot} /\ User \in Seq(Layer) /\ Len(User) <= 1
  BY PlainFacts DEF User, StackType, PlacesOK
<1>2. CASE \E k \in 0 .. Len(User) : stack'[1][UserRoot] = SubSeq(User, 1, k)
  BY <1>1, <1>2, CutOne
<1>3. ASSUME NEW l \in Layer, stack'[1][UserRoot] = Append(User, l), 1 = ns, Pushed(UserRoot, l)
      PROVE  /\ BindTarget /\ User = <<>> /\ UserRoot \in todo
             /\ \E i \in FreshIds : stack'[1][UserRoot] = <<BindLayer(UserRoot, i, DiskDev)>>
  <2>1. ~AliasPushed(UserRoot, l) /\ ~PrivatePushed(UserRoot, l)
    BY DEF AliasPushed, AttachAlias, PrivatePushed, ServedInv, RoundOK, PlainRounds
  <2>2. BindPushed(UserRoot, l)
    BY <1>3, <2>1 DEF Pushed
  <2>3. BindTarget /\ UserRoot \in todo /\ pc = "bind" /\ ~SameSource(UserRoot)
    BY <2>2 DEF BindPushed, BindTarget
  <2>4. PICK i \in FreshIds : l = BindLayer(UserRoot, i, DiskDev)
    BY <2>2, PlainFacts DEF BindPushed
  <2>5. User = <<>>
    <3>1. SUFFICES ASSUME User # <<>> PROVE SameSource(UserRoot)
      BY <2>3
    <3>2. Topmost(1, UserRoot) \in Entries(User)
      BY <3>1, ShownThere, PlainFacts DEF User
    <3>3. Topmost(1, UserRoot).kind = "bind" /\ Topmost(1, UserRoot).dev = DiskDev
      BY <3>2 DEF PlacesOK
    <3>4. Topmost(1, UserRoot).src = req.src
      BY <2>3, <3>1 DEF ClearOK
    <3>5. BindKind(UserRoot) = "bind"
      BY DEF BindKind, PlainRounds
    <3> QED BY <1>3, <3>3, <3>4, <3>5 DEF SameSource, IsFuse
  <2> QED BY <1>3, <2>3, <2>4, <2>5, NoneOrOne
<1> QED BY <1>1, <1>2, <1>3, OtherStep, PlainFacts DEF User

\* Another name of the storage root: a layer of the same session stays.
LEMMA AliasStep ==
    ASSUME PlainInv, PlainRounds, Next, NEW t \in AliasRoots
    PROVE  \/ stack'[1][t] \in {stack[1][t], <<>>}
           \/ pc = "aliases" /\ \E i \in FreshIds : stack'[1][t] = <<HostLayer(i)>>
<1> USE DEF PlainInv
<1>1. t \in Targets \ {AttachRoot} /\ stack[1][t] \in Seq(Layer) /\ Len(stack[1][t]) <= 1
  BY PlainFacts, ConstantsAssumption DEF StackType, PlacesOK
<1>2. CASE \E k \in 0 .. Len(stack[1][t]) : stack'[1][t] = SubSeq(stack[1][t], 1, k)
  BY <1>1, <1>2, CutOne
<1>3. ASSUME NEW l \in Layer, stack'[1][t] = Append(stack[1][t], l), 1 = ns, Pushed(t, l)
      PROVE  pc = "aliases" /\ \E i \in FreshIds : stack'[1][t] = <<HostLayer(i)>>
  <2>1. ~PrivatePushed(t, l)
    BY DEF PrivatePushed, PlainRounds
  <2>2. ~BindPushed(t, l)
    BY PlainFacts DEF BindPushed, BindTarget, ServedInv, RoundOK, PlainRounds
  <2>3. AliasPushed(t, l)
    BY <1>3, <2>1, <2>2 DEF Pushed
  <2>4. pc = "aliases" /\ Topmost(1, t).dev # HostDev(via) /\ via = hostGen
    BY <1>3, <2>3 DEF AliasPushed, AttachAlias, ServedInv, RoundOK
  <2>5. stack[1][t] = <<>>
    <3>1. SUFFICES ASSUME stack[1][t] # <<>> PROVE Topmost(1, t).dev = HostDev(hostGen)
      BY <2>4
    <3>2. Topmost(1, t) \in Entries(stack[1][t])
      BY <1>1, <3>1, ShownThere
    <3> QED BY <1>1, <3>2 DEF PlacesOK, HostOK
  <2> QED BY <1>3, <2>3, <2>4, <2>5, NoneOrOne DEF AliasPushed
<1> QED BY <1>1, <1>2, <1>3, OtherStep, PlainFacts

\* Anywhere else only the private view of a directory is put back.
LEMMA ElsewhereStep ==
    ASSUME PlainInv, PlainRounds, Next, NEW t \in Targets \ ({AttachRoot, UserRoot} \cup AliasRoots),
           NEW l \in Entries(stack'[1][t])
    PROVE  l.kind \notin ModuleKinds
<1> USE DEF PlainInv
<1>1. t \in Targets \ {AttachRoot} /\ stack[1][t] \in Seq(Layer)
  BY PlainFacts DEF StackType
<1>2. \A k \in Entries(stack[1][t]) : k.kind \notin ModuleKinds
  BY DEF PlacesOK
<1>3. CASE \E k \in 0 .. Len(stack[1][t]) : stack'[1][t] = SubSeq(stack[1][t], 1, k)
  BY <1>1, <1>2, <1>3, CutEntries
<1>4. ASSUME NEW k \in Layer, stack'[1][t] = Append(stack[1][t], k), Pushed(t, k)
      PROVE  l.kind \notin ModuleKinds
  <2>1. ~AliasPushed(t, k)
    BY DEF AliasPushed, AttachAlias, ServedInv, RoundOK
  <2>2. ~BindPushed(t, k)
    BY PlainFacts DEF BindPushed, BindTarget, ServedInv, RoundOK
  <2>3. PrivatePushed(t, k)
    BY <1>4, <2>1, <2>2 DEF Pushed
  <2>4. k.kind \notin ModuleKinds
    BY <2>3 DEF PrivatePushed, SystemLayer, ModuleKinds
  <2> QED BY <1>1, <1>2, <1>4, <2>4, AppendEntries
<1> QED BY <1>1, <1>3, <1>4, OtherStep, PlainFacts

-----------------------------------------------------------------------------
(* One lemma per part of the invariant.                                     *)

\* The clone an attach holds is the layer it replaced.
LEMMA BackupShape ==
    ASSUME PlainInv, PlainRounds, Next
    PROVE  \/ backup' = NoLayer \/ backup' = LostClone \/ backup' = backup
           \/ Topmost(1, AttachRoot) # NoLayer /\ backup' = Topmost(1, AttachRoot)
<1>1. CASE CloneTaken
  <2>1. ns = 1
    BY <1>1, PlainFacts DEF CloneTaken, ReplaceTop
  <2> QED BY <1>1, <2>1 DEF CloneTaken, Clones
<1>2. CASE CloneKept
  BY <1>2 DEF CloneKept, workVars
<1> QED BY <1>1, <1>2, BackupStep, PlainFacts DEF PlainInv

LEMMA PlacesStep ==
    ASSUME PlainInv, PlainRounds, Next
    PROVE  PlacesOK'
<1> USE DEF PlainInv
<1>0. Entries(<<>>) = {} /\ Len(<<>>) = 0
  BY NoneOrOne
<1>1. ASSUME NEW l \in Entries(stack'[1][AttachRoot])
      PROVE  l.kind \in {"host"} \cup SystemKinds
  <2>1. backup \in Layer => backup.kind \in {"host"} \cup SystemKinds
    BY DEF Layer, PlacesOK, ModuleKinds, SystemKinds
  <2> QED BY <1>1, <2>1, RootLayers DEF PlacesOK, SystemKinds
<1>2. backup'.kind \in {"host", "none", "lost"} \cup SystemKinds
  <2>1. Topmost(1, AttachRoot) # NoLayer => Topmost(1, AttachRoot) \in Entries(Root(1))
    BY ShownThere, PlainFacts DEF Root
  <2> QED BY <2>1, BackupShape DEF PlacesOK, NoLayer, LostClone
<1>3. ASSUME NEW t \in AliasRoots
      PROVE  Len(stack'[1][t]) <= 1 /\ \A l \in Entries(stack'[1][t]) : l.kind = "host"
  <2>1. CASE stack'[1][t] \in {stack[1][t], <<>>}
    BY <1>0, <2>1 DEF PlacesOK
  <2>2. ASSUME NEW i \in FreshIds, stack'[1][t] = <<HostLayer(i)>>
        PROVE  Len(stack'[1][t]) <= 1 /\ \A l \in Entries(stack'[1][t]) : l.kind = "host"
    <3>1. Len(stack'[1][t]) = 1 /\ Entries(stack'[1][t]) = {HostLayer(i)}
      BY <2>2, NoneOrOne
    <3> QED BY <3>1 DEF HostLayer
  <2> QED BY <2>1, <2>2, AliasStep
<1>4. Len(stack'[1][UserRoot]) <= 1 /\ \A l \in Entries(stack'[1][UserRoot]) : l.kind = "bind" /\ l.dev = DiskDev
  <2>1. CASE stack'[1][UserRoot] \in {User, <<>>}
    BY <1>0, <2>1 DEF PlacesOK
  <2>2. ASSUME NEW i \in FreshIds, stack'[1][UserRoot] = <<BindLayer(UserRoot, i, DiskDev)>>
        PROVE  /\ Len(stack'[1][UserRoot]) <= 1
               /\ \A l \in Entries(stack'[1][UserRoot]) : l.kind = "bind" /\ l.dev = DiskDev
    <3>1. Len(stack'[1][UserRoot]) = 1 /\ Entries(stack'[1][UserRoot]) = {BindLayer(UserRoot, i, DiskDev)}
      BY <2>2, NoneOrOne
    <3> QED BY <3>1 DEF BindLayer, BindKind, PlainRounds
  <2> QED BY <2>1, <2>2, UserStep
<1>5. \A t \in Targets \ ({AttachRoot, UserRoot} \cup AliasRoots) :
          \A l \in Entries(stack'[1][t]) : l.kind \notin ModuleKinds
  BY ElsewhereStep
<1> QED BY <1>1, <1>2, <1>3, <1>4, <1>5 DEF PlacesOK, Root, User

\* The session changes once: it starts.
LEMMA SessionMoves ==
    ASSUME PlainInv, PlainRounds, Next
    PROVE  \/ hostUp' = hostUp /\ hostGen' = hostGen
           \/ StartHost /\ hostUp' = TRUE /\ pc = "idle" /\ UNCHANGED <<stack, pc, backup>>
              /\ \A t \in Targets : \A l \in Entries(stack[1][t]) : l.kind # "host"
<1>1. CASE StartHost
  <2>1. ~(hostUp = TRUE)
    BY <1>1 DEF StartHost
  <2> QED BY <1>1, <2>1 DEF StartHost, workVars, PlainInv, HostOK
<1>2. CASE BuildPlan \/ Supervise \/ EnterNamespace \/ ClearStep
  BY <1>2 DEF BuildPlan, Supervise, EnterNamespace, ClearStep, ClearNextTarget, InspectTarget, UmountTarget,
              SettleClear, ForgetLedger, SweepUnrecorded, DecideAfterClear, hostVars
<1>3. CASE AttachStep
  BY <1>3 DEF AttachStep, ReuseHost, SkipHost, StartAttach, ReplaceTop, MoveMount, AttachTimesOut, AttachAlias,
              FinishAttach, hostVars
<1>4. CASE MountStep
  BY <1>4 DEF MountStep, NoRulesShortCircuit, StartBinds, BindTarget, RepairParent, BindFails, FinishBinds,
              SaveState, RollBackRound, RestorePrivate, RecordIdentity, hostVars
<1>5. CASE KillChild \/ StartApp \/ ExitApp \/ ChangeConfig \/ PruneStale
  BY <1>5 DEF KillChild, StartApp, ExitApp, ChangeConfig, PruneStale, hostVars
<1> QED BY <1>1, <1>2, <1>3, <1>4, <1>5, NeverHere DEF Next, WorkerStep, Environment

\* Where an attach begins, and a target is looked at.
LEMMA RoundGoesOn ==
    ASSUME PlainInv, PlainRounds, Next
    PROVE  /\ pc' \in {"attach", "move", "aliases"} =>
                 \/ StartAttach
                 \/ pc \in {"attach", "move", "aliases"}
           /\ pc' \in {"inspect", "umount"} =>
                 \/ ClearNextTarget /\ known' = KnownDevs
                 \/ pc \in {"inspect", "umount"} /\ known' = known
<1>1. CASE BuildPlan \/ Supervise \/ EnterNamespace
  BY <1>1 DEF BuildPlan, Supervise, EnterNamespace, EndRound
<1>2. CASE ClearStep
  BY <1>2 DEF ClearStep, ClearNextTarget, InspectTarget, UmountTarget, FinishTarget, SettleClear, ForgetLedger,
              SweepUnrecorded, DecideAfterClear, EndRound
<1>3. CASE AttachStep
  BY <1>3 DEF AttachStep, ReuseHost, SkipHost, StartAttach, ReplaceTop, MoveMount, AttachTimesOut, AttachAlias,
              FinishAttach, AttachFailed
<1>4. CASE MountStep
  BY <1>4 DEF MountStep, NoRulesShortCircuit, StartBinds, BindTarget, RepairParent, BindFails, FinishBinds,
              SaveState, RollBackRound, RestorePrivate, RecordIdentity, EndRound, workVars
<1>5. CASE Environment
  BY <1>5 DEF Environment, KillChild, StartApp, ExitApp, StartHost, HostDies, ChangeConfig, PruneStale,
              SystemMounts, EndRound, workVars
<1> QED BY <1>1, <1>2, <1>3, <1>4, <1>5 DEF Next, WorkerStep

LEMMA HostStep ==
    ASSUME PlainInv, PlainRounds, Next
    PROVE  HostOK'
<1> USE DEF PlainInv
<1>1. CASE StartHost /\ hostUp' = TRUE /\ pc = "idle" /\ UNCHANGED <<stack, pc, backup>>
           /\ \A t \in Targets : \A l \in Entries(stack[1][t]) : l.kind # "host"
  <2>1. backup = NoLayer
    BY <1>1 DEF ServedInv, CloneOK
  <2> QED BY <1>1, <2>1 DEF HostOK, NoLayer
<1>2. CASE hostUp' = hostUp /\ hostGen' = hostGen
  <2>1. pc' \in {"attach", "move", "aliases"} => hostUp = TRUE
    <3>1. StartAttach => hostUp = TRUE
      BY DEF StartAttach
    <3> QED BY <3>1, RoundGoesOn DEF HostOK
  <2>2. pc' \in {"inspect", "umount"} /\ hostUp = TRUE => HostDev(hostGen) \in known'
    <3>1. hostUp = TRUE => HostDev(hostGen) \in KnownDevs
      BY DEF KnownDevs, CurrentHostDev
    <3> QED BY <3>1, RoundGoesOn DEF HostOK
  <2>3. ASSUME NEW t \in Targets, NEW l \in Entries(stack'[1][t]), l.kind = "host"
        PROVE  hostUp = TRUE /\ l.dev = HostDev(hostGen)
    <3>1. CASE t = AttachRoot
      BY <2>3, <3>1, RootLayers, PlainFacts DEF HostOK, Root
    <3>2. CASE t = UserRoot
      <4>1. l.kind = "bind"
        BY <2>3, <3>2, PlacesStep DEF PlacesOK, User
      <4> QED BY <2>3, <4>1
    <3>3. CASE t \in AliasRoots
      <4>1. CASE stack'[1][t] \in {stack[1][t], <<>>}
        BY <2>3, <4>1, NoneOrOne DEF HostOK
      <4>2. ASSUME pc = "aliases", NEW i \in FreshIds, stack'[1][t] = <<HostLayer(i)>>
            PROVE  hostUp = TRUE /\ l.dev = HostDev(hostGen)
        <5>1. l = HostLayer(i) /\ via = hostGen
          BY <2>3, <4>2, NoneOrOne DEF ServedInv, RoundOK
        <5> QED BY <4>2, <5>1 DEF HostLayer, HostOK
      <4> QED BY <3>3, <4>1, <4>2, AliasStep
    <3>4. CASE t \in Targets \ ({AttachRoot, UserRoot} \cup AliasRoots)
      BY <2>3, <3>4, ElsewhereStep DEF ModuleKinds
    <3> QED BY <3>1, <3>2, <3>3, <3>4
  <2>4. backup'.kind = "host" => hostUp = TRUE /\ backup'.dev = HostDev(hostGen)
    <3>1. Topmost(1, AttachRoot) # NoLayer => Topmost(1, AttachRoot) \in Entries(stack[1][AttachRoot])
      BY ShownThere, PlainFacts
    <3>2. NoLayer.kind # "host" /\ LostClone.kind # "host"
      BY DEF NoLayer, LostClone
    <3>3. \A l \in Entries(stack[1][AttachRoot]) : l.kind = "host" => hostUp = TRUE /\ l.dev = HostDev(hostGen)
      BY PlainFacts DEF HostOK
    <3>4. backup.kind = "host" => hostUp = TRUE /\ backup.dev = HostDev(hostGen)
      BY DEF HostOK
    <3> QED BY <3>1, <3>2, <3>3, <3>4, BackupShape
  <2> QED BY <1>2, <2>1, <2>2, <2>3, <2>4 DEF HostOK
<1> QED BY <1>1, <1>2, SessionMoves

\* clear_mount_target_stack_verified takes whatever is there for the module's: it finds the
\* target empty or its one layer to detach.
LEMMA Attributed ==
    ASSUME PlainInv, PlainRounds, pc = "inspect"
    PROVE  \/ stack[1][cur] = <<>> /\ LayerVerdict(Topmost(ns, cur)) = "clean"
           \/ stack[1][cur] # <<>> /\ passes = 0 /\ LayerVerdict(Topmost(ns, cur)) = "detach"
<1> USE DEF PlainInv
<1>1. ns = 1 /\ cur \in {AttachRoot, UserRoot} /\ cur \in todo /\ cur \in Targets
  BY PlainFacts DEF ClearOK
<1>2. CASE stack[1][cur] = <<>>
  BY <1>1, <1>2, ShownThere DEF LayerVerdict
<1>3. CASE stack[1][cur] # <<>>
  <2> DEFINE l == Topmost(1, cur)
  <2>1. l # NoLayer /\ l \in Layer /\ l \in Entries(stack[1][cur])
    BY <1>1, <1>3, ShownThere
  <2>2. passes = 0 /\ ~(passes >= MaxUnmountPasses)
    <3>1. passes = 0
      BY <1>3 DEF ClearOK
    <3> QED BY <3>1, ConstantsAssumption
  <2>3. ~SupersededLayer(CleanupLedger, cur, l)
    <3>1. SUFFICES ASSUME NEW m \in RecordedAt(CleanupLedger.mounts, cur) PROVE ~(l.id > m.id)
      BY DEF SupersededLayer
    <3>2. m \in ledger.mounts /\ m.target = cur
      BY <3>1 DEF CleanupLedger, RecordedAt, NoLedger
    <3>3. l.id = m.id
      BY <1>3, <3>2 DEF RecordOK
    <3>4. l.id \in Nat
      BY <2>1 DEF Layer, MountIds
    <3> QED BY <3>3, <3>4
  <2>4. OwnLayer(l)
    <3>1. CASE cur = UserRoot
      BY <2>1, <3>1 DEF PlacesOK, User, OwnLayer
    <3>2. CASE cur = AttachRoot
      <4>1. AttachRoot \in RecordedTargets
        BY <1>1, <3>2 DEF ClearOK
      <4>2. l.kind = "host"
        BY <2>1, <3>2, <4>1 DEF RecordOK, Root
      <4>3. hostUp = TRUE /\ l.dev = HostDev(hostGen)
        BY <1>1, <2>1, <4>2 DEF HostOK
      <4>4. l.dev \in known
        BY <4>3 DEF HostOK
      <4>5. l.dev # DiskDev
        <5>1. hostGen \in Nat
          BY ConstantFacts DEF ServedInv, TypeOK, WorldOK
        <5> QED BY <4>3, <5>1 DEF HostDev, DiskDev
      <4> QED BY <2>1, <4>4, <4>5 DEF OwnLayer, IsFuse
    <3> QED BY <1>1, <3>1, <3>2
  <2> HIDE DEF l
  <2>5. LayerVerdict(l) = "detach"
    BY <2>1, <2>2, <2>3, <2>4 DEF LayerVerdict
  <2> QED BY <1>1, <1>3, <2>2, <2>5 DEF l
<1> QED BY <1>2, <1>3

\* The fallback sweep always succeeds, and takes the bind of the redirect root along.
LEMMA SweepClears ==
    ASSUME PlainInv, PlainRounds, SweepUnrecorded
    PROVE  /\ cleared' = TRUE /\ state' = NoState /\ ledger' = NoLedger
           /\ stack'[1][UserRoot] = <<>>
<1> USE DEF PlainInv
<1>1. ns = 1 /\ MayFail = {}
  <2>1. ns = 1
    BY PlainFacts DEF SweepUnrecorded
  <2> QED BY <2>1, PlainFacts, NothingDead DEF MayFail, Unswept
<1>2. /\ cleared' = TRUE /\ state' = NoState /\ ledger' = NoLedger
      /\ stack' = [stack EXCEPT ![1] = [t \in Targets |-> SubSeq(@[t], 1, Len(@[t]) - Leftovers(@[t]))]]
  BY <1>1, PlainFacts DEF SweepUnrecorded
<1>3. stack'[1][UserRoot] = SubSeq(User, 1, Len(User) - Leftovers(User))
  BY <1>2, PlainFacts DEF StackType, User
<1>4. User \in Seq(Layer) /\ Len(User) <= 1
  BY ShownThere, PlainFacts DEF User, PlacesOK
<1>5. ASSUME User = <<>> PROVE stack'[1][UserRoot] = <<>>
  <2>1. {i \in 1 .. 0 : SweepShape(<<>>[i])} = {} /\ Len(<<>>) = 0
    OBVIOUS
  <2>2. Leftovers(<<>>) = 0
    BY <2>1, FS_EmptySet DEF Leftovers
  <2>3. SubSeq(User, 1, 0) = <<>>
    BY <1>4
  <2>4. Len(User) - Leftovers(User) = 0
    BY <1>5, <2>1, <2>2
  <2> QED BY <1>3, <2>3, <2>4
<1>6. ASSUME NEW l \in Layer, User = <<l>> PROVE stack'[1][UserRoot] = <<>>
  <2>1. Len(User) = 1 /\ User[1] = l /\ l.kind = "bind"
    BY <1>6, NoneOrOne DEF PlacesOK
  <2>2. {i \in 1 .. Len(User) : SweepShape(User[i])} = {1}
    BY <2>1 DEF SweepShape
  <2>3. Leftovers(User) = 1
    BY <2>2, FS_Singleton DEF Leftovers
  <2>4. SubSeq(User, 1, 0) = <<>>
    BY <1>4
  <2> QED BY <1>3, <2>1, <2>3, <2>4
<1> QED BY <1>2, <1>4, <1>5, <1>6, AtMostOne

\* How the ledger, the state file and the targets of the round change.
LEMMA LedgerMoves ==
    ASSUME PlainInv, PlainRounds, Next
    PROVE  \/ ledger' = ledger \/ ledger' = NoLedger
           \/ RecordIdentity /\ ledger' = NewLedger
<1> USE DEF PlainInv
<1>1. CASE BuildPlan \/ Supervise \/ EnterNamespace
  BY <1>1 DEF BuildPlan, Supervise, EnterNamespace, diskVars
<1>2. CASE ClearNextTarget \/ InspectTarget \/ UmountTarget \/ SettleClear \/ ForgetLedger
  BY <1>2 DEF ClearNextTarget, InspectTarget, UmountTarget, SettleClear, ForgetLedger, diskVars
<1>3. CASE SweepUnrecorded
  BY <1>3, SweepClears
<1>4. CASE DecideAfterClear
  BY <1>4 DEF DecideAfterClear, ClearOK
<1>5. CASE AttachStep
  BY <1>5 DEF AttachStep, ReuseHost, SkipHost, StartAttach, ReplaceTop, MoveMount, AttachTimesOut, AttachAlias,
              FinishAttach, diskVars
<1>6. CASE MountStep
  BY <1>6 DEF MountStep, NoRulesShortCircuit, StartBinds, BindTarget, RepairParent, BindFails, FinishBinds,
              SaveState, RollBackRound, RestorePrivate, RecordIdentity, diskVars
<1>7. CASE Environment
  BY <1>7 DEF Environment, KillChild, StartApp, ExitApp, StartHost, HostDies, ChangeConfig, PruneStale,
              SystemMounts, diskVars
<1> QED BY <1>1, <1>2, <1>3, <1>4, <1>5, <1>6, <1>7 DEF Next, WorkerStep, ClearStep

LEMMA StateMoves ==
    ASSUME PlainInv, PlainRounds, Next
    PROVE  \/ state' = state \/ state' = NoState
           \/ SaveState /\ state'.targets = done /\ done' = done
<1>1. CASE BuildPlan \/ Supervise \/ EnterNamespace
  BY <1>1 DEF BuildPlan, Supervise, EnterNamespace, diskVars
<1>2. CASE ClearStep
  BY <1>2, SweepClears DEF ClearStep, ClearNextTarget, InspectTarget, UmountTarget, SettleClear, ForgetLedger,
              DecideAfterClear, diskVars
<1>3. CASE AttachStep
  BY <1>3 DEF AttachStep, ReuseHost, SkipHost, StartAttach, ReplaceTop, MoveMount, AttachTimesOut, AttachAlias,
              FinishAttach, diskVars
<1>4. CASE MountStep
  BY <1>4 DEF MountStep, NoRulesShortCircuit, StartBinds, BindTarget, RepairParent, BindFails, FinishBinds,
              SaveState, RollBackRound, RestorePrivate, RecordIdentity, diskVars
<1>5. CASE Environment
  BY <1>5 DEF Environment, KillChild, StartApp, ExitApp, StartHost, HostDies, ChangeConfig, PruneStale,
              SystemMounts, diskVars
<1> QED BY <1>1, <1>2, <1>3, <1>4, <1>5 DEF Next, WorkerStep

LEMMA DoneMoves ==
    ASSUME PlainInv, PlainRounds, Next
    PROVE  \/ done' \subseteq done
           \/ ReuseHost /\ done' = {AttachRoot}
           \/ MoveMount /\ done' = {AttachRoot} /\ \E i \in FreshIds : stack' = Push(ns, AttachRoot, HostLayer(i))
           \/ BindTarget /\ done' \subseteq done \cup todo
<1>1. CASE BuildPlan \/ Supervise \/ EnterNamespace
  BY <1>1 DEF BuildPlan, Supervise, EnterNamespace, EndRound
<1>2. CASE ClearStep
  BY <1>2 DEF ClearStep, ClearNextTarget, InspectTarget, UmountTarget, SettleClear, ForgetLedger,
              SweepUnrecorded, DecideAfterClear, EndRound
<1>3. CASE AttachStep
  BY <1>3 DEF AttachStep, ReuseHost, SkipHost, StartAttach, ReplaceTop, MoveMount, AttachTimesOut, AttachAlias,
              FinishAttach, AttachFailed
<1>4. CASE MountStep
  BY <1>4, NeverHere DEF MountStep, NoRulesShortCircuit, StartBinds, BindTarget, Shallowest, BindFails,
              FinishBinds, SaveState, RestorePrivate, RecordIdentity, EndRound, workVars
<1>5. CASE Environment
  BY <1>5 DEF Environment, KillChild, StartApp, ExitApp, StartHost, HostDies, ChangeConfig, PruneStale,
              SystemMounts, EndRound, workVars
<1> QED BY <1>1, <1>2, <1>3, <1>4, <1>5 DEF Next, WorkerStep

\* By the time anything is mounted both records are gone.
LEMMA RecordsGone ==
    ASSUME PlainInv, PlainRounds, Next
    PROVE  /\ pc' \in Injecting \cup {"decide"} => ledger' = NoLedger
           /\ pc' \in (Injecting \cup {"unrecord", "decide"}) \ {"record"} => state' = NoState
           /\ pc' \notin {"aliases", "bind", "save", "record"} => done' = {}
           /\ pc' = "bind" => AttachRoot \notin done'
<1> USE DEF PlainInv, RecordOK
<1>1. CASE BuildPlan \/ Supervise \/ EnterNamespace
  BY <1>1 DEF BuildPlan, Supervise, EnterNamespace, EndRound, Injecting
<1>2. CASE ClearNextTarget \/ InspectTarget \/ UmountTarget
  BY <1>2 DEF ClearNextTarget, InspectTarget, UmountTarget, FinishTarget, Injecting
<1>3. CASE SettleClear \/ ForgetLedger
  BY <1>3, PlainFacts DEF SettleClear, ForgetLedger, Injecting, ClearOK
<1>4. CASE SweepUnrecorded
  BY <1>4, SweepClears DEF SweepUnrecorded
<1>5. CASE DecideAfterClear
  BY <1>5 DEF DecideAfterClear, EndRound, Injecting, ClearOK
<1>6. CASE ReuseHost \/ SkipHost \/ StartAttach \/ ReplaceTop
  BY <1>6 DEF ReuseHost, SkipHost, StartAttach, ReplaceTop, AttachFailed, diskVars, Injecting
<1>7. CASE MoveMount \/ AttachTimesOut \/ AttachAlias \/ FinishAttach
  BY <1>7 DEF MoveMount, AttachTimesOut, AttachAlias, FinishAttach, AttachFailed, diskVars, Injecting
<1>8. CASE NoRulesShortCircuit \/ StartBinds \/ BindFails \/ FinishBinds
  BY <1>8 DEF NoRulesShortCircuit, StartBinds, BindFails, FinishBinds, EndRound, diskVars, Injecting
<1>9. CASE BindTarget
  <2>1. AttachRoot \notin todo
    BY <1>9, PlainFacts DEF BindTarget, ServedInv, RoundOK
  <2> QED BY <1>9, <2>1 DEF BindTarget, Shallowest, diskVars, Injecting
<1>10. CASE SaveState \/ RestorePrivate \/ RecordIdentity \/ KillChild
  BY <1>10 DEF SaveState, RestorePrivate, RecordIdentity, KillChild, EndRound, diskVars, workVars, Injecting
<1>11. CASE StartApp \/ ExitApp \/ StartHost \/ ChangeConfig \/ PruneStale
  BY <1>11 DEF StartApp, ExitApp, StartHost, ChangeConfig, PruneStale, diskVars, workVars, Injecting
<1> QED BY <1>1, <1>2, <1>3, <1>4, <1>5, <1>6, <1>7, <1>8, <1>9, <1>10, <1>11, NeverHere
       DEF Next, WorkerStep, ClearStep, AttachStep, MountStep, Environment

\* Nothing is recorded that was not recorded or mounted before.
LEMMA RecordedMoves ==
    ASSUME PlainInv, PlainRounds, Next
    PROVE  RecordedTargets' \subseteq RecordedTargets \cup done
<1>1. {m.target : m \in ledger'.mounts} \subseteq RecordedTargets \cup done
  <2>1. NoLedger.mounts = {}
    BY DEF NoLedger
  <2>2. \A m \in NewLedger.mounts : m.target \in done
    BY DEF NewLedger, Captured
  <2> QED BY <2>1, <2>2, LedgerMoves DEF RecordedTargets
<1>2. state'.targets \subseteq RecordedTargets \cup done
  BY StateMoves DEF RecordedTargets, NoState
<1> QED BY <1>1, <1>2 DEF RecordedTargets

\* A process starts before anything is recorded.
LEMMA FreshProcess ==
    ASSUME PlainInv, PlainRounds, Next
    PROVE  /\ inst' = inst \/ (StartApp /\ inst' # 0)
           /\ StartApp => inst = 0 /\ pc = "idle" /\ pc' = "idle" /\ RecordedTargets = {} /\ done' = {}
                          /\ ledger = NoLedger /\ done = {} /\ RecordedTargets' = {}
<1>1. inst \in 0 .. 1
  BY PlainFacts DEF PlainInv, ServedInv, TypeOK, WorldOK
<1>2. inst' = inst \/ StartApp
  <2>1. CASE BuildPlan \/ Supervise \/ EnterNamespace \/ ClearStep
    BY <2>1 DEF BuildPlan, Supervise, EnterNamespace, ClearStep, ClearNextTarget, InspectTarget, UmountTarget,
                SettleClear, ForgetLedger, SweepUnrecorded, DecideAfterClear, appVars
  <2>2. CASE AttachStep
    BY <2>2 DEF AttachStep, ReuseHost, SkipHost, StartAttach, ReplaceTop, MoveMount, AttachTimesOut, AttachAlias,
                FinishAttach, appVars
  <2>3. CASE MountStep
    BY <2>3 DEF MountStep, NoRulesShortCircuit, StartBinds, BindTarget, RepairParent, BindFails, FinishBinds,
                SaveState, RollBackRound, RestorePrivate, RecordIdentity, appVars
  <2>4. CASE Environment
    BY <2>4 DEF Environment, KillChild, ExitApp, StartHost, HostDies, ChangeConfig, PruneStale, SystemMounts, appVars
  <2> QED BY <2>1, <2>2, <2>3, <2>4 DEF Next, WorkerStep
<1>3. ASSUME StartApp
      PROVE  /\ inst = 0 /\ inst' # 0 /\ pc = "idle" /\ pc' = "idle" /\ RecordedTargets = {} /\ done' = {}
             /\ ledger = NoLedger /\ done = {} /\ RecordedTargets' = {}
  <2>1. inst = 0 /\ inst' = inst + 1
    BY <1>1, <1>3, PlainFacts DEF StartApp
  <2>2. pc = "idle" /\ state = NoState /\ ledger = NoLedger /\ done = {}
    BY <2>1 DEF PlainInv, ServedInv, RoundOK, RecordOK
  <2>3. state' = state /\ ledger' = ledger /\ done' = done /\ pc' = pc
    BY <1>3 DEF StartApp, diskVars, workVars
  <2>4. NoState.targets = {} /\ NoLedger.mounts = {}
    BY DEF NoState, NoLedger
  <2> QED BY <2>1, <2>2, <2>3, <2>4 DEF RecordedTargets
<1> QED BY <1>2, <1>3

\* Where the view root is among the targets it shows the host and the redirect root is bare.
LEMMA RootRecorded ==
    ASSUME PlainInv, PlainRounds, Next, AttachRoot \in RecordedTargets' \cup done'
    PROVE  stack'[1][UserRoot] = <<>> /\ \A l \in Entries(stack'[1][AttachRoot]) : l.kind = "host"
<1> USE DEF PlainInv
<1>1. CASE AttachRoot \in RecordedTargets \cup done
  <2>1. User = <<>> /\ \A l \in Entries(Root(1)) : l.kind = "host"
    BY <1>1 DEF RecordOK
  <2>2. pc \notin {"bind", "move"}
    <3>1. ASSUME pc \in {"bind", "move"} PROVE FALSE
      <4>1. ledger = NoLedger /\ state = NoState
        BY <3>1 DEF RecordOK, Injecting
      <4>2. RecordedTargets = {}
        BY <4>1 DEF RecordedTargets, NoLedger, NoState
      <4>3. AttachRoot \notin done
        BY <3>1 DEF RecordOK
      <4> QED BY <1>1, <4>2, <4>3
    <3> QED BY <3>1
  <2>3. ~BindTarget
    BY <2>2 DEF BindTarget
  <2>4. stack'[1][UserRoot] = <<>>
    BY <2>1, <2>3, UserStep
  <2>5. ASSUME NEW l \in Entries(stack'[1][AttachRoot]) PROVE l.kind = "host"
    <3>1. ~StartApp
      BY <1>1, FreshProcess
    <3>2. backup = NoLayer /\ NoLayer \notin Layer
      BY <2>2 DEF ServedInv, CloneOK, NoLayer, Layer, MountIds
    <3> QED BY <2>1, <2>5, <3>1, <3>2, RootLayers
  <2> QED BY <2>4, <2>5
<1>2. CASE AttachRoot \notin RecordedTargets \cup done
  <2>1. AttachRoot \in done' /\ AttachRoot \notin done
    BY <1>2, RecordedMoves
  <2>2. ~BindTarget \/ AttachRoot \notin todo
    BY PlainFacts DEF BindTarget, ServedInv, RoundOK
  <2>3. CASE ReuseHost
    <3>1. ns = 1 /\ stack' = stack /\ pc = "preattach" /\ req.host = TRUE
      BY <2>3, PlainFacts DEF ReuseHost
    <3>2. User = <<>>
      BY <3>1 DEF ClearOK, Kept, KeepRedirectRoot
    <3>3. Topmost(1, AttachRoot).dev = HostDev(hostGen) /\ hostGen \in Nat /\ hostGen # 0
      BY <2>3, <3>1, ConstantFacts DEF ReuseHost, ServedInv, TypeOK, WorldOK
    <3>4. Topmost(1, AttachRoot).kind = "host"
      <4>1. HostDev(hostGen) # 0 /\ HostDev(hostGen) # SystemDev
        BY <3>3 DEF HostDev, SystemDev
      <4>2. Topmost(1, AttachRoot) \in Entries(Root(1))
        BY <3>3, <4>1, ShownThere, PlainFacts DEF NoLayer, Root
      <4>3. Topmost(1, AttachRoot).kind \notin SystemKinds
        BY <3>3, <4>1, <4>2, PlainFacts DEF ServedInv, KindsOK
      <4> QED BY <4>2, <4>3 DEF PlacesOK
    <3>5. Entries(Root(1)) \subseteq {Topmost(1, AttachRoot)}
      BY RootTop, PlainFacts DEF ServedInv
    <3> QED BY <3>1, <3>2, <3>4, <3>5 DEF User, Root
  <2>4. CASE MoveMount /\ \E i \in FreshIds : stack' = Push(ns, AttachRoot, HostLayer(i))
    <3>1. ns = 1 /\ pc = "move"
      BY <2>4, PlainFacts DEF MoveMount
    <3>2. PICK i \in FreshIds : stack' = Push(1, AttachRoot, HostLayer(i))
      BY <2>4, <3>1
    <3>3. HostLayer(i) \in Layer /\ Root(1) = <<>> /\ User = <<>>
      BY <3>1, HostLayerType DEF ServedInv, CloneOK, ClearOK
    <3>4. /\ Push(1, AttachRoot, HostLayer(i))[1][AttachRoot] = Append(stack[1][AttachRoot], HostLayer(i))
          /\ Push(1, AttachRoot, HostLayer(i))[1][UserRoot] = stack[1][UserRoot]
      BY <3>3, PushProperties, PlainFacts
    <3>5. Entries(stack'[1][AttachRoot]) = {HostLayer(i)} /\ stack'[1][UserRoot] = <<>>
      BY <3>2, <3>3, <3>4, NoneOrOne DEF Root, User
    <3> QED BY <3>5 DEF HostLayer
  <2> QED BY <2>1, <2>2, <2>3, <2>4, DoneMoves
<1> QED BY <1>1, <1>2

\* A recorded mount keeps its id as long as it is there.
LEMMA IdsKept ==
    ASSUME PlainInv, PlainRounds, Next, NEW m \in ledger'.mounts, stack'[1][m.target] # <<>>
    PROVE  TopOf(stack'[1][m.target]).id = m.id
<1> USE DEF PlainInv
<1>0. NoLedger.mounts = {}
  BY DEF NoLedger
<1>1. CASE ledger' = ledger
  <2>1. ledger # NoLedger /\ m \in ledger.mounts /\ m.target \in {AttachRoot, UserRoot}
    BY <1>0, <1>1 DEF RecordOK, RecordedTargets
  <2>2. pc \notin Injecting
    BY <2>1 DEF RecordOK
  <2>3. stack'[1][m.target] \in {stack[1][m.target], <<>>}
    <3>1. CASE m.target = UserRoot
      <4>1. ~BindTarget
        BY <2>2 DEF BindTarget, Injecting
      <4> QED BY <3>1, <4>1, UserStep DEF User
    <3>2. CASE m.target = AttachRoot
      <4>1. ~RootAttached(1) /\ ~RootPutBack(1) /\ ~RootRepaired(1)
        BY <2>2 DEF RootAttached, RootPutBack, RootRepaired, Injecting
      <4>2. ~RootFresh(1)
        BY <2>1, FreshProcess DEF RootFresh
      <4>3. RootUntouched(1)
        BY <4>1, <4>2, RootStep, PlainFacts
      <4> QED BY <3>2, <4>3 DEF RootUntouched, Root
    <3> QED BY <2>1, <3>1, <3>2
  <2> QED BY <1>1, <2>3 DEF RecordOK, Topmost
<1>2. CASE RecordIdentity /\ ledger' = NewLedger
  <2>1. ns = 1 /\ stack' = stack
    BY <1>2, PlainFacts DEF RecordIdentity
  <2>2. \A x \in NewLedger.mounts : x.id = Topmost(ns, x.target).id
    BY DEF NewLedger, Captured
  <2> QED BY <1>2, <2>1, <2>2 DEF Topmost
<1> QED BY <1>0, <1>1, <1>2, LedgerMoves

LEMMA RecordStep ==
    ASSUME PlainInv, PlainRounds, Next
    PROVE  RecordOK'
<1> USE DEF PlainInv
<1>1. inst' = 0 => ledger' = NoLedger
  <2>1. SUFFICES ASSUME inst' = 0 PROVE ledger' = NoLedger
    OBVIOUS
  <2>2. inst = 0 /\ ledger = NoLedger /\ pc = "idle"
    BY <2>1, FreshProcess DEF RecordOK, ServedInv, RoundOK
  <2>3. ~RecordIdentity
    BY <2>2 DEF RecordIdentity
  <2> QED BY <2>2, <2>3, LedgerMoves
<1>2. RecordedTargets' \cup done' \subseteq {AttachRoot, UserRoot}
  <2>1. BindTarget => todo \subseteq {UserRoot}
    BY PlainFacts DEF BindTarget, ServedInv, RoundOK
  <2> QED BY <2>1, RecordedMoves, DoneMoves DEF RecordOK
<1>3. AttachRoot \in RecordedTargets' \cup done' =>
          User' = <<>> /\ \A l \in Entries(Root(1)') : l.kind = "host"
  BY RootRecorded DEF User, Root
<1>4. \A m \in ledger'.mounts : stack'[1][m.target] # <<>> => TopOf(stack'[1][m.target]).id = m.id
  BY IdsKept
<1> QED BY <1>1, <1>2, <1>3, <1>4, RecordsGone DEF RecordOK, Topmost

\* A redirect root kept for the round stays kept.
LEMMA KeptStays ==
    ASSUME PlainInv, PlainRounds, Next, Kept, ns = 1, ~BindTarget, req' = req, ns' = ns
    PROVE  Kept'
<1>1. CASE stack'[1][UserRoot] = <<>>
  BY <1>1 DEF Kept, User
<1>2. CASE stack'[1][UserRoot] = stack[1][UserRoot]
  BY <1>2 DEF Kept, KeepRedirectRoot, Topmost, User
<1> QED BY <1>1, <1>2, UserStep DEF User

\* Clearing takes one target after the other and leaves none of ours behind.
LEMMA ClearingStep ==
    ASSUME PlainInv, PlainRounds, Next, EnterNamespace \/ ClearStep
    PROVE  ClearOK'
<1> USE DEF PlainInv
<1>1. CASE EnterNamespace
  <2>1. pc = "fork" /\ cleared' = TRUE /\ stack' = stack /\ state' = state /\ ledger' = ledger
    BY <1>1 DEF EnterNamespace, EndRound, ClearOK, diskVars
  <2>2. CASE pc' = "clear"
    <3>1. todo' = ClearTargets(req) /\ todo' # {}
      BY <1>1, <2>2 DEF EnterNamespace, EndRound
    <3>2. RecordedTargets \subseteq todo' /\ todo' \subseteq RecordedTargets \cup {UserRoot}
      BY <3>1, PlainFacts DEF ClearTargets, RecordedTargets
    <3>3. User # <<>> => RecordedTargets \subseteq {UserRoot}
      BY DEF RecordOK
    <3>4. RecordedTargets' = RecordedTargets /\ User' = User
      BY <2>1 DEF RecordedTargets, User
    <3>5. todo' \subseteq {AttachRoot, UserRoot} /\ (AttachRoot \in todo' => AttachRoot \in RecordedTargets)
      BY <3>2, PlainFacts DEF RecordOK
    <3>6. UserRoot \in todo' \/ User = <<>>
      BY <3>1, <3>2, <3>3
    <3> QED BY <2>1, <2>2, <3>4, <3>5, <3>6 DEF ClearOK, Kept
  <2>3. CASE pc' \in {"idle", "sweep"}
    BY <2>1, <2>3 DEF ClearOK
  <2> QED BY <1>1, <2>2, <2>3 DEF EnterNamespace, EndRound
<1>2. CASE ClearNextTarget
  <2>1. /\ pc = "clear" /\ ns = 1 /\ ns' = ns /\ req' = req /\ stack' = stack /\ cleared' = cleared
        /\ RecordedTargets' = RecordedTargets /\ ~BindTarget
    BY <1>2, PlainFacts DEF ClearNextTarget, RecordedTargets, diskVars, BindTarget
  <2>2. PICK t \in todo :
            \/ KeepRedirectRoot(t) /\ todo' = todo \ {t} /\ pc' = pc
            \/ cur' = t /\ passes' = 0 /\ pc' = "inspect" /\ todo' = todo
    BY <1>2 DEF ClearNextTarget, Deepest
  <2>3. Kept => Kept'
    BY <2>1, KeptStays
  <2>4. CASE KeepRedirectRoot(t) /\ todo' = todo \ {t} /\ pc' = pc
    <3>1. Kept
      BY <2>4 DEF Kept, KeepRedirectRoot
    <3> QED BY <2>1, <2>3, <2>4, <3>1 DEF ClearOK
  <2>5. CASE cur' = t /\ passes' = 0 /\ pc' = "inspect" /\ todo' = todo
    BY <2>1, <2>2, <2>3, <2>5 DEF ClearOK
  <2> QED BY <2>2, <2>4, <2>5
<1>3. CASE InspectTarget
  <2>1. /\ pc = "inspect" /\ ns = 1 /\ ns' = ns /\ req' = req /\ stack' = stack /\ cur' = cur
        /\ RecordedTargets' = RecordedTargets /\ ~BindTarget
    BY <1>3, PlainFacts DEF InspectTarget, RecordedTargets, diskVars, BindTarget
  <2>2. Kept => Kept'
    BY <2>1, KeptStays
  <2>3. CASE stack[1][cur] = <<>> /\ LayerVerdict(Topmost(ns, cur)) = "clean"
    <3>1. pc' = "clear" /\ todo' = todo \ {cur} /\ cleared' = cleared
      BY <1>3, <2>3 DEF InspectTarget, FinishTarget, ClearOK
    <3>2. cur = UserRoot => Kept
      BY <2>3 DEF Kept, User
    <3> QED BY <2>1, <2>2, <3>1, <3>2 DEF ClearOK
  <2>4. CASE stack[1][cur] # <<>> /\ passes = 0 /\ LayerVerdict(Topmost(ns, cur)) = "detach"
    <3>1. pc' = "umount" /\ UNCHANGED <<todo, cleared, passes>>
      BY <1>3, <2>4 DEF InspectTarget
    <3> QED BY <2>1, <2>2, <2>4, <3>1 DEF ClearOK
  <2> QED BY <2>1, <2>3, <2>4, Attributed
<1>4. CASE UmountTarget
  <2>1. /\ pc = "umount" /\ ns = 1 /\ ns' = ns /\ req' = req /\ cur' = cur
        /\ RecordedTargets' = RecordedTargets /\ ~BindTarget /\ cur \in {AttachRoot, UserRoot} /\ cur \in Targets
    BY <1>4, PlainFacts DEF UmountTarget, RecordedTargets, diskVars, BindTarget, ClearOK
  <2>2. /\ stack[1][cur] # <<>> /\ stack' = PopAt(1, cur) /\ pc' = "inspect"
        /\ UNCHANGED <<todo, cleared>>
    BY <1>4, <2>1, PlainFacts, NothingDead DEF UmountTarget
  <2>3. stack'[1][cur] = <<>>
    <3>1. stack[1][cur] \in Seq(Layer) /\ Len(stack[1][cur]) <= 1
      BY <2>1, PlainFacts DEF StackType, ServedInv, SingleView, Root, PlacesOK, User
    <3>2. PICK l \in Layer : stack[1][cur] = <<l>>
      BY <2>2, <3>1, AtMostOne
    <3>3. PopAt(1, cur)[1][cur] = Pop(stack[1][cur])
      BY <2>1, <2>2, PopAtProperties, PlainFacts
    <3> QED BY <2>2, <3>2, <3>3, NoneOrOne
  <2>4. Kept => Kept'
    BY <2>1, KeptStays
  <2> QED BY <2>1, <2>2, <2>3, <2>4 DEF ClearOK
<1>5. CASE SettleClear \/ ForgetLedger \/ DecideAfterClear
  <2>1. /\ pc \in {"clear", "unrecord", "decide"} /\ ns = 1 /\ ~BindTarget /\ cleared' = TRUE
        /\ \/ pc' = "idle"
           \/ pc' \in {"unrecord", "decide", "preattach"} /\ ns' = ns /\ req' = req
    BY <1>5, PlainFacts DEF SettleClear, ForgetLedger, DecideAfterClear, EndRound, BindTarget, ClearOK
  <2>2. Kept
    <3>1. pc = "clear" => todo = {}
      BY <1>5 DEF SettleClear, ForgetLedger, DecideAfterClear
    <3> QED BY <2>1, <3>1 DEF ClearOK
  <2>3. pc' # "idle" => Kept'
    BY <2>1, <2>2, KeptStays
  <2> QED BY <2>1, <2>3 DEF ClearOK
<1>6. CASE SweepUnrecorded
  <2>1. pc' = "decide" /\ cleared' = TRUE /\ Kept'
    BY <1>6, SweepClears DEF SweepUnrecorded, Kept, User
  <2> QED BY <2>1 DEF ClearOK
<1> QED BY <1>1, <1>2, <1>3, <1>4, <1>5, <1>6 DEF ClearStep

\* What comes after mounts on a bare redirect root, or on the bind it asked for itself.
LEMMA ClearStays ==
    ASSUME PlainInv, PlainRounds, Next
    PROVE  ClearOK'
<1> USE DEF PlainInv
<1>1. CASE BuildPlan \/ Supervise
  BY <1>1 DEF BuildPlan, Supervise, EndRound, ClearOK
<1>2. CASE EnterNamespace \/ ClearStep
  BY <1>2, ClearingStep
<1>3. CASE ReuseHost
  BY <1>3 DEF ReuseHost, ClearOK
<1>4. CASE SkipHost
  <2>1. pc = "preattach" /\ pc' = "fallback" /\ ns = 1 /\ ~BindTarget /\ req' = req /\ ns' = ns /\ cleared' = cleared
    BY <1>4, PlainFacts DEF SkipHost, BindTarget
  <2>2. Kept'
    BY <2>1, KeptStays DEF ClearOK
  <2> QED BY <2>1, <2>2 DEF ClearOK
<1>5. CASE StartAttach
  <2>1. User = <<>>
    BY <1>5 DEF StartAttach, ClearOK, Kept, KeepRedirectRoot
  <2> QED BY <1>5, <2>1 DEF StartAttach, ClearOK, User
<1>6. CASE ReplaceTop \/ MoveMount \/ AttachTimesOut \/ AttachAlias \/ FinishAttach
  <2>1. /\ pc \in {"attach", "move", "aliases"} /\ cleared' = cleared
        /\ pc' \in {"attach", "move", "aliases", "fallback", "save"}
    BY <1>6 DEF ReplaceTop, MoveMount, AttachTimesOut, AttachAlias, FinishAttach, AttachFailed
  <2>2. User' = <<>>
    BY <2>1, UserStep DEF ClearOK, BindTarget, User
  <2> QED BY <2>1, <2>2 DEF ClearOK, Kept
<1>7. CASE StartBinds
  BY <1>7, PlainFacts DEF StartBinds, ClearOK, Kept, KeepRedirectRoot, User, Topmost
<1>8. CASE BindTarget
  <2>1. /\ pc = "bind" /\ pc' = "bind" /\ cleared' = cleared /\ todo \subseteq {UserRoot}
        /\ \E t \in todo : todo' = todo \ {t}
    BY <1>8, PlainFacts DEF BindTarget, Shallowest, ServedInv, RoundOK
  <2> QED BY <2>1 DEF ClearOK
<1>9. CASE NoRulesShortCircuit \/ BindFails \/ FinishBinds \/ SaveState \/ RestorePrivate \/ RecordIdentity
  BY <1>9 DEF NoRulesShortCircuit, BindFails, FinishBinds, SaveState, RestorePrivate, RecordIdentity, EndRound,
              workVars, ClearOK
<1>10. CASE KillChild
  BY <1>10 DEF KillChild, EndRound, ClearOK
<1>11. CASE StartApp \/ StartHost \/ PruneStale
  <2>1. pc' = "idle" /\ cleared' = cleared
    BY <1>11, FreshProcess DEF StartApp, StartHost, PruneStale, workVars
  <2> QED BY <2>1 DEF ClearOK
<1>12. CASE ExitApp \/ ChangeConfig
  BY <1>12 DEF ExitApp, ChangeConfig, workVars, diskVars, ClearOK, Kept, KeepRedirectRoot, Topmost, User,
               RecordedTargets
<1> QED BY <1>1, <1>2, <1>3, <1>4, <1>5, <1>6, <1>7, <1>8, <1>9, <1>10, <1>11, <1>12, NeverHere
       DEF Next, WorkerStep, AttachStep, MountStep, Environment

\* The invariant holds at the start and every step keeps it.
LEMMA PlainInit == PlainRounds /\ Init => PlainInv
<1> SUFFICES ASSUME PlainRounds, Init PROVE PlainInv
  OBVIOUS
<1>1. ServedInv
  BY ServedInit DEF PlainRounds
<1>2. 1 \in 1 .. MaxInst /\ AttachRoot \in Targets /\ UserRoot \in Targets /\ AliasRoots \subseteq Targets
  BY ConstantFacts DEF PlainRounds, OwnedNamespace
<1>3. \A t \in Targets : stack[1][t] = <<>>
  BY <1>2 DEF Init, FreshStack
<1>4. Entries(<<>>) = {} /\ Len(<<>>) = 0
  BY NoneOrOne
<1>5. /\ pc = "idle" /\ backup = NoLayer /\ state = NoState /\ ledger = NoLedger /\ done = {} /\ cleared = TRUE
      /\ hostGen = 0
  BY DEF Init, IdleWorker
<1>6. HostOK /\ PlacesOK
  BY <1>2, <1>3, <1>4, <1>5 DEF HostOK, PlacesOK, NoLayer, Root, User
<1>7. RecordOK /\ ClearOK
  BY <1>5 DEF RecordOK, ClearOK, RecordedTargets, NoState, NoLedger, Injecting
<1> QED BY <1>1, <1>6, <1>7 DEF PlainInv

LEMMA PlainStep == PlainRounds /\ PlainInv /\ [Next]_vars => PlainInv'
<1>1. PlainInv /\ UNCHANGED vars => PlainInv'
  <2> SUFFICES ASSUME PlainInv, UNCHANGED vars PROVE PlainInv'
    OBVIOUS
  <2>1. ServedInv'
    BY DEF PlainInv, ServedInv, TypeOK, WorldOK, DiskOK, WorkerOK, SingleView, CloneOK, KindsOK, RoundOK, RootTaken,
           HostShown, Root, vars, appVars, hostVars, diskVars, workVars
  <2>2. HostOK' /\ PlacesOK'
    BY DEF PlainInv, HostOK, PlacesOK, Root, User, vars, hostVars, workVars
  <2>3. RecordOK' /\ ClearOK'
    BY DEF PlainInv, RecordOK, ClearOK, Kept, KeepRedirectRoot, Topmost, RecordedTargets, Root, User,
           vars, appVars, diskVars, workVars
  <2> QED BY <2>1, <2>2, <2>3 DEF PlainInv
<1>2. PlainRounds /\ PlainInv /\ Next => PlainInv'
  BY ServedStep, HostStep, PlacesStep, RecordStep, ClearStays DEF PlainInv, PlainRounds
<1> QED BY <1>1, <1>2

\* No target ever holds two layers of the module: whatever fails in an attach, wherever a
\* round is killed, and however often the request changes between the host, two
\* different binds and none, the next round clears what it would mount over.
THEOREM NothingStacks == ASSUME PlainRounds PROVE Spec => []NoStacking
<1>1. PlainInv => NoStacking
  <2> SUFFICES ASSUME PlainInv, NEW n \in 1 .. MaxInst, NEW t \in Targets PROVE ModuleLayers(n, t) <= 1
    BY DEF NoStacking
  <2> USE DEF PlainInv
  <2> DEFINE M == {i \in 1 .. Len(stack[n][t]) : stack[n][t][i].kind \in ModuleKinds}
  <2>1. n = 1 /\ stack[1][t] \in Seq(Layer)
    BY PlainFacts DEF StackType
  <2>2. M \subseteq {1}
    <3>1. CASE t \in {AttachRoot, UserRoot} \cup AliasRoots
      <4>1. Len(stack[1][t]) <= 1
        BY <2>1, <3>1 DEF ServedInv, SingleView, Root, PlacesOK, User
      <4>2. Len(stack[1][t]) \in Nat
        BY <2>1, LenProperties
      <4> QED BY <2>1, <4>1, <4>2
    <3>2. CASE t \notin {AttachRoot, UserRoot} \cup AliasRoots
      BY <2>1, <3>2 DEF PlacesOK, Entries
    <3> QED BY <3>1, <3>2
  <2> HIDE DEF M
  <2>3. Cardinality(M) <= 1
    <3>1. IsFiniteSet({1}) /\ Cardinality({1}) = 1
      BY FS_Singleton
    <3>2. Cardinality(M) <= Cardinality({1})
      BY <2>2, <3>1, FS_Subset
    <3> QED BY <3>1, <3>2
  <2> QED BY <2>3 DEF M, ModuleLayers
<1> QED BY <1>1, PlainInit, PlainStep, PTL DEF Spec
=============================================================================
