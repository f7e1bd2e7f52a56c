-------------------------- MODULE HostControlProofs --------------------------
(* What TLAPS establishes about HostControl for every set of applications,    *)
(* every number of host processes and configurations, whatever goes wrong: a  *)
(* valid snapshot never promises more than the living host serves, unless a   *)
(* wait was given up on this host's socket.                                   *)
EXTENDS HostControl, TLAPS, SequenceTheorems

-----------------------------------------------------------------------------
(* The inductive invariant.  SnapshotNotAhead is not inductive: what is        *)
(* published is the registry of the daemon or the copy of its worker, and the  *)
(* host's answer names a uid only, so one has to know that nothing else is on  *)
(* the wire, that both registries are behind the host's table and that the     *)
(* fingerprint awaited is not older than the one in the table.                 *)

Named == job.kind \in {"ns", "view", "policy"}

\* The host is alive and every wait on its socket was answered.
Calm == host.up = TRUE /\ left = FALSE

\* The wire holds the datagram of the registration under way, or its answer.
Asked == /\ toHost = <<[kind |-> job.kind, uid |-> job.uid, fp |-> job.fp]>>
         /\ acks = <<>>
Answered == /\ toHost = <<>>
            /\ \E ok \in BOOLEAN :
                 /\ acks = <<[uid |-> job.uid, ok |-> ok]>>
                 /\ ok = TRUE /\ job.kind = "policy" => host.table[job.uid] = job.fp

SessionInv ==
    /\ host.up = TRUE => hostSlot = host.gen /\ fd = host.gen /\ host.gen # 0
    /\ host.up = FALSE => left = FALSE /\ toHost = <<>> /\ acks = <<>>

JobInv ==
    /\ job.skips < SkipLimit
    /\ job.who = "worker" => job.kind = "policy"
    /\ Named => job.uid \in AppUids /\ job.fp <= cfg[job.uid]

WireInv == Calm => IF Awaiting THEN Asked \/ Answered ELSE toHost = <<>> /\ acks = <<>>

TableInv ==
    Calm => /\ \A u \in AppUids : reg[u] <= host.table[u] /\ host.table[u] <= cfg[u]
            /\ job.who = "worker" => \A u \in AppUids : wreg[u] <= host.table[u]
            /\ snap.gen = host.gen => \A u \in AppUids : snap.fps[u] <= host.table[u]
            /\ Named => host.table[job.uid] <= job.fp

HostControlInv == ControlTypeOK /\ SessionInv /\ JobInv /\ WireInv /\ TableInv

-----------------------------------------------------------------------------
(* Types.                                                                     *)

LEMMA Bounds ==
    MaxVersion \in Nat /\ MaxVersion > 0 /\ MaxGen \in Nat /\ SkipLimit \in Nat /\ SkipLimit > 0
BY HostControlAssumption

LEMMA StartType ==
    ASSUME NEW who \in {"none", "daemon", "worker"}, NEW k \in {"none", "policy", "ns", "root", "view"},
           NEW u \in AppUids \cup {"root"}, NEW f \in 0 .. MaxVersion
    PROVE  /\ Start(who, k, u, f) \in Job
           /\ Start(who, k, u, f).who = who /\ Start(who, k, u, f).kind = k
           /\ Start(who, k, u, f).uid = u /\ Start(who, k, u, f).fp = f
           /\ Start(who, k, u, f).skips = 0 /\ Start(who, k, u, f).keyed = FALSE
           /\ Idle \in Job /\ Idle.kind = "none" /\ Idle.who = "none" /\ Idle.skips = 0
BY Bounds DEF Start, Job, Idle

\* What a step may do to the registration under way, in types.
LEMMA FailedType ==
    ASSUME job \in Job
    PROVE  Failed \in Job /\ Failed.kind \in {"none", "view"} /\ Failed.skips = 0
           /\ (Failed.kind = "view" => Failed.who = job.who /\ Failed.uid = job.uid
                                       /\ Failed.fp = job.fp /\ job.kind = "ns")
           /\ (Failed.kind = "none" => Failed = Idle)
<1>1. /\ job.who \in {"none", "daemon", "worker"} /\ job.uid \in AppUids \cup {"root"}
      /\ job.fp \in 0 .. MaxVersion
  BY DEF Job
<1>2. CASE job.kind = "ns"
  <2> DEFINE s == Start(job.who, "view", job.uid, job.fp)
  <2>1. Failed = s
    BY <1>2 DEF Failed
  <2>2. /\ s \in Job /\ s.kind = "view" /\ s.who = job.who /\ s.uid = job.uid /\ s.fp = job.fp
        /\ s.skips = 0
    BY <1>1, Bounds DEF Start, Job
  <2> HIDE DEF s
  <2> QED  BY <1>2, <2>1, <2>2
<1>3. CASE job.kind # "ns"
  <2>1. Failed = Idle /\ Idle \in Job /\ Idle.kind = "none" /\ Idle.skips = 0
    BY <1>1, <1>3, StartType DEF Failed
  <2> QED  BY <2>1
<1> QED  BY <1>2, <1>3


Wires == toHost \in Seq(Message) /\ acks \in Seq(Ack)

\* The wires: at most one datagram is put on or taken off.
LEMMA WiresStep ==
    ASSUME ControlTypeOK, JobInv, [ControlNext]_controlVars
    PROVE  Wires'
<1> USE DEF Wires
<1>0. /\ toHost \in Seq(Message) /\ acks \in Seq(Ack)
      /\ <<>> \in Seq(Message) /\ <<>> \in Seq(Ack)
  BY EmptySeq DEF ControlTypeOK
<1>1. ASSUME UNCHANGED <<toHost, acks>> PROVE Wires'
  BY <1>0, <1>1
<1>2. ASSUME NEW k \in {"policy", "ns"}, NEW u \in AppUids, NEW f \in 0 .. MaxVersion,
             SendPolicy(k, u, f), UNCHANGED acks
      PROVE  Wires'
  <2> DEFINE m == [kind |-> k, uid |-> u, fp |-> f]
  <2>1. m \in Message
    BY DEF Message
  <2>2. toHost' = Append(toHost, m)
    BY <1>2 DEF SendPolicy
  <2> HIDE DEF m
  <2> QED  BY <1>0, <1>2, <2>1, <2>2, AppendProperties
<1>3. \A u \in AppUids : cfg[u] \in 0 .. MaxVersion
  BY Bounds DEF ControlTypeOK, Version
<1>4. CASE SpawnHost
  <2> DEFINE m == [kind |-> "root", uid |-> "root", fp |-> 0]
  <2>1. m \in Message
    BY Bounds DEF Message
  <2>2. toHost' = <<m>> /\ acks' = <<>>
    BY <1>4 DEF SpawnHost
  <2> HIDE DEF m
  <2> QED  BY <1>0, <2>1, <2>2
<1>5. CASE SpawnFails \/ HostDies
  BY <1>0, <1>5 DEF SpawnFails, HostDies
<1>6. CASE HostAccepts \/ HostRejects
  <2> DEFINE m == Head(toHost)
  <2>1. PICK ok \in BOOLEAN : Reply(m, ok)
    BY <1>6 DEF HostAccepts, HostRejects
  <2>2. toHost # <<>>
    BY <1>6 DEF HostAccepts, HostRejects
  <2>3. m \in Message /\ Tail(toHost) \in Seq(Message)
    BY <1>0, <2>2, HeadTailProperties
  <2>4. [uid |-> m.uid, ok |-> ok] \in Ack
    BY <2>3 DEF Message, Ack
  <2>5. Append(acks, [uid |-> m.uid, ok |-> ok]) \in Seq(Ack)
    BY <1>0, <2>4, AppendProperties
  <2> QED  BY <2>1, <2>3, <2>5 DEF Reply
<1>7. CASE AwaitSucceeds \/ AwaitSkips
  <2>1. acks # <<>> /\ acks' = Tail(acks) /\ toHost' = toHost
    BY <1>7 DEF AwaitSucceeds, AwaitSkips, AckTaken
  <2> QED  BY <1>0, <2>1, HeadTailProperties
<1>8. CASE PreRegisterPolicy
  <2>1. job.uid \in AppUids /\ job.fp \in 0 .. MaxVersion
    BY <1>8 DEF PreRegisterPolicy, JobInv, Named, ControlTypeOK, Job
  <2>2. SendPolicy("policy", job.uid, job.fp) \/ UNCHANGED toHost
    BY <1>8 DEF PreRegisterPolicy
  <2>3. UNCHANGED acks
    BY <1>8 DEF PreRegisterPolicy
  <2> QED  BY <1>1, <1>2, <2>1, <2>2, <2>3
<1>9. ASSUME NEW u \in AppUids, PreRegister(u) \/ HotUpdate(u) \/ WorkerRegisters(u) PROVE Wires'
  <2>1. UNCHANGED acks /\ (SendPolicy("ns", u, cfg[u]) \/ SendPolicy("policy", u, cfg[u]) \/ UNCHANGED toHost)
    BY <1>9 DEF PreRegister, HotUpdate, WorkerRegisters
  <2> QED  BY <1>1, <1>2, <1>3, <2>1
<1>10. ASSUME NEW u \in AppUids, ChangeConfig(u) \/ AppRestarts(u) PROVE Wires'
  BY <1>1, <1>10 DEF ChangeConfig, AppRestarts, wireVars
<1>11. CASE \/ ClearIfDead \/ CompanionFindsStale \/ CompanionRemoves \/ AwaitTimesOut
            \/ WorkerKilled \/ Invalidate \/ StartRound \/ RoundSkips \/ UNCHANGED controlVars
  BY <1>1, <1>11 DEF StartRound, RoundSkips, ClearIfDead, CompanionFindsStale, CompanionRemoves, AwaitTimesOut,
                     WorkerKilled, Invalidate, wireVars, controlVars
<1> QED
  BY <1>4, <1>5, <1>6, <1>7, <1>8, <1>9, <1>10, <1>11 DEF ControlNext

Session == /\ cfg \in [AppUids -> Version]
           /\ host \in [gen : 0 .. MaxGen, up : BOOLEAN, table : Table]
           /\ hostSlot \in 0 .. host.gen /\ fd \in 0 .. host.gen
           /\ snap.gen \in 0 .. host.gen
           /\ \A u \in AppUids : pre[u].gen \in 0 .. host.gen

\* The session: only a spawn makes a generation, and nothing names one to come.
LEMMA SessionTypeStep ==
    ASSUME ControlTypeOK, SessionInv, JobInv, Wires, [ControlNext]_controlVars
    PROVE  Session'
<1> USE DEF Session
<1>1. Session /\ pre \in [AppUids -> [gen : 0 .. host.gen, fp : 0 .. MaxVersion]] /\ host.gen \in Nat
  BY Bounds DEF ControlTypeOK
<1>2. NoPolicies \in Table /\ NoSnap.gen = 0 /\ NoPre.gen = 0
  BY Bounds DEF NoPolicies, Table, NoSnap, NoPre
<1>3. Alive => hostSlot = host.gen
  BY DEF Alive
<1>4. ASSUME UNCHANGED <<cfg, host, hostSlot, fd, snap, pre>> PROVE Session'
  BY <1>1, <1>4
<1>5. CASE SpawnHost
  <2>1. /\ host' = [gen |-> host.gen + 1, up |-> TRUE, table |-> NoPolicies] /\ host.gen < MaxGen
        /\ hostSlot' = host'.gen /\ fd' = host'.gen /\ snap' = [gen |-> host'.gen, fps |-> NoPolicies]
        /\ cfg' = cfg /\ pre' = pre
    BY <1>5 DEF SpawnHost
  <2>2. host'.gen = host.gen + 1 /\ host' \in [gen : 0 .. MaxGen, up : BOOLEAN, table : Table]
    BY <1>1, <1>2, <2>1, Bounds
  <2>3. \A g \in 0 .. host.gen : g \in 0 .. host'.gen
    BY <1>1, <2>2
  <2> QED  BY <1>1, <2>1, <2>2, <2>3
<1>6. CASE SpawnFails
  <2>1. /\ hostSlot' = 0 /\ cfg' = cfg /\ pre' = pre /\ snap' = snap
        /\ \/ host' = host /\ fd' \in {0, fd}
           \/ /\ host.gen < MaxGen /\ fd' = host.gen + 1
              /\ host' = [gen |-> host.gen + 1, up |-> FALSE, table |-> host.table]
    BY <1>6 DEF SpawnFails
  <2>2. CASE host' = host
    BY <1>1, <2>1, <2>2
  <2>3. CASE /\ host.gen < MaxGen /\ fd' = host.gen + 1
             /\ host' = [gen |-> host.gen + 1, up |-> FALSE, table |-> host.table]
    <3>1. host'.gen = host.gen + 1 /\ host' \in [gen : 0 .. MaxGen, up : BOOLEAN, table : Table]
      BY <1>1, <2>3, Bounds
    <3>2. \A g \in 0 .. host.gen : g \in 0 .. host'.gen
      BY <1>1, <3>1
    <3> QED  BY <1>1, <2>1, <2>3, <3>1, <3>2
  <2> QED  BY <2>1, <2>2, <2>3
<1>7. CASE HostDies
  <2>1. /\ host' = [gen |-> host.gen, up |-> FALSE, table |-> NoPolicies]
        /\ UNCHANGED <<cfg, hostSlot, fd, snap, pre>>
    BY <1>7 DEF HostDies, daemonVars
  <2> QED  BY <1>1, <1>2, <2>1
<1>8. CASE HostAccepts
  <2> DEFINE m == Head(toHost)
  <2>1. host' = Registered(host, m) /\ UNCHANGED <<cfg, hostSlot, fd, snap, pre>> /\ toHost # <<>>
    BY <1>8 DEF HostAccepts, Reply, daemonVars
  <2>2. m \in Message
    BY <2>1, HeadTailProperties DEF Wires
  <2>3. m.fp \in 0 .. MaxVersion
    BY <2>2 DEF Message
  <2> HIDE DEF m
  <2>4. host' = host \/ host' = [host EXCEPT !.table = [host.table EXCEPT ![m.uid] = m.fp]]
    BY <2>1 DEF Registered
  <2>5. host.table \in Table /\ [host.table EXCEPT ![m.uid] = m.fp] \in Table
    BY <1>1, <2>3 DEF Table
  <2>6. host' \in [gen : 0 .. MaxGen, up : BOOLEAN, table : Table] /\ host'.gen = host.gen
    BY <1>1, <2>4, <2>5
  <2> QED  BY <1>1, <2>1, <2>6
<1>9. CASE HostRejects
  BY <1>4, <1>9 DEF HostRejects, Reply, daemonVars
<1>10. CASE CompanionRemoves \/ PreRegisterPolicy
  <2>1. UNCHANGED <<cfg, host, hostSlot, fd, pre>> /\ (snap' = NoSnap \/ snap' = snap)
    BY <1>10 DEF CompanionRemoves, PreRegisterPolicy, daemonVars
  <2> QED  BY <1>1, <1>2, <2>1
<1>11. CASE AwaitSucceeds
  <2>1. UNCHANGED <<cfg, host, hostSlot, fd>>
    BY <1>11 DEF AwaitSucceeds
  <2>2. snap' = snap \/ snap'.gen = hostSlot
    BY <1>11 DEF AwaitSucceeds, Record, Published
  <2>3. pre' = pre \/ pre' = [pre EXCEPT ![job.uid] = [gen |-> hostSlot, fp |-> job.fp]]
    BY <1>11 DEF AwaitSucceeds, Record
  <2>4. \A u \in AppUids : pre'[u].gen \in 0 .. host.gen
    BY <1>1, <2>3
  <2> QED  BY <1>1, <2>1, <2>2, <2>4
<1>12. CASE ClearIfDead
  BY <1>1, <1>12 DEF ClearIfDead
<1>13. CASE Invalidate
  BY <1>1, <1>2, <1>13 DEF Invalidate
<1>14. ASSUME NEW u \in AppUids, ChangeConfig(u) PROVE Session'
  <2>1. cfg' = [cfg EXCEPT ![u] = cfg[u] + 1] /\ cfg[u] < MaxVersion /\ UNCHANGED <<host, hostSlot, fd, snap, pre>>
    BY <1>14 DEF ChangeConfig, daemonVars
  <2>2. cfg[u] + 1 \in Version
    BY <1>1, <2>1, Bounds DEF Version
  <2> QED  BY <1>1, <2>1, <2>2
<1>15. CASE CompanionFindsStale \/ AwaitSkips \/ AwaitTimesOut \/ WorkerKilled \/ StartRound \/ RoundSkips \/ UNCHANGED controlVars
  BY <1>4, <1>15 DEF StartRound, RoundSkips, CompanionFindsStale, AwaitSkips, AwaitTimesOut, WorkerKilled, controlVars, daemonVars
<1>16. ASSUME NEW u \in AppUids, PreRegister(u) \/ HotUpdate(u) \/ WorkerRegisters(u) \/ AppRestarts(u)
       PROVE  Session'
  BY <1>4, <1>16 DEF PreRegister, HotUpdate, WorkerRegisters, AppRestarts, daemonVars
<1> QED
  BY <1>5, <1>6, <1>7, <1>8, <1>9, <1>10, <1>11, <1>12, <1>13, <1>14, <1>15, <1>16 DEF ControlNext


Tables == /\ reg \in Table /\ wreg \in Table /\ nsDone \subseteq AppUids
          /\ \E g \in Nat : snap \in [gen : 0 .. g, fps : Table]
          /\ \E g \in Nat : pre \in [AppUids -> [gen : 0 .. g, fp : 0 .. MaxVersion]]

\* The registries, the snapshot and what the daemon remembers of its registrations.
LEMMA TablesStep ==
    ASSUME ControlTypeOK, SessionInv, JobInv, Session', [ControlNext]_controlVars
    PROVE  Tables'
<1> USE DEF Tables
<1>1. /\ Tables /\ host.gen \in Nat
      /\ snap \in [gen : 0 .. host.gen, fps : Table]
      /\ pre \in [AppUids -> [gen : 0 .. host.gen, fp : 0 .. MaxVersion]] /\ hostSlot \in 0 .. host.gen
  BY Bounds DEF ControlTypeOK
<1>2. NoPolicies \in Table /\ NoSnap \in [gen : 0 .. host.gen, fps : Table]
      /\ NoPre \in [gen : 0 .. host.gen, fp : 0 .. MaxVersion]
  BY <1>1, Bounds DEF NoPolicies, Table, NoSnap, NoPre
<1>3. ASSUME UNCHANGED <<reg, wreg, nsDone, snap, pre>> PROVE Tables'
  BY <1>1, <1>3
<1>4. CASE SpawnHost
  <2>1. /\ reg' = NoPolicies /\ wreg' = wreg /\ nsDone' = nsDone /\ pre' = pre
        /\ snap' = [gen |-> host'.gen, fps |-> NoPolicies]
    BY <1>4 DEF SpawnHost
  <2>2. host'.gen \in Nat /\ host'.gen \in 0 .. host'.gen
    BY Bounds DEF Session
  <2>3. snap' \in [gen : 0 .. host'.gen, fps : Table]
    BY <1>2, <2>1, <2>2
  <2> QED  BY <1>1, <1>2, <2>1, <2>2, <2>3
<1>5. CASE CompanionRemoves \/ PreRegisterPolicy
  <2>1. UNCHANGED <<reg, wreg, nsDone, pre>> /\ (snap' = NoSnap \/ snap' = snap)
    BY <1>5 DEF CompanionRemoves, PreRegisterPolicy, daemonVars
  <2> QED  BY <1>1, <1>2, <2>1
<1>6. CASE AwaitSucceeds
  <2> DEFINE r == IF job.who = "worker" THEN wreg ELSE reg
             r1 == [r EXCEPT ![job.uid] = job.fp]
  <2>0. job.fp \in 0 .. MaxVersion
    BY DEF ControlTypeOK, Job
  <2>1. r \in Table /\ r1 \in Table
    <3>1. r \in Table
      BY <1>1
    <3> HIDE DEF r
    <3> QED  BY <2>0, <3>1 DEF Table
  <2>2. CASE job.kind = "ns"
    <3>1. nsDone' = nsDone \cup {job.uid} /\ UNCHANGED <<reg, wreg, snap, pre>>
      BY <1>6, <2>2 DEF AwaitSucceeds, Record
    <3>2. job.uid \in AppUids
      BY <2>2 DEF JobInv, Named
    <3> QED  BY <1>1, <3>1, <3>2
  <2>3. CASE job.kind = "policy"
    <3>1. /\ snap' = Published(r1, r) /\ nsDone' = nsDone
          /\ (wreg' = NoPolicies /\ reg' = reg) \/ (reg' = r1 /\ wreg' = wreg)
          /\ pre' = IF job.keyed THEN [pre EXCEPT ![job.uid] = [gen |-> hostSlot, fp |-> job.fp]] ELSE pre
      BY <1>6, <2>3 DEF AwaitSucceeds, Record
    <3> HIDE DEF r, r1
    <3>2. reg' \in Table /\ wreg' \in Table
      BY <1>1, <1>2, <2>1, <3>1
    <3>3. snap' \in [gen : 0 .. host.gen, fps : Table]
      BY <1>1, <2>1, <3>1 DEF Published
    <3>4. [gen |-> hostSlot, fp |-> job.fp] \in [gen : 0 .. host.gen, fp : 0 .. MaxVersion]
      BY <1>1, <2>0
    <3>5. pre' \in [AppUids -> [gen : 0 .. host.gen, fp : 0 .. MaxVersion]]
      BY <1>1, <3>1, <3>4
    <3> QED  BY <1>1, <3>1, <3>2, <3>3, <3>5
  <2>4. CASE job.kind \notin {"ns", "policy"}
    BY <1>3, <1>6, <2>4 DEF AwaitSucceeds, Record
  <2> QED  BY <2>2, <2>3, <2>4
<1>7. CASE AwaitSkips \/ AwaitTimesOut \/ WorkerKilled
  <2>1. UNCHANGED <<reg, nsDone, snap, pre>> /\ wreg' \in {NoPolicies, wreg}
    BY <1>7 DEF AwaitSkips, AwaitTimesOut, WorkerKilled, daemonVars, WregAfter
  <2> QED  BY <1>1, <1>2, <2>1
<1>8. CASE Invalidate
  <2>1. UNCHANGED <<reg, wreg, snap>> /\ nsDone' = {} /\ pre' = [u \in AppUids |-> NoPre]
    BY <1>8 DEF Invalidate
  <2> QED  BY <1>1, <1>2, <2>1
<1>9. CASE \/ SpawnFails \/ ClearIfDead \/ HostDies \/ HostAccepts \/ HostRejects
           \/ CompanionFindsStale \/ StartRound \/ RoundSkips \/ UNCHANGED controlVars
  BY <1>3, <1>9 DEF StartRound, RoundSkips, SpawnFails, ClearIfDead, HostDies, HostAccepts, HostRejects, Reply,
                    CompanionFindsStale, controlVars, daemonVars
<1>10. ASSUME NEW u \in AppUids, PreRegister(u) \/ HotUpdate(u) \/ ChangeConfig(u) PROVE Tables'
  BY <1>3, <1>10 DEF PreRegister, HotUpdate, ChangeConfig, daemonVars
<1>11. ASSUME NEW u \in AppUids, WorkerRegisters(u) \/ AppRestarts(u) PROVE Tables'
  <2>1. UNCHANGED <<reg, snap, pre>> /\ wreg' \in {wreg, reg} /\ nsDone' \subseteq nsDone
    BY <1>11 DEF WorkerRegisters, AppRestarts, daemonVars
  <2> QED  BY <1>1, <2>1
<1> QED
  BY <1>4, <1>5, <1>6, <1>7, <1>8, <1>9, <1>10, <1>11 DEF ControlNext

\* The registration under way, and its counter of skipped acknowledgements.
LEMMA JobStep ==
    ASSUME ControlTypeOK, JobInv, [ControlNext]_controlVars
    PROVE  job' \in Job /\ JobInv'
<1> USE DEF JobInv
<1> DEFINE typed(j) == j \in Job
<1>1. /\ job \in Job /\ cfg \in [AppUids -> Version]
      /\ job.who \in {"none", "daemon", "worker"} /\ job.uid \in AppUids \cup {"root"}
      /\ job.fp \in 0 .. MaxVersion /\ job.skips \in 0 .. SkipLimit
  BY DEF ControlTypeOK, Job
<1>2. \A u \in AppUids : cfg[u] \in 0 .. MaxVersion
  BY <1>1, Bounds DEF Version
<1>3. ASSUME UNCHANGED <<job, cfg>> PROVE job' \in Job /\ JobInv'
  BY <1>1, <1>3 DEF Named
<1>4. ASSUME job' = Idle PROVE job' \in Job /\ JobInv'
  <2>1. Idle \in Job /\ Idle.kind = "none" /\ Idle.who = "none" /\ Idle.skips = 0
    BY Bounds DEF Idle, Start, Job
  <2> QED  BY <1>4, <2>1, Bounds DEF Named
<1>5. ASSUME NEW who \in {"daemon", "worker"}, NEW k \in {"ns", "view", "policy"}, NEW u \in AppUids,
             NEW f \in 0 .. MaxVersion,
             job' = Start(who, k, u, f), f <= cfg[u], cfg' = cfg, who = "worker" => k = "policy"
      PROVE  job' \in Job /\ JobInv'
  BY <1>5, Bounds DEF Start, Job, Named
<1>6. ASSUME job' = Failed, cfg' = cfg PROVE job' \in Job /\ JobInv'
  <2>1. /\ Failed \in Job /\ Failed.kind \in {"none", "view"} /\ Failed.skips = 0
        /\ (Failed.kind = "view" => Failed.who = job.who /\ Failed.uid = job.uid
                                    /\ Failed.fp = job.fp /\ job.kind = "ns")
        /\ (Failed.kind = "none" => Failed = Idle)
    BY <1>1, FailedType
  <2>2. CASE Failed.kind = "none"
    BY <1>4, <1>6, <2>1, <2>2
  <2>3. CASE Failed.kind = "view"
    BY <1>6, <2>1, <2>3, Bounds DEF Named
  <2> QED  BY <2>1, <2>2, <2>3
<1>7. CASE SpawnHost
  BY <1>7, Bounds DEF SpawnHost, Start, Job, Named
<1>8. CASE PreRegisterPolicy
  <2>1. job.uid \in AppUids /\ job.fp <= cfg[job.uid]
    BY <1>8 DEF PreRegisterPolicy, Named
  <2>2. cfg' = cfg
    BY <1>8 DEF PreRegisterPolicy
  <2>3. CASE job' = Idle
    BY <1>4, <2>3
  <2>4. CASE job' # Idle
    <3> DEFINE s == Start(job.who, "policy", job.uid, job.fp)
               b == Valid(snap) /\ snap.fps[job.uid] # 0
    <3>1. job' = [s EXCEPT !.keyed = b]
      BY <1>8, <2>4 DEF PreRegisterPolicy
    <3>2. /\ s \in Job /\ s.kind = "policy" /\ s.uid = job.uid /\ s.fp = job.fp /\ s.skips = 0
      BY <1>1, Bounds DEF Start, Job
    <3>3. b \in BOOLEAN
      OBVIOUS
    <3> HIDE DEF s, b
    <3>4. /\ job' \in Job /\ job'.kind = "policy" /\ job'.uid = job.uid /\ job'.fp = job.fp
          /\ job'.skips = 0
      BY <3>1, <3>2, <3>3 DEF Job
    <3> QED  BY <2>1, <2>2, <3>4, Bounds DEF Named
  <2> QED  BY <2>3, <2>4
<1>9. CASE AwaitSucceeds
  BY <1>6, <1>9 DEF AwaitSucceeds, Record
<1>10. CASE AwaitSkips
  <2>1. cfg' = cfg
    BY <1>10 DEF AwaitSkips
  <2>2. CASE job' = Failed
    BY <1>6, <2>1, <2>2
  <2>3. CASE job' # Failed
    <3>1. job' = [job EXCEPT !.skips = job.skips + 1] /\ job.skips + 1 # SkipLimit
      BY <1>10, <2>3 DEF AwaitSkips
    <3>2. job.skips + 1 \in 0 .. SkipLimit /\ job.skips + 1 < SkipLimit
      BY <1>1, <3>1, Bounds
    <3>3. /\ job' \in Job /\ job'.who = job.who /\ job'.kind = job.kind /\ job'.uid = job.uid
          /\ job'.fp = job.fp /\ job'.skips = job.skips + 1
      BY <1>1, <3>1, <3>2 DEF Job
    <3> QED  BY <2>1, <3>2, <3>3 DEF Named
  <2> QED  BY <2>2, <2>3
<1>11. CASE AwaitTimesOut
  BY <1>6, <1>11 DEF AwaitTimesOut
<1>12. CASE WorkerKilled
  BY <1>4, <1>12 DEF WorkerKilled
<1>13. ASSUME NEW u \in AppUids, PreRegister(u) PROVE job' \in Job /\ JobInv'
  <2>1. cfg' = cfg /\ (job' = Start("daemon", "ns", u, cfg[u]) \/ job' = Start("daemon", "view", u, cfg[u]))
    BY <1>13 DEF PreRegister
  <2>2. cfg[u] \in 0 .. MaxVersion /\ cfg[u] <= cfg[u]
    BY <1>2, Bounds
  <2> QED  BY <1>5, <2>1, <2>2
<1>14. ASSUME NEW u \in AppUids, HotUpdate(u) \/ WorkerRegisters(u) PROVE job' \in Job /\ JobInv'
  <2>1. cfg' = cfg /\ (job' = Start("daemon", "policy", u, cfg[u]) \/ job' = Start("worker", "policy", u, cfg[u]))
    BY <1>14 DEF HotUpdate, WorkerRegisters
  <2>2. cfg[u] \in 0 .. MaxVersion /\ cfg[u] <= cfg[u]
    BY <1>2, Bounds
  <2> QED  BY <1>5, <2>1, <2>2
<1>15. ASSUME NEW u \in AppUids, ChangeConfig(u) PROVE job' \in Job /\ JobInv'
  <2>1. cfg' = [cfg EXCEPT ![u] = cfg[u] + 1] /\ job' = job
    BY <1>15 DEF ChangeConfig
  <2>2. \A v \in AppUids : cfg[v] <= cfg'[v] /\ cfg[v] \in Nat /\ cfg'[v] \in Nat
    BY <1>1, <1>2, <2>1, Bounds
  <2>3. Named' => job.uid \in AppUids /\ job.fp <= cfg[job.uid]
    BY <2>1 DEF Named
  <2>4. Named' => job.fp <= cfg'[job.uid]
    BY <1>1, <2>2, <2>3, Bounds
  <2> QED  BY <1>1, <2>1, <2>3, <2>4
<1>16. CASE \/ SpawnFails \/ ClearIfDead \/ HostDies \/ HostAccepts \/ HostRejects
            \/ CompanionFindsStale \/ CompanionRemoves \/ Invalidate \/ StartRound \/ RoundSkips \/ UNCHANGED controlVars
  BY <1>3, <1>16 DEF StartRound, RoundSkips, SpawnFails, ClearIfDead, HostDies, HostAccepts, HostRejects, Reply,
                     CompanionFindsStale, CompanionRemoves, Invalidate, controlVars
<1>17. ASSUME NEW u \in AppUids, AppRestarts(u) PROVE job' \in Job /\ JobInv'
  BY <1>3, <1>17 DEF AppRestarts
<1> QED
  BY <1>7, <1>8, <1>9, <1>10, <1>11, <1>12, <1>13, <1>14, <1>15, <1>16, <1>17 DEF ControlNext


Flags == reader \in BOOLEAN /\ left \in BOOLEAN /\ lost \in BOOLEAN /\ round \subseteq AppUids

LEMMA FlagsStep ==
    ASSUME ControlTypeOK, [ControlNext]_controlVars
    PROVE  Flags'
<1>1. reader \in BOOLEAN /\ left \in BOOLEAN /\ lost \in BOOLEAN
  BY DEF ControlTypeOK
<1>2. left' \in {left, FALSE} \/ \E b \in BOOLEAN : left' = (left \/ b)
  BY DEF ControlNext, SpawnHost, SpawnFails, ClearIfDead, HostDies, HostAccepts, HostRejects, Reply,
         CompanionFindsStale, CompanionRemoves, PreRegisterPolicy, AwaitSucceeds, AwaitSkips,
         AwaitTimesOut, WorkerKilled, Invalidate, PreRegister, HotUpdate, WorkerRegisters,
         ChangeConfig, AppRestarts, StartRound, RoundSkips, controlVars, wireVars
<1>3. reader' \in {reader, TRUE, FALSE}
  BY DEF ControlNext, SpawnHost, SpawnFails, ClearIfDead, HostDies, HostAccepts, HostRejects, Reply,
         CompanionFindsStale, CompanionRemoves, PreRegisterPolicy, AwaitSucceeds, AwaitSkips,
         AwaitTimesOut, WorkerKilled, Invalidate, PreRegister, HotUpdate, WorkerRegisters,
         ChangeConfig, AppRestarts, StartRound, RoundSkips, controlVars
<1>4. lost' = lost \/ \E b \in BOOLEAN : lost' = (lost \/ b)
  BY DEF ControlNext, SpawnHost, SpawnFails, ClearIfDead, HostDies, HostAccepts, HostRejects, Reply,
         CompanionFindsStale, CompanionRemoves, PreRegisterPolicy, AwaitSucceeds, AwaitSkips,
         AwaitTimesOut, WorkerKilled, Invalidate, PreRegister, HotUpdate, WorkerRegisters,
         ChangeConfig, AppRestarts, StartRound, RoundSkips, controlVars
<1>5. round' \subseteq AppUids
  <2>1. round \subseteq AppUids /\ Running \subseteq AppUids
    BY HostControlAssumption DEF ControlTypeOK
  <2>2. round' \subseteq round \/ round' = Running
    BY DEF ControlNext, SpawnHost, SpawnFails, ClearIfDead, HostDies, HostAccepts, HostRejects, Reply,
           CompanionFindsStale, CompanionRemoves, PreRegisterPolicy, AwaitSucceeds, AwaitSkips,
           AwaitTimesOut, WorkerKilled, Invalidate, PreRegister, HotUpdate, WorkerRegisters,
           ChangeConfig, AppRestarts, StartRound, RoundSkips, controlVars
  <2> QED  BY <2>1, <2>2
<1> QED  BY <1>1, <1>2, <1>3, <1>4, <1>5 DEF Flags

-----------------------------------------------------------------------------
(* The session: a living host is the one whose handle and socket the daemon   *)
(* has, and a dead one has nothing on its wires.                              *)

LEMMA SessionStep ==
    ASSUME ControlTypeOK, SessionInv, Flags', Session', [ControlNext]_controlVars
    PROVE  SessionInv'
<1> USE DEF SessionInv
<1>1. host.up \in BOOLEAN /\ left \in BOOLEAN /\ host.gen \in Nat /\ hostSlot \in 0 .. host.gen
  BY Bounds DEF ControlTypeOK
<1>2. ASSUME UNCHANGED <<host, hostSlot, fd, left, toHost, acks>> PROVE SessionInv'
  BY <1>2
<1>3. ASSUME host.up = TRUE, UNCHANGED <<host, hostSlot, fd>> PROVE SessionInv'
  BY <1>3
<1>4. host.up = TRUE => Alive
  BY DEF Alive
<1>5. CASE SpawnHost
  <2>1. /\ host' = [gen |-> host.gen + 1, up |-> TRUE, table |-> NoPolicies]
        /\ hostSlot' = host'.gen /\ fd' = host'.gen
    BY <1>5 DEF SpawnHost
  <2> QED  BY <1>1, <2>1
<1>6. CASE SpawnFails
  <2>1. host.up = FALSE
    BY <1>1, <1>4, <1>6 DEF SpawnFails
  <2>2. left' = FALSE /\ toHost' = <<>> /\ acks' = <<>>
    BY <1>6, <2>1 DEF SpawnFails
  <2>3. host'.up = FALSE
    BY <1>6, <2>1 DEF SpawnFails
  <2> QED  BY <2>2, <2>3
<1>7. CASE ClearIfDead
  <2>1. host.up = FALSE
    BY <1>1, <1>4, <1>7 DEF ClearIfDead
  <2> QED  BY <1>7, <2>1 DEF ClearIfDead, wireVars
<1>8. CASE HostDies
  <2>1. host'.up = FALSE /\ left' = FALSE /\ toHost' = <<>> /\ acks' = <<>>
    BY <1>8 DEF HostDies
  <2> QED  BY <2>1
<1>9. CASE HostAccepts \/ HostRejects
  <2>1. host.up = TRUE /\ hostSlot' = hostSlot /\ fd' = fd
    BY <1>1, <1>9 DEF HostAccepts, HostRejects, Reply, daemonVars
  <2>2. host'.up = host.up /\ host'.gen = host.gen
    <3>1. host \in [gen : 0 .. MaxGen, up : BOOLEAN, table : Table]
      BY DEF ControlTypeOK
    <3>2. \A t : [host EXCEPT !.table = t].up = host.up /\ [host EXCEPT !.table = t].gen = host.gen
      BY <3>1
    <3> QED  BY <1>9, <3>2 DEF HostAccepts, HostRejects, Registered
  <2> QED  BY <2>1, <2>2
<1>10. CASE PreRegisterPolicy
  <2>1. UNCHANGED <<host, hostSlot, fd, acks, left>> /\ (CanSend \/ toHost' = toHost)
    BY <1>10 DEF PreRegisterPolicy, daemonVars
  <2>2. CanSend => host.up = TRUE
    BY <1>1 DEF CanSend
  <2> QED  BY <1>2, <1>3, <2>1, <2>2
<1>11. CASE AwaitSucceeds \/ AwaitSkips
  <2>1. acks # <<>> /\ UNCHANGED <<host, hostSlot, fd>>
    BY <1>11 DEF AwaitSucceeds, AwaitSkips, AckTaken, daemonVars
  <2> QED  BY <1>1, <1>3, <2>1
<1>12. CASE AwaitTimesOut \/ WorkerKilled
  <2>1. UNCHANGED <<host, hostSlot, fd, toHost, acks>> /\ left' = (left \/ host.up)
    BY <1>12 DEF AwaitTimesOut, WorkerKilled, daemonVars
  <2> QED  BY <1>1, <2>1
<1>13. ASSUME NEW u \in AppUids, PreRegister(u) \/ HotUpdate(u) \/ WorkerRegisters(u) PROVE SessionInv'
  <2>1. UNCHANGED <<host, hostSlot, fd, acks, left>> /\ (CanSend \/ toHost' = toHost)
    BY <1>13 DEF PreRegister, HotUpdate, WorkerRegisters, daemonVars
  <2>2. CanSend => host.up = TRUE
    BY <1>1 DEF CanSend
  <2> QED  BY <1>2, <1>3, <2>1, <2>2
<1>14. ASSUME NEW u \in AppUids, ChangeConfig(u) \/ AppRestarts(u) PROVE SessionInv'
  BY <1>2, <1>14 DEF ChangeConfig, AppRestarts, wireVars, daemonVars
<1>15. CASE CompanionFindsStale \/ CompanionRemoves \/ Invalidate \/ StartRound \/ RoundSkips \/ UNCHANGED controlVars
  BY <1>2, <1>15 DEF StartRound, RoundSkips, CompanionFindsStale, CompanionRemoves, Invalidate, wireVars, daemonVars, controlVars
<1> QED
  BY <1>5, <1>6, <1>7, <1>8, <1>9, <1>10, <1>11, <1>12, <1>13, <1>14, <1>15 DEF ControlNext

\* A session that is calm after a step was calm before, or begins with it; no wait
\* was given up by that step.
LEMMA CalmBefore ==
    ASSUME ControlTypeOK, SessionInv, Flags', [ControlNext]_controlVars, Calm'
    PROVE  SpawnHost \/ (Calm /\ ~SpawnFails /\ ~HostDies /\ ~AwaitTimesOut /\ ~WorkerKilled /\ ~ClearIfDead)
<1> USE DEF SessionInv, Calm
<1>1. host.up \in BOOLEAN /\ left \in BOOLEAN
  BY DEF ControlTypeOK
<1>2. host.up = TRUE => Alive
  BY DEF Alive
<1>3. CASE SpawnFails \/ HostDies
  <2>1. SpawnFails => host'.up = FALSE
    BY <1>1, <1>2 DEF SpawnFails
  <2>2. HostDies => host'.up = FALSE
    BY DEF HostDies
  <2> QED  BY <1>3, <2>1, <2>2
<1>4. CASE AwaitTimesOut \/ WorkerKilled
  <2>1. host' = host /\ left' = (left \/ host.up)
    BY <1>4 DEF AwaitTimesOut, WorkerKilled
  <2> QED  BY <2>1
<1>5. CASE ClearIfDead
  BY <1>1, <1>2, <1>5 DEF ClearIfDead
<1>6. CASE HostAccepts \/ HostRejects
  <2>1. left' = left /\ host.up = TRUE
    BY <1>1, <1>6 DEF HostAccepts, HostRejects, Reply
  <2> QED  BY <1>1, <1>3, <1>4, <1>5, <2>1
<1>7. CASE AwaitSkips
  <2>1. host' = host /\ left' = (left \/ Head(acks).uid # job.uid)
    BY <1>7 DEF AwaitSkips
  <2>2. left = FALSE
    BY <1>1, <2>1
  <2> QED  BY <1>3, <1>4, <1>5, <2>1, <2>2
<1>8. CASE \/ CompanionFindsStale \/ CompanionRemoves \/ PreRegisterPolicy \/ AwaitSucceeds
           \/ Invalidate \/ StartRound \/ RoundSkips \/ UNCHANGED controlVars
           \/ \E u \in AppUids : PreRegister(u) \/ HotUpdate(u) \/ WorkerRegisters(u)
                              \/ ChangeConfig(u) \/ AppRestarts(u)
  <2>1. host' = host /\ left' = left
    BY <1>8 DEF StartRound, RoundSkips, CompanionFindsStale, CompanionRemoves, PreRegisterPolicy, AwaitSucceeds, Invalidate,
                controlVars, PreRegister, HotUpdate, WorkerRegisters, ChangeConfig, AppRestarts, wireVars
  <2> QED  BY <1>3, <1>4, <1>5, <2>1
<1> QED  BY <1>3, <1>4, <1>5, <1>6, <1>7, <1>8 DEF ControlNext


-----------------------------------------------------------------------------
(* The wires of a calm session.                                               *)

LEMMA Singles ==
    ASSUME NEW x
    PROVE  /\ Append(<<>>, x) = <<x>> /\ Head(<<x>>) = x /\ Tail(<<x>>) = <<>> /\ <<x>> # <<>>
           /\ \A y : <<x>> = <<y>> => x = y
OBVIOUS

\* In a calm session no acknowledgement is another's, and none is unread.
LEMMA AnswerTaken ==
    ASSUME ControlTypeOK, WireInv, Calm, acks # <<>>
    PROVE  /\ Awaiting /\ Answered /\ Head(acks).uid = job.uid /\ Tail(acks) = <<>> /\ toHost = <<>>
           /\ Head(acks).ok = TRUE /\ job.kind = "policy" => host.table[job.uid] = job.fp
<1>1. Awaiting /\ Answered
  BY DEF WireInv, Asked
<1>2. PICK ok \in BOOLEAN : /\ acks = <<[uid |-> job.uid, ok |-> ok]>> /\ toHost = <<>>
                            /\ ok = TRUE /\ job.kind = "policy" => host.table[job.uid] = job.fp
  BY <1>1 DEF Answered
<1> DEFINE a == [uid |-> job.uid, ok |-> ok]
<1>3. acks = <<a>> /\ a.uid = job.uid /\ a.ok = ok
  BY <1>2
<1> HIDE DEF a
<1>4. Head(acks) = a /\ Tail(acks) = <<>>
  BY <1>3, Singles
<1> QED  BY <1>1, <1>2, <1>3, <1>4

LEMMA WireStep ==
    ASSUME ControlTypeOK, SessionInv, JobInv, WireInv, Flags', [ControlNext]_controlVars
    PROVE  WireInv'
<1> SUFFICES ASSUME Calm' PROVE IF Awaiting' THEN (Asked \/ Answered)' ELSE toHost' = <<>> /\ acks' = <<>>
  BY DEF WireInv
<1>1. CASE SpawnHost
  <2>1. /\ toHost' = <<[kind |-> "root", uid |-> "root", fp |-> 0]>> /\ acks' = <<>>
        /\ job' = Start("daemon", "root", "root", 0)
    BY <1>1 DEF SpawnHost
  <2>2. job'.kind = "root" /\ job'.uid = "root" /\ job'.fp = 0
    BY <2>1 DEF Start
  <2>3. Asked'
    BY <2>1, <2>2 DEF Asked
  <2>4. Awaiting'
    BY <2>2 DEF Awaiting
  <2> QED  BY <2>3, <2>4
<1>2. CASE ~SpawnHost
  <2> USE <1>2
  <2>1. Calm /\ ~SpawnFails /\ ~HostDies /\ ~AwaitTimesOut /\ ~WorkerKilled /\ ~ClearIfDead
    BY CalmBefore
  <2>2. IF Awaiting THEN Asked \/ Answered ELSE toHost = <<>> /\ acks = <<>>
    BY <2>1 DEF WireInv
  <2>3. ASSUME UNCHANGED <<toHost, acks, job>>, host'.table = host.table
        PROVE  IF Awaiting' THEN (Asked \/ Answered)' ELSE toHost' = <<>> /\ acks' = <<>>
    BY <2>2, <2>3 DEF Awaiting, Asked, Answered
  <2>4. ASSUME ~Awaiting, acks' = acks, NEW k \in {"ns", "policy"}, NEW u \in AppUids, NEW f,
               SendPolicy(k, u, f), job'.kind = k, job'.uid = u, job'.fp = f
        PROVE  Asked' /\ Awaiting'
    <3> DEFINE m == [kind |-> k, uid |-> u, fp |-> f]
    <3>1. toHost' = Append(<<>>, m) /\ acks' = <<>>
      BY <2>2, <2>4 DEF SendPolicy
    <3>2. toHost' = <<m>>
      BY <3>1, Singles
    <3> QED  BY <2>4, <3>1, <3>2 DEF Asked, Awaiting
  <2>5. ASSUME ~Awaiting, UNCHANGED <<toHost, acks>>, job'.kind \in {"none", "view"}
        PROVE  IF Awaiting' THEN (Asked \/ Answered)' ELSE toHost' = <<>> /\ acks' = <<>>
    BY <2>2, <2>5 DEF Awaiting
  <2>6. Idle.kind = "none" /\ \A who, k, u, f : Start(who, k, u, f).kind = k /\ Start(who, k, u, f).uid = u
                                                /\ Start(who, k, u, f).fp = f
    BY DEF Idle, Start
  <2>7. job = Idle => ~Awaiting
    BY <2>6 DEF Awaiting
  <2>8. Failed.kind \in {"none", "view"}
    BY FailedType DEF ControlTypeOK
  <2>9. CASE HostAccepts \/ HostRejects
    <3> DEFINE m == [kind |-> job.kind, uid |-> job.uid, fp |-> job.fp]
    <3>1. toHost # <<>> /\ job' = job
      BY <2>9 DEF HostAccepts, HostRejects, Reply
    <3>2. Awaiting /\ Asked
      BY <2>2, <3>1 DEF Answered
    <3>3. toHost = <<m>> /\ acks = <<>> /\ m.uid = job.uid /\ m.kind = job.kind /\ m.fp = job.fp
      BY <3>2 DEF Asked
    <3> HIDE DEF m
    <3>4. Head(toHost) = m /\ Tail(toHost) = <<>>
      BY <3>3, Singles
    <3>5. PICK ok \in BOOLEAN : /\ toHost' = <<>> /\ acks' = Append(<<>>, [uid |-> job.uid, ok |-> ok])
                                /\ ok = TRUE => host' = Registered(host, m)
      BY <2>9, <3>3, <3>4 DEF HostAccepts, HostRejects, Reply
    <3>6. acks' = <<[uid |-> job'.uid, ok |-> ok]>>
      BY <3>1, <3>5, Singles
    <3>7. ok = TRUE /\ job.kind = "policy" => host'.table[job.uid] = job.fp
      <4> SUFFICES ASSUME ok = TRUE, job.kind = "policy" PROVE host'.table[job.uid] = job.fp
        OBVIOUS
      <4>1. host' = [host EXCEPT !.table = [host.table EXCEPT ![m.uid] = m.fp]]
        BY <3>3, <3>5 DEF Registered
      <4>2. host \in [gen : 0 .. MaxGen, up : BOOLEAN, table : Table] /\ host.table \in Table
        BY DEF ControlTypeOK
      <4>3. m.uid \in AppUids
        BY <3>3 DEF JobInv, Named
      <4>4. host'.table = [host.table EXCEPT ![m.uid] = m.fp]
        BY <4>1, <4>2
      <4> QED  BY <3>3, <4>2, <4>3, <4>4 DEF Table
    <3>8. Answered'
      BY <3>1, <3>5, <3>6, <3>7 DEF Answered
    <3>9. Awaiting'
      BY <3>1, <3>2 DEF Awaiting
    <3> QED  BY <3>8, <3>9
  <2>10. CASE AwaitSucceeds
    <3>1. acks # <<>> /\ acks' = Tail(acks) /\ toHost' = toHost /\ job' = Failed
      BY <2>10 DEF AwaitSucceeds, AckTaken, Record
    <3> QED  BY <2>1, <2>8, <3>1, AnswerTaken DEF Awaiting
  <2>11. CASE AwaitSkips
    <3>1. acks # <<>> /\ acks' = Tail(acks) /\ toHost' = toHost
      BY <2>11 DEF AwaitSkips
    <3>2. Head(acks).uid = job.uid
      BY <2>1, <3>1, AnswerTaken
    <3>3. job' = Failed
      BY <2>11, <3>2 DEF AwaitSkips
    <3> QED  BY <2>1, <2>8, <3>1, <3>3, AnswerTaken DEF Awaiting
  <2>12. CASE PreRegisterPolicy
    <3>1. ~Awaiting /\ acks' = acks /\ job.uid \in AppUids
      BY <2>12 DEF PreRegisterPolicy, Awaiting, JobInv, Named
    <3>2. CASE job' = Idle /\ UNCHANGED toHost
      BY <2>5, <2>6, <3>1, <3>2
    <3>3. CASE ~(job' = Idle /\ UNCHANGED toHost)
      <4> DEFINE s == Start(job.who, "policy", job.uid, job.fp)
                 b == Valid(snap) /\ snap.fps[job.uid] # 0
      <4>1. SendPolicy("policy", job.uid, job.fp) /\ job' = [s EXCEPT !.keyed = b]
        BY <2>12, <3>3 DEF PreRegisterPolicy
      <4>2. [s EXCEPT !.keyed = b].kind = "policy" /\ [s EXCEPT !.keyed = b].uid = job.uid
            /\ [s EXCEPT !.keyed = b].fp = job.fp
        BY DEF Start
      <4> HIDE DEF s, b
      <4> QED  BY <2>4, <3>1, <4>1, <4>2
    <3> QED  BY <3>2, <3>3
  <2>13. ASSUME NEW u \in AppUids, PreRegister(u) \/ HotUpdate(u) \/ WorkerRegisters(u)
         PROVE  IF Awaiting' THEN (Asked \/ Answered)' ELSE toHost' = <<>> /\ acks' = <<>>
    <3>1. ~Awaiting /\ acks' = acks
      BY <2>7, <2>13 DEF PreRegister, HotUpdate, WorkerRegisters
    <3>2. CASE SendPolicy("ns", u, cfg[u]) /\ job' = Start("daemon", "ns", u, cfg[u])
      BY <2>4, <2>6, <3>1, <3>2
    <3>3. CASE job' = Start("daemon", "view", u, cfg[u]) /\ UNCHANGED toHost
      BY <2>5, <2>6, <3>1, <3>3
    <3>4. CASE \E who : SendPolicy("policy", u, cfg[u]) /\ job' = Start(who, "policy", u, cfg[u])
      BY <2>4, <2>6, <3>1, <3>4
    <3> QED  BY <2>13, <3>2, <3>3, <3>4 DEF PreRegister, HotUpdate, WorkerRegisters
  <2>14. ASSUME NEW u \in AppUids, ChangeConfig(u) \/ AppRestarts(u)
         PROVE  IF Awaiting' THEN (Asked \/ Answered)' ELSE toHost' = <<>> /\ acks' = <<>>
    BY <2>3, <2>14 DEF ChangeConfig, AppRestarts, wireVars
  <2>15. CASE CompanionFindsStale \/ CompanionRemoves \/ Invalidate \/ StartRound \/ RoundSkips \/ UNCHANGED controlVars
    BY <2>3, <2>15 DEF StartRound, RoundSkips, CompanionFindsStale, CompanionRemoves, Invalidate, wireVars, controlVars
  <2> QED
    BY <2>1, <2>9, <2>10, <2>11, <2>12, <2>13, <2>14, <2>15 DEF ControlNext
<1> QED  BY <1>1, <1>2


-----------------------------------------------------------------------------
(* The tables: neither registry nor the snapshot is ahead of the host.        *)

\* A registry into which the fingerprint acknowledged is written is still behind.
LEMMA RecordBehind ==
    ASSUME NEW t \in Table, NEW r \in Table, NEW u, NEW f,
           \A v \in AppUids : r[v] <= t[v], t[u] = f, u \in AppUids
    PROVE  \A v \in AppUids : [r EXCEPT ![u] = f][v] <= t[v]
<1> SUFFICES ASSUME NEW v \in AppUids PROVE [r EXCEPT ![u] = f][v] <= t[v]
  OBVIOUS
<1>1. t[v] \in Nat /\ r[v] \in Nat
  BY Bounds DEF Table
<1>2. [r EXCEPT ![u] = f][v] = IF v = u THEN f ELSE r[v]
  BY DEF Table
<1> QED  BY <1>1, <1>2

LEMMA TableStep ==
    ASSUME ControlTypeOK, SessionInv, JobInv, WireInv, TableInv, Flags', SessionInv', [ControlNext]_controlVars
    PROVE  TableInv'
<1> SUFFICES ASSUME Calm' PROVE TableInv'
  BY DEF TableInv
<1>0. /\ host.table \in Table /\ reg \in Table /\ wreg \in Table /\ snap.fps \in Table
      /\ cfg \in [AppUids -> Version] /\ job.fp \in Nat /\ host.gen \in Nat /\ job \in Job
  BY Bounds DEF ControlTypeOK, Job
<1>00. /\ \A u \in AppUids : host.table[u] \in Nat /\ reg[u] \in Nat /\ wreg[u] \in Nat /\ snap.fps[u] \in Nat
       /\ \A u \in AppUids : cfg[u] \in Nat /\ cfg[u] >= 1
  BY <1>0, Bounds DEF Table, Version
<1>1. CASE SpawnHost
  <2>1. /\ host' = [gen |-> host.gen + 1, up |-> TRUE, table |-> NoPolicies] /\ reg' = NoPolicies
        /\ snap' = [gen |-> host'.gen, fps |-> NoPolicies] /\ cfg' = cfg
        /\ job' = Start("daemon", "root", "root", 0)
    BY <1>1 DEF SpawnHost
  <2>2. host'.table = NoPolicies /\ snap'.fps = NoPolicies /\ \A u \in AppUids : NoPolicies[u] = 0
    BY <2>1 DEF NoPolicies
  <2>3. job'.who = "daemon" /\ job'.kind = "root"
    BY <2>1 DEF Start
  <2> QED  BY <1>00, <2>1, <2>2, <2>3 DEF TableInv, Named
<1>2. CASE ~SpawnHost
  <2> USE <1>2
  <2>1. Calm /\ ~SpawnFails /\ ~HostDies /\ ~AwaitTimesOut /\ ~WorkerKilled /\ ~ClearIfDead
    BY CalmBefore
  <2>2. /\ \A u \in AppUids : reg[u] <= host.table[u] /\ host.table[u] <= cfg[u]
        /\ job.who = "worker" => \A u \in AppUids : wreg[u] <= host.table[u]
        /\ snap.gen = host.gen => \A u \in AppUids : snap.fps[u] <= host.table[u]
        /\ Named => host.table[job.uid] <= job.fp
    BY <2>1 DEF TableInv
  <2>3. /\ Failed.kind \in {"none", "view"}
        /\ (Failed.kind = "view" => Failed.who = job.who /\ Failed.uid = job.uid
                                    /\ Failed.fp = job.fp /\ job.kind = "ns")
        /\ (Failed.kind = "none" => Failed = Idle) /\ Idle.who = "none"
    BY <1>0, FailedType DEF Idle, Start
  <2>4. ASSUME job' = Failed, host' = host
        PROVE  /\ job'.who # "worker"
               /\ Named' => host'.table[job'.uid] <= job'.fp
    BY <2>2, <2>3, <2>4 DEF JobInv, Named
  <2>5. host.gen # 0 /\ NoSnap.gen = 0
    BY <2>1 DEF SessionInv, Calm, NoSnap
  <2>6. Idle.kind = "none" /\ Idle.who = "none"
        /\ \A who, k, u, f : Start(who, k, u, f).kind = k /\ Start(who, k, u, f).uid = u
                             /\ Start(who, k, u, f).fp = f /\ Start(who, k, u, f).who = who
    BY DEF Idle, Start
  <2>7. ASSUME UNCHANGED <<cfg, host, reg, wreg, snap, job>> PROVE TableInv'
    BY <2>2, <2>7 DEF TableInv, Named
  <2>8. CASE HostAccepts
    <3> DEFINE m == [kind |-> job.kind, uid |-> job.uid, fp |-> job.fp]
    <3>1. toHost # <<>> /\ UNCHANGED <<cfg, job, reg, wreg, snap>> /\ host' = Registered(host, Head(toHost))
      BY <2>8 DEF HostAccepts, Reply, daemonVars
    <3>2. Awaiting /\ Asked
      BY <2>1, <3>1 DEF WireInv, Answered
    <3>3. toHost = <<m>> /\ m.uid = job.uid /\ m.kind = job.kind /\ m.fp = job.fp
      BY <3>2 DEF Asked
    <3> HIDE DEF m
    <3>4. host' = Registered(host, m)
      BY <3>1, <3>3, Singles
    <3>5. CASE job.kind # "policy"
      BY <2>7, <3>1, <3>3, <3>4, <3>5 DEF Registered
    <3>6. CASE job.kind = "policy"
      <4>1. Named /\ job.uid \in AppUids /\ job.fp <= cfg[job.uid] /\ host.table[job.uid] <= job.fp
        BY <2>2, <3>6 DEF JobInv, Named
      <4>2. host' = [host EXCEPT !.table = [host.table EXCEPT ![job.uid] = job.fp]]
        BY <3>3, <3>4, <3>6 DEF Registered
      <4>3. host'.gen = host.gen /\ host'.table = [host.table EXCEPT ![job.uid] = job.fp]
        <5>1. host \in [gen : 0 .. MaxGen, up : BOOLEAN, table : Table]
          BY DEF ControlTypeOK
        <5> QED  BY <4>2, <5>1
      <4>4. \A u \in AppUids : host'.table[u] = IF u = job.uid THEN job.fp ELSE host.table[u]
        BY <1>0, <4>3 DEF Table
      <4>5. \A u \in AppUids : host.table[u] <= host'.table[u] /\ host'.table[u] <= cfg[u]
                            /\ host'.table[u] \in Nat
        BY <1>0, <1>00, <2>2, <4>1, <4>4
      <4>6. \A u \in AppUids : reg[u] <= host'.table[u]
        BY <1>00, <2>2, <4>5
      <4>7. job.who = "worker" => \A u \in AppUids : wreg[u] <= host'.table[u]
        BY <1>00, <2>2, <4>5
      <4>8. snap.gen = host.gen => \A u \in AppUids : snap.fps[u] <= host'.table[u]
        BY <1>00, <2>2, <4>5
      <4>9. host'.table[job.uid] <= job.fp
        BY <1>0, <4>1, <4>4
      <4> QED  BY <3>1, <4>3, <4>5, <4>6, <4>7, <4>8, <4>9 DEF TableInv
    <3> QED  BY <3>5, <3>6
  <2>9. CASE HostRejects
    BY <2>7, <2>9 DEF HostRejects, Reply, daemonVars
  <2>10. CASE AwaitSucceeds
    <3> DEFINE r == IF job.who = "worker" THEN wreg ELSE reg
               r1 == [r EXCEPT ![job.uid] = job.fp]
    <3>1. AckTaken /\ acks # <<>> /\ UNCHANGED <<cfg, host>> /\ job' = Failed
      BY <2>10 DEF AwaitSucceeds, AckTaken, Record
    <3>2. Head(acks).ok = TRUE
      <4>1. Head(acks) \in Ack
        BY <3>1, HeadTailProperties DEF ControlTypeOK
      <4>2. Head(acks).ok \in BOOLEAN
        BY <4>1 DEF Ack
      <4> QED  BY <3>1, <4>2 DEF AckTaken
    <3>3. job.kind = "policy" => host.table[job.uid] = job.fp
      BY <2>1, <3>1, <3>2, AnswerTaken
    <3>4. CASE job.kind # "policy"
      <4>1. UNCHANGED <<reg, wreg, snap>>
        BY <2>10, <3>4 DEF AwaitSucceeds, Record
      <4> QED  BY <2>2, <2>4, <3>1, <4>1 DEF TableInv
    <3>5. CASE job.kind = "policy"
      <4>1. job.uid \in AppUids
        BY <3>5 DEF JobInv, Named
      <4>2. r \in Table /\ \A u \in AppUids : r[u] <= host.table[u]
        BY <1>0, <2>2
      <4>3. snap' = Published(r1, r) /\ (reg' = reg \/ reg' = r1)
        BY <2>10, <3>5 DEF AwaitSucceeds, Record
      <4> HIDE DEF r
      <4>4. \A u \in AppUids : r1[u] <= host.table[u]
        BY <1>0, <3>3, <3>5, <4>1, <4>2, RecordBehind
      <4>5. snap' = snap \/ snap' = [gen |-> hostSlot, fps |-> r1]
        BY <4>3 DEF Published
      <4> HIDE DEF r1
      <4>6. snap'.gen = host.gen => \A u \in AppUids : snap'.fps[u] <= host.table[u]
        BY <2>2, <4>4, <4>5
      <4>7. \A u \in AppUids : reg'[u] <= host.table[u] /\ host.table[u] <= cfg[u]
        BY <2>2, <4>3, <4>4
      <4> QED  BY <2>4, <3>1, <4>6, <4>7 DEF TableInv
    <3> QED  BY <3>4, <3>5
  <2>11. CASE AwaitSkips
    <3>1. acks # <<>> /\ UNCHANGED <<cfg, host, reg, snap>>
      BY <2>11 DEF AwaitSkips, daemonVars
    <3>2. Head(acks).uid = job.uid
      BY <2>1, <3>1, AnswerTaken
    <3>3. job' = Failed
      BY <2>11, <3>2 DEF AwaitSkips
    <3> QED  BY <2>2, <2>4, <3>1, <3>3 DEF TableInv
  <2>12. CASE CompanionRemoves
    <3>1. snap' = NoSnap /\ UNCHANGED <<cfg, host, reg, wreg, job>>
      BY <2>12 DEF CompanionRemoves, daemonVars
    <3> QED  BY <2>2, <2>5, <3>1 DEF TableInv, Named
  <2>13. CASE PreRegisterPolicy
    <3>1. (snap' = snap \/ snap' = NoSnap) /\ UNCHANGED <<cfg, host, reg, wreg>>
      BY <2>13 DEF PreRegisterPolicy, daemonVars
    <3>2. Named /\ job.who # "worker"
      BY <2>13 DEF PreRegisterPolicy, Named, JobInv
    <3>3. job'.who # "worker" /\ (Named' => job'.uid = job.uid /\ job'.fp = job.fp)
      <4> DEFINE s == Start(job.who, "policy", job.uid, job.fp)
                 b == Valid(snap) /\ snap.fps[job.uid] # 0
      <4>1. job' = Idle \/ job' = [s EXCEPT !.keyed = b]
        BY <2>13 DEF PreRegisterPolicy
      <4>2. /\ [s EXCEPT !.keyed = b].who = job.who /\ [s EXCEPT !.keyed = b].uid = job.uid
            /\ [s EXCEPT !.keyed = b].fp = job.fp
        BY DEF Start
      <4> HIDE DEF s, b
      <4> QED  BY <2>6, <3>2, <4>1, <4>2 DEF Named
    <3>4. snap'.gen = host.gen => \A u \in AppUids : snap'.fps[u] <= host.table[u]
      BY <2>2, <2>5, <3>1
    <3> QED  BY <2>2, <3>1, <3>2, <3>3, <3>4 DEF TableInv
  <2>14. ASSUME NEW u \in AppUids, PreRegister(u) \/ HotUpdate(u) \/ WorkerRegisters(u) PROVE TableInv'
    <3>1. UNCHANGED <<cfg, host, reg, snap>>
      BY <2>14 DEF PreRegister, HotUpdate, WorkerRegisters, daemonVars
    <3>2. job'.uid = u /\ job'.fp = cfg[u] /\ (job'.who = "worker" => wreg' = reg)
      BY <2>6, <2>14 DEF PreRegister, HotUpdate, WorkerRegisters
    <3>3. Named' => host'.table[job'.uid] <= job'.fp
      BY <2>2, <3>1, <3>2
    <3> QED  BY <2>2, <3>1, <3>2, <3>3 DEF TableInv
  <2>15. ASSUME NEW u \in AppUids, ChangeConfig(u) PROVE TableInv'
    <3>1. cfg' = [cfg EXCEPT ![u] = cfg[u] + 1] /\ UNCHANGED <<host, reg, wreg, snap, job>>
      BY <2>15 DEF ChangeConfig, daemonVars
    <3>2. \A v \in AppUids : cfg[v] <= cfg'[v] /\ cfg'[v] \in Nat
      BY <1>0, <1>00, <3>1
    <3>3. \A v \in AppUids : host.table[v] <= cfg'[v]
      BY <1>00, <2>2, <3>2
    <3> QED  BY <2>2, <3>1, <3>3 DEF TableInv, Named
  <2>16. CASE \/ CompanionFindsStale \/ Invalidate \/ StartRound \/ RoundSkips \/ UNCHANGED controlVars
              \/ \E u \in AppUids : AppRestarts(u)
    BY <2>7, <2>16 DEF StartRound, RoundSkips, CompanionFindsStale, Invalidate, controlVars, daemonVars, AppRestarts
  <2> QED
    BY <2>1, <2>8, <2>9, <2>10, <2>11, <2>12, <2>13, <2>14, <2>15, <2>16 DEF ControlNext
<1> QED  BY <1>1, <1>2

-----------------------------------------------------------------------------
LEMMA HostControlInductive ==
    ControlSpec => []HostControlInv
<1>1. ControlInit => HostControlInv
  <2> SUFFICES ASSUME ControlInit PROVE HostControlInv
    OBVIOUS
  <2>1. NoPolicies \in Table /\ NoSnap \in [gen : 0 .. 0, fps : Table] /\ NoPre \in [gen : 0 .. 0, fp : 0 .. MaxVersion]
    BY Bounds DEF NoPolicies, Table, NoSnap, NoPre
  <2>2. Idle \in Job /\ Idle.kind = "none" /\ Idle.who = "none" /\ Idle.skips = 0
    BY Bounds DEF Idle, Start, Job
  <2>3. host = [gen |-> 0, up |-> FALSE, table |-> NoPolicies] /\ host.gen = 0 /\ host.up = FALSE
    BY DEF ControlInit
  <2>4. ControlTypeOK
    <3>1. cfg \in [AppUids -> Version]
      BY Bounds DEF ControlInit, Version
    <3>2. host \in [gen : 0 .. MaxGen, up : BOOLEAN, table : Table]
      BY <2>1, <2>3, Bounds
    <3>3. toHost \in Seq(Message) /\ acks \in Seq(Ack)
      BY EmptySeq DEF ControlInit
    <3>4. hostSlot \in 0 .. host.gen /\ fd \in 0 .. host.gen /\ reg \in Table /\ wreg \in Table
      BY <2>1, <2>3 DEF ControlInit
    <3>5. snap \in [gen : 0 .. host.gen, fps : Table]
      BY <2>1, <2>3 DEF ControlInit
    <3>6. pre \in [AppUids -> [gen : 0 .. host.gen, fp : 0 .. MaxVersion]]
      BY <2>1, <2>3 DEF ControlInit
    <3>7. nsDone \subseteq AppUids /\ round \subseteq AppUids /\ job \in Job
      BY <2>2 DEF ControlInit
    <3>8. reader \in BOOLEAN /\ left \in BOOLEAN /\ lost \in BOOLEAN
      BY Zenon DEF ControlInit
    <3> QED  BY <3>1, <3>2, <3>3, <3>4, <3>5, <3>6, <3>7, <3>8, Zenon DEF ControlTypeOK
  <2>5. SessionInv /\ JobInv /\ WireInv /\ TableInv
    BY <2>2, <2>3, Bounds DEF ControlInit, SessionInv, JobInv, WireInv, TableInv, Named, Calm
  <2> QED  BY <2>4, <2>5 DEF HostControlInv
<1>2. HostControlInv /\ [ControlNext]_controlVars => HostControlInv'
  <2> SUFFICES ASSUME HostControlInv, [ControlNext]_controlVars PROVE HostControlInv'
    OBVIOUS
  <2> USE DEF HostControlInv
  <2>1. Wires'
    BY WiresStep
  <2>2. Flags'
    BY FlagsStep
  <2>3. job' \in Job /\ JobInv'
    BY JobStep
  <2>4. Session'
    BY SessionTypeStep DEF ControlTypeOK, Wires
  <2>5. Tables'
    BY <2>4, TablesStep
  <2>6. SessionInv'
    BY <2>2, <2>4, SessionStep
  <2>7. ControlTypeOK'
    <3>1. host'.gen \in Nat
      BY <2>4, Bounds DEF Session
    <3>2. snap' \in [gen : 0 .. host'.gen, fps : Table]
      BY <2>4, <2>5, <3>1 DEF Session, Tables
    <3>3. pre' \in [AppUids -> [gen : 0 .. host'.gen, fp : 0 .. MaxVersion]]
      <4>1. PICK g \in Nat : pre' \in [AppUids -> [gen : 0 .. g, fp : 0 .. MaxVersion]]
        BY <2>5 DEF Tables
      <4>2. \A u \in AppUids : pre'[u] \in [gen : 0 .. host'.gen, fp : 0 .. MaxVersion]
        BY <2>4, <4>1 DEF Session
      <4> QED  BY <4>1, <4>2
    <3> QED  BY <2>1, <2>2, <2>3, <2>4, <2>5, <3>2, <3>3 DEF ControlTypeOK, Wires, Flags, Session, Tables
  <2>8. WireInv'
    BY <2>2, WireStep
  <2>9. TableInv'
    BY <2>2, <2>6, TableStep
  <2> QED  BY <2>3, <2>6, <2>7, <2>8, <2>9
<1> QED  BY <1>1, <1>2, PTL DEF ControlSpec

\* While no wait was given up on this host's socket, a valid snapshot names no
\* uid with a fingerprint newer than the one the living host serves it with
\* (publish_host_snapshot, read_host_session_view, await_policy_ack); and every
\* variable keeps to its range.
THEOREM SnapshotIsSound ==
    ControlSpec => []SnapshotSound
<1>1. HostControlInv => SnapshotSound
  <2> SUFFICES ASSUME HostControlInv, Valid(snap), ~left, NEW u \in AppUids
               PROVE  snap.fps[u] <= host.table[u]
    BY DEF HostControlInv, SnapshotSound, SnapshotNotAhead
  <2>1. Calm /\ snap.gen = host.gen
    BY DEF Calm, Valid, HostControlInv, ControlTypeOK
  <2> QED  BY <2>1 DEF HostControlInv, TableInv
<1> QED  BY <1>1, HostControlInductive, PTL

=============================================================================
