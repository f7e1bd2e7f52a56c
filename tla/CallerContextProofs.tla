------------------------ MODULE CallerContextProofs ------------------------
(* RightCaller and SavedIsOurs, for any number of threads and processes and  *)
(* any windows ordered as the code orders them.                              *)
EXTENDS CallerContext, SequenceTheorems, TLAPS

AnyUid == Uids \cup AppUids \cup {NoUid}
AnyPkg == Pkgs \cup {NoPkg} \cup {ByUid[u] : u \in AppUids}
CallerType == [uid : AnyUid, pkg : AnyPkg, age : Nat, ext : BOOLEAN, own : BOOLEAN]
EntryType == [uid : AnyUid, pkg : AnyPkg]
SavedType == [uid : AnyUid, pkg : AnyPkg, age : Nat]
HeaderType == [who : Procs \cup {NoProc}, age : Nat]

Shape ==
  /\ cur \in [Threads -> CallerType]
  /\ stack \in [Threads -> Seq(EntryType)]
  /\ fuse \in [Threads -> HeaderType]
  /\ saved \in [Threads -> SavedType]
  /\ cleared \in [Threads -> BOOLEAN]
  /\ slot \in HeaderType
  /\ req \in [Threads -> Procs \cup {NoProc}]
  /\ clears \in [Threads -> Nat]

\* Whom the thread serves.
Serves(t, u) == req[t] # NoProc /\ u = UidOf[req[t]]
\* A caller is saved while an identity is cleared or a scope open, for the request served.
SavedHere(t) ==
  saved[t].uid \in AppUids =>
    t \in BinderThreads /\ Serves(t, saved[t].uid) /\ (clears[t] > 0 \/ InScope(t))
\* Only binder threads open scopes and clear identities.
ScopeHere(t) == t \notin BinderThreads => ~InScope(t) /\ clears[t] = 0
\* A header is on a thread that reads, and belongs to the request it serves, if any.
HeaderHere(t) ==
  fuse[t].who # NoProc => t \in LoopThreads /\ (req[t] # NoProc => fuse[t].who = req[t])
\* A reusable application is the one served; or it is too old; or the header of the
\* request served is still there and no older.
CurHere(t) ==
  t \notin BinderThreads /\ cur[t].ext = TRUE /\ cur[t].uid \in AppUids /\ req[t] # NoProc =>
    \/ Serves(t, cur[t].uid)
    \/ cur[t].age > CurrentMax
    \/ fuse[t].who # NoProc /\ fuse[t].age <= cur[t].age
\* A thread that does not read its requests never learns of an application.
PoolHere(t) == t \in PoolThreads => cur[t].ext = FALSE \/ cur[t].uid \notin AppUids
SlotHere == slot.who # NoProc => System(UidOf[slot.who])

ThreadInv(t) == SavedHere(t) /\ ScopeHere(t) /\ HeaderHere(t) /\ CurHere(t) /\ PoolHere(t)
CallerInv == Shape /\ SlotHere /\ \A t \in Threads : ThreadInv(t)

-----------------------------------------------------------------------------
(* What the operators of the module return.                                  *)

\* The kinds of caller (hook/context.rs: set_external_caller, set_caller).
LEMMA CallersTyped ==
  ASSUME NEW u \in AnyUid, NEW k \in AnyPkg
  PROVE  /\ External(u, k) \in CallerType /\ External(u, k).uid = u
         /\ Scoped(u, k) \in CallerType /\ Scoped(u, k).ext = FALSE
         /\ MappingOwner(u, k) \in CallerType /\ MappingOwner(u, k).ext = FALSE
         /\ NoCaller \in CallerType /\ NoCaller.uid = NoUid /\ NoCaller.ext = FALSE
         /\ [NoCaller EXCEPT !.pkg = k] \in CallerType /\ [NoCaller EXCEPT !.pkg = k].ext = FALSE
         /\ [NoCaller EXCEPT !.age = 0] \in CallerType /\ [NoCaller EXCEPT !.age = 0].ext = FALSE
<1>1. NoUid \in AnyUid /\ NoPkg \in AnyPkg /\ CurrentMax + 1 \in Nat
  BY CallerAssumption DEF AnyUid, AnyPkg
<1> QED
  BY <1>1 DEF External, Scoped, MappingOwner, NoCaller, CallerType

\* Packages by uid or by pid are packages or NoPkg (resolve_package_by_uid).
LEMMA PackagesTyped ==
  ASSUME Shape, NEW t \in Threads, NEW known \in BOOLEAN
  PROVE  /\ SignalPkg(t, known) \in AnyPkg
         /\ SavedPkg(t) \in AnyPkg
         /\ \A u : PackageByUid(u) \in AnyPkg
         /\ \A p \in Procs : JavaCallerPackage(p, known) \in AnyPkg
<1>1. \A u : PackageByUid(u) \in AnyPkg
  BY DEF PackageByUid, AnyPkg
<1>2. \A p \in Procs \cup {NoProc} : ByPid(p, known) \in AnyPkg
  BY DEF ByPid, ByCmdline, AnyPkg, Pkgs
<1>3. fuse[t].who \in Procs \cup {NoProc} /\ BinderPid(t) \in Procs \cup {NoProc}
  BY DEF Shape, HeaderType, BinderPid
<1>4. SignalPkg(t, known) \in AnyPkg
  BY <1>1, <1>2, <1>3 DEF SignalPkg
<1>5. saved[t].pkg \in AnyPkg
  BY DEF Shape, SavedType
<1>6. SavedPkg(t) \in AnyPkg
  BY <1>1, <1>5 DEF SavedPkg
<1>7. \A p \in Procs : JavaCallerPackage(p, known) \in AnyPkg
  BY <1>1, <1>2 DEF JavaCallerPackage
<1> QED
  BY <1>1, <1>4, <1>6, <1>7

\* The uid of a signal is that of the request served, or none.
LEMMA SignalOwn ==
  ASSUME CallerInv, NEW t \in Threads, req[t] # NoProc
  PROVE  /\ SignalUid(t) \in AnyUid
         /\ SignalUid(t) # NoUid => Serves(t, SignalUid(t))
<1>1. req[t] \in Procs /\ HeaderHere(t)
  BY DEF CallerInv, Shape, ThreadInv
<1>2. UidOf[req[t]] \in AnyUid
  BY <1>1 DEF AnyUid, Uids
<1>3. HeaderValid(t) => fuse[t].who = req[t]
  BY <1>1 DEF HeaderValid, HeaderHere
<1> QED
  BY <1>1, <1>2, <1>3 DEF SignalUid, BinderUid, HeaderUid, Serves, AnyUid

\* A caller read off a signal is the application the thread serves, or no
\* application (update_caller_package_for_current_thread).
LEMMA SignalledOwn ==
  ASSUME CallerInv, NEW t \in Threads, req[t] # NoProc, NEW known \in BOOLEAN
  PROVE  /\ SignalledCaller(t, known) \in CallerType
         /\ SignalledCaller(t, known).uid \in AppUids => Serves(t, SignalledCaller(t, known).uid)
<1> DEFINE u == SignalUid(t)
           k == SignalPkg(t, known)
           c == SignalledCaller(t, known)
<1>1. u \in AnyUid /\ (u # NoUid => Serves(t, u))
  BY SignalOwn
<1>2. k \in AnyPkg /\ SavedPkg(t) \in AnyPkg
  BY PackagesTyped DEF CallerInv
<1>3. saved[t].uid \in AnyUid /\ SavedHere(t)
  BY DEF CallerInv, Shape, SavedType, ThreadInv
<1>4. NoUid \notin AppUids
  BY CallerAssumption
<1>5. NoPkg \in AnyPkg /\ NoUid \in AnyUid /\ CurrentMax + 1 \in Nat
  BY CallerAssumption DEF AnyPkg, AnyUid
<1>6. SavedValid(t) => Serves(t, saved[t].uid)
  BY <1>3 DEF SavedValid, SavedHere
<1>7. \/ k # NoPkg /\ c = External(u, k)
      \/ SavedValid(t) /\ c = External(saved[t].uid, SavedPkg(t))
      \/ u # NoUid /\ c = External(u, NoPkg)
      \/ c = NoCaller
  BY DEF SignalledCaller
<1> SUFFICES c \in CallerType /\ (c.uid \in AppUids => Serves(t, c.uid))
  OBVIOUS
<1> HIDE DEF u, k, c
<1>8. CASE k # NoPkg /\ c = External(u, k)
  BY <1>1, <1>2, <1>4, <1>8, CallersTyped, Zenon
<1>9. CASE SavedValid(t) /\ c = External(saved[t].uid, SavedPkg(t))
  BY <1>2, <1>3, <1>6, <1>9, CallersTyped
<1>10. CASE u # NoUid /\ c = External(u, NoPkg)
  BY <1>1, <1>5, <1>10, CallersTyped
<1>11. CASE c = NoCaller
  BY <1>4, <1>5, <1>11, CallersTyped
<1> QED
  BY <1>7, <1>8, <1>9, <1>10, <1>11

\* Without a signal only a system process or what is still current can be named
\* (resolve_missing_caller_signal).
LEMMA MissingOwn ==
  ASSUME CallerInv, NEW t \in Threads, req[t] # NoProc, ~HasCallerSignal(t),
         NEW mayTake \in BOOLEAN, NEW known \in BOOLEAN
  PROVE  /\ MissingCaller(t, mayTake, known) \in CallerType
         /\ MissingCaller(t, mayTake, known).uid \in AppUids =>
               /\ Serves(t, MissingCaller(t, mayTake, known).uid)
               /\ t \notin PoolThreads
<1> DEFINE c == MissingCaller(t, mayTake, known)
<1>1. /\ cur[t] \in CallerType /\ slot \in HeaderType /\ SlotHere
      /\ CurHere(t) /\ PoolHere(t) /\ fuse[t] \in HeaderType
  BY DEF CallerInv, Shape, ThreadInv
<1>2. t \notin BinderThreads /\ ~HeaderValid(t)
  BY DEF HasCallerSignal
<1>3. \/ SlotGives(mayTake) /\ c = External(UidOf[slot.who], PkgOf[slot.who])
      \/ Reusable(cur[t]) /\ c = External(cur[t].uid, cur[t].pkg)
      \/ c = NoCaller
  BY DEF MissingCaller
<1>4. NoUid \notin AppUids /\ CurrentMax \in Nat /\ FuseMax \in Nat /\ CurrentMax <= FuseMax
  BY CallerAssumption
<1> HIDE DEF c
<1>5. CASE SlotGives(mayTake) /\ c = External(UidOf[slot.who], PkgOf[slot.who])
  <2>1. slot.who \in Procs /\ System(UidOf[slot.who])
    BY <1>1, <1>5 DEF SlotGives, SlotTaken, SlotHere, HeaderType
  <2>2. UidOf[slot.who] \in AnyUid /\ PkgOf[slot.who] \in AnyPkg /\ UidOf[slot.who] \notin AppUids
    BY <2>1 DEF AnyUid, AnyPkg, Uids, Pkgs, System
  <2> QED
    BY <2>2, <1>5 DEF External, CallerType, c
<1>6. CASE Reusable(cur[t]) /\ c = External(cur[t].uid, cur[t].pkg)
  <2>1. cur[t].ext = TRUE /\ cur[t].uid \in AppUids /\ cur[t].age <= CurrentMax /\ cur[t].age \in Nat
    BY <1>1, <1>6 DEF Reusable, CallerType
  <2>2. t \notin PoolThreads
    BY <1>1, <2>1 DEF PoolHere
  <2>3. ~(cur[t].age > CurrentMax)
    BY <1>4, <2>1
  <2>4. ~(fuse[t].who # NoProc /\ fuse[t].age <= cur[t].age)
    BY <1>1, <1>2, <1>4, <2>1 DEF HeaderValid, HeaderType
  <2>5. Serves(t, cur[t].uid)
    BY <1>1, <1>2, <2>1, <2>3, <2>4 DEF CurHere
  <2>6. c \in CallerType /\ c.uid = cur[t].uid
    BY <1>1, <1>6 DEF CallerType, External
  <2> QED
    BY <2>2, <2>5, <2>6 DEF c
<1>7. CASE c = NoCaller
  <2>1. c \in CallerType /\ c.uid = NoUid
    BY <1>4, <1>7 DEF NoCaller, CallerType, AnyUid, AnyPkg
  <2> QED
    BY <1>4, <2>1 DEF c
<1> QED
  BY <1>3, <1>5, <1>6, <1>7

-----------------------------------------------------------------------------
(* The invariant.                                                            *)

\* What a step leaves alone on a thread stays as it should be.
LEMMA Elsewhere ==
  ASSUME NEW s \in Threads, ThreadInv(s),
         cur'[s] = cur[s], stack'[s] = stack[s], fuse'[s] = fuse[s],
         saved'[s] = saved[s], req'[s] = req[s], clears'[s] = clears[s]
  PROVE  ThreadInv(s)'
BY DEF ThreadInv, SavedHere, ScopeHere, HeaderHere, CurHere, PoolHere, Serves, InScope

LEMMA InitInv == Init => CallerInv
<1> SUFFICES ASSUME Init PROVE CallerInv
  OBVIOUS
<1>1. NoCaller \in CallerType /\ NoCaller.ext = FALSE
  <2>1. NoUid \in AnyUid /\ NoPkg \in AnyPkg
    BY DEF AnyUid, AnyPkg
  <2> QED
    BY <2>1, CallersTyped
<1>2. NoSaved \in SavedType /\ NoHeader \in HeaderType /\ NoSlot \in HeaderType
  BY CallerAssumption DEF NoSaved, NoHeader, NoSlot, SavedType, HeaderType, AnyUid, AnyPkg
<1>3. Shape
  BY <1>1, <1>2 DEF Init, Shape
<1>4. SlotHere
  BY DEF Init, SlotHere, NoSlot
<1>5. ASSUME NEW t \in Threads PROVE ThreadInv(t)
  <2>1. NoUid \notin AppUids
    BY CallerAssumption
  <2>2. cur[t].ext = FALSE /\ stack[t] = <<>> /\ clears[t] = 0 /\ fuse[t].who = NoProc /\ saved[t].uid = NoUid
    BY <1>1 DEF Init, NoHeader, NoSaved
  <2> QED
    BY <2>1, <2>2 DEF ThreadInv, SavedHere, ScopeHere, HeaderHere, CurHere, PoolHere, InScope
<1> QED
  BY <1>3, <1>4, <1>5 DEF CallerInv

\* A file operation (update_caller_package_for_current_thread) leaves what it found
\* out, which is the application served.
LEMMA FileOpOwn ==
  ASSUME CallerInv, NEW t \in Threads, NEW mayTake \in BOOLEAN, NEW known \in BOOLEAN,
         NEW owner \in MapOwners, FileOp(t, mayTake, known, owner)
  PROVE  /\ cur'[t] \in CallerType
         /\ cur'[t].ext = TRUE /\ cur'[t].uid \in AppUids =>
               \/ Serves(t, cur'[t].uid) /\ t \notin PoolThreads
               \/ InScope(t) /\ cur'[t] = cur[t]
<1> DEFINE a == Attributed(t, mayTake, known)
<1>1. req[t] # NoProc /\ cur[t] \in CallerType /\ cur \in [Threads -> CallerType]
  BY DEF FileOp, CallerInv, Shape
<1>2. cur'[t] = IF owner = NoProc THEN a ELSE MappingOwner(UidOf[owner], PkgOf[owner])
  BY <1>1 DEF FileOp
<1>3. CASE owner # NoProc
  <2>1. UidOf[owner] \in AnyUid /\ PkgOf[owner] \in AnyPkg
    BY <1>3 DEF MapOwners, AnyUid, AnyPkg, Uids, Pkgs
  <2> QED
    BY <1>2, <1>3, <2>1, CallersTyped
<1>4. CASE owner = NoProc /\ InScope(t)
  BY <1>1, <1>2, <1>4 DEF Attributed
<1>5. CASE owner = NoProc /\ ~InScope(t) /\ HasCallerSignal(t)
  <2>1. cur'[t] = SignalledCaller(t, known)
    BY <1>2, <1>5 DEF Attributed
  <2>2. t \notin PoolThreads
    <3>1. SavedHere(t) /\ HeaderHere(t)
      BY DEF CallerInv, ThreadInv
    <3>2. t \in BinderThreads \cup LoopThreads
      BY <1>5, <3>1 DEF HasCallerSignal, SavedValid, HeaderValid, SavedHere, HeaderHere
    <3> QED
      BY <3>2, CallerAssumption
  <2> QED
    BY <1>1, <2>1, <2>2, SignalledOwn
<1>6. CASE owner = NoProc /\ ~InScope(t) /\ ~HasCallerSignal(t)
  <2>1. cur'[t] = MissingCaller(t, mayTake, known)
    BY <1>2, <1>6 DEF Attributed
  <2> QED
    BY <1>1, <1>6, <2>1, MissingOwn
<1> QED
  BY <1>3, <1>4, <1>5, <1>6

LEMMA FileOpInv ==
  ASSUME CallerInv, NEW t \in Threads, NEW mayTake \in BOOLEAN, NEW known \in BOOLEAN,
         NEW owner \in MapOwners, FileOp(t, mayTake, known, owner)
  PROVE  CallerInv'
<1>1. /\ Shape /\ SlotHere /\ \A s \in Threads : ThreadInv(s)
      /\ cur[t] \in CallerType /\ fuse[t] \in HeaderType /\ saved[t] \in SavedType
  BY DEF CallerInv, Shape
<1>2. NoSaved \in SavedType /\ NoHeader \in HeaderType /\ NoSlot \in HeaderType
  BY CallerAssumption DEF NoSaved, NoHeader, NoSlot, SavedType, HeaderType, AnyUid, AnyPkg
<1>3. fuse'[t] \in {fuse[t], NoHeader} /\ saved'[t] \in {saved[t], NoSaved}
  BY <1>1 DEF FileOp, Shape, HeaderAfter, SavedAfter
<1>4. slot' \in {slot, NoSlot} /\ UNCHANGED <<stack, req, clears>> /\ req[t] # NoProc
  BY DEF FileOp
<1>5. Shape'
  <2>1. cur' \in [Threads -> CallerType]
    <3>1. cur'[t] \in CallerType
      BY FileOpOwn
    <3> QED
      BY <1>1, <3>1 DEF FileOp, Shape
  <2>2. fuse' \in [Threads -> HeaderType] /\ saved' \in [Threads -> SavedType]
    BY <1>1, <1>2, <1>3 DEF FileOp, Shape
  <2>3. cleared' \in [Threads -> BOOLEAN]
    BY <1>1 DEF FileOp, Shape
  <2> QED
    BY <1>1, <1>2, <1>4, <2>1, <2>2, <2>3 DEF Shape
<1>6. SlotHere'
  BY <1>1, <1>4 DEF SlotHere, NoSlot
<1>7. ASSUME NEW s \in Threads PROVE ThreadInv(s)'
  <2>1. CASE s # t
    BY <1>1, <1>4, <2>1, Elsewhere DEF FileOp, Shape
  <2>2. CASE s = t
    <3>1. NoUid \notin AppUids /\ NoHeader.who = NoProc /\ NoSaved.uid = NoUid
      BY CallerAssumption DEF NoHeader, NoSaved
    <3>2. SavedHere(t)'
      BY <1>1, <1>3, <1>4, <3>1 DEF ThreadInv, SavedHere, Serves, InScope
    <3>3. ScopeHere(t)' /\ HeaderHere(t)'
      BY <1>1, <1>3, <1>4, <3>1 DEF ThreadInv, ScopeHere, HeaderHere, InScope
    <3>4. CASE InScope(t)
      <4>1. t \in BinderThreads /\ t \notin PoolThreads
        BY <1>1, <3>4, CallerAssumption DEF ThreadInv, ScopeHere
      <4> QED
        BY <2>2, <3>2, <3>3, <4>1 DEF ThreadInv, CurHere, PoolHere
    <3>5. CASE ~InScope(t)
      <4>1. cur'[t].ext = TRUE /\ cur'[t].uid \in AppUids => Serves(t, cur'[t].uid) /\ t \notin PoolThreads
        BY <3>5, FileOpOwn
      <4>2. cur'[t].ext \in BOOLEAN
        BY FileOpOwn DEF CallerType
      <4>3. CurHere(t)'
        BY <1>4, <4>1 DEF CurHere, Serves
      <4>4. PoolHere(t)'
        BY <4>1, <4>2 DEF PoolHere
      <4> QED
        BY <2>2, <3>2, <3>3, <4>3, <4>4 DEF ThreadInv
    <3> QED
      BY <3>4, <3>5
  <2> QED
    BY <2>1, <2>2
<1> QED
  BY <1>5, <1>6, <1>7 DEF CallerInv

\* Reading a request header overwrites the last one (hook/ops/read.rs).
LEMMA ReadHeaderInv ==
  ASSUME CallerInv, NEW t \in Threads, NEW p \in Procs, NEW to \in Threads, ReadHeader(t, p, to)
  PROVE  CallerInv'
<1>1. Shape /\ SlotHere /\ \A s \in Threads : ThreadInv(s)
  BY DEF CallerInv
<1>2. /\ t \in LoopThreads /\ t \notin PoolThreads /\ t \notin BinderThreads /\ p # NoProc
      /\ req[t] = NoProc /\ req[to] = NoProc /\ (to = t \/ to \in PoolThreads)
      /\ UNCHANGED <<cur, stack, saved, clears>>
  BY CallerAssumption DEF ReadHeader
<1>3. /\ fuse'[t] = [who |-> p, age |-> 0] /\ req'[to] = p
      /\ \A s \in Threads : (s # t => fuse'[s] = fuse[s]) /\ (s # to => req'[s] = req[s])
  BY <1>1 DEF ReadHeader, Shape
<1>4. Shape'
  <2>1. [who |-> p, age |-> 0] \in HeaderType
    BY DEF HeaderType
  <2> QED
    BY <1>1, <2>1 DEF ReadHeader, Shape
<1>5. SlotHere'
  BY <1>1 DEF ReadHeader, SlotHere, Relayed
<1>6. ASSUME NEW s \in Threads PROVE ThreadInv(s)'
  <2>1. CASE s # t /\ s # to
    BY <1>1, <1>2, <1>3, <2>1, Elsewhere
  <2>2. CASE s = t
    <3>1. SavedHere(t)' /\ ScopeHere(t)' /\ PoolHere(t)'
      BY <1>1, <1>2, <1>3 DEF ThreadInv, SavedHere, ScopeHere, PoolHere, InScope, Serves
    <3>2. HeaderHere(t)'
      BY <1>1, <1>2, <1>3 DEF HeaderHere
    <3>3. cur[t].age \in Nat
      BY <1>1 DEF Shape, CallerType
    <3>4. CurHere(t)'
      BY <1>2, <1>3, <3>3 DEF CurHere
    <3> QED
      BY <2>2, <3>1, <3>2, <3>4 DEF ThreadInv
  <2>3. CASE s = to /\ s # t
    <3>1. to \in PoolThreads /\ to \notin LoopThreads /\ to \notin BinderThreads
      BY <1>2, <2>3, CallerAssumption
    <3>2. SavedHere(to)' /\ ScopeHere(to)' /\ PoolHere(to)' /\ CurHere(to)'
      BY <1>1, <1>2, <3>1 DEF ThreadInv, SavedHere, ScopeHere, PoolHere, CurHere, InScope
    <3>3. HeaderHere(to)'
      BY <1>1, <1>3, <2>3, <3>1 DEF ThreadInv, HeaderHere
    <3> QED
      BY <2>3, <3>2, <3>3 DEF ThreadInv
  <2> QED
    BY <2>1, <2>2, <2>3
<1> QED
  BY <1>4, <1>5, <1>6 DEF CallerInv

\* A request begins or ends on a thread that holds no caller saved for another.
LEMMA RequestInv ==
  ASSUME CallerInv, NEW t \in Threads,
         Reply(t) \/ TransactEnd(t) \/ \E p \in Procs : Transact(t, p)
  PROVE  CallerInv'
<1>1. Shape /\ SlotHere /\ \A s \in Threads : ThreadInv(s)
  BY DEF CallerInv
<1>2. /\ UNCHANGED <<cur, stack, fuse, saved, cleared, slot, clears>>
      /\ \A s \in Threads : s # t => req'[s] = req[s]
  BY <1>1 DEF Reply, TransactEnd, Transact, Shape
<1>3. req' \in [Threads -> Procs \cup {NoProc}]
  BY <1>1 DEF Reply, TransactEnd, Transact, Shape
<1>4. Shape' /\ SlotHere'
  BY <1>1, <1>2, <1>3 DEF Shape, SlotHere
<1>5. saved[t].uid \notin AppUids
  <2>1. SavedHere(t) /\ clears[t] \in Nat
    BY <1>1 DEF ThreadInv, Shape
  <2> QED
    BY <2>1 DEF Reply, TransactEnd, Transact, SavedHere, Serves
<1>6. \/ req'[t] = NoProc
      \/ t \in BinderThreads
  BY <1>1 DEF Reply, TransactEnd, Transact, Shape
<1>7. ASSUME NEW s \in Threads PROVE ThreadInv(s)'
  <2>1. CASE s # t
    BY <1>1, <1>2, <2>1, Elsewhere
  <2>2. CASE s = t
    <3>1. SavedHere(t)' /\ ScopeHere(t)' /\ PoolHere(t)'
      BY <1>1, <1>2, <1>5 DEF ThreadInv, SavedHere, ScopeHere, PoolHere, InScope
    <3>2. HeaderHere(t)' /\ CurHere(t)'
      BY <1>1, <1>2, <1>6, CallerAssumption DEF ThreadInv, HeaderHere, CurHere
    <3> QED
      BY <2>2, <3>1, <3>2 DEF ThreadInv
  <2> QED
    BY <2>1, <2>2
<1> QED
  BY <1>4, <1>7 DEF CallerInv

\* What the hooks of clearCallingIdentity and the Java entry points change on a
\* binder thread: it is enough that the caller they save is that of the transaction.
LEMMA BinderStepInv ==
  ASSUME CallerInv, NEW t \in Threads, t \in BinderThreads,
         UNCHANGED <<fuse, slot, req>>, Shape',
         \A s \in Threads : s # t => /\ cur'[s] = cur[s] /\ stack'[s] = stack[s]
                                      /\ saved'[s] = saved[s] /\ clears'[s] = clears[s],
         SavedHere(t)'
  PROVE  CallerInv'
<1>1. SlotHere /\ \A s \in Threads : ThreadInv(s)
  BY DEF CallerInv
<1>2. SlotHere'
  BY <1>1 DEF SlotHere
<1>3. ASSUME NEW s \in Threads PROVE ThreadInv(s)'
  <2>1. CASE s # t
    BY <1>1, <2>1, Elsewhere
  <2>2. CASE s = t
    <3>1. ScopeHere(t)' /\ CurHere(t)' /\ PoolHere(t)'
      BY CallerAssumption DEF ScopeHere, CurHere, PoolHere
    <3>2. HeaderHere(t)'
      BY <1>1 DEF ThreadInv, HeaderHere
    <3> QED
      BY <2>2, <3>1, <3>2 DEF ThreadInv
  <2> QED
    BY <2>1, <2>2
<1> QED
  BY <1>2, <1>3 DEF CallerInv

LEMMA ClearIdentityInv ==
  ASSUME CallerInv, NEW t \in Threads, ClearIdentity(t) \/ RestoreIdentity(t)
  PROVE  CallerInv'
<1>1. Shape /\ ThreadInv(t) /\ clears[t] \in Nat /\ NoUid \notin AppUids
  BY CallerAssumption DEF CallerInv, Shape
<1>2. t \in BinderThreads
  BY <1>1 DEF ClearIdentity, RestoreIdentity, ThreadInv, ScopeHere
<1>3. UNCHANGED <<cur, stack, fuse, slot, req>>
  BY DEF ClearIdentity, RestoreIdentity
<1>4. NoSaved \in SavedType /\ NoSaved.uid = NoUid
  BY CallerAssumption DEF NoSaved, SavedType, AnyUid, AnyPkg
<1>5. Captured(t) \in SavedType /\ (Captured(t).uid \in AppUids => Serves(t, Captured(t).uid))
  <2>1. CASE BinderUid(t) = NoUid
    BY <1>1, <1>4, <2>1 DEF Captured
  <2>2. CASE BinderUid(t) # NoUid
    <3>1. Serves(t, BinderUid(t)) /\ BinderUid(t) \in AnyUid
      BY <2>2 DEF BinderUid, Serves, AnyUid
    <3>2. PackageByUid(BinderUid(t)) \in AnyPkg
      BY DEF PackageByUid, AnyPkg
    <3> QED
      BY <2>2, <3>1, <3>2 DEF Captured, SavedType
  <2> QED
    BY <2>1, <2>2
<1>6. CASE ClearIdentity(t)
  <2>1. /\ saved' = [saved EXCEPT ![t] = Captured(t)] /\ cleared' = [cleared EXCEPT ![t] = TRUE]
        /\ clears' = [clears EXCEPT ![t] = @ + 1]
    BY <1>6 DEF ClearIdentity
  <2>2. Shape'
    BY <1>1, <1>3, <1>5, <2>1 DEF Shape
  <2>3. saved'[t] = Captured(t) /\ clears'[t] = clears[t] + 1
    BY <1>1, <2>1 DEF Shape
  <2>4. SavedHere(t)'
    BY <1>1, <1>2, <1>3, <1>5, <2>3 DEF SavedHere, Serves
  <2> QED
    BY <1>1, <1>2, <1>3, <2>1, <2>2, <2>4, BinderStepInv DEF Shape
<1>7. CASE RestoreIdentity(t)
  <2>1. /\ saved' = [saved EXCEPT ![t] = NoSaved] /\ cleared' = [cleared EXCEPT ![t] = FALSE]
        /\ clears' = [clears EXCEPT ![t] = @ - 1] /\ clears[t] - 1 \in Nat
    BY <1>1, <1>7 DEF RestoreIdentity
  <2>2. Shape'
    BY <1>1, <1>3, <1>4, <2>1 DEF Shape
  <2>3. SavedHere(t)'
    BY <1>1, <1>4, <2>1 DEF Shape, SavedHere
  <2> QED
    BY <1>1, <1>2, <1>3, <2>1, <2>2, <2>3, BinderStepInv DEF Shape
<1> QED
  BY <1>6, <1>7

LEMMA EnterScopeInv ==
  ASSUME CallerInv, NEW t \in Threads, NEW known \in BOOLEAN, EnterScope(t, known)
  PROVE  CallerInv' /\ cur'[t].ext = FALSE
<1> DEFINE p == req[t]
           u == UidOf[p]
           k == JavaCallerPackage(p, known)
           e == [uid |-> cur[t].uid, pkg |-> cur[t].pkg]
           c == IF u \in AppUids /\ k # NoPkg THEN Scoped(u, k) ELSE [NoCaller EXCEPT !.age = 0]
           v == IF u \in AppUids THEN [uid |-> u, pkg |-> k, age |-> 0] ELSE saved[t]
<1>1. Shape /\ ThreadInv(t) /\ NoUid \notin AppUids
  BY CallerAssumption DEF CallerInv
<1>2. /\ t \in BinderThreads /\ p \in Procs /\ p # NoProc /\ ~InScope(t) /\ clears[t] = 0
      /\ UNCHANGED <<fuse, cleared, slot, req, clears>>
  BY <1>1 DEF EnterScope, Shape
<1>3. /\ stack' = [stack EXCEPT ![t] = Append(@, e)] /\ cur' = [cur EXCEPT ![t] = c]
      /\ saved' = [saved EXCEPT ![t] = v]
  BY <1>1 DEF EnterScope, Shape
<1>4. u \in AnyUid /\ k \in AnyPkg /\ NoPkg \in AnyPkg
  BY <1>1, <1>2, PackagesTyped DEF AnyUid, AnyPkg, Uids
<1>5. c \in CallerType /\ c.ext = FALSE
  BY <1>4, CallersTyped
<1>6. e \in EntryType
  BY <1>1 DEF Shape, CallerType, EntryType
<1>7. v \in SavedType
  BY <1>1, <1>4 DEF Shape, SavedType
<1>8. saved[t].uid \notin AppUids
  BY <1>1, <1>2 DEF ThreadInv, SavedHere
<1>9. v.uid \in AppUids => Serves(t, v.uid)
  BY <1>2, <1>8 DEF Serves
<1> HIDE DEF c, e, v
<1>10. Shape'
  <2>1. stack' \in [Threads -> Seq(EntryType)]
    BY <1>1, <1>3, <1>6 DEF Shape
  <2>2. cur' \in [Threads -> CallerType] /\ saved' \in [Threads -> SavedType]
    BY <1>1, <1>3, <1>5, <1>7 DEF Shape
  <2> QED
    BY <1>1, <1>2, <2>1, <2>2 DEF Shape
<1>11. cur'[t] = c /\ saved'[t] = v /\ stack'[t] = Append(stack[t], e)
  BY <1>1, <1>3 DEF Shape
<1>12. InScope(t)'
  <2>1. stack[t] = <<>>
    BY <1>2 DEF InScope
  <2> QED
    BY <1>6, <1>11, <2>1 DEF InScope
<1>13. SavedHere(t)'
  BY <1>2, <1>9, <1>11, <1>12 DEF SavedHere, Serves
<1>14. CallerInv'
  BY <1>1, <1>2, <1>3, <1>10, <1>13, BinderStepInv DEF Shape
<1> QED
  BY <1>5, <1>11, <1>14

LEMMA ExitInv ==
  ASSUME CallerInv, NEW t \in Threads, ExitScope(t) \/ ExitPassthrough(t)
  PROVE  CallerInv' /\ cur'[t].ext = FALSE
<1>1. Shape /\ ThreadInv(t) /\ NoUid \notin AppUids
  BY CallerAssumption DEF CallerInv
<1>2. t \in BinderThreads
  BY <1>1 DEF ExitScope, ExitPassthrough, ThreadInv, ScopeHere
<1>3. NoSaved \in SavedType /\ NoSaved.uid = NoUid
  BY CallerAssumption DEF NoSaved, SavedType, AnyUid, AnyPkg
<1>4. /\ UNCHANGED <<fuse, slot, req, clears>> /\ saved' = [saved EXCEPT ![t] = NoSaved]
      /\ cleared' = [cleared EXCEPT ![t] = FALSE]
  BY DEF ExitScope, ExitPassthrough, SavedAtExit
<1>5. SavedHere(t)'
  BY <1>1, <1>3, <1>4 DEF Shape, SavedHere
<1>6. CASE ExitScope(t)
  <2>1. stack[t] \in Seq(EntryType) /\ stack[t] # <<>> /\ Len(stack[t]) \in 1 .. Len(stack[t])
    BY <1>1, <1>6 DEF Shape, ExitScope, InScope
  <2>2. stack[t][Len(stack[t])] \in EntryType
    BY <2>1
  <2>3. SubSeq(stack[t], 1, Len(stack[t]) - 1) \in Seq(EntryType)
    BY <2>1
  <2> DEFINE e == stack[t][Len(stack[t])]
  <2>4. e.uid \in AnyUid /\ e.pkg \in AnyPkg
    BY <2>2 DEF EntryType
  <2>5. Popped(e) \in CallerType /\ Popped(e).ext = FALSE
    BY <2>4, CallersTyped DEF Popped
  <2>6. /\ cur' = [cur EXCEPT ![t] = Popped(e)]
        /\ stack' = [stack EXCEPT ![t] = SubSeq(stack[t], 1, Len(stack[t]) - 1)]
    BY <1>1, <1>6 DEF ExitScope, Shape
  <2>7. Shape'
    BY <1>1, <1>3, <1>4, <2>3, <2>5, <2>6 DEF Shape
  <2>8. cur'[t] = Popped(e)
    BY <1>1, <2>6 DEF Shape
  <2>9. CallerInv'
    BY <1>1, <1>2, <1>4, <1>5, <2>6, <2>7, BinderStepInv DEF Shape
  <2> QED
    BY <2>5, <2>8, <2>9
<1>7. CASE ExitPassthrough(t)
  <2>1. NoUid \in AnyUid /\ NoPkg \in AnyPkg
    BY DEF AnyUid, AnyPkg
  <2>2. NoCaller \in CallerType /\ NoCaller.ext = FALSE
    BY <2>1, CallersTyped
  <2>3. cur' = [cur EXCEPT ![t] = NoCaller] /\ UNCHANGED stack
    BY <1>7 DEF ExitPassthrough
  <2>4. Shape'
    BY <1>1, <1>3, <1>4, <2>2, <2>3 DEF Shape
  <2>5. cur'[t] = NoCaller
    BY <1>1, <2>3 DEF Shape
  <2>6. CallerInv'
    BY <1>1, <1>2, <1>4, <1>5, <2>3, <2>4, BinderStepInv DEF Shape
  <2> QED
    BY <2>2, <2>5, <2>6
<1> QED
  BY <1>6, <1>7

\* Time passes: a header ages no faster than the caller that was found before it.
LEMMA TickInv ==
  ASSUME CallerInv, Tick
  PROVE  CallerInv' /\ \A t \in Threads : cur'[t].age # 0
<1>1. Shape /\ SlotHere /\ \A s \in Threads : ThreadInv(s)
  BY DEF CallerInv
<1>2. UNCHANGED <<stack, cleared, req, clears>>
  BY DEF Tick
<1>3. CurrentMax \in Nat \ {0} /\ FuseMax \in Nat /\ HardMax \in Nat /\ SlotMax \in Nat /\ CurrentMax <= FuseMax
  BY CallerAssumption
<1>4. ASSUME NEW t \in Threads
      PROVE  /\ cur'[t] \in CallerType /\ cur'[t].ext = cur[t].ext /\ cur'[t].uid = cur[t].uid
             /\ cur'[t].age = IF cur[t].age > CurrentMax THEN cur[t].age ELSE cur[t].age + 1
             /\ cur[t].age \in Nat
  <2>1. cur'[t] = Aged(cur[t], CurrentMax) /\ cur[t] \in CallerType
    BY <1>1 DEF Tick, Shape
  <2> QED
    BY <2>1 DEF Aged, CallerType
<1>5. ASSUME NEW t \in Threads
      PROVE  /\ fuse'[t] \in HeaderType /\ fuse'[t].who = fuse[t].who
             /\ fuse'[t].age = IF fuse[t].age > FuseMax THEN fuse[t].age ELSE fuse[t].age + 1
             /\ fuse[t].age \in Nat
  <2>1. fuse'[t] = Aged(fuse[t], FuseMax) /\ fuse[t] \in HeaderType
    BY <1>1 DEF Tick, Shape
  <2> QED
    BY <2>1 DEF Aged, HeaderType
<1>6. ASSUME NEW t \in Threads
      PROVE  saved'[t] \in SavedType /\ saved'[t].uid = saved[t].uid
  <2>1. saved'[t] = Aged(saved[t], HardMax) /\ saved[t] \in SavedType
    BY <1>1 DEF Tick, Shape
  <2> QED
    BY <2>1 DEF Aged, SavedType
<1>7. slot' \in HeaderType /\ slot'.who = slot.who
  <2>1. slot' = Aged(slot, SlotMax) /\ slot \in HeaderType
    BY <1>1 DEF Tick, Shape
  <2> QED
    BY <2>1 DEF Aged, HeaderType
<1>8. Shape'
  BY <1>1, <1>2, <1>4, <1>5, <1>6, <1>7 DEF Tick, Shape
<1>9. SlotHere'
  BY <1>1, <1>7 DEF SlotHere
<1>10. ASSUME NEW t \in Threads PROVE ThreadInv(t)'
  <2>1. SavedHere(t)' /\ ScopeHere(t)' /\ HeaderHere(t)'
    BY <1>1, <1>2, <1>5, <1>6 DEF ThreadInv, SavedHere, ScopeHere, HeaderHere, InScope, Serves
  <2>2. PoolHere(t)'
    BY <1>1, <1>4 DEF ThreadInv, PoolHere
  <2>3. CurHere(t)
    BY <1>1 DEF ThreadInv
  <2>4. cur[t].age > CurrentMax => cur'[t].age > CurrentMax
    BY <1>4
  <2>5. fuse[t].age <= cur[t].age => cur'[t].age > CurrentMax \/ fuse'[t].age <= cur'[t].age
    BY <1>3, <1>4, <1>5
  <2>6. CurHere(t)'
    BY <1>2, <1>4, <1>5, <2>3, <2>4, <2>5 DEF CurHere, Serves
  <2> QED
    BY <2>1, <2>2, <2>6 DEF ThreadInv
<1>11. \A t \in Threads : cur'[t].age # 0
  BY <1>3, <1>4
<1> QED
  BY <1>8, <1>9, <1>10, <1>11 DEF CallerInv

-----------------------------------------------------------------------------
(* The theorems.                                                             *)

\* One step: the invariant stays, and a caller that comes from outside is new only
\* after a file operation, which found the application served.
LEMMA StepInv ==
  ASSUME CallerInv, Next
  PROVE  /\ CallerInv'
         /\ \A t \in Threads :
               cur'[t] # cur[t] /\ cur'[t].age = 0 /\ cur'[t].ext = TRUE /\ cur'[t].uid \in AppUids
                 => cur'[t].uid = UidOf[req[t]]
<1> DEFINE Right == \A t \in Threads :
               cur'[t] # cur[t] /\ cur'[t].age = 0 /\ cur'[t].ext = TRUE /\ cur'[t].uid \in AppUids
                 => cur'[t].uid = UidOf[req[t]]
<1>1. Shape
  BY DEF CallerInv
<1>2. UNCHANGED cur => Right
  OBVIOUS
<1>3. ASSUME NEW t \in Threads, \A s \in Threads : s # t => cur'[s] = cur[s], cur'[t].ext = FALSE
      PROVE  Right
  BY <1>3
<1> HIDE DEF Right
<1>4. ASSUME Tick PROVE CallerInv' /\ Right
  BY <1>4, TickInv DEF Right
<1>5. ASSUME NEW t \in Threads, NEW mayTake \in BOOLEAN, NEW known \in BOOLEAN,
             NEW owner \in MapOwners, FileOp(t, mayTake, known, owner)
      PROVE  CallerInv' /\ Right
  <2>1. CallerInv'
    BY <1>5, FileOpInv
  <2>2. \A s \in Threads : s # t => cur'[s] = cur[s]
    BY <1>1, <1>5 DEF FileOp, Shape
  <2>3. cur'[t] # cur[t] /\ cur'[t].ext = TRUE /\ cur'[t].uid \in AppUids => cur'[t].uid = UidOf[req[t]]
    BY <1>5, FileOpOwn DEF Serves
  <2> QED
    BY <2>1, <2>2, <2>3 DEF Right
<1>6. ASSUME NEW t \in Threads, Reply(t) \/ TransactEnd(t) \/ \E p \in Procs : Transact(t, p)
      PROVE  CallerInv' /\ Right
  <2>1. UNCHANGED cur
    BY <1>6 DEF Reply, TransactEnd, Transact
  <2> QED
    BY <1>2, <1>6, <2>1, RequestInv
<1>7. ASSUME NEW t \in Threads, ClearIdentity(t) \/ RestoreIdentity(t)
      PROVE  CallerInv' /\ Right
  <2>1. UNCHANGED cur
    BY <1>7 DEF ClearIdentity, RestoreIdentity
  <2> QED
    BY <1>2, <1>7, <2>1, ClearIdentityInv
<1>8. ASSUME NEW t \in Threads, ExitScope(t) \/ ExitPassthrough(t)
      PROVE  CallerInv' /\ Right
  <2>1. \A s \in Threads : s # t => cur'[s] = cur[s]
    BY <1>1, <1>8 DEF ExitScope, ExitPassthrough, Shape
  <2> QED
    BY <1>3, <1>8, <2>1, ExitInv
<1>9. ASSUME NEW t \in Threads, NEW known \in BOOLEAN, EnterScope(t, known)
      PROVE  CallerInv' /\ Right
  <2>1. \A s \in Threads : s # t => cur'[s] = cur[s]
    BY <1>1, <1>9 DEF EnterScope, Shape
  <2> QED
    BY <1>3, <1>9, <2>1, EnterScopeInv
<1>10. ASSUME NEW t \in Threads, NEW p \in Procs, NEW to \in Threads, ReadHeader(t, p, to)
       PROVE  CallerInv' /\ Right
  <2>1. UNCHANGED cur
    BY <1>10 DEF ReadHeader
  <2> QED
    BY <1>2, <1>10, <2>1, ReadHeaderInv
<1>11. CallerInv' /\ Right
  <2>1. CASE Tick
    BY <1>4, <2>1
  <2>2. CASE \E t \in Threads, mayTake, known \in BOOLEAN, owner \in MapOwners : FileOp(t, mayTake, known, owner)
    BY <1>5, <2>2, Zenon
  <2>3. CASE \E t \in Threads : Reply(t) \/ TransactEnd(t) \/ ClearIdentity(t) \/ RestoreIdentity(t)
    <3>1. PICK t \in Threads : Reply(t) \/ TransactEnd(t) \/ ClearIdentity(t) \/ RestoreIdentity(t)
      BY <2>3
    <3> QED
      BY <1>6, <1>7, <3>1
  <2>4. CASE \E t \in Threads : ExitScope(t) \/ ExitPassthrough(t) \/ (\E known \in BOOLEAN : EnterScope(t, known))
    BY <1>8, <1>9, <2>4
  <2>5. CASE \E t \in Threads, p \in Procs : Transact(t, p) \/ (\E to \in Threads : ReadHeader(t, p, to))
    BY <1>6, <1>10, <2>5
  <2> QED
    BY <2>1, <2>2, <2>3, <2>4, <2>5 DEF Next
<1> QED
  BY <1>11 DEF Right

LEMMA StutterInv == CallerInv /\ UNCHANGED vars => CallerInv'
<1> SUFFICES ASSUME CallerInv, UNCHANGED vars PROVE CallerInv'
  OBVIOUS
<1>1. UNCHANGED <<cur, stack, fuse, saved, cleared, slot, req, clears>>
  BY DEF vars
<1>2. Shape' /\ SlotHere'
  BY <1>1 DEF CallerInv, Shape, SlotHere
<1>3. \A s \in Threads : ThreadInv(s)'
  BY <1>1, Elsewhere DEF CallerInv
<1> QED
  BY <1>2, <1>3 DEF CallerInv

\* A thread works under the name of the application it serves, however requests,
\* cleared identities and Java scopes follow one another (hook/caller.rs).
THEOREM RightlyCalled == Spec => RightCaller
<1>1. Init => CallerInv
  BY InitInv
<1>2. CallerInv /\ [Next]_vars => CallerInv'
  BY StepInv, StutterInv
<1>3. CallerInv /\ [Next]_vars =>
        [\A t \in Threads :
           (cur'[t] /= cur[t] /\ cur'[t].age = 0 /\ cur'[t].ext /\ cur'[t].uid \in AppUids)
             => cur'[t].uid = UidOf[req[t]]]_cur
  <2> SUFFICES ASSUME CallerInv, [Next]_vars, cur' # cur, NEW t \in Threads,
                      cur'[t] /= cur[t], cur'[t].age = 0, cur'[t].ext, cur'[t].uid \in AppUids
               PROVE  cur'[t].uid = UidOf[req[t]]
    OBVIOUS
  <2>1. Next
    BY DEF vars
  <2>2. cur'[t].ext = TRUE
    <3>1. cur' \in [Threads -> CallerType]
      BY <2>1, StepInv DEF CallerInv, Shape
    <3>2. cur'[t].ext \in BOOLEAN
      BY <3>1 DEF CallerType
    <3> QED
      BY <3>2
  <2> QED
    BY <2>1, <2>2, StepInv
<1> QED
  BY <1>1, <1>2, <1>3, PTL DEF Spec, RightCaller

\* The caller saved while an identity is cleared or a scope open is never that of an
\* earlier transaction (hook/ops/binder.rs: hooked_clear_calling_identity).
THEOREM SavedNotLeftOver == Spec => []SavedIsOurs
<1>1. Init => CallerInv
  BY InitInv
<1>2. CallerInv /\ [Next]_vars => CallerInv'
  BY StepInv, StutterInv
<1>3. CallerInv => SavedIsOurs
  BY DEF CallerInv, ThreadInv, SavedHere, SavedIsOurs, SavedValid, Serves
<1> QED
  BY <1>1, <1>2, <1>3, PTL DEF Spec
=============================================================================
