---------------------------- MODULE CallerContext ----------------------------
(***************************************************************************)
(* Who is asking?  The media provider does the file work of every          *)
(* application, so its hooks have to find out on whose behalf a thread is   *)
(* working (src/src/hook/caller.rs, src/src/hook/context.rs).  Evidence     *)
(* lives in thread locals with a time stamp: the header of the last FUSE    *)
(* request the thread read, the caller saved when the binder identity was   *)
(* cleared, the scope a Java entry point opened, and the caller the last    *)
(* operation was attributed to.  One process-wide cell passes evidence      *)
(* between threads: the relay slot for requests of system uids.  The cells  *)
(* that only feed monitor records are left out.                             *)
(*                                                                          *)
(* Time passes in ticks; every piece of evidence carries its age.  A pid is *)
(* the name of a process.  req and clears are the ground truth: whom the    *)
(* thread really serves and how often its binder identity was cleared.      *)
(***************************************************************************)
EXTENDS Naturals, Sequences

CONSTANTS
  BinderThreads, LoopThreads, PoolThreads,  \* binder pool; read and serve; serve only
  Procs,                \* processes that ask
  UidOf, PkgOf,         \* their uid and the package they belong to
  AppUids,              \* uids from ANDROID_APP_UID_START up
  SelfUid,              \* uid of the media provider
  ByUid,                \* uid -> its only package, or NoPkg when it has several
  NoProc, NoUid, NoPkg, \* -1, -1 and ""
  CurrentMax, SlotMax, FuseMax, SavedMax, HardMax, \* windows
  ClearMax              \* bound: how deep clearCallingIdentity is nested

Threads == BinderThreads \cup LoopThreads \cup PoolThreads
Uids == {UidOf[p] : p \in Procs} \cup {SelfUid}
Pkgs == {PkgOf[p] : p \in Procs}
MapOwners == {p \in Procs : UidOf[p] \in AppUids} \cup {NoProc}
System(u) == u \in Uids \ (AppUids \cup {SelfUid})

\* The windows of hook/caller.rs: what was attributed is reused for a shorter time
\* (500 ms) than a request header counts (1500 ms).
ASSUME CallerAssumption ==
  /\ {CurrentMax, SlotMax, FuseMax, SavedMax, HardMax, ClearMax} \subseteq Nat \ {0}
  /\ SavedMax <= HardMax /\ CurrentMax <= FuseMax
  /\ BinderThreads \cap (LoopThreads \cup PoolThreads) = {} /\ LoopThreads \cap PoolThreads = {}
  /\ NoProc \notin Procs /\ NoUid \notin Uids \cup AppUids

VARIABLES
  cur,      \* CALLER_PACKAGE, CALLER_UID, CALLER_TS_MS and the two origin flags
  stack,    \* CALLER_SCOPE_STACK
  fuse,     \* FUSE_CALLER_UID and _PID with their age
  saved,    \* BINDER_SAVED_CALLER_UID and _PACKAGE with their age
  cleared,  \* BINDER_IDENTITY_CLEARED
  slot,     \* SYSTEM_FUSE_REQUEST
  req,      \* the process whose request the thread serves
  clears    \* clearCallingIdentity calls not yet restored

vars == <<cur, stack, fuse, saved, cleared, slot, req, clears>>

-----------------------------------------------------------------------------
(* Thread locals *)

NoCaller == [uid |-> NoUid, pkg |-> NoPkg, age |-> CurrentMax + 1, ext |-> FALSE, own |-> FALSE]
External(u, k) == [uid |-> u, pkg |-> k, age |-> 0, ext |-> TRUE, own |-> FALSE]
Scoped(u, k) == [uid |-> u, pkg |-> k, age |-> 0, ext |-> FALSE, own |-> FALSE]
MappingOwner(u, k) == [uid |-> u, pkg |-> k, age |-> 0, ext |-> FALSE, own |-> TRUE]

NoSaved == [uid |-> NoUid, pkg |-> NoPkg, age |-> HardMax + 1]
NoHeader == [who |-> NoProc, age |-> FuseMax + 1]
NoSlot == [who |-> NoProc, age |-> SlotMax + 1]

InScope(t) == stack[t] /= <<>>

-----------------------------------------------------------------------------
(* Where the caller of a thread can be read off *)

\* resolve_caller_uid_by_binder: only application uids other than our own count.
BinderUid(t) ==
  IF t \in BinderThreads /\ req[t] /= NoProc /\ clears[t] = 0 /\ UidOf[req[t]] \in AppUids
  THEN UidOf[req[t]] ELSE NoUid

BinderPid(t) ==
  IF t \in BinderThreads /\ req[t] /= NoProc /\ clears[t] = 0 THEN req[t] ELSE NoProc

SavedValid(t) ==
  saved[t].uid \in AppUids /\ saved[t].age <= (IF cleared[t] THEN HardMax ELSE SavedMax)

HeaderValid(t) == fuse[t].who /= NoProc /\ fuse[t].age <= FuseMax

HasCallerSignal(t) == HeaderValid(t) \/ SavedValid(t) \/ t \in BinderThreads

\* What a pid says about its process: the cmdline, the pid table of the daemon
\* or a question to the daemon.  known is whether they answer in this step; an
\* answer is kept only if the uid it gives is the uid that asked.
ByCmdline(p, known) == IF known THEN PkgOf[p] ELSE NoPkg

ByPid(p, known) == IF p = NoProc THEN NoPkg ELSE ByCmdline(p, known)

\* A uid says which package it is only if one candidate is left once overlays,
\* writers and we ourselves are taken out.
PackageByUid(u) == IF u \in AppUids THEN ByUid[u] ELSE NoPkg

\* The caller of the previous operation may be taken again for a short while,
\* but only if it came from outside and is an application.
ReusableAlways(c) == c.ext /\ c.uid \in AppUids

Reusable(c) == c.ext /\ c.uid \in AppUids /\ c.age <= CurrentMax

-----------------------------------------------------------------------------
(* update_caller_package_for_current_thread: the caller one operation is     *)
(* attributed to.                                                            *)

\* No signal on this thread: the relay slot (only for a write to a public
\* path, and it is taken even when it turns out too old or unknown), then the
\* recent external caller, else nobody.
SlotTaken(mayTake) == mayTake /\ slot.who /= NoProc
SlotGives(mayTake) == SlotTaken(mayTake) /\ slot.age <= SlotMax

MissingCaller(t, mayTake, known) ==
  IF SlotGives(mayTake) /\ known THEN External(UidOf[slot.who], PkgOf[slot.who])
  ELSE IF Reusable(cur[t]) THEN External(cur[t].uid, cur[t].pkg)
  ELSE NoCaller

\* The uid the request header gives when binder gives none.  Our own uid says
\* nothing; a system uid is resolved by its pid or kept as it is.
HeaderUid(t) ==
  IF HeaderValid(t) /\ UidOf[fuse[t].who] /= SelfUid THEN UidOf[fuse[t].who] ELSE NoUid

SignalUid(t) == IF BinderUid(t) /= NoUid THEN BinderUid(t) ELSE HeaderUid(t)

\* The package of the signal: by uid, then by the binder pid.
SignalPkg(t, known) ==
  LET u == SignalUid(t) IN
  IF PackageByUid(u) /= NoPkg THEN PackageByUid(u)
  ELSE IF System(u) /\ BinderUid(t) = NoUid THEN ByPid(fuse[t].who, known)
  ELSE ByPid(BinderPid(t), known)

SavedPkg(t) == IF saved[t].pkg /= NoPkg THEN saved[t].pkg ELSE PackageByUid(saved[t].uid)

SignalledCaller(t, known) ==
  LET u == SignalUid(t)
      k == SignalPkg(t, known)
  IN IF k /= NoPkg THEN External(u, k)
     ELSE IF SavedValid(t)
       THEN External(saved[t].uid, SavedPkg(t))
     ELSE IF u /= NoUid THEN External(u, NoPkg)
     ELSE NoCaller

\* The saved caller is dropped when it had to be asked and was too old.
SavedAfter(t, known) ==
  IF SignalPkg(t, known) = NoPkg /\ ~SavedValid(t) THEN NoSaved ELSE saved[t]

\* The header is used up by the operation that asked for it.
HeaderAfter(t) == IF HasCallerSignal(t) /\ BinderUid(t) = NoUid THEN NoHeader ELSE fuse[t]

\* A file operation of thread t.  Inside a Java scope the caller is not looked
\* up again (should_resolve_caller_context).  The redirect engine then puts
\* the application that mapped the path in its place, if one did.
Attributed(t, mayTake, known) ==
  IF InScope(t) THEN cur[t]
  ELSE IF HasCallerSignal(t) THEN SignalledCaller(t, known)
  ELSE MissingCaller(t, mayTake, known)

FileOp(t, mayTake, known, owner) ==
  /\ req[t] /= NoProc
  /\ cur' = [cur EXCEPT ![t] = IF owner = NoProc THEN Attributed(t, mayTake, known)
                               ELSE MappingOwner(UidOf[owner], PkgOf[owner])]
  /\ fuse' = [fuse EXCEPT ![t] = IF InScope(t) THEN @ ELSE HeaderAfter(t)]
  /\ LET asks == ~InScope(t) /\ HasCallerSignal(t)
     IN /\ saved' = [saved EXCEPT ![t] = IF asks THEN SavedAfter(t, known) ELSE @]
        /\ cleared' = [cleared EXCEPT ![t] =
             @ /\ ~(asks /\ saved[t].uid \in AppUids /\ saved'[t] = NoSaved)]
  /\ slot' = IF ~InScope(t) /\ ~HasCallerSignal(t) /\ SlotTaken(mayTake) THEN NoSlot ELSE slot
  /\ UNCHANGED <<stack, req, clears>>

-----------------------------------------------------------------------------
(* FUSE requests *)

\* Only the requests of system uids are relayed.
Relayed(p) == System(UidOf[p])

\* Reading a request header.  The thread serves the request itself or hands it
\* to an idle worker, which sees nothing of the header but the relay slot.
ReadHeader(t, p, to) ==
  /\ t \in LoopThreads /\ req[t] = NoProc
  /\ to \in PoolThreads \cup {t} /\ req[to] = NoProc
  /\ fuse' = [fuse EXCEPT ![t] = [who |-> p, age |-> 0]]
  /\ slot' = IF Relayed(p) THEN [who |-> p, age |-> 0] ELSE slot
  /\ req' = [req EXCEPT ![to] = p]
  /\ UNCHANGED <<cur, stack, saved, cleared, clears>>

Reply(t) ==
  /\ t \notin BinderThreads /\ req[t] /= NoProc
  /\ req' = [req EXCEPT ![t] = NoProc]
  /\ UNCHANGED <<cur, stack, fuse, saved, cleared, slot, clears>>

-----------------------------------------------------------------------------
(* Binder transactions *)

Transact(t, p) ==
  /\ t \in BinderThreads /\ req[t] = NoProc
  /\ req' = [req EXCEPT ![t] = p]
  /\ UNCHANGED <<cur, stack, fuse, saved, cleared, slot, clears>>

TransactEnd(t) ==
  /\ t \in BinderThreads /\ req[t] /= NoProc /\ clears[t] = 0 /\ ~InScope(t)
  /\ req' = [req EXCEPT ![t] = NoProc]
  /\ UNCHANGED <<cur, stack, fuse, saved, cleared, slot, clears>>

\* hooked_clear_calling_identity: take down who is calling, then let go.  The
\* second clear of a nest finds our own uid and takes down nobody.
Captured(t) ==
  IF BinderUid(t) = NoUid THEN NoSaved
  ELSE [uid |-> BinderUid(t), pkg |-> PackageByUid(BinderUid(t)), age |-> 0]

ClearIdentity(t) ==
  /\ t \in BinderThreads /\ req[t] /= NoProc /\ clears[t] < ClearMax
  /\ saved' = [saved EXCEPT ![t] = Captured(t)]
  /\ cleared' = [cleared EXCEPT ![t] = TRUE]
  /\ clears' = [clears EXCEPT ![t] = @ + 1]
  /\ UNCHANGED <<cur, stack, fuse, slot, req>>

RestoreIdentity(t) ==
  /\ clears[t] > 0
  /\ saved' = [saved EXCEPT ![t] = NoSaved]
  /\ cleared' = [cleared EXCEPT ![t] = FALSE]
  /\ clears' = [clears EXCEPT ![t] = @ - 1]
  /\ UNCHANGED <<cur, stack, fuse, slot, req>>

JavaCallerPackage(p, known) == IF known THEN ByPid(p, known) ELSE PackageByUid(UidOf[p])

\* The Java entry point of a provider call: captureBinderCaller, then
\* enterCallerScope.  A system caller opens a scope without a caller.
EnterScope(t, known) ==
  /\ t \in BinderThreads /\ req[t] /= NoProc /\ clears[t] = 0 /\ ~InScope(t)
  /\ LET p == req[t]
         u == UidOf[p]
         k == JavaCallerPackage(p, known)
         app == u \in AppUids /\ k /= NoPkg
     IN /\ stack' = [stack EXCEPT ![t] = Append(@, [uid |-> cur[t].uid, pkg |-> cur[t].pkg])]
        /\ cur' = [cur EXCEPT ![t] = IF app THEN Scoped(u, k)
                                     ELSE [NoCaller EXCEPT !.age = 0]]
        /\ saved' = [saved EXCEPT ![t] =
             IF u \in AppUids THEN [uid |-> u, pkg |-> k, age |-> 0] ELSE @]
  /\ UNCHANGED <<fuse, cleared, slot, req, clears>>

\* The caller before the scope comes back with a fresh time stamp but without
\* its origin.
Popped(e) == IF e.uid = NoUid THEN [NoCaller EXCEPT !.pkg = e.pkg] ELSE Scoped(e.uid, e.pkg)

\* Mutant: the saved caller outlives the scope it was saved for.
SavedKept(t) == saved[t]
\* exit_java_caller_scope drops the saved caller with the scope.
SavedAtExit(t) == NoSaved

ExitScope(t) ==
  /\ InScope(t) /\ clears[t] = 0
  /\ cur' = [cur EXCEPT ![t] = Popped(stack[t][Len(stack[t])])]
  /\ stack' = [stack EXCEPT ![t] = SubSeq(@, 1, Len(@) - 1)]
  /\ saved' = [saved EXCEPT ![t] = SavedAtExit(t)]
  /\ cleared' = [cleared EXCEPT ![t] = FALSE]
  /\ UNCHANGED <<fuse, slot, req, clears>>

\* Leaving the outermost call the provider made to itself.
ExitPassthrough(t) ==
  /\ t \in BinderThreads /\ req[t] /= NoProc /\ ~InScope(t)
  /\ cur' = [cur EXCEPT ![t] = NoCaller]
  /\ saved' = [saved EXCEPT ![t] = NoSaved]
  /\ cleared' = [cleared EXCEPT ![t] = FALSE]
  /\ UNCHANGED <<stack, fuse, slot, req, clears>>

-----------------------------------------------------------------------------
Aged(e, max) == [e EXCEPT !.age = IF @ > max THEN @ ELSE @ + 1]

Tick ==
  /\ cur' = [t \in Threads |-> Aged(cur[t], CurrentMax)]
  /\ fuse' = [t \in Threads |-> Aged(fuse[t], FuseMax)]
  /\ saved' = [t \in Threads |-> Aged(saved[t], HardMax)]
  /\ slot' = Aged(slot, SlotMax)
  /\ UNCHANGED <<stack, cleared, req, clears>>

Init ==
  /\ cur = [t \in Threads |-> NoCaller]
  /\ stack = [t \in Threads |-> <<>>]
  /\ fuse = [t \in Threads |-> NoHeader]
  /\ saved = [t \in Threads |-> NoSaved]
  /\ cleared = [t \in Threads |-> FALSE]
  /\ slot = NoSlot
  /\ req = [t \in Threads |-> NoProc]
  /\ clears = [t \in Threads |-> 0]

Next ==
  \/ Tick
  \/ \E t \in Threads, mayTake, known \in BOOLEAN, owner \in MapOwners :
       FileOp(t, mayTake, known, owner)
  \/ \E t \in Threads : Reply(t) \/ TransactEnd(t) \/ ClearIdentity(t) \/ RestoreIdentity(t)
  \/ \E t \in Threads : ExitScope(t) \/ ExitPassthrough(t) \/ (\E known \in BOOLEAN : EnterScope(t, known))
  \/ \E t \in Threads, p \in Procs : Transact(t, p) \/ (\E to \in Threads : ReadHeader(t, p, to))

Spec == Init /\ [][Next]_vars

-----------------------------------------------------------------------------
Ages(max) == 0 .. max + 1

TypeOK ==
  /\ cur \in [Threads -> [uid : Uids \cup {NoUid}, pkg : Pkgs \cup {NoPkg},
                          age : Ages(CurrentMax), ext : BOOLEAN, own : BOOLEAN]]
  /\ \A t \in Threads : Len(stack[t]) <= 1
  /\ fuse \in [Threads -> [who : Procs \cup {NoProc}, age : Ages(FuseMax)]]
  /\ saved \in [Threads -> [uid : AppUids \cup {NoUid}, pkg : Pkgs \cup {NoPkg}, age : Ages(HardMax)]]
  /\ cleared \in [Threads -> BOOLEAN]
  /\ slot \in [who : {p \in Procs : System(UidOf[p])} \cup {NoProc}, age : Ages(SlotMax)]
  /\ req \in [Threads -> Procs \cup {NoProc}]

\* No operation is done under the name of an application that did not ask for
\* it: the application the hooks settle on is the process the thread serves,
\* unless the path lies in a mapping of another one.
RightCaller ==
  [][\A t \in Threads :
       (cur'[t] /= cur[t] /\ cur'[t].age = 0 /\ cur'[t].ext /\ cur'[t].uid \in AppUids)
         => cur'[t].uid = UidOf[req[t]]]_cur

\* The caller saved for the time the identity is cleared is the one whose
\* transaction the thread is in, never the one of an earlier transaction.
SavedIsOurs ==
  \A t \in Threads :
    SavedValid(t) => req[t] /= NoProc /\ saved[t].uid = UidOf[req[t]]

=============================================================================
