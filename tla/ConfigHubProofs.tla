--------------------------- MODULE ConfigHubProofs ---------------------------
(* What TLAPS establishes about ConfigHub for every set of packages, threads  *)
(* and contents and every number of writes: the state that carries the         *)
(* fingerprint of the files was read from them, and what the writer threads    *)
(* cache under the current version agrees with it.                             *)
EXTENDS ConfigHub, TLAPS

-----------------------------------------------------------------------------
(* Types.                                                                     *)

Raw == UNION (Written \cup {Kept})
Path == {r.path : r \in Raw}
Profile == [on : BOOLEAN, allowed : SUBSET Path, excluded : SUBSET Path, readOnly : SUBSET Path]
File == [stamp : Nat, form : {"absent", "empty", "half", "ok"}, raw : SUBSET Raw]
Stamps == [Files -> Nat]
Reading == [pc : {"read"}, kind : {"init", "check", "force"}, via : {"router", "other"},
            fp : Stamps, retried : BOOLEAN, todo : SUBSET Files, monitor : BOOLEAN,
            apps : [Apps -> Profile], unread : SUBSET Files]
Configuring == [pc : {"configure"}, profile : Profile]
Profiling == [pc : {"profile"}, current : BOOLEAN]
RawReading == [pc : {"raw"}, current : BOOLEAN, profile : Profile]
Rebuild == [pc |-> "rebuild"]
Thread == {Idle, Rebuild} \cup Reading \cup Configuring \cup Profiling \cup RawReading
Hub == [loaded : BOOLEAN, fp : Stamps, monitor : BOOLEAN, apps : [Apps -> Profile],
        unread : SUBSET Files]
Cached == [current : BOOLEAN, profile : Profile, raw : SUBSET Path]

\* What a rule list excludes is not read-only.
Sound(apps) == \A a \in Apps : apps[a].readOnly \cap apps[a].excluded = {}

Typed == /\ disk \in [Files -> File] /\ writes \in 0 .. MaxWrites
         /\ hub \in Hub /\ th \in [Threads -> Thread] /\ cache \in [Writers -> Cached]
         /\ Sound(hub.apps) /\ \A t \in Threads : th[t].pc = "read" => Sound(th[t].apps)

-----------------------------------------------------------------------------
(* The inductive invariant.  A change gives a file a stamp that no fingerprint *)
(* holds, so a stamp that is still the one of the fingerprint belongs to the   *)
(* contents that were read after it.                                          *)

StampInv == /\ \A f \in Files : disk[f].stamp <= writes + 1 /\ (disk[f].stamp = 0 <=> disk[f].form = "absent")
            /\ \A f \in Files : hub.fp[f] <= writes + 1
            /\ \A t \in Threads : th[t].pc = "read" => \A f \in Files : th[t].fp[f] <= writes + 1

\* c, a state loaded or being loaded, holds what files, the disk, has of f.
Agrees(c, f, files) == IF f = "global" THEN c.monitor = (Rules(files[f].raw, "on", FALSE) # {})
                       ELSE c.apps[f] = Parse(files[f].raw)

\* The files done are held as they are, unless changed since the fingerprint.
HonestAbout(c, todo, files) ==
    \A f \in Files \ (todo \cup c.unread) :
        c.fp[f] = files[f].stamp /\ files[f].form = "ok" => Agrees(c, f, files)

LoadInv == /\ hub.loaded = TRUE => HonestAbout(hub, {}, disk)
           /\ \A t \in Threads : th[t].pc = "read" => HonestAbout(th[t], th[t].todo, disk)

\* What is held of the current version is the current state.
VersionInv ==
    /\ \A t \in Threads : th[t].pc \in {"profile", "raw"} /\ th[t].current = TRUE =>
         /\ hub.loaded = TRUE
         /\ th[t].pc = "raw" => th[t].profile = Resolved(Self)
    /\ \A t \in Writers : cache[t].current = TRUE =>
         /\ hub.loaded = TRUE /\ cache[t].profile = Resolved(Self)
         /\ hub.fp[Self] = disk[Self].stamp /\ disk[Self].form # "absent"
              => cache[t].raw = RawReadOnly(disk[Self])

HubInv == Typed /\ StampInv /\ LoadInv /\ VersionInv

-----------------------------------------------------------------------------
(* The shapes of a step: the disk changes, one thread moves on, a state is     *)
(* installed, a cache is filled, or nothing the invariant is about changes.    *)

DiskChanges(f, file) ==
    /\ writes < MaxWrites /\ writes' = writes + 1
    /\ disk' = [disk EXCEPT ![f] = file]
    /\ \/ file.form = "absent" /\ file.stamp = 0
       \/ file.form # "absent" /\ file.stamp = writes + 2
    /\ UNCHANGED <<hub, th, cache>>
\* d is a reading just begun.
Begun(d) == /\ d \in Reading /\ d.fp = Fingerprint /\ d.unread = {} /\ Sound(d.apps)
            /\ \A f \in Files \ d.todo : d.fp[f] = 0
\* d is c with file f read, or to be read once more.
Proceeds(c, d, f) ==
    /\ d \in Reading /\ d.fp = c.fp /\ Sound(d.apps)
    /\ \A g \in Files \ (d.todo \cup d.unread) :
         IF g = f THEN disk[f].form = "ok" => Agrees(d, f, disk)
         ELSE g \notin c.todo \cup c.unread /\ (Agrees(c, g, disk) => Agrees(d, g, disk))
MovesOn(c, d) ==
    \/ d = Idle \/ d = Rebuild \/ Begun(d) \/ d \in Configuring
    \/ c.pc = "read" /\ \E f \in Files : Proceeds(c, d, f)
    \/ hub.loaded = TRUE /\ d = [pc |-> "profile", current |-> TRUE]
    \/ c.pc = "profile" /\ d = [pc |-> "raw", current |-> c.current, profile |-> Resolved(Self)]
ThreadMoves(t, d) ==
    /\ th' = [th EXCEPT ![t] = d] /\ d \in Thread /\ MovesOn(th[t], d)
    /\ UNCHANGED <<disk, writes, hub, cache>>
Installs(t, d) ==
    /\ th[t].pc = "read" /\ th[t].todo = {} /\ d \in {Idle, Rebuild}
    /\ hub' = [loaded |-> TRUE, fp |-> th[t].fp, monitor |-> th[t].monitor,
               apps |-> th[t].apps, unread |-> th[t].unread]
    /\ th' = [u \in Threads |-> IF u = t THEN d ELSE Outdated(th[u])]
    /\ cache' = [u \in Writers |-> [cache[u] EXCEPT !.current = FALSE]]
    /\ UNCHANGED <<disk, writes>>
Fills(t) ==
    /\ th[t].pc = "raw" /\ th' = [th EXCEPT ![t] = Idle]
    /\ cache' = [cache EXCEPT ![t] = [current |-> th[t].current, profile |-> th[t].profile,
                                      raw |-> RawReadOnly(disk[Self])]]
    /\ UNCHANGED <<disk, writes, hub>>
Steps ==
    \/ \E f \in Files, file \in File : DiskChanges(f, file)
    \/ \E t \in Threads : \E d \in Thread : ThreadMoves(t, d)
    \/ \E t \in Threads : \E d \in {Idle, Rebuild} : Installs(t, d)
    \/ \E t \in Threads : Fills(t)
    \/ UNCHANGED <<disk, writes, hub, th, cache>>

LEMMA ThreadKinds ==
    ASSUME NEW c \in Thread
    PROVE  /\ c.pc \in {"idle", "read", "rebuild", "configure", "profile", "raw"}
           /\ c.pc = "read" => c \in Reading
           /\ c.pc = "configure" => c \in Configuring
           /\ c.pc = "profile" => c \in Profiling
           /\ c.pc = "raw" => c \in RawReading
BY DEF Thread, Idle, Rebuild, Reading, Configuring, Profiling, RawReading

\* Rules and parsed profiles are in their ranges.
LEMMA RulesType ==
    ASSUME NEW raw \in SUBSET Raw, NEW list, NEW neg
    PROVE  Rules(raw, list, neg) \in SUBSET Path
BY DEF Rules, Path

LEMMA ParseType ==
    ASSUME NEW raw \in SUBSET Raw
    PROVE  Parse(raw) \in Profile /\ Parse(raw).readOnly \cap Parse(raw).excluded = {}
<1> DEFINE out == Rules(raw, "allowed", TRUE) \cup Rules(raw, "excluded", FALSE)
           on == (Rules(raw, "on", FALSE) # {})
           allowed == Rules(raw, "allowed", FALSE)
           readOnly == Rules(raw, "readOnly", FALSE) \ out
<1>1. out \in SUBSET Path /\ allowed \in SUBSET Path /\ readOnly \in SUBSET Path
  BY RulesType, Zenon
<1>2. on \in BOOLEAN
  OBVIOUS
<1>3. Parse(raw) = [on |-> on, allowed |-> allowed, excluded |-> out, readOnly |-> readOnly]
  BY Zenon DEF Parse
<1>4. readOnly \cap out = {}
  OBVIOUS
<1> HIDE DEF on, out, allowed, readOnly
<1> QED
  BY <1>1, <1>2, <1>3, <1>4 DEF Profile

LEMMA RawType ==
    ASSUME NEW f \in File
    PROVE  RawReadOnly(f) \in SUBSET Path
BY RulesType DEF RawReadOnly, File

LEMMA NoProfileType == NoProfile \in Profile /\ NoProfile.readOnly \cap NoProfile.excluded = {}
BY DEF NoProfile, Profile

LEMMA ResolvedType ==
    ASSUME hub \in Hub
    PROVE  Resolved(Self) \in Profile
BY HubAssumption, NoProfileType DEF Hub, Resolved

\* Reading one file: what is done stays as it was read.
LEMMA DoneType ==
    ASSUME NEW c \in Reading, NEW f \in Files
    PROVE  /\ Done(c, f) \in Reading /\ Done(c, f).fp = c.fp /\ Done(c, f).apps = c.apps
           /\ Done(c, f).todo = c.todo \ {f} /\ Done(c, f).unread = c.unread
           /\ Done(c, f).monitor = c.monitor
BY DEF Reading, Done

\* A file that is to be read again, or that is noted as unread, claims nothing.
LEMMA Again ==
    ASSUME NEW c \in Reading, NEW f \in c.todo, Sound(c.apps)
    PROVE  Proceeds(c, [c EXCEPT !.retried = TRUE], f)
BY DEF Reading, Proceeds, Agrees

LEMMA Unread ==
    ASSUME NEW c \in Reading, NEW f \in Files, Sound(c.apps)
    PROVE  Proceeds(c, [Done(c, f) EXCEPT !.unread = @ \cup {f}], f)
<1> DEFINE e == Done(c, f)
<1>1. /\ e \in Reading /\ e.fp = c.fp /\ e.apps = c.apps /\ e.todo = c.todo \ {f}
      /\ e.unread = c.unread /\ e.monitor = c.monitor
  BY DoneType
<1> HIDE DEF e
<1> DEFINE d == [e EXCEPT !.unread = @ \cup {f}]
<1>2. /\ d \in Reading /\ d.fp = e.fp /\ d.apps = e.apps /\ d.todo = e.todo
      /\ d.unread = e.unread \cup {f} /\ d.monitor = e.monitor
  BY <1>1 DEF Reading
<1> HIDE DEF d
<1>3. Proceeds(c, d, f)
  BY <1>1, <1>2 DEF Proceeds, Agrees
<1> QED
  BY <1>3 DEF d, e

LEMMA GlobalRead ==
    ASSUME Typed, NEW c \in Reading, Sound(c.apps), "global" \in c.todo, NEW failed \in BOOLEAN
    PROVE  Proceeds(c, LoadGlobal(c, Outcome("global", failed)), "global")
<1> DEFINE out == Outcome("global", failed)
           e == Done(c, "global")
           on == (Rules(disk["global"].raw, "on", FALSE) # {})
<1>0. "global" \in Files /\ on \in BOOLEAN
  BY DEF Files
<1>1. /\ e \in Reading /\ e.fp = c.fp /\ e.apps = c.apps /\ e.todo = c.todo \ {"global"}
      /\ e.unread = c.unread /\ e.monitor = c.monitor
  BY <1>0, DoneType
<1>2. out \in {"failed", "absent", "empty", "half", "ok"}
      /\ (out = "failed" \/ out = disk["global"].form)
  BY <1>0 DEF Outcome, Typed, File
<1>3. ASSUME NEW b \in BOOLEAN, b = on \/ disk["global"].form # "ok"
      PROVE  Proceeds(c, [e EXCEPT !.monitor = b], "global")
  <2> HIDE DEF e, on
  <2> DEFINE d == [e EXCEPT !.monitor = b]
  <2>1. /\ d \in Reading /\ d.fp = e.fp /\ d.apps = e.apps /\ d.todo = e.todo
        /\ d.unread = e.unread /\ d.monitor = b
    BY <1>1 DEF Reading
  <2> HIDE DEF d
  <2>2. disk["global"].form = "ok" => Agrees(d, "global", disk)
    <3> SUFFICES ASSUME disk["global"].form = "ok"
                 PROVE  d.monitor = on
      BY Zenon DEF Agrees, on
    <3> QED
      BY <2>1, <1>3
  <2>3. \A g \in Files : g # "global" => (Agrees(c, g, disk) => Agrees(d, g, disk))
    BY <2>1, <1>1 DEF Agrees
  <2> QED
    BY <1>1, <2>1, <2>2, <2>3 DEF Proceeds, d
<1>4. CASE out = "empty" /\ ~c.retried
  <2>1. LoadGlobal(c, out) = [c EXCEPT !.retried = TRUE]
    BY <1>4 DEF LoadGlobal
  <2> QED
    BY <2>1, Again
<1>5. CASE out = "ok"
  <2>1. LoadGlobal(c, out) = [e EXCEPT !.monitor = on]
    BY <1>5 DEF LoadGlobal
  <2> QED
    BY <2>1, <1>3, <1>0
<1>6. CASE out \in {"failed", "half"}
  <2>1. LoadGlobal(c, out) = [e EXCEPT !.unread = @ \cup {"global"}]
    BY <1>6 DEF LoadGlobal
  <2> QED
    BY <2>1, Unread, <1>0
<1>7. CASE out = "absent" \/ (out = "empty" /\ c.retried)
  <2>1. LoadGlobal(c, out) = [e EXCEPT !.monitor = FALSE]
    BY <1>7 DEF LoadGlobal
  <2>2. disk["global"].form # "ok"
    BY <1>7, <1>2
  <2> QED
    BY <2>1, <2>2, <1>3
<1> HIDE DEF out
<1>8. out \in {"failed", "half"} \/ out = "ok" \/ out = "absent" \/ out = "empty"
  BY <1>2
<1> QED
  <2>1. CASE out = "empty"
    BY <2>1, <1>4, <1>7, Zenon
  <2>2. CASE out # "empty"
    BY <2>2, <1>5, <1>6, <1>7, <1>8, Zenon
  <2> QED
    BY <2>1, <2>2, Zenon

LEMMA AppRead ==
    ASSUME Typed, NEW c \in Reading, Sound(c.apps), NEW a \in Apps, a # "global", a \in c.todo,
           NEW failed \in BOOLEAN
    PROVE  Proceeds(c, LoadApp(c, a, Outcome(a, failed)), a)
<1> DEFINE out == Outcome(a, failed)
           e == Done(c, a)
           p == Parse(disk[a].raw)
<1>0. a \in Files /\ p \in Profile /\ p.readOnly \cap p.excluded = {}
  BY ParseType DEF Files, Typed, File
<1>1. /\ e \in Reading /\ e.fp = c.fp /\ e.apps = c.apps /\ e.todo = c.todo \ {a}
      /\ e.unread = c.unread /\ e.monitor = c.monitor
  BY <1>0, DoneType
<1>2. out \in {"failed", "absent", "empty", "half", "ok"} /\ (out = "failed" \/ out = disk[a].form)
  BY <1>0 DEF Outcome, Typed, File
<1>3. CASE out = "ok"
  <2>1. LoadApp(c, a, out) = [e EXCEPT !.apps = [@ EXCEPT ![a] = p]]
    BY <1>3 DEF LoadApp
  <2> HIDE DEF e, p, out
  <2> DEFINE d == [e EXCEPT !.apps = [@ EXCEPT ![a] = p]]
  <2>2. /\ d \in Reading /\ d.fp = e.fp /\ d.apps = [e.apps EXCEPT ![a] = p] /\ d.todo = e.todo
        /\ d.unread = e.unread /\ d.monitor = e.monitor
    BY <1>0, <1>1 DEF Reading
  <2> HIDE DEF d
  <2>3. e.apps \in [Apps -> Profile]
    BY <1>1 DEF Reading
  <2>4. Sound(d.apps) /\ d.apps[a] = p /\ \A g \in Apps : g # a => d.apps[g] = c.apps[g]
    BY <2>2, <2>3, <1>0, <1>1 DEF Sound
  <2>5. Agrees(d, a, disk)
    BY <2>4 DEF Agrees, p
  <2>6. \A g \in Files : g # a => (Agrees(c, g, disk) => Agrees(d, g, disk))
    BY <2>4, <2>2, <1>1 DEF Agrees, Files
  <2>7. Proceeds(c, d, a)
    BY <1>1, <2>2, <2>4, <2>5, <2>6 DEF Proceeds
  <2> QED
    BY <2>1, <2>7 DEF d, out
<1>4. CASE out = "absent"
  <2>1. LoadApp(c, a, out) = e
    BY <1>4 DEF LoadApp
  <2>2. disk[a].form # "ok"
    BY <1>2, <1>4
  <2> HIDE DEF e, p
  <2> QED
    BY <2>1, <2>2, <1>1 DEF Proceeds, Agrees
<1>5. CASE out \in {"failed", "empty", "half"}
  <2>1. CASE ~c.retried
    <3>1. LoadApp(c, a, out) = [c EXCEPT !.retried = TRUE]
      BY <1>5, <2>1 DEF LoadApp
    <3> QED
      BY <3>1, Again
  <2>2. CASE c.retried
    <3>1. LoadApp(c, a, out) = [e EXCEPT !.unread = @ \cup {a}]
      BY <1>5, <2>2 DEF LoadApp
    <3> QED
      BY <3>1, Unread, <1>0
  <2> QED
    BY <2>1, <2>2
<1> QED
  BY <1>2, <1>3, <1>4, <1>5

LEMMA FileRead ==
    ASSUME Typed, NEW t \in Threads, NEW f \in Files, NEW failed \in BOOLEAN, ReadNext(t, f, failed)
    PROVE  \E d \in Thread : ThreadMoves(t, d)
<1> DEFINE c == th[t]
           d == IF f = "global" THEN LoadGlobal(c, Outcome(f, failed))
                ELSE LoadApp(c, f, Outcome(f, failed))
<1>1. c.pc = "read" /\ c \in Reading /\ Sound(c.apps) /\ f \in c.todo
  BY ThreadKinds DEF Typed, ReadNext
<1>2. th' = [th EXCEPT ![t] = d] /\ UNCHANGED <<disk, writes, hub, cache>>
  BY DEF ReadNext, Typed
<1>3. Proceeds(c, d, f)
  <2>1. CASE f = "global"
    BY <1>1, <2>1, GlobalRead
  <2>2. CASE f # "global"
    <3>1. f \in Apps
      BY <2>2 DEF Files
    <3>2. Proceeds(c, LoadApp(c, f, Outcome(f, failed)), f)
      BY <1>1, <2>2, <3>1, AppRead
    <3> QED
      BY <2>2, <3>2
  <2> QED
    BY <2>1, <2>2
<1>4. d \in Thread
  BY <1>3 DEF Proceeds, Thread
<1> HIDE DEF d
<1>5. MovesOn(th[t], d)
  BY <1>1, <1>3 DEF MovesOn
<1> QED
  BY <1>2, <1>4, <1>5 DEF ThreadMoves

\* A reload begins with the fingerprint of the files as they are.
LEMMA ReloadStarts ==
    ASSUME Typed, NEW t \in Threads, NEW kind \in {"init", "check", "force"},
           NEW via \in {"router", "other"}, StartReload(t, kind, via),
           UNCHANGED <<disk, writes, hub, cache>>
    PROVE  \E d \in Thread : ThreadMoves(t, d)
<1> DEFINE fp == Fingerprint
           r == Loading(kind, via, fp)
           d == IF Skips(kind, fp) THEN Checked(via) ELSE r
<1>1. fp \in Stamps
  BY DEF Fingerprint, Stamps, Typed, File
<1>2. r \in Reading /\ Begun(r)
  <2>1. [a \in Apps |-> NoProfile] \in [Apps -> Profile] /\ Sound([a \in Apps |-> NoProfile])
    BY NoProfileType DEF Sound
  <2>2. hub.monitor \in BOOLEAN
    BY DEF Typed, Hub
  <2> DEFINE todo == {f \in Files : f = "global" \/ fp[f] # 0}
             apps == [a \in Apps |-> NoProfile]
  <2>3. r = [pc |-> "read", kind |-> kind, via |-> via, fp |-> fp, retried |-> FALSE,
             todo |-> todo, monitor |-> hub.monitor, apps |-> apps, unread |-> {}]
    BY Zenon DEF Loading
  <2>4. todo \in SUBSET Files /\ \A f \in Files \ todo : fp[f] = 0
    OBVIOUS
  <2>5. fp = Fingerprint
    OBVIOUS
  <2> HIDE DEF r, fp, todo, apps
  <2>6. r \in Reading
    BY <1>1, <2>1, <2>2, <2>3, <2>4 DEF Reading, apps
  <2> QED
    BY <2>1, <2>3, <2>4, <2>5, <2>6 DEF Begun, apps
<1>3. th' = [th EXCEPT ![t] = d]
  BY DEF StartReload
<1>4. d = Idle \/ d = Rebuild \/ d = r
  BY DEF Checked, Rebuild
<1> HIDE DEF d, r
<1>5. d \in Thread /\ MovesOn(th[t], d)
  BY <1>2, <1>4 DEF Thread, MovesOn
<1> QED
  BY <1>3, <1>5 DEF ThreadMoves

LEMMA DiskStep ==
    ASSUME Typed, NEW f \in Changing,
           Truncate(f) \/ WriteHalf(f) \/ Finish(f) \/ Replace(f) \/ Delete(f)
    PROVE  Steps
<1>1. f \in Files /\ MaxWrites \in Nat /\ writes \in Nat
  BY HubAssumption DEF Files, Typed
<1>2. ASSUME NEW form \in {"empty", "half", "ok"}, NEW raw \in SUBSET Raw, Change(f, form, raw)
      PROVE  Steps
  <2> DEFINE file == [stamp |-> writes + 2, form |-> form, raw |-> raw]
  <2>1. file \in File
    BY <1>1 DEF File
  <2>2. DiskChanges(f, file)
    BY <1>2 DEF DiskChanges, Change
  <2> QED
    BY <1>1, <2>1, <2>2, Zenon DEF Steps
<1>3. {} \in SUBSET Raw /\ \A w \in Written : w \in SUBSET Raw
  BY DEF Raw
<1>4. CASE Truncate(f)
  BY <1>2, <1>3, <1>4 DEF Truncate
<1>5. CASE WriteHalf(f)
  BY <1>2, <1>3, <1>5 DEF WriteHalf
<1>6. CASE Finish(f)
  BY <1>2, <1>3, <1>6 DEF Finish
<1>7. CASE Replace(f)
  BY <1>2, <1>3, <1>7 DEF Replace
<1>8. CASE Delete(f)
  <2> DEFINE file == Absent
  <2>1. file \in File
    BY <1>3 DEF Absent, File
  <2>2. DiskChanges(f, file)
    BY <1>8 DEF DiskChanges, Delete, Absent
  <2> HIDE DEF file
  <2> QED
    BY <1>1, <2>1, <2>2, Zenon DEF Steps
<1> QED
  BY <1>4, <1>5, <1>6, <1>7, <1>8

LEMMA InstallStep ==
    ASSUME Typed, NEW t \in Threads, Install(t)
    PROVE  Steps
<1> DEFINE d == Checked(th[t].via)
<1>1. d \in {Idle, Rebuild} /\ d \in Thread
  BY DEF Checked, Rebuild, Thread
<1>2. UNCHANGED <<disk, writes>> /\ th[t].pc = "read" /\ th[t].todo = {}
  BY DEF Install
<1> HIDE DEF d
<1>3. CASE th[t].kind = "init" /\ hub.loaded
  <2>1. th' = [th EXCEPT ![t] = d] /\ UNCHANGED <<hub, cache>>
    BY <1>3 DEF Install, d
  <2>2. ThreadMoves(t, d)
    BY <1>1, <1>2, <2>1 DEF ThreadMoves, MovesOn
  <2> QED
    BY <1>1, <2>2, Zenon DEF Steps
<1>4. CASE ~(th[t].kind = "init" /\ hub.loaded)
  <2>1. Installs(t, d)
    BY <1>1, <1>2, <1>4 DEF Install, Installs, d, StoredFp
  <2> QED
    BY <1>1, <2>1, Zenon DEF Steps
<1> QED
  BY <1>3, <1>4

LEMMA StepsOnly ==
    ASSUME Typed, [Next]_vars
    PROVE  Steps
<1>0. ASSUME NEW t \in Threads, \E d \in Thread : ThreadMoves(t, d)
      PROVE  Steps
  BY <1>0, Zenon DEF Steps
<1>1. CASE \E f \in Changing : Truncate(f) \/ WriteHalf(f) \/ Finish(f) \/ Replace(f) \/ Delete(f)
  BY <1>1, DiskStep
<1>2. CASE WindowEnds \/ UNCHANGED vars
  BY <1>2 DEF Steps, WindowEnds, vars
<1>3. ASSUME NEW t \in Threads, InitHub(t)
      PROVE  Steps
  BY <1>3, <1>0, ReloadStarts DEF InitHub
<1>4. ASSUME NEW t \in Threads, NEW via \in {"router", "other"}, Poll(t, via)
      PROVE  Steps
  <2>1. PICK kind \in {"init", "check", "force"} : StartReload(t, kind, via)
    <3>1. StartReload(t, "force", via) \/ StartReload(t, "check", via)
      BY <1>4, Zenon DEF Poll
    <3> QED
      BY <3>1
  <2>2. UNCHANGED <<disk, writes, hub, cache>>
    BY <1>4 DEF Poll
  <2> QED
    BY <2>1, <2>2, <1>0, ReloadStarts
<1>5. ASSUME NEW t \in Threads, Watch(t)
      PROVE  Steps
  BY <1>5, <1>0, ReloadStarts DEF Watch
<1>6. ASSUME NEW t \in Threads, NEW f \in Files, NEW failed \in BOOLEAN, ReadNext(t, f, failed)
      PROVE  Steps
  BY <1>6, <1>0, FileRead
<1>7. ASSUME NEW t \in Threads, Install(t)
      PROVE  Steps
  BY <1>7, InstallStep
<1>8. ASSUME NEW t \in Threads, TakeProfile(t)
      PROVE  Steps
  <2> DEFINE d == [pc |-> "configure", profile |-> Resolved(Self)]
  <2>1. d \in Configuring /\ d \in Thread
    BY ResolvedType DEF Configuring, Thread, Typed
  <2>2. ThreadMoves(t, d)
    BY <1>8, <2>1, Zenon DEF TakeProfile, ThreadMoves, MovesOn
  <2> QED
    BY <1>0, <2>1, <2>2
<1>9. ASSUME NEW t \in Threads, Configure(t)
      PROVE  Steps
  <2>1. ThreadMoves(t, Idle) /\ Idle \in Thread
    BY <1>9 DEF Configure, ThreadMoves, MovesOn, Thread
  <2> QED
    BY <1>0, <2>1
<1>10. ASSUME NEW t \in Threads, LookUp(t)
       PROVE  Steps
  <2> DEFINE d == [pc |-> "profile", current |-> TRUE]
  <2>1. d \in Thread
    BY DEF Profiling, Thread
  <2>2. hub.loaded = TRUE
    BY <1>10, Zenon DEF LookUp
  <2>3. ThreadMoves(t, d)
    BY <1>10, <2>1, <2>2, Zenon DEF LookUp, ThreadMoves, MovesOn
  <2> QED
    BY <1>0, <2>1, <2>3
<1>11. ASSUME NEW t \in Threads, ReadProfile(t)
       PROVE  Steps
  <2> DEFINE d == [pc |-> "raw", current |-> th[t].current, profile |-> Resolved(Self)]
  <2>1. th[t] \in Profiling
    BY <1>11, ThreadKinds DEF ReadProfile, Typed
  <2>2. d \in RawReading /\ d \in Thread
    BY <2>1, ResolvedType DEF Profiling, RawReading, Thread, Typed
  <2>3. ThreadMoves(t, d)
    BY <1>11, <2>2, Zenon DEF ReadProfile, ThreadMoves, MovesOn
  <2> QED
    BY <1>0, <2>2, <2>3
<1>12. ASSUME NEW t \in Threads, ReadRaw(t)
       PROVE  Steps
  <2>1. Fills(t)
    BY <1>12 DEF ReadRaw, Fills, CachedVersion
  <2> QED
    BY <2>1, Zenon DEF Steps
<1>13. CASE \E t \in Threads : Work(t) \/ Poll(t, "router") \/ Poll(t, "other") \/ Watch(t) \/ LookUp(t)
  <2>1. PICK t \in Threads :
           Work(t) \/ Poll(t, "router") \/ Poll(t, "other") \/ Watch(t) \/ LookUp(t)
    BY <1>13
  <2>2. CASE Work(t)
    BY <2>2, <1>3, <1>6, <1>7, <1>8, <1>9, <1>11, <1>12 DEF Work
  <2> QED
    BY <2>1, <2>2, <1>4, <1>5, <1>10
<1> QED
  BY <1>1, <1>2, <1>13 DEF Next

-----------------------------------------------------------------------------
(* Each part is preserved by every shape of step.                              *)

LEMMA MovesSound ==
    ASSUME NEW c \in Thread, NEW d \in Thread, MovesOn(c, d), d.pc = "read"
    PROVE  /\ d \in Reading /\ Sound(d.apps)
           /\ Begun(d) \/ (c.pc = "read" /\ \E f \in Files : Proceeds(c, d, f))
<1>1. d \in Reading
  BY ThreadKinds
<1>2. d # Idle /\ d # Rebuild /\ d \notin Configuring /\ d # [pc |-> "profile", current |-> TRUE]
  BY DEF Idle, Rebuild, Configuring
<1>3. d # [pc |-> "raw", current |-> c.current, profile |-> Resolved(Self)]
  OBVIOUS
<1>4. Begun(d) \/ (c.pc = "read" /\ \E f \in Files : Proceeds(c, d, f))
  BY <1>2, <1>3, Zenon DEF MovesOn
<1> QED
  BY <1>1, <1>4 DEF Begun, Proceeds

\* What an installation makes of the other threads.
LEMMA InstallKeeps ==
    ASSUME NEW c \in Thread
    PROVE  /\ Outdated(c) \in Thread /\ Outdated(c).pc = c.pc
           /\ c.pc = "read" => Outdated(c) = c
           /\ c.pc \in {"profile", "raw"} => Outdated(c).current = FALSE
<1>1. CASE c.pc = "profile"
  BY <1>1, ThreadKinds DEF Outdated, Profiling, Thread
<1>2. CASE c.pc = "raw"
  BY <1>2, ThreadKinds DEF Outdated, RawReading, Thread
<1>3. CASE c.pc \notin {"profile", "raw"}
  BY <1>3 DEF Outdated
<1> QED
  BY <1>1, <1>2, <1>3

LEMMA InstallLeaves ==
    ASSUME th \in [Threads -> Thread], NEW t \in Threads, NEW d \in {Idle, Rebuild}, Installs(t, d)
    PROVE  /\ \A u \in Threads : th'[u].pc = "read" => th'[u] = th[u]
           /\ \A u \in Threads : th'[u].pc \in {"profile", "raw"} => th'[u].current = FALSE
<1>1. d.pc \notin {"read", "profile", "raw"}
  BY DEF Idle, Rebuild
<1>2. \A u \in Threads : th'[u] = IF u = t THEN d ELSE Outdated(th[u])
  BY DEF Installs
<1>3. \A u \in Threads : /\ Outdated(th[u]).pc = "read" => Outdated(th[u]) = th[u]
                         /\ Outdated(th[u]).pc \in {"profile", "raw"} => Outdated(th[u]).current = FALSE
  BY InstallKeeps
<1> QED
  BY <1>1, <1>2, <1>3

LEMMA TypedStep ==
    ASSUME Typed, Steps
    PROVE  Typed'
<1>0. /\ disk \in [Files -> File] /\ writes \in Nat /\ writes \in 0 .. MaxWrites /\ MaxWrites \in Nat
      /\ hub \in Hub /\ th \in [Threads -> Thread] /\ cache \in [Writers -> Cached]
      /\ Sound(hub.apps) /\ \A t \in Threads : th[t].pc = "read" => Sound(th[t].apps)
  BY HubAssumption DEF Typed
<1>1. ASSUME NEW f \in Files, NEW file \in File, DiskChanges(f, file)
      PROVE  Typed'
  <2>1. disk' \in [Files -> File] /\ writes' \in 0 .. MaxWrites
    BY <1>0, <1>1 DEF DiskChanges
  <2> QED
    BY <1>0, <1>1, <2>1 DEF DiskChanges, Typed, Sound
<1>2. ASSUME NEW t \in Threads, NEW d \in Thread, ThreadMoves(t, d)
      PROVE  Typed'
  <2>1. th' \in [Threads -> Thread]
    BY <1>0, <1>2 DEF ThreadMoves
  <2>2. ASSUME NEW u \in Threads, th'[u].pc = "read"
        PROVE  Sound(th'[u].apps)
    <3>1. CASE u = t
      BY <3>1, <2>2, <1>0, <1>2, MovesSound DEF ThreadMoves
    <3>2. CASE u # t
      BY <3>2, <2>2, <1>0, <1>2 DEF ThreadMoves
    <3> QED
      BY <3>1, <3>2
  <2> QED
    BY <1>0, <1>2, <2>1, <2>2 DEF ThreadMoves, Typed, Sound
<1>3. ASSUME NEW t \in Threads, NEW d \in {Idle, Rebuild}, Installs(t, d)
      PROVE  Typed'
  <2>1. th[t] \in Reading /\ Sound(th[t].apps)
    BY <1>0, <1>3, ThreadKinds DEF Installs
  <2>2. hub' \in Hub /\ hub'.apps = th[t].apps
    BY <2>1, <1>3 DEF Installs, Reading, Hub
  <2>3. \A u \in Threads : Outdated(th[u]) \in Thread
                             /\ (Outdated(th[u]).pc = "read" => Outdated(th[u]) = th[u])
    BY <1>0, InstallKeeps
  <2>4. d \in Thread /\ d.pc # "read"
    BY DEF Thread, Idle, Rebuild
  <2>5. th' \in [Threads -> Thread] /\ \A u \in Threads : th'[u].pc = "read" => Sound(th'[u].apps)
    BY <1>0, <1>3, <2>3, <2>4 DEF Installs
  <2>6. cache' \in [Writers -> Cached]
    BY <1>0, <1>3 DEF Installs, Cached
  <2> QED
    BY <1>0, <1>3, <2>1, <2>2, <2>5, <2>6 DEF Installs, Typed, Sound
<1>4. ASSUME NEW t \in Threads, Fills(t)
      PROVE  Typed'
  <2>1. th[t] \in RawReading
    BY <1>0, <1>4, ThreadKinds DEF Fills
  <2>2. disk[Self] \in File
    BY <1>0, HubAssumption DEF Files
  <2>3. RawReadOnly(disk[Self]) \in SUBSET Path
    BY <2>2, RawType
  <2>4. cache' \in [Writers -> Cached]
    BY <1>0, <1>4, <2>1, <2>3 DEF Fills, Cached, RawReading
  <2>5. Idle \in Thread /\ Idle.pc # "read"
    BY DEF Thread, Idle
  <2>6. th' \in [Threads -> Thread] /\ \A u \in Threads : th'[u].pc = "read" => Sound(th'[u].apps)
    BY <1>0, <1>4, <2>5 DEF Fills
  <2> QED
    BY <1>0, <1>4, <2>4, <2>6 DEF Fills, Typed, Sound
<1>5. CASE UNCHANGED <<disk, writes, hub, th, cache>>
  BY <1>0, <1>5 DEF Typed, Sound
<1> QED
  BY <1>1, <1>2, <1>3, <1>4, <1>5 DEF Steps

LEMMA StampStep ==
    ASSUME Typed, StampInv, Steps
    PROVE  StampInv'
<1>0. /\ disk \in [Files -> File] /\ writes \in Nat
      /\ hub.fp \in Stamps /\ th \in [Threads -> Thread]
      /\ \A t \in Threads : th[t].pc = "read" => th[t].fp \in Stamps
  BY HubAssumption, ThreadKinds DEF Typed, Hub, Reading
<1>1. ASSUME NEW f \in Files, NEW file \in File, DiskChanges(f, file)
      PROVE  StampInv'
  <2>1. \A g \in Files : disk'[g] = IF g = f THEN file ELSE disk[g]
    BY <1>0, <1>1 DEF DiskChanges
  <2>2. \A g \in Files : disk'[g].stamp <= writes' + 1 /\ (disk'[g].stamp = 0 <=> disk'[g].form = "absent")
    <3>1. file.stamp <= writes + 2 /\ (file.stamp = 0 <=> file.form = "absent") /\ writes' = writes + 1
      BY <1>0, <1>1 DEF DiskChanges
    <3>2. \A g \in Files : disk[g].stamp \in Nat
      BY <1>0 DEF File
    <3> QED
      BY <2>1, <3>1, <3>2, <1>0 DEF StampInv
  <2>3. \A g \in Files : hub'.fp[g] <= writes' + 1
    BY <1>0, <1>1 DEF DiskChanges, StampInv, Stamps
  <2>4. ASSUME NEW t \in Threads, th'[t].pc = "read", NEW g \in Files
        PROVE  th'[t].fp[g] <= writes' + 1
    BY <2>4, <1>0, <1>1 DEF DiskChanges, StampInv, Stamps
  <2> QED
    BY <2>2, <2>3, <2>4 DEF StampInv
<1>2. ASSUME NEW t \in Threads, NEW d \in Thread, ThreadMoves(t, d)
      PROVE  StampInv'
  <2>1. ASSUME NEW u \in Threads, th'[u].pc = "read", NEW g \in Files
        PROVE  th'[u].fp[g] <= writes' + 1
    <3>1. CASE u # t
      BY <3>1, <2>1, <1>0, <1>2 DEF ThreadMoves, StampInv
    <3>2. CASE u = t
      <4>1. th'[u] = d /\ MovesOn(th[t], d) /\ writes' = writes
        BY <3>2, <1>0, <1>2 DEF ThreadMoves
      <4>2. Begun(d) \/ (th[t].pc = "read" /\ \E f \in Files : Proceeds(th[t], d, f))
        BY <4>1, <2>1, <1>0, MovesSound
      <4>3. CASE Begun(d)
        BY <4>1, <4>3 DEF Begun, Fingerprint, StampInv
      <4>4. CASE th[t].pc = "read" /\ \E f \in Files : Proceeds(th[t], d, f)
        BY <4>1, <4>4 DEF Proceeds, StampInv
      <4> QED
        BY <4>2, <4>3, <4>4
    <3> QED
      BY <3>1, <3>2
  <2> QED
    BY <1>2, <2>1 DEF ThreadMoves, StampInv
<1>3. ASSUME NEW t \in Threads, NEW d \in {Idle, Rebuild}, Installs(t, d)
      PROVE  StampInv'
  <2>1. hub'.fp = th[t].fp /\ th[t].pc = "read" /\ UNCHANGED <<disk, writes>>
    BY <1>3 DEF Installs
  <2>2. \A u \in Threads : th'[u].pc = "read" => th'[u] = th[u]
    BY <1>0, <1>3, InstallLeaves
  <2> QED
    BY <2>1, <2>2 DEF StampInv
<1>4. ASSUME NEW t \in Threads, Fills(t)
      PROVE  StampInv'
  <2>1. \A u \in Threads : th'[u].pc = "read" => th'[u] = th[u]
    BY <1>0, <1>4 DEF Fills, Idle
  <2> QED
    BY <2>1, <1>4 DEF Fills, StampInv
<1>5. CASE UNCHANGED <<disk, writes, hub, th, cache>>
  BY <1>5 DEF StampInv
<1> QED
  BY <1>1, <1>2, <1>3, <1>4, <1>5 DEF Steps

LEMMA LoadStep ==
    ASSUME Typed, StampInv, LoadInv, Steps
    PROVE  LoadInv'
<1>0. /\ disk \in [Files -> File] /\ writes \in Nat
      /\ hub \in Hub /\ th \in [Threads -> Thread] /\ hub.fp \in Stamps
      /\ \A t \in Threads : th[t].pc = "read" => th[t] \in Reading /\ th[t].fp \in Stamps
  BY HubAssumption, ThreadKinds DEF Typed, Hub, Reading
<1>1. ASSUME NEW f \in Files, NEW file \in File, DiskChanges(f, file)
      PROVE  LoadInv'
  <2>1. \A g \in Files : disk'[g] = IF g = f THEN file ELSE disk[g]
    BY <1>0, <1>1 DEF DiskChanges
  <2>2. file.form = "ok" => file.stamp = writes + 2
    BY <1>1 DEF DiskChanges
  <2>3. ASSUME NEW c, c.fp \in Stamps, \A g \in Files : c.fp[g] <= writes + 1,
               NEW todo, HonestAbout(c, todo, disk)
        PROVE  HonestAbout(c, todo, disk')
    <3> SUFFICES ASSUME NEW g \in Files \ (todo \cup c.unread),
                        c.fp[g] = disk'[g].stamp, disk'[g].form = "ok"
                 PROVE  Agrees(c, g, disk')
      BY DEF HonestAbout
    <3>1. g # f
      BY <2>1, <2>2, <2>3, <1>0 DEF Stamps
    <3>2. disk'[g] = disk[g]
      BY <2>1, <3>1
    <3>3. Agrees(c, g, disk)
      BY <3>2, <2>3 DEF HonestAbout
    <3> QED
      BY <3>2, <3>3, Zenon DEF Agrees
  <2>4. hub.loaded = TRUE => HonestAbout(hub, {}, disk')
    BY <2>3, <1>0 DEF LoadInv, StampInv
  <2>5. \A t \in Threads : th[t].pc = "read" => HonestAbout(th[t], th[t].todo, disk')
    BY <2>3, <1>0 DEF LoadInv, StampInv
  <2> QED
    BY <2>4, <2>5, <1>1 DEF LoadInv, DiskChanges
<1>2. ASSUME NEW t \in Threads, NEW d \in Thread, ThreadMoves(t, d)
      PROVE  LoadInv'
  <2>1. /\ \A u \in Threads : th'[u] = IF u = t THEN d ELSE th[u]
        /\ UNCHANGED <<disk, writes, hub, cache>> /\ MovesOn(th[t], d)
    BY <1>0, <1>2 DEF ThreadMoves
  <2>2. ASSUME d.pc = "read"
        PROVE  HonestAbout(d, d.todo, disk)
    <3>1. Begun(d) \/ (th[t].pc = "read" /\ \E f \in Files : Proceeds(th[t], d, f))
      BY <2>1, <2>2, <1>0, MovesSound
    <3>2. CASE Begun(d)
      BY <3>2, <1>0 DEF Begun, HonestAbout, StampInv, Fingerprint, File
    <3>3. CASE th[t].pc = "read" /\ \E f \in Files : Proceeds(th[t], d, f)
      <4>1. PICK f \in Files : Proceeds(th[t], d, f)
        BY <3>3
      <4>2. HonestAbout(th[t], th[t].todo, disk)
        BY <3>3 DEF LoadInv
      <4> QED
        BY <4>1, <4>2 DEF Proceeds, HonestAbout
    <3> QED
      BY <3>1, <3>2, <3>3
  <2>3. ASSUME NEW u \in Threads, th'[u].pc = "read"
        PROVE  HonestAbout(th'[u], th'[u].todo, disk)
    BY <2>1, <2>2, <2>3 DEF LoadInv
  <2> QED
    BY <2>1, <2>3 DEF LoadInv
<1>3. ASSUME NEW t \in Threads, NEW d \in {Idle, Rebuild}, Installs(t, d)
      PROVE  LoadInv'
  <2>1. /\ UNCHANGED <<disk, writes>> /\ th[t].pc = "read" /\ th[t].todo = {}
        /\ hub'.fp = th[t].fp /\ hub'.monitor = th[t].monitor
        /\ hub'.apps = th[t].apps /\ hub'.unread = th[t].unread
    BY <1>3 DEF Installs
  <2>2. HonestAbout(th[t], {}, disk)
    BY <2>1 DEF LoadInv
  <2>3. HonestAbout(hub', {}, disk)
    BY <2>1, <2>2 DEF HonestAbout, Agrees
  <2>4. \A u \in Threads : th'[u].pc = "read" => th'[u] = th[u]
    BY <1>0, <1>3, InstallLeaves
  <2> QED
    BY <2>1, <2>3, <2>4 DEF LoadInv
<1>4. ASSUME NEW t \in Threads, Fills(t)
      PROVE  LoadInv'
  <2>1. \A u \in Threads : th'[u].pc = "read" => th'[u] = th[u]
    BY <1>0, <1>4 DEF Fills, Idle
  <2> QED
    BY <2>1, <1>4 DEF Fills, LoadInv
<1>5. CASE UNCHANGED <<disk, writes, hub, th, cache>>
  BY <1>5 DEF LoadInv
<1> QED
  BY <1>1, <1>2, <1>3, <1>4, <1>5 DEF Steps

LEMMA VersionStep ==
    ASSUME Typed, StampInv, VersionInv, Steps
    PROVE  VersionInv'
<1>0. /\ disk \in [Files -> File] /\ writes \in Nat /\ Self \in Files
      /\ hub.fp \in Stamps /\ th \in [Threads -> Thread] /\ cache \in [Writers -> Cached]
  BY HubAssumption DEF Typed, Hub, Files
<1>1. ASSUME NEW f \in Files, NEW file \in File, DiskChanges(f, file)
      PROVE  VersionInv'
  <2>1. disk'[Self] = disk[Self] \/ (disk'[Self] = file /\ f = Self)
    BY <1>0, <1>1 DEF DiskChanges
  <2>2. hub.fp[Self] = disk'[Self].stamp /\ disk'[Self].form # "absent" => disk'[Self] = disk[Self]
    BY <2>1, <1>0, <1>1 DEF DiskChanges, StampInv, Stamps
  <2>3. UNCHANGED <<hub, th, cache>> /\ Resolved(Self)' = Resolved(Self)
    BY <1>1 DEF DiskChanges, Resolved
  <2> QED
    BY <2>2, <2>3 DEF VersionInv
<1>2. ASSUME NEW t \in Threads, NEW d \in Thread, ThreadMoves(t, d)
      PROVE  VersionInv'
  <2>1. /\ \A u \in Threads : th'[u] = IF u = t THEN d ELSE th[u]
        /\ UNCHANGED <<disk, writes, hub, cache>> /\ MovesOn(th[t], d)
        /\ Resolved(Self)' = Resolved(Self)
    BY <1>0, <1>2 DEF ThreadMoves, Resolved
  <2>2. ASSUME d.pc \in {"profile", "raw"}, d.current = TRUE
        PROVE  hub.loaded = TRUE /\ (d.pc = "raw" => d.profile = Resolved(Self))
    <3>1. d # Idle /\ d # Rebuild /\ d \notin Configuring /\ ~Begun(d)
          /\ \A f \in Files : ~Proceeds(th[t], d, f)
      BY <2>2 DEF Idle, Rebuild, Configuring, Begun, Proceeds, Reading
    <3>2. \/ hub.loaded = TRUE /\ d = [pc |-> "profile", current |-> TRUE]
          \/ th[t].pc = "profile"
             /\ d = [pc |-> "raw", current |-> th[t].current, profile |-> Resolved(Self)]
      BY <3>1, <2>1, Zenon DEF MovesOn
    <3>3. CASE hub.loaded = TRUE /\ d = [pc |-> "profile", current |-> TRUE]
      BY <3>3
    <3>4. CASE /\ th[t].pc = "profile"
               /\ d = [pc |-> "raw", current |-> th[t].current, profile |-> Resolved(Self)]
      BY <3>4, <2>2 DEF VersionInv
    <3> QED
      BY <3>2, <3>3, <3>4
  <2>3. ASSUME NEW u \in Threads, th'[u].pc \in {"profile", "raw"}, th'[u].current = TRUE
        PROVE  hub.loaded = TRUE /\ (th'[u].pc = "raw" => th'[u].profile = Resolved(Self))
    BY <2>1, <2>2, <2>3 DEF VersionInv
  <2> QED
    BY <2>1, <2>3 DEF VersionInv
<1>3. ASSUME NEW t \in Threads, NEW d \in {Idle, Rebuild}, Installs(t, d)
      PROVE  VersionInv'
  <2>1. \A u \in Threads : th'[u].pc \in {"profile", "raw"} => th'[u].current = FALSE
    BY <1>0, <1>3, InstallLeaves
  <2>2. \A u \in Writers : cache'[u].current = FALSE
    BY <1>0, <1>3 DEF Installs, Cached
  <2> QED
    BY <2>1, <2>2 DEF VersionInv
<1>4. ASSUME NEW t \in Threads, Fills(t)
      PROVE  VersionInv'
  <2>1. /\ th[t].pc = "raw" /\ UNCHANGED <<disk, hub>> /\ Resolved(Self)' = Resolved(Self)
        /\ \A u \in Threads : th'[u] = IF u = t THEN Idle ELSE th[u]
    BY <1>0, <1>4 DEF Fills, Resolved
  <2>2. \A u \in Writers : cache'[u] = IF u = t
            THEN [current |-> th[t].current, profile |-> th[t].profile,
                  raw |-> RawReadOnly(disk[Self])]
            ELSE cache[u]
    BY <1>0, <1>4 DEF Fills
  <2>3. ASSUME NEW u \in Threads, th'[u].pc \in {"profile", "raw"}
        PROVE  th'[u] = th[u]
    BY <2>1, <2>3 DEF Idle
  <2>4. ASSUME NEW u \in Writers, cache'[u].current = TRUE
        PROVE  /\ hub.loaded = TRUE /\ cache'[u].profile = Resolved(Self)
               /\ hub.fp[Self] = disk[Self].stamp /\ disk[Self].form # "absent"
                    => cache'[u].raw = RawReadOnly(disk[Self])
    <3>1. CASE u = t
      BY <3>1, <2>1, <2>2, <2>4 DEF VersionInv
    <3>2. CASE u # t
      BY <3>2, <2>2, <2>4 DEF VersionInv
    <3> QED
      BY <3>1, <3>2
  <2> QED
    BY <2>1, <2>3, <2>4 DEF VersionInv
<1>5. CASE UNCHANGED <<disk, writes, hub, th, cache>>
  BY <1>5 DEF VersionInv, Resolved
<1> QED
  BY <1>1, <1>2, <1>3, <1>4, <1>5 DEF Steps

-----------------------------------------------------------------------------
LEMMA HubInit == Init => HubInv
<1> SUFFICES ASSUME Init
             PROVE  HubInv
  OBVIOUS
<1>1. disk \in [Files -> File] /\ \A f \in Files : disk[f].stamp <= 1 /\ (disk[f].stamp = 0 <=> disk[f].form = "absent")
  <2>1. Absent \in File /\ \A w \in Written \cup {Kept} : [stamp |-> 1, form |-> "ok", raw |-> w] \in File
    BY DEF Absent, File, Raw
  <2>2. disk \in [Files -> {Absent} \cup {[stamp |-> 1, form |-> "ok", raw |-> w] : w \in Written \cup {Kept}}]
    BY DEF Init
  <2>3. \A f \in Files : disk[f] = Absent
          \/ \E w \in Written \cup {Kept} : disk[f] = [stamp |-> 1, form |-> "ok", raw |-> w]
    BY <2>2
  <2>4. ASSUME NEW f \in Files
        PROVE  disk[f] \in File /\ disk[f].stamp <= 1 /\ (disk[f].stamp = 0 <=> disk[f].form = "absent")
    <3>1. CASE disk[f] = Absent
      BY <3>1, <2>1 DEF Absent
    <3>2. ASSUME NEW w \in Written \cup {Kept}, disk[f] = [stamp |-> 1, form |-> "ok", raw |-> w]
          PROVE  disk[f] \in File /\ disk[f].stamp <= 1 /\ (disk[f].stamp = 0 <=> disk[f].form = "absent")
      BY <3>2, <2>1
    <3> QED
      BY <2>3, <3>1, <3>2
  <2>5. disk = [f \in Files |-> disk[f]]
    BY <2>2
  <2> QED
    BY <2>5, <2>4
<1>2. writes = 0 /\ hub = Unloaded /\ th = [t \in Threads |-> Idle]
      /\ cache = [t \in Writers |-> [current |-> FALSE, profile |-> NoProfile, raw |-> {}]]
  BY DEF Init
<1>3. hub \in Hub /\ Sound(hub.apps) /\ hub.loaded = FALSE /\ \A f \in Files : hub.fp[f] = 0
  <2> DEFINE fp == [f \in Files |-> 0]
             apps == [a \in Apps |-> NoProfile]
  <2>1. fp \in Stamps /\ apps \in [Apps -> Profile] /\ Sound(apps)
    BY NoProfileType DEF Stamps, Sound
  <2>2. hub = [loaded |-> FALSE, fp |-> fp, monitor |-> FALSE, apps |-> apps, unread |-> {}]
    BY <1>2, Zenon DEF Unloaded
  <2>3. \A f \in Files : fp[f] = 0
    OBVIOUS
  <2> HIDE DEF fp, apps
  <2> QED
    BY <2>1, <2>2, <2>3 DEF Hub
<1>4. cache \in [Writers -> Cached] /\ \A t \in Writers : cache[t].current = FALSE
  BY <1>2, NoProfileType DEF Cached
<1>5. th \in [Threads -> Thread] /\ \A t \in Threads : th[t].pc = "idle"
  BY <1>2 DEF Thread, Idle
<1>6. Typed
  <2>1. writes \in 0 .. MaxWrites
    BY <1>2, HubAssumption
  <2> QED
    BY <2>1, <1>1, <1>3, <1>4, <1>5 DEF Typed
<1>7. StampInv
  BY <1>1, <1>2, <1>3, <1>5 DEF StampInv
<1>8. LoadInv /\ VersionInv
  BY <1>3, <1>4, <1>5 DEF LoadInv, VersionInv
<1> QED
  BY <1>6, <1>7, <1>8 DEF HubInv

LEMMA HubStep == HubInv /\ [Next]_vars => HubInv'
BY StepsOnly, TypedStep, StampStep, LoadStep, VersionStep DEF HubInv

LEMMA HubEnough == HubInv => CacheHonest
<1> SUFFICES ASSUME HubInv
             PROVE  CacheHonest
  OBVIOUS
<1>1. TypeOK
  <2>1. \A f \in Files : disk[f].form \in {"absent", "empty", "half", "ok"} /\ disk[f].stamp <= MaxWrites + 1
    BY HubAssumption DEF HubInv, Typed, StampInv, File
  <2>2. hub.unread \subseteq Files /\ \A a \in Apps : hub.apps[a].readOnly \cap hub.apps[a].excluded = {}
    BY DEF HubInv, Typed, Hub, Sound
  <2>3. \A t \in Threads : th[t].pc \in {"idle", "read", "rebuild", "configure", "profile", "raw"}
    BY ThreadKinds DEF HubInv, Typed
  <2>4. \A t \in Writers : cache[t].current => hub.loaded
    <3>1. SUFFICES ASSUME NEW t \in Writers, cache[t].current
                   PROVE  hub.loaded
      OBVIOUS
    <3>2. cache[t].current = TRUE
      BY <3>1, Zenon
    <3>3. hub.loaded = TRUE
      BY <3>2 DEF HubInv, VersionInv
    <3> QED
      BY <3>3
  <2> QED
    BY <2>1, <2>2, <2>3, <2>4 DEF TypeOK
<1>2. FingerprintHonest
  <2> SUFFICES ASSUME hub.loaded, hub.fp = Fingerprint, NEW f \in Files, disk[f].form = "ok", f \notin hub.unread
               PROVE  Holds(f)
    BY DEF FingerprintHonest
  <2>1. hub.loaded = TRUE
    BY Zenon
  <2>2. HonestAbout(hub, {}, disk) /\ hub.fp[f] = disk[f].stamp
    BY <2>1 DEF HubInv, LoadInv, Fingerprint
  <2>3. Agrees(hub, f, disk)
    BY <2>2 DEF HonestAbout
  <2> QED
    BY <2>3, Zenon DEF Agrees, Holds
<1>3. CacheFresh
  <2> SUFFICES ASSUME NEW t \in Writers, cache[t].current
               PROVE  /\ cache[t].profile = Resolved(Self)
                      /\ hub.fp = Fingerprint /\ disk[Self].form # "absent"
                           => cache[t].raw = RawReadOnly(disk[Self])
    BY DEF CacheFresh
  <2>1. cache[t].current = TRUE
    BY Zenon
  <2>2. hub.fp = Fingerprint => hub.fp[Self] = disk[Self].stamp
    BY HubAssumption DEF Fingerprint, Files
  <2> QED
    BY <2>1, <2>2 DEF HubInv, VersionInv
<1> QED
  BY <1>1, <1>2, <1>3 DEF CacheHonest

\* The state that carries the fingerprint of the files on disk was read from
\* them, and what a writer thread caches under the current version is what this
\* state says: in every order of the manager's writes, the reloads of any number
\* of threads and the failures of their reads (config/source.rs:
\* reload_from_dir; redirect/writer.rs: with_cached_caller_allowed_cache).
THEOREM CacheIsHonest == Spec => []CacheHonest
<1>1. Spec => []HubInv
  BY HubInit, HubStep, PTL DEF Spec
<1> QED
  BY <1>1, HubEnough, PTL
=============================================================================
