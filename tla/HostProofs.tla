----------------------------- MODULE HostProofs -----------------------------
(* The shared host from two sides, for every value of the constants.  Neither *)
(* guard aborts a connection that a thread could still answer.  And whatever  *)
(* step of zygote, companion, child, daemon and host comes first, a start is  *)
(* answered "failed" behind a barrier and "ok" under a view of the module, a  *)
(* captured process keeps the system's view and nobody runs on with the       *)
(* companion's connection.                                                    *)
EXTENDS HostStall, AppStart, TLAPS, SequenceTheorems, FiniteSetTheorems, WellFoundedInduction

-----------------------------------------------------------------------------
(* The two guards against a stalled host.                                    *)

LEMMA Limits ==
    /\ Threads \in Nat /\ Threads > 0 /\ MaxQueue \in Nat /\ MaxGen \in Nat
    /\ NoCompletion \in Nat /\ NoCompletion > 0 /\ Sample \in Nat /\ VerifyTime \in Nat /\ 2 * Sample < VerifyTime
    /\ ProbeThrottle \in Nat /\ ProbeTimeout \in Nat /\ VerifyThrottle \in Nat /\ Cooldown \in Nat
    /\ MaxAge \in Nat /\ MaxStall \in Nat
BY HostStallAssumption DEF MaxAge, MaxStall

Hosts == [gen : 0 .. MaxGen, up : BOOLEAN, conn : {"live", "aborted"}, frozen : BOOLEAN]
Dogs == [pc : {"poll", "probe", "off"}, flow : BOOLEAN, confirm : BOOLEAN,
         since : 0 .. ProbeThrottle, prog : 0 .. ProbeTimeout]
Beats == [gen : 0 .. MaxGen, waiting : BOOLEAN, flow : BOOLEAN, comp : 0 .. MaxAge, old : 0 .. MaxAge]
Exts == [pc : {"watch", "verify"}, gen : 0 .. MaxGen, prog : 0 .. VerifyTime,
         rest : 0 .. VerifyThrottle, cool : 0 .. Cooldown]

\* What the watchdog's confirmation rests on: since the probe failed no thread
\* came free, or one did and the completion it made refutes the stall.  A thread
\* that probes has no confirmation yet.
StallInv ==
    /\ dog.confirm = TRUE => ~Answered \/ ~Live \/ age = 0
    /\ dog.pc # "poll" => dog.confirm = FALSE

LEMMA CappedType ==
    ASSUME NEW m \in Nat, NEW n \in 0 .. m
    PROVE  Capped(n, m) \in 0 .. m /\ Down(n) \in 0 .. m
BY DEF Capped, Down

LEMMA DogType ==
    /\ \A pc \in {"poll", "off"} : Dog(pc) \in Dogs /\ Dog(pc).pc = pc /\ Dog(pc).confirm = FALSE
    /\ HostGone.up = FALSE
BY Limits DEF Dog, Dogs, HostGone

LEMMA GoneType == host \in Hosts => HostGone \in Hosts /\ HostGone.up = FALSE
BY DEF Hosts, HostGone

LEMMA ExtStep ==
    ASSUME TypeOK, ExtTick
    PROVE  ext' \in Exts
<1>0. ext \in Exts /\ beat.gen \in 0 .. MaxGen
  BY DEF TypeOK, Exts
<1> DEFINE aged == [ext EXCEPT !.rest = Down(@), !.cool = Down(@)]
<1>1. aged \in Exts /\ aged.prog = ext.prog /\ aged.gen = ext.gen
  BY <1>0, CappedType, Limits DEF Exts
<1>2. ext.prog + 1 >= VerifyTime \/ ext.prog + 1 \in 0 .. VerifyTime
  BY <1>0, Limits DEF Exts
<1>3. VerifyThrottle \in 0 .. VerifyThrottle /\ Cooldown \in 0 .. Cooldown /\ 0 \in 0 .. VerifyTime /\ 0 \in 0 .. MaxGen
  BY Limits
<1> HIDE DEF aged
<1>4. \/ ext' = aged
      \/ ext' = [aged EXCEPT !.pc = "verify", !.gen = beat.gen, !.prog = 0, !.rest = VerifyThrottle]
      \/ ext' = [aged EXCEPT !.pc = "watch", !.gen = 0, !.prog = 0, !.cool = Cooldown]
      \/ ext' = [aged EXCEPT !.pc = "watch", !.gen = 0, !.prog = 0]
      \/ /\ ext' = [aged EXCEPT !.prog = aged.prog + 1]
         /\ ext.pc # "watch" /\ ~VerifyFails /\ ~Cleared
  BY Zenon DEF ExtTick, aged
<1>5. ext.pc # "watch" /\ ~VerifyFails /\ ~Cleared => aged.prog + 1 \in 0 .. VerifyTime
  BY <1>0, <1>1, <1>2 DEF VerifyFails, Exts
<1> QED
  BY <1>0, <1>1, <1>3, <1>4, <1>5 DEF Exts

\* The watchdog's tick: it confirms only what it could not get an answer to.
LEMMA DogStep ==
    ASSUME TypeOK, StallInv, DogTick
    PROVE  /\ dog' \in Dogs
           /\ dog'.pc # "poll" => dog'.confirm = FALSE
           /\ dog'.confirm = TRUE => ~Answered \/ ~Live
<1>0. dog \in Dogs /\ (dog.pc # "poll" => dog.confirm = FALSE)
  BY DEF TypeOK, Dogs, StallInv
<1> DEFINE since1 == Capped(dog.since, ProbeThrottle)
           polled == [dog EXCEPT !.since = since1]
<1>1. polled \in Dogs /\ polled.prog = dog.prog /\ polled.pc = dog.pc /\ polled.confirm = dog.confirm
  BY <1>0, CappedType, Limits DEF Dogs
<1>2. Capped(polled.prog, ProbeTimeout) \in 0 .. ProbeTimeout /\ 0 \in 0 .. ProbeTimeout /\ 0 \in 0 .. ProbeThrottle
  BY <1>1, CappedType, Limits DEF Dogs
<1>3. dog.confirm \/ dog.confirm = FALSE
  BY <1>0 DEF Dogs
<1> HIDE DEF polled
<1>4. CASE ~host.up \/ host.frozen \/ dog.pc = "off"
  <2>1. dog' = dog
    BY <1>4, Zenon DEF DogTick
  <2>2. dog.pc = "off" \/ ~Answered \/ ~Live
    BY <1>4, Zenon DEF Answered, Live
  <2> QED
    BY <1>0, <2>1, <2>2
<1>5. CASE ~(~host.up \/ host.frozen \/ dog.pc = "off") /\ (~Live \/ DogAborts)
  <2>1. dog' = Dog("off")
    BY <1>5, Zenon DEF DogTick
  <2> QED
    BY <2>1, DogType
<1>6. CASE ~(~host.up \/ host.frozen \/ dog.pc = "off") /\ ~(~Live \/ DogAborts) /\ dog.pc = "poll"
  <2>1. \/ dog' = [polled EXCEPT !.confirm = FALSE]
        \/ dog' = [dog EXCEPT !.pc = "probe", !.prog = 0, !.since = 0] /\ Stalled
        \/ dog' = polled /\ Stalled
    BY <1>6, Zenon DEF DogTick, polled
  <2>2. Stalled => dog.confirm = FALSE
    BY <1>6, <1>3, Zenon DEF DogAborts
  <2> QED
    BY <1>0, <1>1, <1>2, <1>6, <2>1, <2>2 DEF Dogs
<1>7. CASE ~(~host.up \/ host.frozen \/ dog.pc = "off") /\ ~(~Live \/ DogAborts) /\ dog.pc # "poll"
  <2>1. \/ dog' = [polled EXCEPT !.pc = "poll", !.prog = 0, !.confirm = TRUE] /\ ~Answered
        \/ dog' = [polled EXCEPT !.pc = "poll", !.prog = 0, !.flow = TRUE]
        \/ dog' = [polled EXCEPT !.prog = Capped(polled.prog, ProbeTimeout)]
    BY <1>7, Zenon DEF DogTick, polled, ProbeFailed
  <2> QED
    BY <1>0, <1>1, <1>2, <1>7, <2>1 DEF Dogs
<1> QED
  BY <1>4, <1>5, <1>6, <1>7, Zenon

LEMMA BeatStep ==
    ASSUME TypeOK, BeatTick
    PROVE  beat' \in Beats
<1>0. beat \in Beats /\ host \in Hosts /\ flow \in BOOLEAN /\ age \in 0 .. MaxAge
  BY DEF TypeOK, Beats, Hosts
<1> DEFINE w == Live /\ waiting > 0
<1>1. host.gen \in 0 .. MaxGen /\ 0 \in 0 .. MaxAge
  BY <1>0, Limits DEF Hosts
<1>4. w \in BOOLEAN
  BY Zenon
<1>2. \/ beat' = [gen |-> host.gen, waiting |-> w, flow |-> flow, comp |-> age, old |-> 0]
      \/ beat' = [beat EXCEPT !.old = Capped(beat.old, MaxAge)]
  BY Zenon DEF BeatTick
<1> HIDE DEF w
<1>3. Capped(beat.old, MaxAge) \in 0 .. MaxAge
  BY <1>0, CappedType, Limits DEF Beats
<1> QED
  BY <1>0, <1>1, <1>2, <1>3, <1>4 DEF Beats

StallIndInv == TypeOK /\ StallInv

LEMMA TickStep ==
    ASSUME StallIndInv, Tick
    PROVE  StallIndInv'
<1>0. /\ host \in Hosts /\ self \in 0 .. Threads /\ store \in 0 .. Threads /\ hung <= Threads
      /\ queue \in 0 .. MaxQueue /\ flow \in BOOLEAN /\ age \in 0 .. MaxAge /\ stall \in 0 .. MaxStall
  BY DEF StallIndInv, TypeOK, Hosts
<1>1. /\ dog' \in Dogs /\ ext' \in Exts /\ beat' \in Beats
      /\ dog'.pc # "poll" => dog'.confirm = FALSE
      /\ dog'.confirm = TRUE => ~Answered \/ ~Live
  BY DogStep, ExtStep, BeatStep DEF StallIndInv, Tick
<1>2. age' \in 0 .. MaxAge /\ flow' \in BOOLEAN /\ store' = store
  <2>1. age' = 0 \/ age' = Capped(age, MaxAge)
    BY DEF Tick
  <2> QED
    BY <1>0, <2>1, CappedType, Limits DEF Tick
<1>3. \/ /\ host' = [host EXCEPT !.conn = "aborted"] /\ self' = 0 /\ queue' = 0 /\ stall' = 0
      \/ /\ UNCHANGED <<host, self, queue>> /\ stall' \in {0, Capped(stall, MaxStall)}
  BY Zenon DEF Tick
<1>4. /\ host' \in Hosts /\ self' \in 0 .. Threads /\ queue' \in 0 .. MaxQueue
      /\ stall' \in 0 .. MaxStall /\ hung' <= Threads
  BY <1>0, <1>2, <1>3, CappedType, Limits DEF Hosts, hung
<1>5. dog'.confirm = TRUE => ~Answered' \/ ~Live'
  <2>1. host'.conn = "aborted" => ~Live'
    BY DEF Live
  <2>2. UNCHANGED <<host, self, store>> => Answered' = Answered /\ Live' = Live
    BY DEF Answered, Live, hung
  <2>3. CASE UNCHANGED <<host, self, queue>>
    BY <2>2, <2>3, <1>1, <1>2, Zenon
  <2>4. CASE host' = [host EXCEPT !.conn = "aborted"]
    BY <2>1, <2>4, <1>0 DEF Hosts
  <2> QED
    BY <1>3, <2>3, <2>4
<1> QED
  BY <1>1, <1>2, <1>4, <1>5 DEF StallIndInv, TypeOK, StallInv, Hosts, Dogs, Exts, Beats

\* The session's variables in their ranges.
Session == /\ host \in Hosts /\ self \in 0 .. Threads /\ store \in 0 .. Threads /\ self + store <= Threads
           /\ queue \in 0 .. MaxQueue /\ age \in 0 .. MaxAge /\ stall \in 0 .. MaxStall

LEMMA SessionStep ==
    ASSUME StallIndInv,
           Rebuild \/ Request \/ Serve \/ Block \/ Unblock \/ Freeze \/ HostExits \/ AttachKills \/ HostDies
    PROVE  StallIndInv'
<1>0. /\ host \in Hosts /\ self \in 0 .. Threads /\ store \in 0 .. Threads /\ self + store <= Threads
      /\ queue \in 0 .. MaxQueue /\ flow \in BOOLEAN /\ age \in 0 .. MaxAge /\ stall \in 0 .. MaxStall
      /\ dog \in Dogs /\ beat \in Beats /\ ext \in Exts
      /\ dog.confirm = TRUE => ~Answered \/ ~Live \/ age = 0
      /\ dog.pc # "poll" => dog.confirm = FALSE
  BY DEF StallIndInv, TypeOK, StallInv, Hosts, Dogs, Exts, Beats, hung
<1>9. flow' \in BOOLEAN
  <2>1. flow' = flow \/ flow' = TRUE \/ flow' = FALSE
    BY Zenon DEF Rebuild, Request, Serve, Block, Unblock, Freeze, HostExits, AttachKills, HostDies,
                 Complete, GoneSession, sessionVars
  <2> QED
    BY <1>0, <2>1, Zenon
<1>1. ASSUME /\ Session' /\ dog' \in Dogs /\ UNCHANGED <<beat, ext>>
             /\ dog'.confirm = TRUE => ~Answered' \/ ~Live' \/ age' = 0
             /\ dog'.pc # "poll" => dog'.confirm = FALSE
      PROVE  StallIndInv'
  BY <1>0, <1>1, <1>9 DEF StallIndInv, TypeOK, StallInv, Session, Hosts, Dogs, Exts, Beats, hung
<1>2. CASE Rebuild
  <2>1. dog' \in Dogs /\ dog'.confirm = FALSE /\ UNCHANGED <<beat, ext>>
    BY <1>2, DogType DEF Rebuild
  <2>2. host' \in Hosts
    BY <1>0, <1>2, Limits DEF Rebuild, Hosts
  <2>3. Session'
    BY <1>2, <2>2, Limits DEF Rebuild, Session
  <2> QED
    BY <1>1, <2>1, <2>3
<1>3. CASE Request
  <2>1. Answered' = Answered /\ Live' = Live /\ UNCHANGED <<age, dog, beat, ext>>
    BY <1>3 DEF Request, Answered, Live, hung
  <2>2. Session'
    BY <1>0, <1>3, Limits DEF Request, Session
  <2> QED
    BY <1>0, <1>1, <2>1, <2>2
<1>4. CASE Serve
  <2>1. /\ dog' \in Dogs /\ dog'.confirm = dog.confirm /\ dog'.pc = dog.pc
        /\ age' = 0 /\ UNCHANGED <<beat, ext>>
    BY <1>0, <1>4 DEF Serve, Complete, Dogs
  <2>2. Session'
    BY <1>0, <1>4, Limits DEF Serve, Complete, Free, Session
  <2> QED
    BY <1>0, <1>1, <2>1, <2>2
<1>5. CASE Block
  <2>1. Free /\ hung < Threads /\ queue > 0 /\ queue' = queue - 1
        /\ UNCHANGED <<host, age, dog, beat, ext, stall>>
    BY <1>5 DEF Block, Free
  <2>2. Answered /\ Live' = Live
    BY <2>1, Zenon DEF Free, Answered, Live
  <2>3. dog.confirm = TRUE => ~Live \/ age = 0
    BY <1>0, <2>2
  <2>4. /\ self' \in 0 .. Threads /\ store' \in 0 .. Threads /\ self' + store' <= Threads
    <3>1. \/ self' = self + 1 /\ store' = store
          \/ store' = store + 1 /\ self' = self
      BY <1>5 DEF Block
    <3> QED
      BY <1>0, <2>1, <3>1, Limits DEF hung
  <2>5. queue' \in 0 .. MaxQueue
    BY <1>0, <2>1, Limits
  <2>6. Session'
    BY <1>0, <2>1, <2>4, <2>5, Zenon DEF Session
  <2> QED
    BY <1>0, <1>1, <2>1, <2>2, <2>3, <2>6
<1>6. CASE Unblock
  <2>1. UNCHANGED <<host, self, queue, beat, ext>> /\ store' = store - 1 /\ store > 0
    BY <1>6 DEF Unblock
  <2>2. CASE Live
    <3>1. Complete /\ stall' = 0
      BY <1>6, <2>2 DEF Unblock
    <3>2. dog' \in Dogs /\ dog'.confirm = dog.confirm /\ dog'.pc = dog.pc /\ age' = 0
      BY <1>0, <3>1 DEF Complete, Dogs
    <3>3. Session'
      BY <1>0, <2>1, <3>1, Limits DEF Complete, Session
    <3> QED
      BY <1>0, <1>1, <2>1, <3>2, <3>3
  <2>3. CASE ~Live
    <3>1. UNCHANGED <<flow, age, dog, stall>>
      BY <1>6, <2>3 DEF Unblock
    <3>2. ~Live'
      BY <2>1, <2>3 DEF Live
    <3>3. Session'
      BY <1>0, <2>1, <3>1, Limits DEF Session
    <3> QED
      BY <1>0, <1>1, <2>1, <3>1, <3>2, <3>3
  <2> QED
    BY <2>2, <2>3
<1>7. CASE Freeze
  <2>1. host' \in Hosts /\ host'.frozen = TRUE
    BY <1>0, <1>7 DEF Freeze, Hosts
  <2>2. ~Answered' \/ ~Live'
    BY <2>1, Zenon DEF Answered
  <2>3. Session' /\ UNCHANGED <<dog, beat, ext>>
    BY <1>0, <1>7, <2>1 DEF Freeze, sessionVars, Session
  <2> QED
    BY <1>0, <1>1, <2>2, <2>3
<1>8. CASE HostExits \/ AttachKills \/ HostDies
  <2>1. host' = HostGone /\ GoneSession /\ UNCHANGED <<beat, ext>>
    BY <1>8 DEF HostExits, AttachKills, HostDies
  <2>2. dog' \in Dogs /\ dog'.confirm = FALSE
    BY <2>1, DogType DEF GoneSession
  <2>3. Session'
    BY <1>0, <2>1, GoneType, Limits DEF GoneSession, Session
  <2> QED
    BY <1>1, <2>1, <2>2, <2>3
<1> QED
  BY <1>2, <1>3, <1>4, <1>5, <1>6, <1>7, <1>8

LEMMA StallInit == Init => StallIndInv
<1> SUFFICES ASSUME Init
             PROVE  StallIndInv
  OBVIOUS
<1>1. dog \in Dogs /\ dog.confirm = FALSE
  BY DogType DEF Init
<1>2. host \in Hosts /\ beat \in Beats /\ ext \in Exts
  BY Limits DEF Init, Hosts, Beats, Exts, NoBeat, Watch
<1>3. /\ self \in 0 .. Threads /\ store \in 0 .. Threads /\ hung <= Threads
      /\ queue \in 0 .. MaxQueue /\ age \in 0 .. MaxAge /\ stall \in 0 .. MaxStall
  BY Limits DEF Init, hung
<1>4. flow \in BOOLEAN
  BY DEF Init
<1> QED
  BY <1>1, <1>2, <1>3, <1>4 DEF StallIndInv, TypeOK, StallInv, Hosts, Dogs, Beats, Exts

LEMMA StallStep == StallIndInv /\ [Next]_vars => StallIndInv'
<1> SUFFICES ASSUME StallIndInv, [Next]_vars
             PROVE  StallIndInv'
  OBVIOUS
<1>1. CASE Next
  BY <1>1, TickStep, SessionStep DEF Next
<1>2. CASE UNCHANGED vars
  BY <1>2 DEF vars, StallIndInv, TypeOK, StallInv, hung, Answered, Live
<1> QED
  BY <1>1, <1>2

\* An abort by the watchdog follows a failed probe that no completion refuted
\* since; one by the daemon ends a verification that no sample and no probe
\* cleared.
LEMMA AbortStep ==
    ASSUME StallIndInv, DogAborts \/ ExtAborts, host'.conn # host.conn, [Next]_vars
    PROVE  ~Answered
<1>0. /\ dog \in Dogs /\ ext \in Exts /\ age \in 0 .. MaxAge
      /\ dog.confirm = TRUE => ~Answered \/ ~Live \/ age = 0
  BY DEF StallIndInv, TypeOK, StallInv, Dogs, Exts
<1>1. CASE DogAborts
  <2>1. dog.confirm = TRUE /\ Live /\ age >= NoCompletion
    BY <1>0, <1>1, Zenon DEF DogAborts, Stalled
  <2> QED
    BY <1>0, <2>1, Limits
<1>2. CASE ExtAborts
  <2>1. ~Cleared /\ ext.prog + 1 >= VerifyTime
    BY <1>2 DEF ExtAborts, VerifyFails
  <2>2. ext.prog >= 2 * Sample
    BY <1>0, <2>1, Limits DEF Exts
  <2> QED
    BY <2>1, <2>2 DEF Cleared
<1> QED
  BY <1>1, <1>2

\* Every variable of the session and of both guards stays in its range; at most
\* Threads requests hang at once (fuse_host.rs: mount_host_fuse).
THEOREM StallTypeCorrect == Spec => []TypeOK
<1>1. StallIndInv => TypeOK
  BY DEF StallIndInv
<1> QED
  BY <1>1, StallInit, StallStep, PTL DEF Spec

\* Neither the watchdog nor the daemon aborts the connection of a host that has a
\* thread free, for every number of threads and every setting of the limits in
\* which a probe takes longer than the confirmation and the samples end before
\* the verification does (fuse_host.rs: host_stall_watchdog_main; daemon.rs:
\* verify_host_stall_externally).
THEOREM NobodyAbortedInService == Spec => AbortedWasStalled
<1>1. StallIndInv /\ [Next]_vars => [(DogAborts \/ ExtAborts) /\ host'.conn # host.conn => ~Answered]_vars
  BY AbortStep
<1> QED
  BY <1>1, StallInit, StallStep, PTL DEF Spec, AbortedWasStalled

-----------------------------------------------------------------------------
(* The start of an application: the inductive invariant.                     *)

UserLayers == Seq({"barrier", "bind"})
RootLayer == [kind : {"bare", "system", "host"}, gen : 0 .. MaxSessions, u : UserLayers]
\* The mount table at the storage root, which always has its directory.
View == Seq(RootLayer) \ {<<>>}

AppRanges ==
    /\ role \in RoleKinds /\ phase \in {"zygote", "specialized", "running"}
    /\ reply \in {"none", "open", "closed"} /\ status \in {"none", "applied", "failed"}
    /\ applied \in BOOLEAN
DiskRanges ==
    /\ state \in [targets : SUBSET {"emulated", "user"}, gen : 0 .. MaxSessions, exists : BOOLEAN]
    /\ ledger \subseteq {"emulated", "user"}
    /\ intent \in {"none", "disabled", "applying", "mounted", "failed"}
CompRanges ==
    comp \in {"idle", "ready", "fork", "wait", "settle", "done"} /\ roots \in BOOLEAN /\ fd \in BOOLEAN
ChildRanges ==
    /\ child \in {"none", "enter", "cleanup", "release", "attach", "fallback", "save",
                  "record", "conclude", "dead"}
    /\ via \in 0 .. MaxSessions /\ mounted \subseteq {"emulated", "user"}
    /\ result \in {"none", "ok", "failed"}
EnvRanges ==
    /\ session \in [gen : 0 .. MaxSessions, up : BOOLEAN, reg : BOOLEAN]
    /\ enabled \in BOOLEAN /\ gate \in BOOLEAN /\ wiped \in BOOLEAN
    /\ rounds \in 0 .. MaxRounds /\ flips \in 0 .. MaxFlips
RangesOK == ns \in View /\ AppRanges /\ DiskRanges /\ CompRanges /\ ChildRanges /\ EnvRanges
\* Sessions are numbered from 1; one that ended can be followed by another.
SessionOK == session.gen # 0 /\ (session.up = FALSE => session.gen < MaxSessions)
\* Companion and child start with the request; the companion waits while its child works.
ChildOK ==
    /\ phase = "zygote" => comp = "idle" /\ child = "none"
    /\ child \notin {"none", "dead"} => comp = "wait"
\* A child that bound the rules is still covered, unless a daemon round wiped them out.
BoundOK == child \in {"save", "record", "conclude"} /\ via = 0 => Covered(ns) \/ wiped = TRUE
\* A captured process is monitored only: nothing is mounted, saved or held for it.
CapturedOK ==
    role = "captured" => /\ ns = <<Bare, System>> /\ state = NoState /\ fd = FALSE
                         /\ child \notin {"save", "record", "conclude"}
StartInv == RangesOK /\ SessionOK /\ ChildOK /\ BoundOK /\ CapturedOK /\ ReplyConsumed

-----------------------------------------------------------------------------
(* The mount table.                                                         *)

\* A bounded set of numbers has a greatest one.
LEMMA Greatest ==
    ASSUME NEW S \in SUBSET Nat, NEW m \in Nat, \A x \in S : x <= m, S # {}
    PROVE  \E k \in S : \A i \in S : i <= k
<1> DEFINE T == {x \in Nat : \E i \in S : x = m - i}
           R == OpToRel(<, Nat)
<1>1. T \subseteq Nat
  OBVIOUS
<1>2. T # {}
  <2>1. PICK i \in S : TRUE
    OBVIOUS
  <2>2. m - i \in T
    BY <2>1
  <2> QED BY <2>2
<1>3. \E x \in T : \A y \in T : ~(<<y, x>> \in R)
  <2> HIDE DEF T, R
  <2> QED BY <1>1, <1>2, WFMin, NatLessThanWellFounded DEF R
<1>4. PICK x \in T : \A y \in T : ~(<<y, x>> \in R)
  BY <1>3
<1>5. PICK k \in S : x = m - k
  BY <1>4
<1>6. ASSUME NEW i \in S PROVE i <= k
  <2>1. m - i \in T
    OBVIOUS
  <2>2. ~(m - i < x)
    BY <1>4, <2>1 DEF OpToRel
  <2> QED BY <1>5, <2>2
<1> QED BY <1>5, <1>6

\* A non-empty prefix.
LEMMA PrefixSeq ==
    ASSUME NEW S, NEW s \in Seq(S), NEW k \in 0 .. Len(s)
    PROVE  SubSeq(s, 1, k) \in Seq(S) /\ Len(SubSeq(s, 1, k)) = k
<1>1. Len(s) \in Nat /\ \A i \in 1 .. k : s[i] \in S
  BY ElementOfSeq, LenProperties
<1>2. SubSeq(s, 1, k) \in Seq(S) /\ Len(SubSeq(s, 1, k)) = IF 1 <= k THEN k - 1 + 1 ELSE 0
  BY <1>1, SubSeqProperties
<1> QED BY <1>1, <1>2

\* The top layer of a view, and a view with another top.
LEMMA ViewTop ==
    ASSUME NEW n \in View
    PROVE  /\ Len(n) \in Nat \ {0} /\ Len(n) \in 1 .. Len(n)
           /\ Top(n) \in RootLayer /\ Top(n).u \in UserLayers
<1>1. n \in Seq(RootLayer) /\ Len(n) \in Nat \ {0}
  BY EmptySeq DEF View
<1>2. n[Len(n)] \in RootLayer
  BY <1>1, ElementOfSeq
<1> QED BY <1>1, <1>2 DEF Top, RootLayer
\* A layer with another stack at the user root.
Layer(e, w) == [kind |-> e.kind, gen |-> e.gen, u |-> w]
LEMMA LayerWith ==
    ASSUME NEW e \in RootLayer, NEW w \in UserLayers
    PROVE  [e EXCEPT !.u = w] = Layer(e, w) /\ Layer(e, w) \in RootLayer
BY DEF RootLayer, Layer
Retop(n, i, w) == [n EXCEPT ![i].u = w]
LEMMA ViewRetop ==
    ASSUME NEW n \in View, NEW i \in 1 .. Len(n), NEW w \in UserLayers
    PROVE  Retop(n, i, w) \in View /\ Len(Retop(n, i, w)) = Len(n) /\ Retop(n, i, w)[i] = Layer(n[i], w)
<1>1. n \in Seq(RootLayer) /\ n # <<>> /\ Len(n) \in Nat \ {0}
  BY EmptySeq DEF View
<1>2. n[i] \in RootLayer
  BY <1>1, ElementOfSeq
<1>3. [n[i] EXCEPT !.u = w] = Layer(n[i], w) /\ Layer(n[i], w) \in RootLayer
  BY <1>2, LayerWith
<1>4. /\ [n EXCEPT ![i] = Layer(n[i], w)] \in Seq(RootLayer)
      /\ Len([n EXCEPT ![i] = Layer(n[i], w)]) = Len(n)
      /\ [n EXCEPT ![i] = Layer(n[i], w)][i] = Layer(n[i], w)
  BY <1>1, <1>3, ExceptSeq
<1>5. [n EXCEPT ![i] = Layer(n[i], w)] # <<>>
  BY <1>1, <1>4, EmptySeq
<1>6. Retop(n, i, w) = [n EXCEPT ![i] = Layer(n[i], w)]
  BY <1>3, Zenon DEF Retop
<1>7. [n EXCEPT ![i] = Layer(n[i], w)] \in View
  BY <1>4, <1>5 DEF View
<1> QED BY <1>4, <1>6, <1>7, Zenon

\* A bind or a barrier at the user root serves it, and so does a host above the directory.
LEMMA UserMounted ==
    ASSUME NEW n \in View, NEW l \in {"barrier", "bind"}
    PROVE  MountUser(n, l) \in View /\ Serving(MountUser(n, l)) = l
<1>1. Len(n) \in 1 .. Len(n) /\ Top(n).u \in UserLayers
  BY ViewTop
<1> DEFINE w == Append(n[Len(n)].u, l)
<1>2. w \in UserLayers /\ Len(w) \in Nat \ {0} /\ w[Len(w)] = l /\ w # <<>>
  BY <1>1, AppendProperties, EmptySeq DEF UserLayers, Top
<1>3. MountUser(n, l) = Retop(n, Len(n), w)
  BY DEF MountUser, Retop
<1> HIDE DEF w
<1>4. MountUser(n, l) \in View /\ Len(MountUser(n, l)) = Len(n) /\ MountUser(n, l)[Len(n)] = Layer(n[Len(n)], w)
  BY <1>1, <1>2, <1>3, ViewRetop
<1>6. Top(MountUser(n, l)).u = w
  BY <1>4 DEF Top, Layer
<1> QED BY <1>2, <1>4, <1>6 DEF Serving
LEMMA HostMounted ==
    ASSUME NEW n \in View, NEW g \in 0 .. MaxSessions
    PROVE  Append(n, HostLayer(g)) \in View /\ Serving(Append(n, HostLayer(g))) = "host"
<1>1. HostLayer(g) \in RootLayer /\ HostLayer(g).u = <<>> /\ HostLayer(g).kind = "host"
  BY EmptySeq DEF HostLayer, Bare, RootLayer, UserLayers
<1>2. /\ Append(n, HostLayer(g)) \in Seq(RootLayer) /\ Append(n, HostLayer(g)) # <<>>
      /\ Top(Append(n, HostLayer(g))) = HostLayer(g)
  BY <1>1, AppendProperties, LenProperties DEF View, Top
<1> QED BY <1>1, <1>2 DEF View, Serving

\* Unmounting leaves a view: its directory stays.
LEMMA RootUnmounted ==
    ASSUME NEW n \in View, NEW k \in Nat
    PROVE  UmountRoot(n, k) \in View
<1>1. n \in Seq(RootLayer) /\ Len(n) \in Nat \ {0}
  BY EmptySeq DEF View
<1>2. ASSUME NEW j \in 1 .. Len(n) PROVE SubSeq(n, 1, j) \in View
  <2>1. SubSeq(n, 1, j) \in Seq(RootLayer) /\ Len(SubSeq(n, 1, j)) = j
    BY <1>1, PrefixSeq
  <2>2. SubSeq(n, 1, j) # <<>>
    BY <1>1, <2>1, EmptySeq
  <2> QED BY <2>1, <2>2 DEF View
<1>3. k < Len(n) => Len(n) - k \in 1 .. Len(n)
  BY <1>1
<1>4. 1 \in 1 .. Len(n)
  BY <1>1
<1> QED BY <1>2, <1>3, <1>4 DEF UmountRoot
LEMMA UserUnmounted ==
    ASSUME NEW n \in View
    PROVE  UmountUser(n) \in View /\ \A w \in UserLayers : Shorter(w) \in UserLayers
<1>1. ASSUME NEW w \in UserLayers PROVE Shorter(w) \in UserLayers
  <2>1. CASE w = <<>>
    BY <2>1 DEF Shorter
  <2>2. CASE w # <<>>
    <3>1. Len(w) \in Nat \ {0}
      BY <2>2, EmptySeq DEF UserLayers
    <3>2. Len(w) - 1 \in 0 .. Len(w)
      BY <3>1
    <3> QED BY <2>2, <3>2, PrefixSeq DEF Shorter, UserLayers
  <2> QED BY <2>1, <2>2
<1>2. Shorter(n[Len(n)].u) \in UserLayers /\ Len(n) \in 1 .. Len(n)
  BY <1>1, ViewTop DEF Top
<1>3. UmountUser(n) = Retop(n, Len(n), Shorter(n[Len(n)].u))
  BY DEF UmountUser, Retop
<1> QED BY <1>1, <1>2, <1>3, ViewRetop

\* The barriers on top go, and nothing else.
LEMMA BarriersDropped ==
    ASSUME NEW n \in View
    PROVE  DropBarriers(n) \in View /\ (Top(n).u = <<>> => DropBarriers(n) = n)
<1> DEFINE u == Top(n).u
           other == {i \in 1 .. Len(u) : u[i] # "barrier"}
           keep == CHOOSE k \in other \cup {0} : \A i \in other : i <= k
<1>1. u \in UserLayers /\ Len(u) \in Nat /\ Len(n) \in 1 .. Len(n)
  BY ViewTop, LenProperties DEF UserLayers
<1>2. \E k \in other \cup {0} : \A i \in other \cup {0} : i <= k
  <2>1. other \cup {0} \in SUBSET Nat /\ (\A x \in other \cup {0} : x <= Len(u)) /\ other \cup {0} # {}
    BY <1>1
  <2> HIDE DEF other, u
  <2> QED BY <1>1, <2>1, Greatest
<1>3. keep \in other \cup {0}
  BY <1>2
<1>4. keep \in 0 .. Len(u)
  <2>1. other \cup {0} \subseteq 0 .. Len(u)
    BY <1>1
  <2> QED BY <1>3, <2>1, Zenon
<1>5. SubSeq(u, 1, keep) \in UserLayers
  BY <1>1, <1>4, PrefixSeq DEF UserLayers
<1>6. DropBarriers(n) = Retop(n, Len(n), SubSeq(u, 1, keep))
  BY DEF DropBarriers, Retop
<1>7. DropBarriers(n) \in View
  BY <1>1, <1>5, <1>6, ViewRetop, Zenon
<1>8. ASSUME u = <<>> PROVE DropBarriers(n) = n
  <2>1. other = {} /\ SubSeq(u, 1, 0) = <<>>
    BY <1>8, EmptySeq
  <2>2. keep = 0
    BY <1>3, <2>1
  <2>3. SubSeq(u, 1, keep) = n[Len(n)].u
    BY <1>8, <2>1, <2>2 DEF Top
  <2>4. n[Len(n)] \in RootLayer /\ n \in Seq(RootLayer)
    BY ViewTop DEF Top, View
  <2>5. Retop(n, Len(n), n[Len(n)].u) = n
    BY <2>4, LenProperties DEF RootLayer, Retop
  <2> QED BY <1>6, <2>3, <2>5
<1> QED BY <1>7, <1>8

\* The descriptor takes the top of the stack its barrier stands in.
LEMMA HeldReleased ==
    ASSUME NEW n \in View
    PROVE  ReleaseHeld(n) \in View
<1> DEFINE i == CHOOSE k \in Held(n) : \A m \in Held(n) : m <= k
<1>1. CASE Held(n) = {}
  BY <1>1 DEF ReleaseHeld
<1>2. CASE Held(n) # {}
  <2>1. Held(n) \subseteq 1 .. Len(n) /\ Len(n) \in Nat /\ n \in Seq(RootLayer)
    BY ViewTop DEF Held, View
  <2>2. Held(n) \in SUBSET Nat /\ \A x \in Held(n) : x <= Len(n)
    BY <2>1
  <2>3. \E k \in Held(n) : \A m \in Held(n) : m <= k
    BY <1>2, <2>1, <2>2, Greatest
  <2>4. i \in 1 .. Len(n)
    BY <2>1, <2>3
  <2>5. n[i] \in RootLayer
    BY <2>1, <2>4, ElementOfSeq
  <2>6. Shorter(n[i].u) \in UserLayers
    BY <2>5, UserUnmounted DEF RootLayer
  <2>7. ReleaseHeld(n) = Retop(n, i, Shorter(n[i].u))
    BY <1>2 DEF ReleaseHeld, Retop
  <2> HIDE DEF i
  <2> QED BY <2>4, <2>6, <2>7, ViewRetop
<1> QED BY <1>1, <1>2

\* Dead layers and barriers away: what is left is a view.
LEMMA DeadRecovered ==
    ASSUME NEW n \in View
    PROVE  Recovered(n) \in View
<1> DEFINE D == {i \in 1 .. Len(n) : DeadLayer(n[i])}
<1>1. Len(n) \in Nat
  BY ViewTop
<1>2. IsFiniteSet(1 .. Len(n)) /\ D \subseteq 1 .. Len(n)
  BY <1>1, FS_Interval
<1>3. Cardinality(D) \in Nat
  BY <1>2, FS_Subset, FS_CardinalityType
<1>4. UmountRoot(n, Cardinality(D)) \in View
  BY <1>3, RootUnmounted
<1> QED BY <1>4, BarriersDropped DEF Recovered

LEMMA ViewCleared ==
    ASSUME NEW n \in View
    PROVE  ClearedView(n) \in View
<1> DEFINE m == IF Top(n).kind = "host" THEN UmountRoot(n, 1) ELSE n
<1>1. m \in View
  BY RootUnmounted
<1>2. <<>> \in UserLayers
  BY EmptySeq DEF UserLayers
<1>3. ClearedView(n) = Retop(m, Len(m), <<>>)
  BY DEF ClearedView, Retop
<1> HIDE DEF m
<1> QED BY <1>1, <1>2, <1>3, ViewTop, ViewRetop

\* The barrier ends up on top unless its child failed.
LEMMA BarrierUp ==
    ASSUME NEW n \in View
    PROVE  /\ BarrierOutcomes(n) \subseteq View
           /\ InstallsBarrier /\ ~Fails("barrier") => \A m \in BarrierOutcomes(n) : Serving(m) = "barrier"
<1>1. Recovered(n) \in View
  BY DeadRecovered
<1>2. MountUser(Recovered(n), "barrier") \in View /\ Serving(MountUser(Recovered(n), "barrier")) = "barrier"
  BY <1>1, UserMounted
<1> QED BY <1>1, <1>2 DEF BarrierOutcomes

\* The system's own view, which a monitored process keeps.
LEMMA SystemView ==
    LET n == <<Bare, System>> IN
    /\ n \in View /\ DropBarriers(n) = n /\ Recovered(n) = n
    /\ ~InstallsBarrier => BarrierOutcomes(n) = {n}
<1> DEFINE n == <<Bare, System>>
<1>1. /\ Bare \in RootLayer /\ System \in RootLayer /\ Bare.kind # "host" /\ System.kind # "host"
      /\ System.u = <<>>
  <2>1. <<>> \in UserLayers
    BY EmptySeq DEF UserLayers
  <2> QED BY <2>1, AppStartAssumption DEF Bare, System, RootLayer
<1>2. n \in Seq(RootLayer) /\ Len(n) = 2 /\ n[1] = Bare /\ n[2] = System
  BY <1>1
<1>3. n \in View
  BY <1>2, EmptySeq DEF View
<1>4. DropBarriers(n) = n
  BY <1>1, <1>2, <1>3, BarriersDropped DEF Top
<1>5. {i \in 1 .. Len(n) : DeadLayer(n[i])} = {}
  BY <1>1, <1>2 DEF DeadLayer
<1>6. UmountRoot(n, 0) = n
  <2>1. SubSeq(n, 1, Len(n)) = n
    BY <1>2, SubSeqFull
  <2>2. Len(n) - 0 = Len(n) /\ 0 < Len(n)
    BY <1>2
  <2> HIDE DEF n
  <2> QED BY <2>1, <2>2 DEF UmountRoot
<1>7. Recovered(n) = n
  BY <1>4, <1>5, <1>6, FS_EmptySet DEF Recovered
<1>8. ~InstallsBarrier => BarrierOutcomes(n) = {n}
  BY <1>7 DEF BarrierOutcomes
<1> QED BY <1>3, <1>4, <1>7, <1>8

-----------------------------------------------------------------------------
(* Each step keeps the invariant.                                           *)

LEMMA StartHolds == StartInit => StartInv
<1> SUFFICES ASSUME StartInit PROVE StartInv
  OBVIOUS
<1>1. ns \in View
  BY SystemView DEF StartInit
<1>2. AppRanges /\ CompRanges
  BY AppStartAssumption DEF StartInit, AppRanges, CompRanges
<1>3. DiskRanges /\ ChildRanges
  BY AppStartAssumption DEF StartInit, DiskRanges, ChildRanges, NoState
<1>4. EnvRanges
  <2>1. session = [gen |-> 1, up |-> TRUE, reg |-> FALSE] /\ rounds = 0 /\ flips = 0
    BY DEF StartInit
  <2>2. session \in [gen : 0 .. MaxSessions, up : BOOLEAN, reg : BOOLEAN]
    BY <2>1, AppStartAssumption
  <2>3. rounds \in 0 .. MaxRounds /\ flips \in 0 .. MaxFlips
    BY <2>1, AppStartAssumption
  <2>4. enabled \in BOOLEAN /\ gate \in BOOLEAN /\ wiped \in BOOLEAN
    BY Zenon DEF StartInit
  <2> QED BY <2>2, <2>3, <2>4 DEF EnvRanges
<1>5. SessionOK
  BY DEF StartInit, SessionOK
<1>6. ChildOK /\ BoundOK /\ CapturedOK /\ ReplyConsumed
  BY DEF StartInit, ChildOK, BoundOK, CapturedOK, ReplyConsumed
<1> QED BY <1>1, <1>2, <1>3, <1>4, <1>5, <1>6 DEF StartInv, RangesOK

\* What a step leaves alone keeps its range.
LEMMA GroupsKept ==
    /\ AppRanges /\ UNCHANGED appVars => AppRanges'
    /\ DiskRanges /\ UNCHANGED diskVars => DiskRanges'
    /\ CompRanges /\ UNCHANGED compVars => CompRanges'
    /\ ChildRanges /\ UNCHANGED childVars => ChildRanges'
    /\ EnvRanges /\ UNCHANGED envVars => EnvRanges'
<1>1. AppRanges /\ UNCHANGED appVars => AppRanges'
  BY Zenon DEF AppRanges, appVars
<1>2. DiskRanges /\ UNCHANGED diskVars => DiskRanges'
  BY Zenon DEF DiskRanges, diskVars
<1>3. CompRanges /\ UNCHANGED compVars => CompRanges'
  BY Zenon DEF CompRanges, compVars
<1>4. ChildRanges /\ UNCHANGED childVars => ChildRanges'
  BY Zenon DEF ChildRanges, childVars
<1>5. EnvRanges /\ UNCHANGED envVars => EnvRanges'
  BY Zenon DEF EnvRanges, envVars
<1> QED BY <1>1, <1>2, <1>3, <1>4, <1>5
LEMMA SessionKept == SessionOK /\ UNCHANGED session => SessionOK'
BY DEF SessionOK
LEMMA BoundKept == BoundOK /\ UNCHANGED <<child, via, ns, wiped>> => BoundOK'
BY DEF BoundOK, Covered, Serving, Top
LEMMA CapturedKept == CapturedOK /\ UNCHANGED <<role, ns, state, fd, child>> => CapturedOK'
BY DEF CapturedOK
LEMMA ReplyKept == ReplyConsumed /\ UNCHANGED <<phase, reply>> => ReplyConsumed'
BY DEF ReplyConsumed

\* The process's own steps.
LEMMA PreKeeps == ASSUME StartInv, PreAppSpecialize PROVE StartInv'
<1>1. /\ UNCHANGED diskVars /\ UNCHANGED childVars /\ UNCHANGED envVars
      /\ UNCHANGED <<role, status, applied, ns, roots, fd>>
      /\ phase = "zygote" /\ phase' = "specialized"
      /\ (comp' = "ready" /\ reply' = "open") \/ (comp' = comp /\ reply' = reply)
  BY DEF PreAppSpecialize, SendMountRequest
<1>2. UNCHANGED <<state, child, via, session, wiped>>
  BY <1>1 DEF diskVars, childVars, envVars
<1>3. RangesOK'
  <2>1. AppRanges' /\ CompRanges'
    BY <1>1, Zenon DEF StartInv, RangesOK, AppRanges, CompRanges
  <2> QED BY <1>1, <2>1, GroupsKept DEF StartInv, RangesOK
<1>4. ChildOK'
  BY <1>1, <1>2 DEF StartInv, ChildOK
<1>5. ReplyConsumed'
  BY <1>1 DEF ReplyConsumed
<1> QED BY <1>1, <1>2, <1>3, <1>4, <1>5, SessionKept, BoundKept, CapturedKept DEF StartInv
LEMMA PostKeeps == ASSUME StartInv, PostAppSpecialize PROVE StartInv'
<1>1. /\ UNCHANGED diskVars /\ UNCHANGED compVars /\ UNCHANGED childVars /\ UNCHANGED envVars
      /\ UNCHANGED <<role, status, ns>> /\ phase = "specialized" /\ phase' = "running"
      /\ reply' = IF reply = "open" THEN "closed" ELSE reply
  BY DEF PostAppSpecialize, ReplyAfter
<1>2. UNCHANGED <<state, child, via, session, wiped, comp, fd>>
  BY <1>1 DEF diskVars, childVars, envVars, compVars
<1>3. applied' \in BOOLEAN
  BY DEF PostAppSpecialize, ObservedReady
<1>4. RangesOK'
  <2>1. AppRanges'
    BY <1>1, <1>3 DEF StartInv, RangesOK, AppRanges
  <2> QED BY <1>1, <2>1, GroupsKept DEF StartInv, RangesOK
<1>5. ChildOK'
  BY <1>1, <1>2 DEF StartInv, ChildOK
<1>6. ReplyConsumed'
  BY <1>1 DEF ReplyConsumed
<1> QED BY <1>1, <1>2, <1>4, <1>5, <1>6, SessionKept, BoundKept, CapturedKept DEF StartInv

\* The companion's steps.
LEMMA DenyKeeps == ASSUME StartInv, Deny PROVE StartInv'
<1>1. /\ UNCHANGED childVars /\ UNCHANGED envVars
      /\ UNCHANGED <<role, phase, reply, applied, ns, state, ledger, roots, fd>>
      /\ comp = "ready" /\ comp' = "done" /\ status' = "failed" /\ intent' = "disabled"
  BY DEF Deny, Mark
<1>2. UNCHANGED <<child, via, session, wiped>>
  BY <1>1 DEF childVars, envVars
<1>3. RangesOK'
  <2>1. AppRanges' /\ DiskRanges' /\ CompRanges'
    BY <1>1, Zenon DEF StartInv, RangesOK, AppRanges, DiskRanges, CompRanges
  <2> QED BY <1>1, <2>1, GroupsKept DEF StartInv, RangesOK
<1>4. ChildOK'
  BY <1>1, <1>2 DEF StartInv, ChildOK
<1> QED BY <1>1, <1>2, <1>3, <1>4, SessionKept, BoundKept, CapturedKept, ReplyKept DEF StartInv
\* The child is not at work while the companion is at one of its own steps.
LEMMA AloneBound ==
    ASSUME StartInv, comp \in {"ready", "fork", "settle"}
    PROVE  child \in {"none", "dead"}
BY DEF StartInv, RangesOK, ChildRanges, ChildOK
LEMMA PressKeeps == ASSUME StartInv, PressBarrier PROVE StartInv'
<1>1. /\ UNCHANGED appVars /\ UNCHANGED childVars /\ UNCHANGED envVars /\ UNCHANGED <<state, ledger>>
      /\ comp = "ready" /\ comp' = "fork" /\ intent' = "applying" /\ roots' = ScopedRoots
      /\ ns' = ns \/ ns' \in BarrierOutcomes(ns)
      /\ fd' \in {FALSE} \/ (InstallsBarrier /\ fd' \in BarrierFds(ns'))
  BY DEF PressBarrier, Mark
<1>2. UNCHANGED <<role, phase, reply, child, via, session, wiped>>
  BY <1>1 DEF appVars, childVars, envVars
<1>3. child \in {"none", "dead"} /\ ns \in View
  BY <1>1, AloneBound DEF StartInv, RangesOK
<1>4. RangesOK'
  <2>1. ns' \in View
    BY <1>1, <1>3, BarrierUp
  <2>2. roots' \in BOOLEAN /\ fd' \in BOOLEAN
    BY <1>1, Zenon DEF ScopedRoots, BarrierFds
  <2>3. CompRanges' /\ DiskRanges'
    BY <1>1, <2>2, Zenon DEF StartInv, RangesOK, CompRanges, DiskRanges
  <2> QED BY <1>1, <2>1, <2>3, GroupsKept DEF StartInv, RangesOK
<1>5. ChildOK' /\ BoundOK'
  BY <1>1, <1>2, <1>3 DEF StartInv, ChildOK, BoundOK
<1>6. CapturedOK'
  <2> SUFFICES ASSUME role = "captured" PROVE CapturedOK'
    BY <1>2 DEF CapturedOK
  <2>1. ns = <<Bare, System>> /\ ~InstallsBarrier
    BY DEF StartInv, CapturedOK, InstallsBarrier
  <2>2. ns' = ns /\ fd' = FALSE
    BY <1>1, <2>1, SystemView
  <2> QED BY <1>1, <1>2, <2>2 DEF StartInv, CapturedOK
<1> QED BY <1>2, <1>4, <1>5, <1>6, SessionKept, ReplyKept DEF StartInv
LEMMA ForkKeeps == ASSUME StartInv, ForkChild PROVE StartInv'
<1>1. /\ UNCHANGED appVars /\ UNCHANGED diskVars /\ UNCHANGED envVars
      /\ UNCHANGED <<ns, roots, fd, via, mounted, result>>
      /\ comp = "fork"
      /\ (comp' = "wait" /\ child' = "enter") \/ (comp' = "settle" /\ child' = child)
  BY DEF ForkChild
<1>2. UNCHANGED <<role, phase, reply, state, session, wiped>>
  BY <1>1 DEF appVars, diskVars, envVars
<1>3. child \in {"none", "dead"}
  BY <1>1, AloneBound
<1>4. RangesOK'
  <2>1. CompRanges' /\ ChildRanges'
    BY <1>1, Zenon DEF StartInv, RangesOK, CompRanges, ChildRanges
  <2> QED BY <1>1, <2>1, GroupsKept DEF StartInv, RangesOK
<1>5. ChildOK' /\ BoundOK' /\ CapturedOK'
  BY <1>1, <1>2, <1>3 DEF StartInv, ChildOK, BoundOK, CapturedOK
<1> QED BY <1>2, <1>4, <1>5, SessionKept, ReplyKept DEF StartInv
LEMMA WaitKeeps == ASSUME StartInv, ParentWaits PROVE StartInv'
<1>1. /\ UNCHANGED appVars /\ UNCHANGED diskVars /\ UNCHANGED envVars
      /\ UNCHANGED <<ns, roots, fd, via, mounted, result>>
      /\ comp = "wait" /\ comp' = "settle" /\ child' = "dead"
  BY DEF ParentWaits, Killed
<1>2. UNCHANGED <<role, phase, reply, state, session, wiped>>
  BY <1>1 DEF appVars, diskVars, envVars
<1>4. RangesOK'
  <2>1. CompRanges' /\ ChildRanges'
    BY <1>1, Zenon DEF StartInv, RangesOK, CompRanges, ChildRanges
  <2> QED BY <1>1, <2>1, GroupsKept DEF StartInv, RangesOK
<1>5. ChildOK' /\ BoundOK' /\ CapturedOK'
  BY <1>1, <1>2 DEF StartInv, ChildOK, BoundOK, CapturedOK
<1> QED BY <1>2, <1>4, <1>5, SessionKept, ReplyKept DEF StartInv
LEMMA SettleKeeps == ASSUME StartInv, Settle PROVE StartInv'
<1>1. /\ UNCHANGED childVars /\ UNCHANGED envVars
      /\ UNCHANGED <<role, phase, reply, applied, state, ledger, roots, fd>>
      /\ comp = "settle" /\ comp' = "done" /\ status' \in {"applied", "failed"} /\ intent' \in {"mounted", "failed"}
      /\ ns' = ns \/ (InstallsBarrier /\ ns' \in BarrierOutcomes(ns))
  BY DEF Settle, Mark, Represses
<1>2. UNCHANGED <<child, via, session, wiped>>
  BY <1>1 DEF childVars, envVars
<1>3. child \in {"none", "dead"} /\ ns \in View
  BY <1>1, AloneBound DEF StartInv, RangesOK
<1>4. RangesOK'
  <2>1. ns' \in View
    BY <1>1, <1>3, BarrierUp
  <2>2. AppRanges' /\ CompRanges' /\ DiskRanges'
    BY <1>1, Zenon DEF StartInv, RangesOK, AppRanges, CompRanges, DiskRanges
  <2> QED BY <1>1, <2>1, <2>2, GroupsKept DEF StartInv, RangesOK
<1>5. ChildOK' /\ BoundOK' /\ CapturedOK'
  BY <1>1, <1>2, <1>3 DEF StartInv, ChildOK, BoundOK, CapturedOK, InstallsBarrier
<1> QED BY <1>1, <1>2, <1>4, <1>5, SessionKept, ReplyKept DEF StartInv

\* The child's steps.  None of them touches what the process, the companion or
\* the environment keeps; a child that is at work after its step was before.
LEMMA ChildFrame ==
    ASSUME StartInv, UNCHANGED OtherVars, child \notin {"none", "dead"}, child' # "none",
           ns' \in View, DiskRanges', ChildRanges', BoundOK', CapturedOK'
    PROVE  StartInv'
<1>1. UNCHANGED appVars /\ UNCHANGED compVars /\ UNCHANGED envVars
  BY DEF OtherVars
<1>2. UNCHANGED <<phase, reply, comp, session>>
  BY <1>1 DEF appVars, compVars, envVars
<1>3. RangesOK'
  BY <1>1, GroupsKept DEF StartInv, RangesOK
<1>4. ChildOK'
  BY <1>2 DEF StartInv, ChildOK
<1> QED BY <1>2, <1>3, <1>4, SessionKept, ReplyKept DEF StartInv
LEMMA OthersStill ==
    ASSUME UNCHANGED OtherVars
    PROVE  UNCHANGED <<role, wiped, fd, intent, gate, session, phase, reply, comp>>
BY DEF OtherVars, appVars, compVars, envVars
LEMMA EntersKeeps == ASSUME StartInv, ChildEnters PROVE StartInv'
<1>1. /\ UNCHANGED OtherVars /\ UNCHANGED <<ns, state, ledger, via, mounted>>
      /\ child = "enter"
      /\ (child' = "cleanup" /\ result' = result) \/ (child' = "dead" /\ result' = "failed")
  BY DEF ChildEnters, ChildQuits
<1>2. DiskRanges' /\ ChildRanges'
  BY <1>1, OthersStill, Zenon DEF StartInv, RangesOK, DiskRanges, ChildRanges
<1>3. BoundOK' /\ CapturedOK'
  BY <1>1, OthersStill DEF StartInv, BoundOK, CapturedOK
<1> QED BY <1>1, <1>2, <1>3, ChildFrame DEF StartInv, RangesOK
LEMMA CleansKeeps == ASSUME StartInv, ChildCleans PROVE StartInv'
<1> DEFINE user == IF state.exists /\ ("user" \in state.targets \/ role = "mapped")
                   THEN UmountUser(ns) ELSE ns
<1>1. /\ UNCHANGED OtherVars /\ UNCHANGED <<ledger, via, mounted, result>>
      /\ child = "cleanup" /\ child' = "release" /\ state' = NoState
      /\ ns' = IF "emulated" \in state.targets THEN UmountRoot(user, 1) ELSE user
  BY DEF ChildCleans
<1>2. ns' \in View
  <2>1. user \in View
    BY UserUnmounted DEF StartInv, RangesOK
  <2>2. UmountRoot(user, 1) \in View
    BY <2>1, RootUnmounted
  <2> HIDE DEF user
  <2> QED BY <1>1, <2>1, <2>2
<1>3. DiskRanges'
  <2>1. NoState \in [targets : SUBSET {"emulated", "user"}, gen : 0 .. MaxSessions, exists : BOOLEAN]
    BY AppStartAssumption DEF NoState
  <2> QED BY <1>1, <2>1, OthersStill, Zenon DEF StartInv, RangesOK, DiskRanges
<1>4. ChildRanges'
  BY <1>1, Zenon DEF StartInv, RangesOK, ChildRanges
<1>5. BoundOK'
  BY <1>1 DEF BoundOK
<1>6. CapturedOK'
  <2> SUFFICES ASSUME role = "captured" PROVE CapturedOK'
    BY <1>1, OthersStill DEF CapturedOK
  <2>1. ns = <<Bare, System>> /\ state = NoState /\ fd = FALSE
    BY DEF StartInv, CapturedOK
  <2>2. state.targets = {} /\ state.exists = FALSE
    BY <2>1 DEF NoState
  <2>3. ns' = ns
    BY <1>1, <2>2
  <2> QED BY <1>1, <2>1, <2>3, OthersStill DEF CapturedOK
<1> QED BY <1>1, <1>2, <1>3, <1>4, <1>5, <1>6, ChildFrame DEF StartInv
LEMMA ReleasesKeeps == ASSUME StartInv, ChildReleases PROVE StartInv'
<1>1. /\ UNCHANGED OtherVars /\ UNCHANGED <<state, ledger, via, mounted, result>>
      /\ child = "release" /\ child' = "attach"
  BY DEF ChildReleases
<1>2. PICK n \in {ns, DropBarriers(ns)} : ns' = IF fd THEN ReleaseHeld(n) ELSE n
  BY DEF ChildReleases
<1>3. ns' \in View
  <2>1. n \in View
    BY BarriersDropped DEF StartInv, RangesOK
  <2> QED BY <1>2, <2>1, HeldReleased
<1>4. DiskRanges' /\ ChildRanges'
  BY <1>1, OthersStill, Zenon DEF StartInv, RangesOK, DiskRanges, ChildRanges
<1>5. BoundOK'
  BY <1>1 DEF BoundOK
<1>6. CapturedOK'
  <2> SUFFICES ASSUME role = "captured" PROVE CapturedOK'
    BY <1>1, OthersStill DEF CapturedOK
  <2>1. ns = <<Bare, System>> /\ fd = FALSE
    BY DEF StartInv, CapturedOK
  <2>2. ns' = ns
    BY <1>2, <2>1, SystemView
  <2> QED BY <1>1, <2>1, <2>2, OthersStill DEF StartInv, CapturedOK
<1> QED BY <1>1, <1>3, <1>4, <1>5, <1>6, ChildFrame DEF StartInv
LEMMA AttachesKeeps == ASSUME StartInv, ChildAttaches PROVE StartInv'
<1>1. UNCHANGED OtherVars /\ UNCHANGED <<state, ledger, result>> /\ child = "attach"
  BY DEF ChildAttaches
<1>2. \/ /\ role = "app" /\ child' = "save" /\ via' = session.gen /\ mounted' = {"emulated"}
         /\ ns' = ns \/ ns' = Append(UmountRoot(ns, 1), HostLayer(session.gen))
      \/ child' = "fallback" /\ via' = 0 /\ ns' = ns /\ mounted' = mounted
  BY DEF ChildAttaches, Candidate
<1>3. session.gen \in 0 .. MaxSessions /\ session.gen # 0 /\ ns \in View
  BY DEF StartInv, RangesOK, EnvRanges, SessionOK
<1>4. ns' \in View
  BY <1>2, <1>3, RootUnmounted, HostMounted
<1>5. DiskRanges'
  BY <1>1, OthersStill, Zenon DEF StartInv, RangesOK, DiskRanges
<1>6. ChildRanges'
  <2>1. via' \in 0 .. MaxSessions
    BY <1>2, <1>3, AppStartAssumption
  <2>2. mounted' \subseteq {"emulated", "user"} /\ child' \in {"save", "fallback"}
    BY <1>2 DEF StartInv, RangesOK, ChildRanges
  <2>3. result' \in {"none", "ok", "failed"}
    BY <1>1 DEF StartInv, RangesOK, ChildRanges
  <2> QED BY <2>1, <2>2, <2>3 DEF ChildRanges
<1>7. BoundOK'
  BY <1>2, <1>3 DEF BoundOK
<1>8. CapturedOK'
  BY <1>1, <1>2, OthersStill DEF StartInv, CapturedOK
<1> QED BY <1>1, <1>2, <1>4, <1>5, <1>6, <1>7, <1>8, ChildFrame DEF StartInv
LEMMA FallsBackKeeps == ASSUME StartInv, ChildFallsBack PROVE StartInv'
<1>1. UNCHANGED OtherVars /\ UNCHANGED <<state, ledger, via>> /\ child = "fallback"
  BY DEF ChildFallsBack
<1>2. \/ child' = "dead" /\ result' \in {"none", "failed"} /\ UNCHANGED <<ns, mounted>>
      \/ /\ role # "captured" /\ child' = "save" /\ result' = result
         /\ ns' = MountUser(ns, "bind") /\ mounted' = {"user"}
  BY DEF ChildFallsBack, ChildQuits
<1>3. ns \in View /\ MountUser(ns, "bind") \in View /\ Covered(MountUser(ns, "bind"))
  BY UserMounted DEF StartInv, RangesOK, Covered
<1>4. DiskRanges'
  BY <1>1, OthersStill, Zenon DEF StartInv, RangesOK, DiskRanges
<1>5. ChildRanges'
  BY <1>1, <1>2 DEF StartInv, RangesOK, ChildRanges
<1>6. BoundOK'
  <2>1. CASE child' = "dead"
    BY <2>1 DEF BoundOK
  <2>2. CASE ns' = MountUser(ns, "bind")
    BY <1>3, <2>2 DEF BoundOK, Covered, Serving, Top
  <2> QED BY <1>2, <2>1, <2>2
<1>7. CapturedOK'
  BY <1>1, <1>2, OthersStill DEF StartInv, CapturedOK
<1> QED BY <1>1, <1>2, <1>3, <1>4, <1>5, <1>6, <1>7, ChildFrame DEF StartInv
LEMMA SavesKeeps == ASSUME StartInv, ChildSaves PROVE StartInv'
<1>1. UNCHANGED OtherVars /\ UNCHANGED <<ledger, via, mounted>> /\ child = "save"
  BY DEF ChildSaves
<1>2. \/ /\ state' = [targets |-> mounted, gen |-> via, exists |-> TRUE]
         /\ child' = "record" /\ UNCHANGED <<ns, result>>
      \/ /\ child' = "dead" /\ result' = "failed" /\ state' = state
         /\ ns' = UmountRoot(ns, 1) \/ ns' = UmountUser(ns)
  BY DEF ChildSaves, ChildQuits
<1>3. role # "captured"
  BY <1>1 DEF StartInv, CapturedOK
<1>4. ns' \in View
  BY <1>2, RootUnmounted, UserUnmounted DEF StartInv, RangesOK
<1>5. ChildRanges'
  BY <1>1, <1>2, Zenon DEF StartInv, RangesOK, ChildRanges
<1>6. DiskRanges'
  <2>1. [targets |-> mounted, gen |-> via, exists |-> TRUE]
          \in [targets : SUBSET {"emulated", "user"}, gen : 0 .. MaxSessions, exists : BOOLEAN]
    BY DEF StartInv, RangesOK, ChildRanges
  <2> QED BY <1>1, <1>2, <2>1, OthersStill, Zenon DEF StartInv, RangesOK, DiskRanges
<1>7. BoundOK'
  BY <1>1, <1>2, OthersStill DEF StartInv, BoundOK, Covered, Serving, Top
<1>8. CapturedOK'
  BY <1>1, <1>3, OthersStill DEF CapturedOK
<1> QED BY <1>1, <1>2, <1>4, <1>5, <1>6, <1>7, <1>8, ChildFrame DEF StartInv
LEMMA RecordsKeeps == ASSUME StartInv, ChildRecords PROVE StartInv'
<1>1. /\ UNCHANGED OtherVars /\ UNCHANGED <<ns, state, via, mounted, result>>
      /\ child = "record" /\ child' = "conclude" /\ ledger' \in {mounted, ledger}
  BY DEF ChildRecords
<1>2. ChildRanges' /\ DiskRanges'
  BY <1>1, OthersStill, Zenon DEF StartInv, RangesOK, ChildRanges, DiskRanges
<1>3. BoundOK' /\ CapturedOK'
  BY <1>1, OthersStill DEF StartInv, BoundOK, CapturedOK, Covered, Serving, Top
<1> QED BY <1>1, <1>2, <1>3, ChildFrame DEF StartInv, RangesOK
LEMMA ConcludesKeeps == ASSUME StartInv, ChildConcludes PROVE StartInv'
<1>1. /\ UNCHANGED OtherVars /\ UNCHANGED <<ns, state, ledger, via, mounted>>
      /\ child = "conclude" /\ child' = "dead" /\ result' \in {"ok", "failed", "none"}
  BY DEF ChildConcludes, ChildQuits
<1>2. ChildRanges' /\ DiskRanges'
  BY <1>1, OthersStill, Zenon DEF StartInv, RangesOK, ChildRanges, DiskRanges
<1>3. BoundOK' /\ CapturedOK'
  BY <1>1, OthersStill DEF StartInv, BoundOK, CapturedOK
<1> QED BY <1>1, <1>2, <1>3, ChildFrame DEF StartInv, RangesOK

\* The daemon and the environment.
LEMMA RoundKeeps == ASSUME StartInv, DaemonRound PROVE StartInv'
<1> DEFINE States == [targets : SUBSET {"emulated", "user"}, gen : 0 .. MaxSessions, exists : BOOLEAN]
<1>1. /\ UNCHANGED appVars /\ UNCHANGED compVars /\ UNCHANGED childVars
      /\ UNCHANGED <<intent, session, enabled, gate, flips>>
      /\ rounds < MaxRounds /\ rounds' = rounds + 1 /\ role \in {"app", "mapped"}
  BY DEF DaemonRound
<1>2. \/ /\ ns' = Append(UmountRoot(ClearedView(ns), 1), HostLayer(session.gen))
         /\ wiped' = wiped /\ ledger' = {"emulated"}
         /\ state' = [targets |-> {"emulated"}, gen |-> session.gen, exists |-> TRUE]
      \/ /\ ns' = MountUser(ClearedView(ns), "bind") /\ wiped' = wiped /\ ledger' = {"user"}
         /\ state' = [targets |-> {"user"}, gen |-> 0, exists |-> TRUE]
      \/ /\ ns' = ClearedView(ns) /\ wiped' = TRUE /\ ledger' = ledger /\ state' = NoState
  BY DEF DaemonRound
<1>3. session.gen \in 0 .. MaxSessions /\ ns \in View
  BY DEF StartInv, RangesOK, EnvRanges
<1>4. /\ ClearedView(ns) \in View /\ UmountRoot(ClearedView(ns), 1) \in View
      /\ MountUser(ClearedView(ns), "bind") \in View /\ Serving(MountUser(ClearedView(ns), "bind")) = "bind"
  BY <1>3, ViewCleared, RootUnmounted, UserMounted
<1>5. ns' \in View /\ (Serving(ns') \in {"bind", "host"} \/ wiped' = TRUE)
  BY <1>2, <1>3, <1>4, HostMounted
<1>6. UNCHANGED <<role, phase, reply, comp, fd, child, via>>
  BY <1>1 DEF appVars, compVars, childVars
<1>7. RangesOK'
  <2>1. state' \in States /\ ledger' \subseteq {"emulated", "user"}
    <3>1. NoState \in States /\ [targets |-> {"user"}, gen |-> 0, exists |-> TRUE] \in States
      BY AppStartAssumption DEF NoState
    <3>2. [targets |-> {"emulated"}, gen |-> session.gen, exists |-> TRUE] \in States
      BY <1>3
    <3> HIDE DEF States
    <3> QED BY <1>2, <3>1, <3>2 DEF StartInv, RangesOK, DiskRanges
  <2>2. DiskRanges'
    BY <1>1, <2>1, Zenon DEF StartInv, RangesOK, DiskRanges
  <2>3. rounds' \in 0 .. MaxRounds
    BY <1>1, AppStartAssumption DEF StartInv, RangesOK, EnvRanges
  <2>4. wiped' \in BOOLEAN
    BY <1>2, Zenon DEF StartInv, RangesOK, EnvRanges
  <2>5. EnvRanges'
    BY <1>1, <2>3, <2>4, Zenon DEF StartInv, RangesOK, EnvRanges
  <2> QED BY <1>1, <1>5, <2>2, <2>5, GroupsKept DEF StartInv, RangesOK
<1>8. ChildOK'
  BY <1>6 DEF StartInv, ChildOK
<1>9. BoundOK'
  BY <1>5 DEF BoundOK, Covered, Serving, Top
<1>10. CapturedOK'
  BY <1>1, <1>6 DEF CapturedOK
<1> QED BY <1>1, <1>6, <1>7, <1>8, <1>9, <1>10, SessionKept, ReplyKept DEF StartInv
LEMMA WorldFrame ==
    ASSUME StartInv, UNCHANGED <<appVars, ns, diskVars, compVars, childVars, wiped>>, EnvRanges', SessionOK'
    PROVE  StartInv'
<1>1. UNCHANGED appVars /\ UNCHANGED diskVars /\ UNCHANGED compVars /\ UNCHANGED childVars /\ ns' = ns
  OBVIOUS
<1>2. UNCHANGED <<role, phase, reply, state, comp, fd, child, via>> /\ wiped' = wiped
  BY <1>1 DEF appVars, diskVars, compVars, childVars
<1>3. RangesOK'
  BY <1>1, GroupsKept DEF StartInv, RangesOK
<1>4. ChildOK'
  BY <1>2 DEF StartInv, ChildOK
<1> QED BY <1>1, <1>2, <1>3, <1>4, BoundKept, CapturedKept, ReplyKept DEF StartInv
LEMMA WorldKeeps ==
    ASSUME StartInv, RegisterPolicy \/ SessionEnds \/ NewSession \/ Flip
    PROVE  StartInv'
<1> DEFINE Sessions == [gen : 0 .. MaxSessions, up : BOOLEAN, reg : BOOLEAN]
<1>1. session \in Sessions /\ enabled \in BOOLEAN /\ gate \in BOOLEAN /\ session.gen # 0
  BY DEF StartInv, RangesOK, EnvRanges, SessionOK
<1>2. CASE RegisterPolicy
  <2>1. /\ UNCHANGED <<appVars, ns, diskVars, compVars, childVars, wiped>>
        /\ UNCHANGED <<enabled, gate, rounds, flips>>
        /\ session' = [session EXCEPT !.reg = TRUE]
    BY <1>2 DEF RegisterPolicy
  <2>2. session' \in Sessions /\ session'.gen = session.gen /\ session'.up = session.up
    BY <1>1, <2>1
  <2>3. SessionOK'
    BY <2>2 DEF StartInv, SessionOK
  <2>4. EnvRanges'
    BY <2>1, <2>2, Zenon DEF StartInv, RangesOK, EnvRanges
  <2> QED BY <2>1, <2>3, <2>4, WorldFrame
<1>3. CASE SessionEnds
  <2>1. /\ UNCHANGED <<appVars, ns, diskVars, compVars, childVars, wiped>>
        /\ UNCHANGED <<enabled, gate, rounds, flips>>
        /\ session.gen < MaxSessions /\ session' = [session EXCEPT !.up = FALSE, !.reg = FALSE]
    BY <1>3 DEF SessionEnds
  <2>2. session' \in Sessions /\ session'.gen = session.gen
    BY <1>1, <2>1
  <2>3. SessionOK'
    BY <1>1, <2>1, <2>2 DEF SessionOK
  <2>4. EnvRanges'
    BY <2>1, <2>2, Zenon DEF StartInv, RangesOK, EnvRanges
  <2> QED BY <2>1, <2>3, <2>4, WorldFrame
<1>4. CASE NewSession
  <2>1. /\ UNCHANGED <<appVars, ns, diskVars, compVars, childVars, wiped>>
        /\ UNCHANGED <<enabled, gate, rounds, flips>>
        /\ ~session.up /\ session' = [gen |-> session.gen + 1, up |-> TRUE, reg |-> FALSE]
    BY <1>4 DEF NewSession
  <2>2. session.gen < MaxSessions
    BY <1>1, <2>1 DEF StartInv, SessionOK
  <2>3. session' \in Sessions
    BY <1>1, <2>1, <2>2, AppStartAssumption
  <2>4. SessionOK'
    BY <1>1, <2>1 DEF SessionOK
  <2>5. EnvRanges'
    BY <2>1, <2>3, Zenon DEF StartInv, RangesOK, EnvRanges
  <2> QED BY <2>1, <2>4, <2>5, WorldFrame
<1>5. CASE Flip
  <2>1. /\ UNCHANGED <<appVars, ns, diskVars, compVars, childVars, wiped>>
        /\ UNCHANGED <<session, rounds>> /\ flips < MaxFlips /\ flips' = flips + 1
    BY <1>5 DEF Flip
  <2>2. enabled' \in BOOLEAN /\ gate' \in BOOLEAN
    BY <1>1, <1>5, Zenon DEF Flip
  <2>3. flips' \in 0 .. MaxFlips
    BY <2>1, AppStartAssumption DEF StartInv, RangesOK, EnvRanges
  <2>4. EnvRanges'
    BY <2>1, <2>2, <2>3, Zenon DEF StartInv, RangesOK, EnvRanges
  <2>5. SessionOK'
    BY <2>1, SessionKept DEF StartInv
  <2> QED BY <2>1, <2>4, <2>5, WorldFrame
<1> QED BY <1>2, <1>3, <1>4, <1>5
LEMMA StillKeeps == ASSUME StartInv, UNCHANGED startVars PROVE StartInv'
<1>1. /\ UNCHANGED <<appVars, ns, diskVars, compVars, childVars, wiped>> /\ UNCHANGED envVars
      /\ UNCHANGED session
  BY DEF startVars, envVars
<1>2. EnvRanges' /\ SessionOK'
  BY <1>1, GroupsKept, SessionKept DEF StartInv, RangesOK
<1> QED BY <1>1, <1>2, WorldFrame

LEMMA StepsKeep == ASSUME StartInv, [StartNext]_startVars PROVE StartInv'
<1>1. CASE PreAppSpecialize \/ PostAppSpecialize
  BY <1>1, PreKeeps, PostKeeps
<1>2. CASE CompanionStep
  BY <1>2, DenyKeeps, PressKeeps, ForkKeeps, WaitKeeps, SettleKeeps DEF CompanionStep
<1>3. CASE ChildStep
  BY <1>3, EntersKeeps, CleansKeeps, ReleasesKeeps, AttachesKeeps, FallsBackKeeps, SavesKeeps,
     RecordsKeeps, ConcludesKeeps DEF ChildStep
<1>4. CASE DaemonRound
  BY <1>4, RoundKeeps
<1>5. CASE RegisterPolicy \/ SessionEnds \/ NewSession \/ Flip
  BY <1>5, WorldKeeps
<1>6. CASE UNCHANGED startVars
  BY <1>6, StillKeeps
<1> QED BY <1>1, <1>2, <1>3, <1>4, <1>5, <1>6 DEF StartNext

LEMMA StartInvariant == StartSpec => []StartInv
BY StartHolds, StepsKeep, PTL DEF StartSpec

-----------------------------------------------------------------------------
(* What follows.                                                            *)

\* The table, the files and every party's control point keep their ranges.
THEOREM StartTypeCorrect == StartSpec => []StartTypeOK
<1>1. StartInv => StartTypeOK
  <2> SUFFICES ASSUME StartInv PROVE StartTypeOK
    OBVIOUS
  <2>1. /\ ns # <<>> /\ \A i \in 1 .. Len(ns) :
              ns[i].kind \in {"bare", "system", "host"} /\ ns[i].gen \in 0 .. MaxSessions /\ ns[i].u \in UserLayers
    <3>1. ns \in Seq(RootLayer) /\ ns # <<>>
      BY DEF StartInv, RangesOK, View
    <3>2. \A i \in 1 .. Len(ns) : ns[i] \in RootLayer
      BY <3>1, ElementOfSeq
    <3> QED BY <3>1, <3>2 DEF RootLayer
  <2>2. \A w \in UserLayers : \A j \in 1 .. Len(w) : w[j] \in {"barrier", "bind"}
    BY ElementOfSeq DEF UserLayers
  <2>3. {enabled, gate, roots, fd, wiped} \subseteq BOOLEAN
    BY Zenon DEF StartInv, RangesOK, CompRanges, EnvRanges
  <2>4. AppRanges /\ DiskRanges /\ CompRanges /\ ChildRanges /\ EnvRanges
    BY DEF StartInv, RangesOK
  <2> QED BY <2>1, <2>2, <2>3, <2>4, Zenon
          DEF StartTypeOK, AppRanges, DiskRanges, CompRanges, ChildRanges, EnvRanges
<1> QED BY <1>1, StartInvariant, PTL

\* "ok" is told only of a user root that a layer of the module serves, whatever
\* switch, gate, session and daemon did since the child mounted it.
THEOREM OkIsCovered == StartSpec => OkMeansCovered
<1>1. StartInv /\ [StartNext]_startVars => [ChildConcludes /\ result' = "ok" => Covered(ns') \/ wiped]_startVars
  <2> SUFFICES ASSUME StartInv, ChildConcludes, result' = "ok" PROVE Covered(ns') \/ wiped
    OBVIOUS
  <2>1. child = "conclude" /\ ~Exposed /\ ns' = ns
    BY DEF ChildConcludes, ChildQuits
  <2>2. CASE via = 0
    BY <2>1, <2>2 DEF StartInv, BoundOK, Covered, Serving, Top
  <2>3. CASE via # 0
    BY <2>1, <2>3 DEF Exposed, Covered, Serving, Top
  <2> QED BY <2>2, <2>3
<1> QED BY <1>1, StartInvariant, PTL DEF StartSpec, OkMeansCovered

\* Where a barrier can be mounted, "failed" leaves a protected process behind it.
THEOREM FailedIsClosed == ASSUME ~Fails("barrier") PROVE StartSpec => FailClosed
<1>1. ASSUME StartInv, Settle, status' = "failed", roots, role # "captured" PROVE ~Raw(ns')
  <2>1. ns' \in BarrierOutcomes(ns) /\ InstallsBarrier
    BY <1>1 DEF Settle, Represses, InstallsBarrier
  <2>2. Serving(ns') = "barrier"
    BY <1>1, <2>1, BarrierUp DEF StartInv, RangesOK
  <2> QED BY <2>2 DEF Raw, Serving, Top
<1>2. StartInv /\ [StartNext]_startVars
        => [Settle /\ status' = "failed" /\ roots /\ role # "captured" => ~Raw(ns')]_startVars
  BY <1>1
<1> QED BY <1>2, StartInvariant, PTL DEF StartSpec, FailClosed

\* What a request is answered with is true of the view.
THEOREM AnswersAreHonest == ASSUME ~Fails("barrier") PROVE StartSpec => AnswersHonest
BY OkIsCovered, FailedIsClosed, PTL DEF AnswersHonest

\* A captured process keeps the system's own view, and no application runs on
\* with the companion's connection.
THEOREM CapturedUntouched == StartSpec => [](CapturedKeepsView /\ ReplyConsumed)
<1>1. StartInv => CapturedKeepsView /\ ReplyConsumed
  BY DEF StartInv, CapturedOK, CapturedKeepsView
<1> QED BY <1>1, StartInvariant, PTL

=============================================================================
