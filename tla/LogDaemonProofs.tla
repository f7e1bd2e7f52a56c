--------------------------- MODULE LogDaemonProofs ---------------------------
(* What TLAPS establishes about LogDaemon for every set of senders, packets   *)
(* and packages, every limit and every number of crashes: the counter file    *)
(* implements ActivationCount, no request is forgotten, the monitor log is    *)
(* honest and the limiter turns nobody away without a reason.                 *)
EXTENDS LogDaemon, TLAPS, SequenceTheorems, FunctionTheorems, FiniteSetTheorems

-----------------------------------------------------------------------------
\* Every limit is a positive number.
LEMMA Limits ==
    /\ SocketMax \in Nat \ {0} /\ MaxRecords \in Nat \ {0} /\ Window \in Nat \ {0}
    /\ MaxTracked \in Nat \ {0} /\ FlushBatch \in Nat \ {0} /\ MaxLines \in Nat \ {0}
    /\ MaxAttempts \in Nat \ {0} /\ PerCycle \in Nat \ {0}
    /\ MaxSends \in Nat /\ MaxTime \in Nat /\ MaxCrashes \in Nat
<1> DEFINE L == {SocketMax, MaxRecords, Window, MaxTracked, FlushBatch, MaxLines, MaxAttempts, PerCycle}
           M == {MaxSends, MaxTime, MaxCrashes}
<1>1. /\ SocketMax \in L /\ MaxRecords \in L /\ Window \in L /\ MaxTracked \in L
      /\ FlushBatch \in L /\ MaxLines \in L /\ MaxAttempts \in L /\ PerCycle \in L
      /\ MaxSends \in M /\ MaxTime \in M /\ MaxCrashes \in M
  OBVIOUS
<1>2. L \subseteq Nat \ {0} /\ M \subseteq Nat
  BY LogAssumption
<1> HIDE DEF L, M
<1> QED  BY <1>1, <1>2

(* The counter.  Its file never runs ahead: every path that writes the file   *)
(* or resets the count keeps saved below count.                               *)

CounterInv == count \in Nat /\ saved \in Nat /\ saved <= count

\* FlushPending and Crash either save, restart, or leave the counter alone.
LEMMA CounterStep ==
    ASSUME CounterInv, [Next]_vars
    PROVE  CounterInv' /\ [Counter!Next]_(Counter!vars)
<1> USE DEF CounterInv, Counter!vars, Counter!Next, Counter!Count, Counter!Save,
            Counter!Reset, Counter!Restart
<1>1. CASE Receive
  <2> DEFINE p == Head(socket)
  <2>1. CASE p.tag = "monitor" /\ Monitor(p.uid)
    BY <2>1 DEF Monitor
  <2>2. CASE p.tag = "stats" /\ AddStats(p.uid)
    <3>1. saved' = saved
      BY <2>2 DEF AddStats
    <3>2. count' = count + 1 \/ count' = count
      BY <2>2 DEF AddStats
    <3> QED  BY <3>1, <3>2
  <2>3. CASE p.tag \notin Records /\ p.uid = Root /\ Control(p)
    <3>1. CASE ClearMonitor  BY <3>1 DEF ClearMonitor
    <3>2. CASE FlushPending  BY <3>2 DEF FlushPending
    <3>3. CASE ResetStats  BY <3>3 DEF ResetStats
    <3>4. CASE Request(p.tag, p.arg)  BY <3>4 DEF Request, logVars
    <3> QED  BY <2>3, <3>1, <3>2, <3>3, <3>4 DEF Control
  <2>4. CASE UNCHANGED <<slot, waking, logVars>>
    BY <2>4 DEF logVars
  <2> QED  BY <1>1, <2>1, <2>2, <2>3, <2>4 DEF Receive
<1>2. CASE FlushIfDue
  BY <1>2 DEF FlushIfDue, FlushPending
<1>3. CASE Crash
  BY <1>3 DEF Crash
<1>4. CASE Main
  BY <1>4 DEF Main, Boot, Take, Skip, Reconcile, Drain, Serve, PollWoken, PollElse, Elapse,
              Others, logVars
<1>5. CASE WakeDaemon \/ Tick \/ (\E p \in Packets : Send(p))
  BY <1>5 DEF WakeDaemon, Tick, Send, logVars
<1>6. CASE UNCHANGED vars
  BY <1>6 DEF vars, logVars
<1> QED  BY <1>1, <1>2, <1>3, <1>4, <1>5, <1>6 DEF Next

\* The file of the activation counter trails the true count, never leads it, and
\* goes back only by a reset; a crash costs what it had not been told (add_stats,
\* flush_pending, reset_stats, persist_runtime_activations).
THEOREM CounterRefines == Spec => CounterSpec
<1>1. Init => CounterInv /\ Counter!Init
  BY DEF Init, CounterInv, Counter!Init
<1>2. CounterInv /\ [Next]_vars => CounterInv' /\ [Counter!Next]_(Counter!vars)
  BY CounterStep
<1> QED  BY <1>1, <1>2, PTL DEF Spec, CounterSpec, Counter!Spec

-----------------------------------------------------------------------------
(* The request slots.                                                         *)

\* Where in a turn the main loop has not yet emptied a slot.
BeforeTake(s) == IF s = "reconcile" THEN {"boot", "reconcile"} ELSE {"boot", "reconcile", "register"}

\* A request that waits has woken the main loop, is about to, or meets it before
\* it takes that slot.  NoLostWake says it of a sleeping loop only, which is not
\* inductive: the eventfd is read before the slots are.
WakeInv ==
    /\ slot = [s \in Slots |-> slot[s]]
    /\ \A s \in Slots : slot[s] # None => wake = TRUE \/ waking = s \/ pc \in BeforeTake(s)

\* No step of either thread forgets a request.
LEMMA WakeStep == WakeInv /\ [Next]_vars => WakeInv'
<1> SUFFICES ASSUME WakeInv, [Next]_vars PROVE WakeInv'
  OBVIOUS
<1> USE DEF WakeInv
<1>1. CASE Receive
  <2> DEFINE p == Head(socket)
  <2>1. waking = None /\ wake' = wake /\ pc' = pc
    BY <1>1 DEF Receive, mainVars
  <2>2. CASE UNCHANGED <<slot, waking>>
    BY <2>1, <2>2
  <2>3. CASE p.tag \in Slots /\ Request(p.tag, p.arg)
    <3>1. slot' = [slot EXCEPT ![p.tag] = p.arg] /\ waking' = p.tag
      BY <2>3 DEF Request
    <3>2. \A s \in Slots : s # None
      BY DEF Slots, None
    <3> QED  BY <2>1, <2>3, <3>1, <3>2
  <2> QED
    BY <1>1, <2>2, <2>3 DEF Receive, Monitor, AddStats, Control, ClearMonitor, ResetStats
<1>2. CASE WakeDaemon
  BY <1>2 DEF WakeDaemon, mainVars
<1>3. CASE Crash
  BY <1>3 DEF Crash
<1>4. CASE Main
  <2>1. CASE Boot
    BY <2>1 DEF Boot, Others, BeforeTake
  <2>2. CASE Take("reconcile", "register")
    BY <2>2 DEF Take, BeforeTake, Slots
  <2>3. CASE Take("register", "work")
    BY <2>3 DEF Take, BeforeTake, Slots
  <2>4. CASE Skip \/ Reconcile \/ Drain \/ Serve \/ PollElse
    BY <2>4 DEF Skip, Reconcile, Drain, Serve, PollElse, Others, BeforeTake
  <2>5. CASE PollWoken
    BY <2>5 DEF PollWoken, BeforeTake
  <2>6. CASE Elapse
    BY <2>6 DEF Elapse, Others
  <2> QED  BY <1>4, <2>1, <2>2, <2>3, <2>4, <2>5, <2>6 DEF Main
<1>5. CASE FlushIfDue \/ Tick \/ (\E p \in Packets : Send(p))
  BY <1>5 DEF FlushIfDue, Tick, Send, mainVars
<1>6. CASE UNCHANGED vars
  BY <1>6 DEF vars, mainVars
<1> QED  BY <1>1, <1>2, <1>3, <1>4, <1>5, <1>6 DEF Next

-----------------------------------------------------------------------------
(* The registrations of the boot and their retries.                           *)

Entry == [app : Apps, tries : 0 .. MaxAttempts - 1]

\* One entry for a package at most, and no package is unaccounted for.
RetryInv ==
    /\ retries \in Seq(Entry)
    /\ \A i, j \in DOMAIN retries : retries[i].app = retries[j].app => i = j
    /\ Accounted

\* An order of a finite set is a sequence that has each element once.
LEMMA OrdersProperties ==
    ASSUME NEW S, IsFiniteSet(S), NEW q \in Orders(S)
    PROVE  /\ q \in Seq(S) /\ Range(q) = S
           /\ DOMAIN q = 1 .. Cardinality(S) /\ Len(q) = Cardinality(S)
           /\ \A i, j \in DOMAIN q : q[i] = q[j] => i = j
<1> DEFINE n == Cardinality(S)
<1>1. n \in Nat
  BY FS_CardinalityType
<1>2. q \in [1 .. n -> S] /\ Range(q) = S
  BY DEF Orders
<1>3. IsFiniteSet(1 .. n) /\ Cardinality(1 .. n) = n
  BY <1>1, FS_Interval
<1>4. q \in Surjection(1 .. n, S)
  BY <1>2 DEF Surjection, Range
<1>5. q \in Injection(1 .. n, S)
  BY <1>3, <1>4, FS_SurjSameCardinalityImpliesInj
<1>6. q \in Seq(S) /\ Len(q) = n
  BY <1>1, <1>2, IsASeq
<1> QED  BY <1>2, <1>5, <1>6 DEF Injection, IsInjective

\* What is enqueued is known by its package.
LEMMA EnqueuedProperties ==
    ASSUME RetryInv, NEW S \in SUBSET Apps, S \cap Queued(retries) = {}, NEW q \in Orders(S)
    PROVE  /\ Enqueued(q) \in Seq(Entry)
           /\ \A i, j \in DOMAIN Enqueued(q) : Enqueued(q)[i].app = Enqueued(q)[j].app => i = j
           /\ Queued(Enqueued(q)) = Queued(retries) \cup S
<1> DEFINE new == [i \in DOMAIN q |-> [app |-> q[i], tries |-> 0]]
<1>1. IsFiniteSet(S)
  BY LogAssumption, FS_Subset
<1>2. /\ q \in Seq(S) /\ Range(q) = S /\ DOMAIN q = 1 .. Len(q)
      /\ \A i, j \in DOMAIN q : q[i] = q[j] => i = j
  BY <1>1, OrdersProperties
<1>3. MaxAttempts \in Nat /\ MaxAttempts # 0
  BY LogAssumption
<1>4. new \in Seq(Entry) /\ Len(new) = Len(q) /\ DOMAIN new = 1 .. Len(q)
  <2>1. Len(q) \in Nat /\ \A i \in 1 .. Len(q) : q[i] \in S
    BY <1>2, LenProperties, ElementOfSeq
  <2>2. \A i \in 1 .. Len(q) : [app |-> q[i], tries |-> 0] \in Entry
    BY <1>3, <2>1 DEF Entry
  <2> QED  BY <1>2, <2>1, <2>2, IsASeq
<1>5. retries \in Seq(Entry)
  BY DEF RetryInv
<1>6. /\ Enqueued(q) = retries \o new
      /\ Enqueued(q) \in Seq(Entry) /\ Len(Enqueued(q)) = Len(retries) + Len(q)
      /\ \A i \in 1 .. Len(retries) : Enqueued(q)[i] = retries[i]
      /\ \A i \in Len(retries) + 1 .. Len(retries) + Len(q) : Enqueued(q)[i] = new[i - Len(retries)]
      /\ DOMAIN Enqueued(q) = 1 .. Len(retries) + Len(q) /\ DOMAIN retries = 1 .. Len(retries)
      /\ Len(retries) \in Nat /\ Len(q) \in Nat
  BY <1>2, <1>4, <1>5, ConcatProperties, LenProperties DEF Enqueued
<1>7. \A i \in 1 .. Len(retries) : Enqueued(q)[i].app \in Queued(retries)
  BY <1>6 DEF Queued
<1>8. \A i \in Len(retries) + 1 .. Len(retries) + Len(q) :
         i - Len(retries) \in 1 .. Len(q) /\ Enqueued(q)[i].app = q[i - Len(retries)]
  BY <1>2, <1>6
<1>9. \A i \in Len(retries) + 1 .. Len(retries) + Len(q) : Enqueued(q)[i].app \in S
  BY <1>2, <1>6, <1>8 DEF Range
<1>10. ASSUME NEW i \in DOMAIN Enqueued(q), NEW j \in DOMAIN Enqueued(q),
              Enqueued(q)[i].app = Enqueued(q)[j].app
       PROVE  i = j
  <2>1. CASE i \in 1 .. Len(retries) /\ j \in 1 .. Len(retries)
    BY <1>6, <1>10, <2>1 DEF RetryInv
  <2>2. CASE i \notin 1 .. Len(retries) /\ j \notin 1 .. Len(retries)
    <3>1. q[i - Len(retries)] = q[j - Len(retries)]
      BY <1>6, <1>8, <1>10, <2>2
    <3> QED  BY <1>2, <1>6, <1>8, <2>2, <3>1
  <2>3. CASE (i \in 1 .. Len(retries)) # (j \in 1 .. Len(retries))
    BY <1>6, <1>7, <1>9, <1>10, <2>3
  <2> QED  BY <2>1, <2>2, <2>3
<1>11. Queued(Enqueued(q)) = Queued(retries) \cup S
  <2>1. Queued(Enqueued(q)) \subseteq Queued(retries) \cup S
    BY <1>6, <1>7, <1>9 DEF Queued
  <2>2. Queued(retries) \subseteq Queued(Enqueued(q))
    BY <1>6 DEF Queued
  <2>3. ASSUME NEW a \in S PROVE a \in Queued(Enqueued(q))
    <3>1. PICK k \in 1 .. Len(q) : q[k] = a
      BY <1>2 DEF Range
    <3>2. /\ k + Len(retries) \in Len(retries) + 1 .. Len(retries) + Len(q)
          /\ (k + Len(retries)) - Len(retries) = k /\ k + Len(retries) \in DOMAIN Enqueued(q)
      BY <1>6
    <3>3. Enqueued(q)[k + Len(retries)].app = a
      BY <1>8, <3>1, <3>2
    <3> QED  BY <3>2, <3>3 DEF Queued
  <2> QED  BY <2>1, <2>2, <2>3
<1> QED  BY <1>6, <1>10, <1>11

\* What stays after a drain keeps its order and its package; every package that
\* leaves was registered or is accounted for as dropped.
LEMMA DrainedProperties ==
    ASSUME RetryInv, NEW out, NEW at \in Ascending(Stay(retries, out))
    PROVE  LET d == Drained(retries, out, at) IN
           /\ d.queue \in Seq(Entry)
           /\ \A i, j \in DOMAIN d.queue : d.queue[i].app = d.queue[j].app => i = j
           /\ Queued(retries) \subseteq Queued(d.queue) \cup d.ok \cup d.left
<1> DEFINE d == Drained(retries, out, at)
           S == Stay(retries, out)
<1>1. /\ retries \in Seq(Entry) /\ DOMAIN retries = 1 .. Len(retries) /\ Len(retries) \in Nat
      /\ \A i \in DOMAIN retries : retries[i] \in Entry
  BY LenProperties, ElementOfSeq DEF RetryInv
<1>2. IsFiniteSet(S) /\ S \subseteq DOMAIN retries
  <2>1. IsFiniteSet(1 .. Len(retries))
    BY <1>1, FS_Interval
  <2> QED  BY <1>1, <2>1, FS_Subset DEF Stay
<1>3. /\ at \in Seq(S) /\ Range(at) = S /\ DOMAIN at = 1 .. Len(at) /\ Len(at) \in Nat
      /\ \A i, j \in DOMAIN at : at[i] = at[j] => i = j
      /\ \A k \in DOMAIN at : at[k] \in S
  <2>1. at \in Orders(S)
    BY DEF Ascending
  <2> QED  BY <1>2, <2>1, OrdersProperties, LenProperties, ElementOfSeq
<1> DEFINE e(k) == [retries[at[k]] EXCEPT !.tries = IF Tried(at[k], out) THEN OneMore(@) ELSE @]
<1>4. DOMAIN d.queue = 1 .. Len(at) /\ \A k \in 1 .. Len(at) : d.queue[k] = e(k)
  BY <1>3 DEF Drained
<1>5. ASSUME NEW k \in 1 .. Len(at)
      PROVE  d.queue[k] \in Entry /\ d.queue[k].app = retries[at[k]].app
  <2> DEFINE q == retries[at[k]]
  <2>1. q \in Entry /\ at[k] \in S
    BY <1>1, <1>2, <1>3
  <2>2. q.app \in Apps /\ q.tries \in 0 .. MaxAttempts - 1 /\ MaxAttempts \in Nat
    BY <2>1, LogAssumption DEF Entry
  <2>3. Tried(at[k], out) => ~GivesUp(OneMore(q.tries))
    BY <2>1 DEF Stay, Leaves
  <2>4. Tried(at[k], out) => OneMore(q.tries) \in 0 .. MaxAttempts - 1
    BY <2>2, <2>3 DEF GivesUp, OneMore
  <2>5. e(k) \in Entry /\ e(k).app = q.app
    <3>1. CASE Tried(at[k], out)
      <4>1. e(k) = [q EXCEPT !.tries = OneMore(q.tries)]
        BY <3>1
      <4> QED  BY <2>1, <2>4, <3>1, <4>1 DEF Entry
    <3>2. CASE ~Tried(at[k], out)
      BY <2>1, <3>2 DEF Entry
    <3> QED  BY <3>1, <3>2
  <2> QED  BY <1>4, <2>5
<1> HIDE DEF d, e
<1>6. d.queue \in Seq(Entry)
  <2>1. d.queue = [k \in 1 .. Len(at) |-> d.queue[k]]
    BY <1>3, <1>4 DEF d, Drained
  <2> QED  BY <1>3, <1>5, <2>1, IsASeq
<1>7. \A i, j \in DOMAIN d.queue : d.queue[i].app = d.queue[j].app => i = j
  BY <1>2, <1>3, <1>4, <1>5 DEF RetryInv
<1>8. Queued(retries) \subseteq Queued(d.queue) \cup d.ok \cup d.left
  <2>1. SUFFICES ASSUME NEW i \in DOMAIN retries
                 PROVE  retries[i].app \in Queued(d.queue) \cup d.ok \cup d.left
    BY DEF Queued
  <2>2. CASE i \in S
    <3>1. PICK k \in 1 .. Len(at) : at[k] = i
      BY <1>3, <2>2 DEF Range
    <3> QED  BY <1>4, <1>5, <3>1 DEF Queued
  <2>3. CASE i \notin S
    <3>1. Leaves(i, retries, out) /\ Tried(i, out)
      BY <2>3 DEF Stay, Leaves
    <3>2. CASE out[i] = "registered"
      BY <3>1, <3>2 DEF d, Drained
    <3>3. CASE out[i] # "registered"
      BY <3>1, <3>3 DEF d, Drained
    <3> QED  BY <3>2, <3>3
  <2> QED  BY <2>2, <2>3
<1> QED  BY <1>6, <1>7, <1>8 DEF d

\* No step loses sight of a package.
LEMMA RetryStep == RetryInv /\ [Next]_vars => RetryInv'
<1> SUFFICES ASSUME RetryInv, [Next]_vars PROVE RetryInv'
  OBVIOUS
<1> DEFINE Keeps == UNCHANGED <<retries, passes, registered, dropped>>
<1>1. ASSUME Keeps PROVE RetryInv'
  BY <1>1 DEF RetryInv, Accounted, Queued
<1>2. ASSUME NEW pass, PreRegisterAll(pass), dropped' = dropped PROVE RetryInv'
  <2>1. PICK refused \in SUBSET Apps : \E q \in Orders(refused \ Queued(retries)) :
          /\ registered' = registered \cup (Apps \ refused)
          /\ retries' = Enqueued(q)
    BY <1>2 DEF PreRegisterAll
  <2> DEFINE S == refused \ Queued(retries)
  <2>2. PICK q \in Orders(S) : retries' = Enqueued(q)
    BY <2>1
  <2>3. S \in SUBSET Apps /\ S \cap Queued(retries) = {}
    OBVIOUS
  <2>4. /\ retries' \in Seq(Entry)
        /\ \A i, j \in DOMAIN retries' : retries'[i].app = retries'[j].app => i = j
        /\ Queued(retries') = Queued(retries) \cup S
    BY <2>2, <2>3, EnqueuedProperties
  <2>5. Accounted'
    BY <1>2, <2>1, <2>4 DEF Accounted, Queued
  <2> QED  BY <2>4, <2>5 DEF RetryInv
<1>3. CASE Drain
  <2>0. PICK out : \E at \in Ascending(Stay(retries, out)) :
          LET d == Drained(retries, out, at) IN
          retries' = d.queue /\ registered' = registered \cup d.ok /\ dropped' = dropped \cup d.left
    BY <1>3 DEF Drain
  <2>1. PICK at \in Ascending(Stay(retries, out)) :
          LET d == Drained(retries, out, at) IN
          retries' = d.queue /\ registered' = registered \cup d.ok /\ dropped' = dropped \cup d.left
    BY <2>0
  <2>2. passes' = passes
    BY <1>3 DEF Drain
  <2> DEFINE d == Drained(retries, out, at)
  <2>3. /\ d.queue \in Seq(Entry)
        /\ \A i, j \in DOMAIN d.queue : d.queue[i].app = d.queue[j].app => i = j
        /\ Queued(retries) \subseteq Queued(d.queue) \cup d.ok \cup d.left
    BY DrainedProperties
  <2> HIDE DEF d
  <2>4. retries' = d.queue /\ registered' = registered \cup d.ok /\ dropped' = dropped \cup d.left
    BY <2>1 DEF d
  <2>5. Queued(retries') = Queued(d.queue)
    BY <2>4
  <2>6. Accounted'
    BY <2>2, <2>3, <2>4 DEF Accounted, RetryInv, Queued
  <2> QED  BY <2>3, <2>4, <2>6 DEF RetryInv
<1>4. CASE Crash
  BY <1>4, EmptySeq DEF Crash, RetryInv, Accounted
<1>5. CASE Boot \/ Reconcile
  <2>1. dropped' = dropped
    BY <1>5 DEF Boot, Reconcile
  <2>2. PreRegisterAll("boot") \/ PreRegisterAll("media") \/ Keeps
    BY <1>5, <2>1 DEF Boot, Reconcile
  <2> QED  BY <1>1, <1>2, <2>1, <2>2
<1>6. CASE \/ Receive \/ WakeDaemon \/ FlushIfDue \/ Tick \/ (\E p \in Packets : Send(p))
           \/ UNCHANGED vars
  BY <1>1, <1>6 DEF Receive, WakeDaemon, FlushIfDue, Tick, Send, vars, mainVars
<1>7. CASE Main
  <2>1. CASE Take("reconcile", "register") \/ Take("register", "work") \/ PollWoken
    BY <1>1, <2>1 DEF Take, PollWoken
  <2>2. CASE Skip \/ Serve \/ PollElse \/ Elapse
    BY <1>1, <2>2 DEF Skip, Serve, PollElse, Elapse
  <2> QED  BY <1>3, <1>5, <1>7, <2>1, <2>2 DEF Main
<1> QED  BY <1>3, <1>4, <1>6, <1>7 DEF Next

\* While the main loop sleeps with nothing to wake it no request waits in a slot, and
\* after the boot every package is registered, queued or given up (wake_daemon,
\* wait_for_daemon_events, enqueue_policy_retry, drain_pending_policy_retries).
THEOREM RequestsKept == Spec => []NothingForgotten
<1>1. Init => WakeInv /\ RetryInv
  BY EmptySeq DEF Init, WakeInv, RetryInv, Accounted
<1>2. WakeInv /\ RetryInv => NothingForgotten
  <2>1. ~wake => wake # TRUE
    OBVIOUS
  <2>2. WakeInv /\ wake # TRUE /\ waking = None /\ pc = "poll" => \A s \in Slots : slot[s] = None
    BY DEF WakeInv, BeforeTake, Slots, None
  <2>3. WakeInv => NoLostWake
    BY <2>1, <2>2, Zenon DEF NoLostWake
  <2> QED  BY <2>3, Zenon DEF RetryInv, NothingForgotten
<1> QED  BY <1>1, <1>2, WakeStep, RetryStep, PTL DEF Spec

-----------------------------------------------------------------------------
(* The monitor log.                                                           *)

Logs == [file : Seq(Nat), pend : Seq(Nat), b1 : Seq(Nat), b2 : Seq(Nat)]
Sorted(s) == \A i, j \in 1 .. Len(s) : i < j => s[i] < s[j]

\* The files, oldest first, and the buffer.
All(l) == l.b2 \o l.b1 \o l.file \o l.pend

\* A record that is not there, was not taken by a crash and not cleared, was in
\* a backup that was rotated away: both backups are full and all they hold is newer.
Missed(l, n, clr, lost) ==
    \/ n \in Range(All(l)) \/ n \in lost \/ n <= clr
    \/ l.b2 # <<>> /\ \A m \in Range(All(l)) : n < m

\* clr: the last record cleared; nxt: the next to come; lost: taken by crashes.
Good(l, clr, nxt, lost) ==
    /\ l \in Logs
    /\ Sorted(All(l))
    /\ \A m \in Range(All(l)) : clr < m /\ m < nxt
    /\ l.b1 = <<>> \/ Len(l.b1) > MaxLines
    /\ l.b2 = <<>> \/ (Len(l.b2) > MaxLines /\ l.b1 # <<>>)
    /\ \A n \in 1 .. nxt - 1 : Missed(l, n, clr, lost)

\* A sorted sequence consists of sorted parts, the second above the first.
LEMMA SortedParts ==
    ASSUME NEW s \in Seq(Nat), NEW t \in Seq(Nat)
    PROVE  /\ Sorted(s \o t) <=> /\ Sorted(s) /\ Sorted(t)
                                 /\ \A m \in Range(s), n \in Range(t) : m < n
           /\ s \o t \in Seq(Nat)
           /\ Range(s \o t) = Range(s) \cup Range(t)
<1> DEFINE c == s \o t
<1>1. /\ c \in Seq(Nat) /\ Len(c) = Len(s) + Len(t)
      /\ \A i \in 1 .. Len(s) : c[i] = s[i]
      /\ \A i \in 1 .. Len(t) : c[Len(s) + i] = t[i]
      /\ \A i \in Len(s) + 1 .. Len(s) + Len(t) : c[i] = t[i - Len(s)]
      /\ Len(s) \in Nat /\ Len(t) \in Nat
  <2>1. /\ c \in Seq(Nat) /\ Len(c) = Len(s) + Len(t) /\ Len(s) \in Nat /\ Len(t) \in Nat
        /\ \A i \in 1 .. Len(s) + Len(t) : c[i] = IF i <= Len(s) THEN s[i] ELSE t[i - Len(s)]
    BY ConcatProperties, LenProperties
  <2>2. ASSUME NEW i \in 1 .. Len(t) PROVE c[Len(s) + i] = t[i]
    <3>1. Len(s) + i \in 1 .. Len(s) + Len(t) /\ ~(Len(s) + i <= Len(s)) /\ (Len(s) + i) - Len(s) = i
      BY <2>1
    <3> QED  BY <2>1, <3>1
  <2> QED  BY <2>1, <2>2
<1>2. Range(s) = {s[i] : i \in 1 .. Len(s)} /\ Range(t) = {t[i] : i \in 1 .. Len(t)}
  BY RangeEquality
<1>3. \A i \in 1 .. Len(s) : s[i] \in Nat
  BY ElementOfSeq
<1>4. \A i \in 1 .. Len(t) : t[i] \in Nat
  BY ElementOfSeq
<1>0. Len(c) = Len(s) + Len(t) /\ Len(s) \in Nat /\ Len(t) \in Nat
  BY <1>1
<1> HIDE DEF c
<1>5. ASSUME Sorted(c) PROVE Sorted(s) /\ Sorted(t) /\ \A m \in Range(s), n \in Range(t) : m < n
  <2>1. Sorted(s)
    BY <1>1, <1>5 DEF Sorted
  <2>2. Sorted(t)
    <3> SUFFICES ASSUME NEW i \in 1 .. Len(t), NEW j \in 1 .. Len(t), i < j PROVE t[i] < t[j]
      BY DEF Sorted
    <3>1. Len(s) + i \in 1 .. Len(c) /\ Len(s) + j \in 1 .. Len(c) /\ Len(s) + i < Len(s) + j
      BY <1>0
    <3>2. c[Len(s) + i] < c[Len(s) + j]
      BY <1>5, <3>1 DEF Sorted
    <3> QED  BY <1>1, <3>2
  <2>3. ASSUME NEW i \in 1 .. Len(s), NEW j \in 1 .. Len(t) PROVE s[i] < t[j]
    <3>1. i \in 1 .. Len(c) /\ Len(s) + j \in 1 .. Len(c) /\ i < Len(s) + j
      BY <1>0
    <3>2. c[i] < c[Len(s) + j]
      BY <1>5, <3>1 DEF Sorted
    <3> QED  BY <1>1, <3>2
  <2> QED  BY <1>2, <2>1, <2>2, <2>3
<1>6. ASSUME Sorted(s), Sorted(t), \A m \in Range(s), n \in Range(t) : m < n PROVE Sorted(c)
  <2> SUFFICES ASSUME NEW i \in 1 .. Len(c), NEW j \in 1 .. Len(c), i < j PROVE c[i] < c[j]
    BY DEF Sorted
  <2>1. CASE j <= Len(s)
    <3>1. i \in 1 .. Len(s) /\ j \in 1 .. Len(s) /\ c[i] = s[i] /\ c[j] = s[j]
      BY <1>1, <2>1
    <3>2. s[i] < s[j]
      BY <1>6, <3>1 DEF Sorted
    <3> QED  BY <3>1, <3>2
  <2>2. CASE i > Len(s)
    <3>1. /\ i - Len(s) \in 1 .. Len(t) /\ j - Len(s) \in 1 .. Len(t) /\ i - Len(s) < j - Len(s)
          /\ i \in Len(s) + 1 .. Len(s) + Len(t) /\ j \in Len(s) + 1 .. Len(s) + Len(t)
      BY <1>0, <2>2
    <3>2. c[i] = t[i - Len(s)] /\ c[j] = t[j - Len(s)]
      BY <1>1, <3>1
    <3> QED  BY <1>6, <3>1, <3>2 DEF Sorted
  <2>3. CASE i <= Len(s) /\ j > Len(s)
    <3>1. i \in 1 .. Len(s) /\ j - Len(s) \in 1 .. Len(t) /\ j \in Len(s) + 1 .. Len(s) + Len(t)
      BY <1>0, <2>3
    <3>2. c[i] = s[i] /\ c[j] = t[j - Len(s)]
      BY <1>1, <3>1
    <3>3. s[i] \in Range(s) /\ t[j - Len(s)] \in Range(t)
      BY <1>2, <3>1
    <3> QED  BY <1>6, <3>2, <3>3
  <2> QED  BY <1>0, <2>1, <2>2, <2>3
<1>7. Range(s \o t) = Range(s) \cup Range(t)
  BY RangeConcatenation
<1> QED  BY <1>1, <1>5, <1>6, <1>7 DEF c

\* ConcatAssociative for record numbers, as the provers can use it.
LEMMA NatAssociative == \A s, t, u \in Seq(Nat) : (s \o t) \o u = s \o (t \o u)
BY ConcatAssociative

\* The pieces of the log, and what they hold together.
LEMMA AllProperties ==
    ASSUME NEW l \in Logs
    PROVE  /\ l.b2 \in Seq(Nat) /\ l.b1 \in Seq(Nat) /\ l.file \in Seq(Nat) /\ l.pend \in Seq(Nat)
           /\ All(l) \in Seq(Nat)
           /\ All(l) = l.b2 \o (l.b1 \o (l.file \o l.pend))
           /\ Range(All(l)) = Range(l.b2) \cup Range(l.b1) \cup Range(l.file) \cup Range(l.pend)
<1>1. l.b2 \in Seq(Nat) /\ l.b1 \in Seq(Nat) /\ l.file \in Seq(Nat) /\ l.pend \in Seq(Nat)
  BY DEF Logs
<1>2. ASSUME NEW s \in Seq(Nat), NEW t \in Seq(Nat)
      PROVE  s \o t \in Seq(Nat) /\ Range(s \o t) = Range(s) \cup Range(t)
  BY SortedParts
<1>3. \A s, t, u \in Seq(Nat) : (s \o t) \o u = s \o (t \o u)
  BY NatAssociative
<1> DEFINE a == l.b2 \o l.b1
           b == a \o l.file
           c == l.file \o l.pend
           d == l.b1 \o c
<1>4. /\ a \in Seq(Nat) /\ Range(a) = Range(l.b2) \cup Range(l.b1)
      /\ c \in Seq(Nat)
  BY <1>1, <1>2
<1> HIDE DEF c
<1>5. b \in Seq(Nat) /\ Range(b) = Range(a) \cup Range(l.file)
  <2> HIDE DEF a
  <2> QED  BY <1>1, <1>2, <1>4
<1>6. b \o l.pend \in Seq(Nat) /\ Range(b \o l.pend) = Range(b) \cup Range(l.pend)
  <2> HIDE DEF b
  <2> QED  BY <1>1, <1>2, <1>5
<1>7. b \o l.pend = a \o c
  <2> HIDE DEF a
  <2>1. a \in Seq(Nat) /\ l.file \in Seq(Nat) /\ l.pend \in Seq(Nat)
    BY <1>1, <1>4
  <2>2. (a \o l.file) \o l.pend = a \o (l.file \o l.pend)
    BY <1>3, <2>1
  <2> QED  BY <2>2 DEF c
<1>8. a \o c = l.b2 \o d
  BY <1>1, <1>3, <1>4
<1>9. All(l) = b \o l.pend
  BY DEF All
<1> QED
  <2>1. d = l.b1 \o (l.file \o l.pend)
    BY DEF c
  <2> HIDE DEF a, b, d
  <2>2. All(l) = l.b2 \o (l.b1 \o (l.file \o l.pend))
    BY <1>7, <1>8, <1>9, <2>1
  <2>3. Range(b \o l.pend) = Range(l.b2) \cup Range(l.b1) \cup Range(l.file) \cup Range(l.pend)
    BY <1>4, <1>5, <1>6
  <2>4. All(l) \in Seq(Nat) /\ Range(All(l)) = Range(b \o l.pend)
    BY <1>6, <1>9
  <2> QED  BY <1>1, <2>2, <2>3, <2>4

\* The case where the log does not change but for what is in which file.
LEMMA GoodSame ==
    ASSUME NEW l \in Logs, NEW r \in Logs, NEW clr, NEW nxt, NEW lost,
           Good(l, clr, nxt, lost), All(r) = All(l), r.b1 = l.b1, r.b2 = l.b2
    PROVE  Good(r, clr, nxt, lost)
BY DEF Good, Missed

\* Nothing is in a log that was cleared, and nothing is missed.
LEMMA GoodEmpty ==
    ASSUME NEW nxt \in Nat, NEW lost
    PROVE  Good(Empty, nxt - 1, nxt, lost) /\ Empty \in Logs
<1>1. Empty \in Logs
  BY EmptySeq DEF Empty, Logs
<1>2. Range(Empty.b2) = {} /\ Range(Empty.b1) = {} /\ Range(Empty.file) = {} /\ Range(Empty.pend) = {}
  <2>1. Range(<<>>) = {}
    <3>1. <<>> \in Seq(Nat) /\ Len(<<>>) = 0
      BY EmptySeq
    <3>2. Range(<<>>) = {<<>>[i] : i \in 1 .. Len(<<>>)}
      BY <3>1, RangeEquality
    <3> QED  BY <3>1, <3>2
  <2> QED  BY <2>1 DEF Empty
<1>3. All(Empty) \in Seq(Nat) /\ Range(All(Empty)) = {}
  BY <1>1, <1>2, AllProperties
<1>4. Len(All(Empty)) = 0
  <2>1. Len(All(Empty)) \in Nat /\ Range(All(Empty)) = {All(Empty)[i] : i \in 1 .. Len(All(Empty))}
    BY <1>3, RangeEquality, LenProperties
  <2>2. Len(All(Empty)) # 0 => All(Empty)[1] \in Range(All(Empty))
    BY <2>1
  <2> QED  BY <1>3, <2>2
<1>5. Empty.b1 = <<>> /\ Empty.b2 = <<>>
  BY DEF Empty
<1> QED  BY <1>1, <1>3, <1>4, <1>5 DEF Good, Sorted, Missed

\* Sequences whose elements grow have no element twice.
LEMMA SortedCardinality ==
    ASSUME NEW s \in Seq(Nat), Sorted(s)
    PROVE  IsFiniteSet(Range(s)) /\ Cardinality(Range(s)) = Len(s)
<1>1. /\ Len(s) \in Nat /\ s \in [1 .. Len(s) -> Nat] /\ \A i \in 1 .. Len(s) : s[i] \in Nat
      /\ Range(s) = {s[i] : i \in 1 .. Len(s)}
  BY RangeEquality, LenProperties, ElementOfSeq
<1>2. s \in [1 .. Len(s) -> Range(s)]
  BY <1>1
<1>3. ASSUME NEW i \in 1 .. Len(s), NEW j \in 1 .. Len(s), s[i] = s[j] PROVE i = j
  BY <1>1, <1>3 DEF Sorted
<1>4. \A m \in Range(s) : \E i \in 1 .. Len(s) : s[i] = m
  BY <1>1
<1>5. s \in Bijection(1 .. Len(s), Range(s))
  BY <1>2, <1>3, <1>4, Fun_IsBij
<1>6. IsFiniteSet(1 .. Len(s)) /\ Cardinality(1 .. Len(s)) = Len(s)
  <2>1. IsFiniteSet(1 .. Len(s)) /\ Cardinality(1 .. Len(s)) = IF 1 > Len(s) THEN 0 ELSE Len(s) - 1 + 1
    BY <1>1, FS_Interval
  <2> QED  BY <1>1, <2>1
<1>7. ExistsBijection(1 .. Len(s), Range(s))
  BY <1>5 DEF ExistsBijection
<1> QED  BY <1>6, <1>7, FS_Bijection

\* Two full backups hold more records than the files may.
LEMMA BackupsFull ==
    ASSUME NEW l \in Logs, Sorted(All(l)), Len(l.b1) > MaxLines, Len(l.b2) > MaxLines
    PROVE  Cardinality(Range(All(l))) > 2 * MaxLines
<1> DEFINE c == l.file \o l.pend
           d == l.b1 \o c
<1>1. /\ l.b2 \in Seq(Nat) /\ l.b1 \in Seq(Nat) /\ l.file \in Seq(Nat) /\ l.pend \in Seq(Nat)
      /\ All(l) \in Seq(Nat) /\ All(l) = l.b2 \o d
  BY AllProperties
<1>2. c \in Seq(Nat)
  BY <1>1, ConcatProperties
<1> HIDE DEF c
<1>3. d \in Seq(Nat) /\ Len(d) = Len(l.b1) + Len(c)
  BY <1>1, <1>2, ConcatProperties
<1> HIDE DEF d
<1>4. Len(All(l)) = Len(l.b2) + Len(d)
  BY <1>1, <1>3, ConcatProperties
<1>5. Len(l.b1) \in Nat /\ Len(l.b2) \in Nat /\ Len(c) \in Nat
  BY <1>1, <1>2, LenProperties
<1>6. MaxLines \in Nat
  BY Limits
<1>7. Len(All(l)) > 2 * MaxLines
  <2>1. \A x, y, z, m \in Nat : x > m /\ y > m => y + (x + z) > 2 * m
    OBVIOUS
  <2>2. Len(l.b2) + (Len(l.b1) + Len(c)) > 2 * MaxLines
    BY <1>5, <1>6, <2>1
  <2> QED  BY <1>3, <1>4, <2>2
<1> QED  BY <1>1, <1>7, SortedCardinality


\* The part of the log that is rotated away is below the rest of it.
LEMMA GoodDropped ==
    ASSUME NEW l \in Logs, NEW r \in Logs, NEW clr, NEW nxt, NEW lost,
           Good(l, clr, nxt, lost), All(l) = l.b2 \o All(r),
           Len(r.b1) > MaxLines, r.b2 = l.b1, r.b1 # <<>>
    PROVE  Good(r, clr, nxt, lost)
<1>1. l.b2 \in Seq(Nat) /\ All(r) \in Seq(Nat)
  BY AllProperties
<1>2. /\ Sorted(l.b2 \o All(r)) <=> /\ Sorted(l.b2) /\ Sorted(All(r))
                                    /\ \A m \in Range(l.b2), n \in Range(All(r)) : m < n
      /\ Range(l.b2 \o All(r)) = Range(l.b2) \cup Range(All(r))
  BY <1>1, SortedParts
<1>3. Sorted(All(r)) /\ \A m \in Range(l.b2), n \in Range(All(r)) : m < n
  BY <1>2 DEF Good
<1>4. Range(All(l)) = Range(l.b2) \cup Range(All(r))
  BY <1>2
<1>5. \A m \in Range(All(r)) : clr < m /\ m < nxt
  BY <1>4 DEF Good
<1>6. ASSUME NEW n \in 1 .. nxt - 1 PROVE Missed(r, n, clr, lost)
  <2>1. Missed(l, n, clr, lost)
    BY DEF Good
  <2>2. CASE n \in Range(l.b2)
    <3>1. l.b2 # <<>>
      <4>1. Len(l.b2) \in Nat /\ Range(l.b2) = {l.b2[i] : i \in 1 .. Len(l.b2)} /\ Len(<<>>) = 0
        BY <1>1, RangeEquality, LenProperties, EmptySeq
      <4> QED  BY <2>2, <4>1
    <3>2. r.b2 # <<>>
      BY <3>1 DEF Good
    <3> QED  BY <1>3, <2>2, <3>2 DEF Missed
  <2>3. CASE l.b2 # <<>> /\ \A m \in Range(All(l)) : n < m
    <3>1. r.b2 # <<>>
      BY <2>3 DEF Good
    <3> QED  BY <1>4, <2>3, <3>1 DEF Missed
  <2> QED  BY <1>4, <2>1, <2>2, <2>3 DEF Missed
<1>7. r.b2 = <<>> \/ Len(r.b2) > MaxLines
  BY DEF Good
<1> QED  BY <1>3, <1>5, <1>6, <1>7 DEF Good

\* Flush keeps the log good, and leaves nothing buffered and a short file.
LEMMA GoodFlush ==
    ASSUME NEW l \in Logs, NEW clr, NEW nxt, NEW lost, Good(l, clr, nxt, lost)
    PROVE  /\ Flush(l) \in Logs /\ Good(Flush(l), clr, nxt, lost)
           /\ Flush(l).pend = <<>> /\ Len(Flush(l).file) <= MaxLines
<1> DEFINE q == l.file \o l.pend
           f == [file |-> q, pend |-> <<>>, b1 |-> l.b1, b2 |-> l.b2]
           r == [file |-> <<>>, pend |-> <<>>, b1 |-> q, b2 |-> l.b1]
<1>1. /\ l.b2 \in Seq(Nat) /\ l.b1 \in Seq(Nat) /\ l.file \in Seq(Nat) /\ l.pend \in Seq(Nat)
      /\ All(l) = l.b2 \o (l.b1 \o q)
  BY AllProperties
<1>2. q \in Seq(Nat)
  BY <1>1, ConcatProperties
<1>3. <<>> \in Seq(Nat) /\ Len(<<>>) = 0 /\ q \o <<>> = q /\ <<>> \o <<>> = <<>>
  BY <1>2, EmptySeq, ConcatEmptySeq
<1>4. Flush(l) = IF Len(q) > MaxLines THEN r ELSE f
  BY DEF Flush, Rotate
<1> HIDE DEF q
<1>5. f \in Logs /\ r \in Logs
  BY <1>1, <1>2, <1>3 DEF Logs
<1>6. /\ f.b2 = l.b2 /\ f.b1 = l.b1 /\ f.file = q /\ f.pend = <<>>
      /\ r.b2 = l.b1 /\ r.b1 = q /\ r.file = <<>> /\ r.pend = <<>>
  OBVIOUS
<1> HIDE DEF f, r
<1>7. All(f) = f.b2 \o (f.b1 \o (f.file \o f.pend)) /\ All(r) = r.b2 \o (r.b1 \o (r.file \o r.pend))
  BY <1>5, AllProperties
<1>8. All(f) = All(l)
  BY <1>1, <1>3, <1>6, <1>7
<1>9. CASE Len(q) > MaxLines
  <2>1. All(r) = l.b1 \o q
    BY <1>3, <1>6, <1>7
  <2>2. All(l) = l.b2 \o All(r)
    BY <1>1, <2>1
  <2>3. MaxLines \in Nat
    BY Limits
  <2>4. Len(r.b1) > MaxLines /\ r.b1 # <<>>
    BY <1>3, <1>6, <1>9, <2>3
  <2>5. Good(r, clr, nxt, lost)
    BY <1>5, <1>6, <2>2, <2>4, GoodDropped
  <2>6. Len(r.file) <= MaxLines
    BY <1>3, <1>6, <2>3
  <2> QED  BY <1>4, <1>5, <1>6, <1>9, <2>5, <2>6
<1>10. CASE ~(Len(q) > MaxLines)
  <2>1. Good(f, clr, nxt, lost)
    BY <1>5, <1>6, <1>8, GoodSame
  <2>2. Len(f.file) <= MaxLines
    <3>1. MaxLines \in Nat
      BY Limits
    <3>2. Len(q) \in Nat
      BY <1>2, LenProperties
    <3> QED  BY <1>6, <1>10, <3>1, <3>2
  <2> QED  BY <1>4, <1>5, <1>6, <1>10, <2>1, <2>2
<1> QED  BY <1>9, <1>10


\* A record appended is newer than all there is.
LEMMA GoodAppend ==
    ASSUME NEW l \in Logs, NEW a \in Logs, NEW clr \in Nat, NEW nxt \in Nat, NEW lost,
           Good(l, clr, nxt, lost), clr < nxt,
           a.b1 = l.b1, a.b2 = l.b2, a.file = l.file, a.pend = Append(l.pend, nxt)
    PROVE  Good(a, clr, nxt + 1, lost)
<1> DEFINE x == l.b2 \o l.b1
           y == x \o l.file
           e == <<nxt>>
<1>1. l.b2 \in Seq(Nat) /\ l.b1 \in Seq(Nat) /\ l.file \in Seq(Nat) /\ l.pend \in Seq(Nat)
  BY AllProperties
<1>2. x \in Seq(Nat)
  BY <1>1, ConcatProperties
<1>3. y \in Seq(Nat)
  <2> HIDE DEF x
  <2> QED  BY <1>1, <1>2, ConcatProperties
<1>4. e \in Seq(Nat) /\ Len(e) = 1 /\ e[1] = nxt
  OBVIOUS
<1>5. Range(e) = {nxt}
  <2> HIDE DEF e
  <2>1. Range(e) = {e[i] : i \in 1 .. Len(e)}
    BY <1>4, RangeEquality
  <2> QED  BY <1>4, <2>1
<1>6. All(l) = y \o l.pend /\ All(a) = y \o a.pend
  BY DEF All
<1>7. a.pend = l.pend \o e
  BY <1>1, AppendIsConcat
<1> HIDE DEF x, y, e
<1>8. All(a) = All(l) \o e
  <2>1. (y \o l.pend) \o e = y \o (l.pend \o e)
    BY <1>1, <1>3, <1>4, NatAssociative
  <2> QED  BY <1>6, <1>7, <2>1
<1>9. All(l) \in Seq(Nat)
  BY AllProperties
<1>10. /\ Sorted(All(l) \o e) <=> /\ Sorted(All(l)) /\ Sorted(e)
                                  /\ \A m \in Range(All(l)), n \in Range(e) : m < n
       /\ Range(All(l) \o e) = Range(All(l)) \cup Range(e)
  BY <1>4, <1>9, SortedParts
<1>11. Sorted(All(a)) /\ Range(All(a)) = Range(All(l)) \cup {nxt}
  <2>1. Sorted(e)
    BY <1>4 DEF Sorted
  <2>2. Sorted(All(l)) /\ \A m \in Range(All(l)) : m < nxt
    BY DEF Good
  <2> QED  BY <1>5, <1>8, <1>10, <2>1, <2>2
<1>12. \A m \in Range(All(a)) : clr < m /\ m < nxt + 1
  <2>1. \A m \in Range(All(l)) : clr < m /\ m < nxt
    BY DEF Good
  <2>2. \A m \in Range(All(l)) : m \in Nat
    <3>1. Range(All(l)) = {All(l)[i] : i \in 1 .. Len(All(l))}
      BY <1>9, RangeEquality
    <3> QED  BY <1>9, <3>1, ElementOfSeq
  <2> QED  BY <1>11, <2>1, <2>2
<1>13. ASSUME NEW n \in 1 .. (nxt + 1) - 1 PROVE Missed(a, n, clr, lost)
  <2>1. CASE n = nxt
    BY <1>11, <2>1 DEF Missed
  <2>2. CASE n # nxt
    <3>1. n \in 1 .. nxt - 1 /\ n < nxt
      BY <2>2
    <3>2. Missed(l, n, clr, lost)
      BY <3>1 DEF Good
    <3> QED  BY <1>11, <3>1, <3>2 DEF Missed
  <2> QED  BY <2>1, <2>2
<1> QED  BY <1>11, <1>12, <1>13 DEF Good

\* A crash cuts the end of the buffer off; what it takes counts as lost.
LEMMA GoodCut ==
    ASSUME NEW l \in Logs, NEW clr \in Nat, NEW nxt \in Nat, NEW lost,
           Good(l, clr, nxt, lost), NEW k \in 0 .. Len(l.pend)
    PROVE  LET pre == SubSeq(l.pend, 1, k)
               post == SubSeq(l.pend, k + 1, Len(l.pend))
               r == [file |-> l.file \o pre, pend |-> <<>>, b1 |-> l.b1, b2 |-> l.b2]
           IN  r \in Logs /\ Good(r, clr, nxt, lost \cup Range(post)) /\ Len(pre) = k
<1> DEFINE pre == SubSeq(l.pend, 1, k)
           post == SubSeq(l.pend, k + 1, Len(l.pend))
           w == l.file \o pre
           r == [file |-> w, pend |-> <<>>, b1 |-> l.b1, b2 |-> l.b2]
           x == l.b2 \o l.b1
<1>1. l.b2 \in Seq(Nat) /\ l.b1 \in Seq(Nat) /\ l.file \in Seq(Nat) /\ l.pend \in Seq(Nat)
  BY AllProperties
<1>2. Len(l.pend) \in Nat /\ k \in Nat /\ \A i \in 1 .. Len(l.pend) : l.pend[i] \in Nat
  BY <1>1, LenProperties, ElementOfSeq
<1>3. pre \in Seq(Nat) /\ Len(pre) = k
  <2>1. \A i \in 1 .. k : l.pend[i] \in Nat
    BY <1>2
  <2>2. pre \in Seq(Nat) /\ Len(pre) = IF 1 <= k THEN k - 1 + 1 ELSE 0
    BY <1>2, <2>1, SubSeqProperties
  <2> QED  BY <1>2, <2>2
<1>4. post \in Seq(Nat)
  <2>1. \A i \in k + 1 .. Len(l.pend) : l.pend[i] \in Nat
    BY <1>2
  <2> QED  BY <1>2, <2>1, SubSeqProperties
<1>5. l.pend = pre \o post
  <2>1. 1 \in 1 .. Len(l.pend) + 1 /\ k \in 1 - 1 .. Len(l.pend) /\ Len(l.pend) \in k .. Len(l.pend)
    BY <1>2
  <2>2. pre \o post = SubSeq(l.pend, 1, Len(l.pend))
    BY <1>1, <2>1, ConcatAdjacentSubSeq
  <2>3. SubSeq(l.pend, 1, Len(l.pend)) = l.pend
    BY <1>1, SubSeqFull
  <2> QED  BY <2>2, <2>3
<1> HIDE DEF pre, post
<1>6. w \in Seq(Nat)
  BY <1>1, <1>3, ConcatProperties
<1>7. x \in Seq(Nat)
  BY <1>1, ConcatProperties
<1>8. <<>> \in Seq(Nat)
  BY EmptySeq
<1>9. r.file = w /\ r.pend = <<>> /\ r.b1 = l.b1 /\ r.b2 = l.b2
  OBVIOUS
<1>10. r \in Logs
  <2> HIDE DEF w
  <2> QED  BY <1>1, <1>6, <1>8 DEF Logs
<1>11. All(l) = (x \o l.file) \o l.pend /\ All(r) = (x \o w) \o <<>>
  BY DEF All
<1> HIDE DEF r, x
<1>12. All(r) = (x \o l.file) \o pre
  <2>1. x \o (l.file \o pre) = (x \o l.file) \o pre
    BY <1>1, <1>3, <1>7, NatAssociative
  <2> HIDE DEF w
  <2>2. x \o w \in Seq(Nat)
    BY <1>6, <1>7, ConcatProperties
  <2>3. (x \o w) \o <<>> = x \o w
    BY <2>2, ConcatEmptySeq
  <2>4. x \o w = x \o (l.file \o pre)
    BY DEF w
  <2> QED  BY <1>11, <2>1, <2>3, <2>4
<1>13. All(l) = All(r) \o post
  <2>1. x \o l.file \in Seq(Nat)
    BY <1>1, <1>7, ConcatProperties
  <2>2. ((x \o l.file) \o pre) \o post = (x \o l.file) \o (pre \o post)
    BY <1>3, <1>4, <2>1, NatAssociative
  <2> QED  BY <1>5, <1>11, <1>12, <2>2
<1>14. All(r) \in Seq(Nat)
  BY <1>10, AllProperties
<1>15. /\ Sorted(All(r) \o post) => Sorted(All(r))
       /\ Range(All(r) \o post) = Range(All(r)) \cup Range(post)
  BY <1>4, <1>14, SortedParts
<1>16. Good(r, clr, nxt, lost \cup Range(post))
  <2>1. Sorted(All(r)) /\ Range(All(l)) = Range(All(r)) \cup Range(post)
    BY <1>13, <1>15 DEF Good
  <2>2. ASSUME NEW n \in 1 .. nxt - 1 PROVE Missed(r, n, clr, lost \cup Range(post))
    <3>1. Missed(l, n, clr, lost)
      BY DEF Good
    <3> QED  BY <1>9, <2>1, <3>1 DEF Missed
  <2>3. \A m \in Range(All(r)) : clr < m /\ m < nxt
    BY <2>1 DEF Good
  <2>4. /\ r.b1 = <<>> \/ Len(r.b1) > MaxLines
        /\ r.b2 = <<>> \/ (Len(r.b2) > MaxLines /\ r.b1 # <<>>)
    BY <1>9 DEF Good
  <2> QED  BY <1>10, <2>1, <2>2, <2>3, <2>4 DEF Good
<1> QED  BY <1>3, <1>10, <1>16 DEF r, w, pre, post


\* A record accepted is buffered, and a full buffer flushed.
LEMMA LineStep ==
    ASSUME NEW l \in Logs, NEW clr \in Nat, NEW nxt \in Nat, NEW lost, NEW b \in Nat,
           Good(l, clr, nxt, lost), clr < nxt,
           Len(l.pend) < FlushBatch, Len(l.file) <= MaxLines + b
    PROVE  /\ Line(l, nxt) \in Logs /\ Good(Line(l, nxt), clr, nxt + 1, lost)
           /\ Len(Line(l, nxt).pend) < FlushBatch /\ Len(Line(l, nxt).file) <= MaxLines + b
<1> DEFINE a == [l EXCEPT !.pend = Append(l.pend, nxt)]
<1>1. l.b2 \in Seq(Nat) /\ l.b1 \in Seq(Nat) /\ l.file \in Seq(Nat) /\ l.pend \in Seq(Nat)
  BY AllProperties
<1>2. /\ a.b1 = l.b1 /\ a.b2 = l.b2 /\ a.file = l.file /\ a.pend = Append(l.pend, nxt)
      /\ a \in Logs
  BY <1>1, AppendProperties DEF Logs
<1>3. Line(l, nxt) = IF Len(a.pend) >= FlushBatch THEN Flush(a) ELSE a
  BY DEF Line
<1> HIDE DEF a
<1>4. Good(a, clr, nxt + 1, lost)
  BY <1>2, GoodAppend
<1>5. /\ Flush(a) \in Logs /\ Good(Flush(a), clr, nxt + 1, lost)
      /\ Flush(a).pend = <<>> /\ Len(Flush(a).file) <= MaxLines
  BY <1>2, <1>4, GoodFlush
<1>6. Len(<<>>) = 0
  BY EmptySeq
<1>7. Len(Flush(a).file) \in Nat /\ Len(a.pend) \in Nat
  BY <1>2, <1>5, AllProperties, LenProperties
<1>8. CASE Len(a.pend) >= FlushBatch
  BY <1>3, <1>5, <1>6, <1>7, <1>8, Limits
<1>9. CASE ~(Len(a.pend) >= FlushBatch)
  BY <1>2, <1>3, <1>4, <1>7, <1>9, Limits
<1> QED  BY <1>8, <1>9

LogInv == /\ log \in Logs /\ next \in Nat /\ cleared \in Nat /\ cleared < next /\ crashes \in Nat
          /\ Good(log, cleared, next, gone)
          /\ Len(log.pend) < FlushBatch /\ Len(log.file) <= MaxLines + crashes * FlushBatch

\* The log's steps: a record, a flush, a clear, a crash.
LEMMA LogStep == ASSUME LogInv, [Next]_vars PROVE LogInv'
<1> USE DEF LogInv
<1> DEFINE same == log' = log /\ next' = next /\ cleared' = cleared /\ crashes' = crashes /\ gone' = gone
           flush == /\ log' = Flush(log) /\ next' = next /\ cleared' = cleared
                    /\ crashes' = crashes /\ gone' = gone
           b == crashes * FlushBatch
<1>1. b \in Nat /\ MaxLines \in Nat /\ FlushBatch \in Nat /\ FlushBatch > 0
  BY Limits
<1>2. ASSUME same PROVE LogInv'
  BY <1>2
<1>3. ASSUME NEW l \in Logs, Good(l, cleared', next', gone), log' = Flush(l),
             next' \in Nat, cleared' \in Nat, cleared' < next', crashes' = crashes, gone' = gone
      PROVE  LogInv'
  <2>1. /\ Flush(l) \in Logs /\ Good(Flush(l), cleared', next', gone)
        /\ Flush(l).pend = <<>> /\ Len(Flush(l).file) <= MaxLines
    BY <1>3, GoodFlush
  <2>2. Len(<<>>) = 0
    BY EmptySeq
  <2>3. Len(Flush(l).file) \in Nat
    BY <2>1, AllProperties, LenProperties
  <2>4. Len(Flush(l).file) <= MaxLines + b
    BY <1>1, <2>1, <2>3
  <2> QED  BY <1>1, <1>3, <2>1, <2>2, <2>4
<1>4. ASSUME flush PROVE LogInv'
  BY <1>3, <1>4
<1>5. CASE Receive
  <2> DEFINE p == Head(socket)
  <2>0. crashes' = crashes /\ gone' = gone
    BY <1>5 DEF Receive
  <2>1. CASE p.tag = "monitor" /\ Monitor(p.uid)
    <3>1. CASE Allowed(p.uid)
      <4>1. log' = Line(log, next) /\ next' = next + 1 /\ cleared' = cleared
        BY <2>1, <3>1 DEF Monitor
      <4>2. /\ Line(log, next) \in Logs /\ Good(Line(log, next), cleared, next + 1, gone)
            /\ Len(Line(log, next).pend) < FlushBatch /\ Len(Line(log, next).file) <= MaxLines + b
        BY <1>1, LineStep
      <4> QED  BY <2>0, <4>1, <4>2
    <3>2. CASE ~Allowed(p.uid)
      BY <1>2, <2>0, <2>1, <3>2 DEF Monitor
    <3> QED  BY <3>1, <3>2
  <2>2. CASE p.tag = "stats" /\ AddStats(p.uid)
    BY <1>2, <2>0, <2>2 DEF AddStats
  <2>3. CASE p.tag \notin Records /\ p.uid = Root /\ Control(p)
    <3>1. CASE ClearMonitor
      <4>1. log' = Flush(Empty) /\ cleared' = next - 1 /\ next' = next
        BY <3>1 DEF ClearMonitor, Clear
      <4>2. next - 1 \in Nat
        OBVIOUS
      <4>3. Good(Empty, next - 1, next, gone) /\ Empty \in Logs
        BY GoodEmpty
      <4> QED  BY <1>3, <2>0, <4>1, <4>2, <4>3
    <3>2. CASE FlushPending
      BY <1>4, <2>0, <3>2 DEF FlushPending
    <3>3. CASE ResetStats
      BY <1>2, <2>0, <3>3 DEF ResetStats
    <3>4. CASE Request(p.tag, p.arg)
      BY <1>2, <2>0, <3>4 DEF Request, logVars
    <3> QED  BY <2>3, <3>1, <3>2, <3>3, <3>4 DEF Control
  <2>4. CASE UNCHANGED <<slot, waking, logVars>>
    BY <1>2, <2>0, <2>4 DEF logVars
  <2> QED  BY <1>5, <2>1, <2>2, <2>3, <2>4 DEF Receive
<1>6. CASE FlushIfDue
  BY <1>4, <1>6 DEF FlushIfDue, FlushPending
<1>7. CASE Crash
  <2> DEFINE pre(k) == SubSeq(log.pend, 1, k)
             post(k) == SubSeq(log.pend, k + 1, Len(log.pend))
             cut(k) == [file |-> log.file \o pre(k), pend |-> <<>>, b1 |-> log.b1, b2 |-> log.b2]
  <2>1. PICK k \in 0 .. Len(log.pend) : log' = cut(k) /\ gone' = gone \cup Range(post(k))
    BY <1>7 DEF Crash
  <2>2. crashes' = crashes + 1 /\ next' = next /\ cleared' = cleared
    BY <1>7 DEF Crash
  <2>3. cut(k) \in Logs /\ Good(cut(k), cleared, next, gone \cup Range(post(k))) /\ Len(pre(k)) = k
    BY GoodCut
  <2>4. Len(<<>>) = 0
    BY EmptySeq
  <2>5. /\ log.file \in Seq(Nat) /\ Len(log.pend) \in Nat /\ Len(log.file) \in Nat
        /\ log.pend \in Seq(Nat)
    BY AllProperties, LenProperties
  <2>6. Len(log.file \o pre(k)) = Len(log.file) + k
    <3>1. \A i \in 1 .. k : log.pend[i] \in Nat
      <4>1. \A i \in 1 .. Len(log.pend) : log.pend[i] \in Nat
        BY <2>5, ElementOfSeq
      <4> QED  BY <2>5, <4>1
    <3>2. pre(k) \in Seq(Nat)
      BY <2>5, <3>1, SubSeqProperties
    <3> HIDE DEF pre
    <3> QED  BY <2>3, <2>5, <3>2, ConcatProperties
  <2>7. (crashes + 1) * FlushBatch = b + FlushBatch
    BY <1>1
  <2>8. cut(k).file = log.file \o pre(k) /\ cut(k).pend = <<>>
    OBVIOUS
  <2> HIDE DEF cut, b, pre, post
  <2>9. Len(cut(k).file) <= MaxLines + (b + FlushBatch)
    <3>1. Len(log.file) <= MaxLines + b /\ Len(log.pend) < FlushBatch
      BY DEF b
    <3>2. Len(cut(k).file) = Len(log.file) + k
      BY <2>6, <2>8
    <3>3. \A f, q, m, c \in Nat : f <= m + c /\ q < FlushBatch
                                 => \A j \in 0 .. q : f + j <= m + (c + FlushBatch)
      BY <1>1
    <3> QED  BY <1>1, <2>5, <3>1, <3>2, <3>3
  <2>10. Len(cut(k).pend) < FlushBatch
    BY <1>1, <2>4, <2>8
  <2> QED  BY <2>1, <2>2, <2>3, <2>7, <2>9, <2>10
<1>8. CASE Main
  BY <1>2, <1>8 DEF Main, Boot, Take, Skip, Reconcile, Drain, Serve, PollWoken, PollElse, Elapse,
                   Others, logVars
<1>9. CASE WakeDaemon \/ Tick \/ (\E p \in Packets : Send(p))
  BY <1>2, <1>9 DEF WakeDaemon, Tick, Send, logVars
<1>10. CASE UNCHANGED vars
  BY <1>2, <1>10 DEF vars, logVars
<1> QED  BY <1>5, <1>6, <1>7, <1>8, <1>9, <1>10 DEF Next


\* What LogInv says of the files and the buffer is what their readers are promised.
LEMMA LogKept == LogInv => KeptInOrder /\ ClearedIsGone
<1> SUFFICES ASSUME LogInv PROVE KeptInOrder /\ ClearedIsGone
  OBVIOUS
<1> DEFINE all == All(log)
<1>1. all \in Seq(Nat) /\ log \in Logs /\ DOMAIN all = 1 .. Len(all)
  BY AllProperties, LenProperties DEF LogInv
<1>2. \A i, j \in DOMAIN all : i < j => all[i] < all[j]
  BY <1>1 DEF LogInv, Good, Sorted
<1>3. \A n \in Range(all) : n > cleared /\ n \in Nat
  <2>1. \A n \in Range(all) : n \in Nat
    <3>1. Range(all) = {all[i] : i \in 1 .. Len(all)}
      BY <1>1, RangeEquality
    <3> QED  BY <1>1, <3>1, ElementOfSeq
  <2> QED  BY <2>1 DEF LogInv, Good
<1>4. ASSUME NEW n \in Numbers
      PROVE  n \in Range(all) \/ n \in gone \/ n <= cleared
             \/ Cardinality({m \in Range(all) : m > n}) > 2 * MaxLines
  <2>1. Missed(log, n, cleared, gone)
    BY DEF LogInv, Good, Numbers
  <2>2. CASE log.b2 # <<>> /\ \A m \in Range(all) : n < m
    <3>1. {m \in Range(all) : m > n} = Range(all)
      BY <1>3, <2>2
    <3>2. Len(log.b1) > MaxLines /\ Len(log.b2) > MaxLines /\ Sorted(all)
      BY <2>2 DEF LogInv, Good
    <3>3. Cardinality(Range(all)) > 2 * MaxLines
      BY <1>1, <3>2, BackupsFull
    <3> QED  BY <3>1, <3>3
  <2> QED  BY <2>1, <2>2 DEF Missed
<1>5. all = log.b2 \o log.b1 \o log.file \o log.pend
  BY DEF All
<1> HIDE DEF all
<1> QED  BY <1>2, <1>3, <1>4, <1>5 DEF KeptInOrder, ClearedIsGone

-----------------------------------------------------------------------------
(* The limiter.  What a sender's window counts was accepted since it began.   *)

Since(u) == {a \in accepted : a.uid = u /\ a.at >= quotas[u].start}

QuotaInv ==
    /\ now \in Nat /\ IsFiniteSet(accepted)
    /\ \A a \in accepted : a.at \in 0 .. now /\ a.n \in 0 .. Cardinality(accepted) - 1
    /\ quotas \in [Uids -> [start : Int, count : Nat]]
    /\ \A u \in Tracked(quotas) : /\ quotas[u].start \in 0 .. now
                                  /\ quotas[u].count \in 1 .. MaxRecords
                                  /\ quotas[u].count <= Cardinality(Since(u))
    /\ Cardinality(Tracked(quotas)) <= MaxTracked

\* A sender is turned away for a reason.
LEMMA RefusedStep ==
    ASSUME QuotaInv, NEW u \in Uids, ~Allowed(u)
    PROVE  HasReason(u)
<1> USE DEF QuotaInv, HasReason
<1>1. ASSUME NEW v \in Tracked(quotas), ~Expired(quotas[v])
      PROVE  IsFiniteSet(Recent(v)) /\ Cardinality(Recent(v)) >= quotas[v].count /\ Recent(v) # {}
  <2>1. Since(v) \subseteq Recent(v)
    <3> SUFFICES ASSUME NEW a \in accepted, a.at >= quotas[v].start PROVE now - a.at < Window
      BY DEF Since, Recent
    <3>1. ~(now - quotas[v].start >= Window)
      BY <1>1 DEF Expired
    <3> QED  BY <3>1, Limits
  <2>2. IsFiniteSet(Recent(v)) /\ Recent(v) \subseteq accepted
    BY FS_Subset DEF Recent
  <2>3. Cardinality(Since(v)) <= Cardinality(Recent(v)) /\ IsFiniteSet(Since(v))
    BY <2>1, <2>2, FS_Subset
  <2>4. Cardinality(Since(v)) \in Nat /\ Cardinality(Recent(v)) \in Nat
    BY <2>2, <2>3, FS_CardinalityType
  <2>5. quotas[v].count <= Cardinality(Since(v)) /\ quotas[v].count \in 1 .. MaxRecords
    OBVIOUS
  <2>6. Cardinality(Recent(v)) >= quotas[v].count /\ Cardinality(Recent(v)) # 0
    BY <2>3, <2>4, <2>5
  <2> QED  BY <2>2, <2>6, FS_EmptySet
<1>2. CASE TableFull(u)
  <2> DEFINE T == Tracked(quotas)
             R == Tracked(Retained(u))
             V == {v \in Uids \ {u} : Recent(v) # {}}
  <2>1. u \notin T /\ Cardinality(R) >= MaxTracked
    BY <1>2 DEF TableFull
  <2>2. CASE ~(Cardinality(T) >= MaxTracked)
    <3>1. R = T
      BY <2>2 DEF Retained
    <3> QED  BY <2>1, <2>2, <3>1
  <2>3. CASE Cardinality(T) >= MaxTracked
    <3>1. Retained(u) = [v \in Uids |-> IF Expired(quotas[v]) THEN Untracked ELSE quotas[v]]
      BY <2>1, <2>3 DEF Retained
    <3>2. \A v \in R : v \in T /\ ~Expired(quotas[v])
      BY <3>1 DEF Tracked
    <3>3. R \subseteq V
      BY <1>1, <2>1, <3>2 DEF Tracked
    <3>4. IsFiniteSet(V) /\ IsFiniteSet(R)
      BY <3>3, FS_Subset, LogAssumption
    <3>5. Cardinality(R) <= Cardinality(V) /\ Cardinality(R) \in Nat /\ Cardinality(V) \in Nat
      BY <3>3, <3>4, FS_Subset, FS_CardinalityType
    <3> HIDE DEF R, V
    <3>6. Cardinality(V) >= MaxTracked
      BY <2>1, <3>5, Limits
    <3> QED  BY <3>6 DEF V
  <2> QED  BY <2>2, <2>3
<1>3. CASE ~TableFull(u)
  <2>1. ~(Current(u).count < MaxRecords)
    BY <1>3 DEF Allowed
  <2>2. u \in Tracked(quotas) /\ ~Expired(quotas[u]) /\ Current(u) = quotas[u]
    BY <2>1, Limits DEF Current
  <2>3. Cardinality(Recent(u)) \in Nat /\ Cardinality(Recent(u)) >= quotas[u].count
    BY <1>1, <2>2, FS_CardinalityType
  <2>4. Cardinality(Recent(u)) >= MaxRecords
    BY <2>1, <2>2, <2>3, Limits
  <2> QED  BY <2>4
<1> QED  BY <1>2, <1>3


\* What charging a sender does to the table: others keep their window or lose an
\* expired one, the sender's own window counts one more or starts again.
LEMMA ChargedProperties ==
    ASSUME QuotaInv, NEW u \in Uids
    PROVE  /\ Charged(u) \in [Uids -> [start : Int, count : Nat]]
           /\ Cardinality(Tracked(Charged(u))) <= MaxTracked
           /\ \A v \in Uids \ {u} : Charged(u)[v] \in {Untracked, quotas[v]}
           /\ ~Allowed(u) => Charged(u)[u] \in {Untracked, quotas[u]}
           /\ Allowed(u) => \/ Charged(u)[u] = [start |-> now, count |-> 1]
                            \/ /\ u \in Tracked(quotas) /\ quotas[u].count < MaxRecords
                               /\ Charged(u)[u] = [start |-> quotas[u].start,
                                                   count |-> quotas[u].count + 1]
<1> USE DEF QuotaInv
<1> DEFINE Q == [start : Int, count : Nat]
           R == Retained(u)
           c == Current(u)
           e == [start |-> c.start, count |-> c.count + 1]
<1>1. Untracked \in Q /\ now \in Nat
  BY DEF Untracked
<1>2. R \in [Uids -> Q] /\ \A v \in Uids : R[v] \in {Untracked, quotas[v]}
  BY <1>1 DEF Retained
<1>3. u \in Tracked(quotas) => R = quotas
  BY DEF Retained
<1>4. /\ c \in Q
      /\ \/ c = [start |-> now, count |-> 0]
         \/ u \in Tracked(quotas) /\ c = quotas[u]
  <2>1. [start |-> now, count |-> 0] \in Q
    BY <1>1
  <2> QED  BY <2>1 DEF Current
<1>5. e \in Q
  BY <1>4
<1>6. Charged(u) = IF TableFull(u) THEN R
                   ELSE [R EXCEPT ![u] = IF Allowed(u) THEN [c EXCEPT !.count = c.count + 1] ELSE c]
  BY DEF Charged
<1>7. [c EXCEPT !.count = c.count + 1] = e
  <2> HIDE DEF c
  <2> QED  BY <1>4
<1> HIDE DEF c, R, e
<1>8. IsFiniteSet(Tracked(quotas)) /\ IsFiniteSet(Tracked(R))
  BY LogAssumption, FS_Subset DEF Tracked
<1>9. Cardinality(Tracked(quotas)) \in Nat /\ Cardinality(Tracked(R)) \in Nat
  BY <1>8, FS_CardinalityType
<1>10. Tracked(R) \subseteq Tracked(quotas)
  BY <1>2 DEF Tracked
<1>11. Cardinality(Tracked(R)) <= MaxTracked
  <2>1. Cardinality(Tracked(R)) <= Cardinality(Tracked(quotas))
    BY <1>8, <1>10, FS_Subset
  <2> QED  BY <1>9, <2>1, Limits
<1>12. CASE TableFull(u)
  BY <1>2, <1>6, <1>11, <1>12 DEF Allowed
<1>13. CASE ~TableFull(u) /\ Allowed(u)
  <2>1. Charged(u) = [R EXCEPT ![u] = e]
    BY <1>6, <1>7, <1>13
  <2>2. Charged(u) \in [Uids -> Q] /\ Charged(u)[u] = e /\ \A v \in Uids \ {u} : Charged(u)[v] = R[v]
    BY <1>2, <1>5, <2>1
  <2>3. Tracked(Charged(u)) \subseteq Tracked(R) \cup {u}
    BY <2>2 DEF Tracked
  <2>4. Cardinality(Tracked(Charged(u))) <= MaxTracked
    <3>1. CASE u \in Tracked(quotas)
      <4>1. u \in Tracked(R)
        BY <1>3, <3>1
      <4>2. Tracked(Charged(u)) \subseteq Tracked(R)
        BY <2>3, <4>1
      <4>3. Cardinality(Tracked(Charged(u))) <= Cardinality(Tracked(R)) /\ IsFiniteSet(Tracked(Charged(u)))
        BY <1>8, <4>2, FS_Subset
      <4>4. Cardinality(Tracked(Charged(u))) \in Nat
        BY <4>3, FS_CardinalityType
      <4> QED  BY <1>9, <1>11, <4>3, <4>4, Limits
    <3>2. CASE u \notin Tracked(quotas)
      <4>1. Cardinality(Tracked(R)) < MaxTracked
        BY <1>9, <1>13, <3>2, Limits DEF TableFull, R
      <4>2. IsFiniteSet(Tracked(R) \cup {u}) /\ Cardinality(Tracked(R) \cup {u}) <= Cardinality(Tracked(R)) + 1
        <5>1. /\ IsFiniteSet(Tracked(R) \cup {u})
              /\ Cardinality(Tracked(R) \cup {u}) = IF u \in Tracked(R) THEN Cardinality(Tracked(R))
                                                    ELSE Cardinality(Tracked(R)) + 1
          BY <1>8, FS_AddElement
        <5> QED  BY <1>9, <5>1
      <4>3. Cardinality(Tracked(Charged(u))) <= Cardinality(Tracked(R) \cup {u}) /\ IsFiniteSet(Tracked(Charged(u)))
        BY <2>3, <4>2, FS_Subset
      <4>4. Cardinality(Tracked(Charged(u))) \in Nat /\ Cardinality(Tracked(R) \cup {u}) \in Nat
        BY <4>2, <4>3, FS_CardinalityType
      <4> QED  BY <1>9, <4>1, <4>2, <4>3, <4>4, Limits
    <3> QED  BY <3>1, <3>2
  <2>5. \/ Charged(u)[u] = [start |-> now, count |-> 1]
        \/ /\ u \in Tracked(quotas) /\ quotas[u].count < MaxRecords
           /\ Charged(u)[u] = [start |-> quotas[u].start, count |-> quotas[u].count + 1]
    <3>1. c.count < MaxRecords
      BY <1>13 DEF Allowed, c
    <3>2. CASE c = [start |-> now, count |-> 0]
      BY <2>2, <3>2 DEF e
    <3>3. CASE u \in Tracked(quotas) /\ c = quotas[u]
      BY <2>2, <3>1, <3>3 DEF e
    <3> QED  BY <1>4, <3>2, <3>3
  <2> QED  BY <1>2, <1>13, <2>2, <2>4, <2>5
<1>14. CASE ~TableFull(u) /\ ~Allowed(u)
  <2>1. u \in Tracked(quotas) /\ c = quotas[u]
    <3>1. ~(c.count < MaxRecords)
      BY <1>14 DEF Allowed, c
    <3> QED  BY <1>4, <3>1, Limits
  <2>2. Charged(u) = [R EXCEPT ![u] = c]
    BY <1>6, <1>14
  <2>3. R = quotas
    BY <1>3, <2>1
  <2>4. Charged(u) = R
    BY <1>2, <2>1, <2>2, <2>3
  <2> QED  BY <1>2, <1>11, <1>14, <2>3, <2>4
<1> QED  BY <1>12, <1>13, <1>14


\* The record a sender's charge goes with.
Fresh(u) == [uid |-> u, at |-> now, n |-> Cardinality(accepted)]

\* Charging a sender, with a record exactly when it is allowed one.
LEMMA ChargeStep ==
    ASSUME QuotaInv, NEW u \in Uids, now' = now, quotas' = Charged(u),
           IF Allowed(u) THEN accepted' = accepted \cup {Fresh(u)} ELSE accepted' = accepted
    PROVE  QuotaInv'
<1> USE DEF QuotaInv
<1> DEFINE k == Cardinality(accepted)
<1>1. k \in Nat /\ now \in Nat
  BY FS_CardinalityType
<1>2. Fresh(u) \notin accepted
  BY <1>1 DEF Fresh
<1>3. IsFiniteSet(accepted') /\ accepted \subseteq accepted'
  BY FS_AddElement
<1>4. Cardinality(accepted') = IF Allowed(u) THEN k + 1 ELSE k
  BY <1>2, FS_AddElement
<1>5. \A a \in accepted' : a.at \in 0 .. now' /\ a.n \in 0 .. Cardinality(accepted') - 1
  <2> SUFFICES ASSUME NEW a \in accepted'
               PROVE  a.at \in 0 .. now' /\ a.n \in 0 .. Cardinality(accepted') - 1
    OBVIOUS
  <2>1. CASE a \in accepted
    BY <1>1, <1>4, <2>1
  <2>2. CASE a \notin accepted
    <3>1. Allowed(u) /\ a = Fresh(u)
      BY <2>2
    <3> QED  BY <1>1, <1>4, <3>1 DEF Fresh
  <2> QED  BY <2>1, <2>2
<1>6. /\ quotas' \in [Uids -> [start : Int, count : Nat]]
      /\ Cardinality(Tracked(quotas')) <= MaxTracked
      /\ \A v \in Uids \ {u} : quotas'[v] \in {Untracked, quotas[v]}
      /\ ~Allowed(u) => quotas'[u] \in {Untracked, quotas[u]}
      /\ Allowed(u) => \/ quotas'[u] = [start |-> now, count |-> 1]
                       \/ /\ u \in Tracked(quotas) /\ quotas[u].count < MaxRecords
                          /\ quotas'[u] = [start |-> quotas[u].start, count |-> quotas[u].count + 1]
  BY ChargedProperties
<1>7. ASSUME NEW v \in Tracked(quotas')
      PROVE  /\ quotas'[v].start \in 0 .. now'
             /\ quotas'[v].count \in 1 .. MaxRecords
             /\ quotas'[v].count <= Cardinality(Since(v)')
  <2>0. v \in Uids /\ quotas'[v] # Untracked /\ Tracked(quotas)' = Tracked(quotas')
    BY DEF Tracked
  <2>1. IsFiniteSet(Since(v)) /\ IsFiniteSet(Since(v)')
    BY <1>3, FS_Subset DEF Since
  <2>2. Cardinality(Since(v)) \in Nat /\ Cardinality(Since(v)') \in Nat
    BY <2>1, FS_CardinalityType
  <2>3. CASE quotas'[v] = quotas[v]
    <3>1. v \in Tracked(quotas)
      BY <2>0, <2>3 DEF Tracked
    <3>2. Since(v) \subseteq Since(v)'
      BY <1>3, <2>3 DEF Since
    <3>3. Cardinality(Since(v)) <= Cardinality(Since(v)')
      BY <2>1, <3>2, FS_Subset
    <3>4. /\ quotas[v].start \in 0 .. now /\ quotas[v].count \in 1 .. MaxRecords
          /\ quotas[v].count <= Cardinality(Since(v))
      BY <3>1
    <3> QED  BY <2>2, <2>3, <3>3, <3>4
  <2>4. CASE v = u /\ Allowed(u) /\ quotas'[u] = [start |-> now, count |-> 1]
    <3>1. Fresh(u) \in Since(v)'
      BY <1>1, <2>4 DEF Since, Fresh
    <3>2. Cardinality(Since(v)') # 0
      BY <2>1, <3>1, FS_EmptySet
    <3> QED  BY <1>1, <2>2, <2>4, <3>2, Limits
  <2>5. CASE /\ v = u /\ Allowed(u) /\ u \in Tracked(quotas) /\ quotas[u].count < MaxRecords
             /\ quotas'[u] = [start |-> quotas[u].start, count |-> quotas[u].count + 1]
    <3>1. /\ quotas[u].start \in 0 .. now /\ quotas[u].count \in 1 .. MaxRecords
          /\ quotas[u].count <= Cardinality(Since(u))
      BY <2>5
    <3>2. quotas'[u].start = quotas[u].start /\ quotas'[u].count = quotas[u].count + 1
      BY <2>5
    <3>3. Fresh(u) \in Since(u)'
      BY <1>1, <2>5, <3>1, <3>2 DEF Since, Fresh
    <3>4. Since(u) \cup {Fresh(u)} \subseteq Since(u)'
      BY <1>3, <3>2, <3>3 DEF Since
    <3>5. Fresh(u) \notin Since(u)
      BY <1>2 DEF Since
    <3>6. Cardinality(Since(u) \cup {Fresh(u)}) = Cardinality(Since(u)) + 1
      BY <2>1, <2>5, <3>5, FS_AddElement
    <3>7. Cardinality(Since(u) \cup {Fresh(u)}) <= Cardinality(Since(u)')
      BY <2>1, <2>5, <3>4, FS_Subset
    <3> QED  BY <2>2, <2>5, <3>1, <3>2, <3>6, <3>7, Limits
  <2> QED  BY <1>6, <2>0, <2>3, <2>4, <2>5
<1> QED  BY <1>3, <1>5, <1>6, <1>7

\* The limiter's steps: a record, a tick of the clock, a crash.
LEMMA QuotaStep == ASSUME QuotaInv, socket \in Seq(Packets), [Next]_vars PROVE QuotaInv'
<1> DEFINE same == now' = now /\ quotas' = quotas /\ accepted' = accepted
<1>1. ASSUME same PROVE QuotaInv'
  BY <1>1 DEF QuotaInv, Since, Tracked
<1>2. CASE Receive
  <2> DEFINE p == Head(socket)
  <2>0. now' = now /\ p.uid \in Uids
    BY <1>2, HeadTailProperties, LogAssumption DEF Receive
  <2>1. CASE p.tag = "monitor" /\ Monitor(p.uid)
    BY <2>0, <2>1, ChargeStep DEF Monitor, Fresh
  <2>2. CASE p.tag = "stats" /\ AddStats(p.uid)
    BY <2>0, <2>2, ChargeStep DEF AddStats, Fresh
  <2>3. CASE p.tag \notin Records /\ p.uid = Root /\ Control(p)
    BY <1>1, <2>0, <2>3 DEF Control, ClearMonitor, FlushPending, ResetStats, Request, logVars
  <2>4. CASE UNCHANGED <<slot, waking, logVars>>
    BY <1>1, <2>0, <2>4 DEF logVars
  <2> QED  BY <1>2, <2>1, <2>2, <2>3, <2>4 DEF Receive
<1>3. CASE FlushIfDue
  BY <1>1, <1>3 DEF FlushIfDue, FlushPending
<1>4. CASE Crash
  <2>1. now' = now /\ accepted' = {} /\ quotas' = [u \in Uids |-> Untracked]
    BY <1>4 DEF Crash
  <2>2. Tracked(quotas') = {} /\ quotas' \in [Uids -> [start : Int, count : Nat]]
    BY <2>1 DEF Tracked, Untracked
  <2>3. IsFiniteSet({}) /\ Cardinality({}) = 0
    BY FS_EmptySet
  <2>4. Tracked(quotas)' = {}
    BY <2>2 DEF Tracked
  <2>5. now' \in Nat
    BY <2>1 DEF QuotaInv
  <2>6. IsFiniteSet(accepted') /\ \A a \in accepted' : FALSE
    BY <2>1, <2>3
  <2>7. Cardinality(Tracked(quotas)') <= MaxTracked /\ Cardinality(Tracked(quotas')) <= MaxTracked
    BY <2>2, <2>3, <2>4, Limits
  <2> QED  BY <2>2, <2>4, <2>5, <2>6, <2>7 DEF QuotaInv
<1>5. CASE Main
  BY <1>1, <1>5 DEF Main, Boot, Take, Skip, Reconcile, Drain, Serve, PollWoken, PollElse, Elapse,
                   Others, logVars
<1>6. CASE WakeDaemon \/ (\E p \in Packets : Send(p))
  BY <1>1, <1>6 DEF WakeDaemon, Send, logVars
<1>7. CASE Tick
  <2>1. now' = now + 1 /\ quotas' = quotas /\ accepted' = accepted
    BY <1>7 DEF Tick, logVars
  <2>2. Tracked(quotas)' = Tracked(quotas) /\ Tracked(quotas') = Tracked(quotas)
    BY <2>1 DEF Tracked
  <2>3. \A u \in Uids : Since(u)' = Since(u)
    BY <2>1 DEF Since
  <2>4. now \in Nat /\ now' \in Nat /\ \A i \in 0 .. now : i \in 0 .. now'
    BY <2>1 DEF QuotaInv
  <2>5. \A a \in accepted' : a.at \in 0 .. now' /\ a.n \in 0 .. Cardinality(accepted') - 1
    BY <2>1, <2>4 DEF QuotaInv
  <2>6. ASSUME NEW u \in Tracked(quotas')
        PROVE  /\ quotas'[u].start \in 0 .. now' /\ quotas'[u].count \in 1 .. MaxRecords
               /\ quotas'[u].count <= Cardinality(Since(u)')
    <3>1. u \in Tracked(quotas) /\ u \in Uids
      BY <2>2 DEF Tracked
    <3>2. /\ quotas[u].start \in 0 .. now /\ quotas[u].count \in 1 .. MaxRecords
          /\ quotas[u].count <= Cardinality(Since(u))
      BY <3>1 DEF QuotaInv
    <3>3. Since(u)' = Since(u)
      BY <2>3, <3>1
    <3> QED  BY <2>1, <2>4, <3>2, <3>3
  <2> QED  BY <2>1, <2>2, <2>4, <2>5, <2>6 DEF QuotaInv
<1>8. CASE UNCHANGED vars
  BY <1>1, <1>8 DEF vars, logVars
<1> QED  BY <1>2, <1>3, <1>4, <1>5, <1>6, <1>7, <1>8 DEF Next


-----------------------------------------------------------------------------
(* The rest of the state.                                                     *)

SocketInv == /\ socket \in Seq(Packets) /\ Len(socket) <= SocketMax
             /\ waking \in Slots \cup {None}
             /\ pc \in {"boot", "work", "drain", "serve", "poll"} \cup Slots

FlagInv == dirty \in BOOLEAN /\ wake \in BOOLEAN

LEMMA SocketStep == SocketInv /\ [Next]_vars => SocketInv'
<1> SUFFICES ASSUME SocketInv, [Next]_vars PROVE SocketInv'
  OBVIOUS
<1> USE DEF SocketInv
<1>1. CASE Receive
  <2> DEFINE p == Head(socket)
  <2>1. socket' = Tail(socket) /\ socket # <<>> /\ pc' = pc
    BY <1>1 DEF Receive, mainVars
  <2>2. socket' \in Seq(Packets) /\ Len(socket') = Len(socket) - 1 /\ Len(socket) \in Nat
    BY <2>1, HeadTailProperties, LenProperties
  <2>3. Len(socket') <= SocketMax
    BY <2>2, Limits
  <2>4. waking' \in Slots \cup {None}
    <3>1. CASE UNCHANGED waking
      BY <3>1
    <3>2. CASE p.tag \in Slots /\ Request(p.tag, p.arg)
      BY <3>2 DEF Request
    <3> QED  BY <1>1, <3>1, <3>2 DEF Receive, Monitor, AddStats, Control, ClearMonitor, ResetStats
  <2> QED  BY <2>1, <2>2, <2>3, <2>4
<1>2. CASE \E p \in Packets : Send(p)
  <2>1. PICK p \in Packets : Send(p)
    BY <1>2
  <2>2. socket' = Append(socket, p) /\ Len(socket) < SocketMax /\ waking' = waking /\ pc' = pc
    BY <2>1 DEF Send, mainVars
  <2>3. socket' \in Seq(Packets) /\ Len(socket') = Len(socket) + 1 /\ Len(socket) \in Nat
    BY <2>2, AppendProperties, LenProperties
  <2>4. Len(socket') <= SocketMax
    BY <2>2, <2>3, Limits
  <2> QED  BY <2>2, <2>3, <2>4
<1>3. CASE WakeDaemon \/ FlushIfDue \/ Tick
  BY <1>3 DEF WakeDaemon, FlushIfDue, Tick, mainVars
<1>4. CASE Crash
  <2>1. <<>> \in Seq(Packets) /\ Len(<<>>) = 0
    BY EmptySeq
  <2>2. socket' = <<>> /\ waking' = None /\ pc' = "boot"
    BY <1>4 DEF Crash
  <2> QED  BY <2>1, <2>2, Limits
<1>5. CASE Main
  BY <1>5 DEF Main, Boot, Take, Skip, Reconcile, Drain, Serve, PollWoken, PollElse, Elapse,
              Others, Slots
<1>6. CASE UNCHANGED vars
  BY <1>6 DEF vars, mainVars
<1> QED  BY <1>1, <1>2, <1>3, <1>4, <1>5, <1>6 DEF Next

LEMMA FlagStep == FlagInv /\ [Next]_vars => FlagInv'
<1> SUFFICES ASSUME FlagInv, [Next]_vars PROVE FlagInv'
  OBVIOUS
<1> DEFINE flag(x) == x \in BOOLEAN
<1>1. Receive => wake' = wake /\ (dirty' = dirty \/ dirty' = TRUE \/ dirty' = FALSE)
  <2> SUFFICES ASSUME Receive PROVE wake' = wake /\ (dirty' = dirty \/ dirty' = TRUE \/ dirty' = FALSE)
    OBVIOUS
  <2>1. wake' = wake
    BY DEF Receive
  <2>2. \A u : Monitor(u) => dirty' = dirty
    BY DEF Monitor
  <2>3. \A u : AddStats(u) => dirty' = TRUE \/ dirty' = dirty
    BY DEF AddStats
  <2>4. \A q : Control(q) => dirty' = dirty \/ dirty' = FALSE
    BY DEF Control, ClearMonitor, FlushPending, ResetStats, Request, logVars
  <2>5. UNCHANGED <<slot, waking, logVars>> => dirty' = dirty
    BY DEF logVars
  <2> QED  BY <2>1, <2>2, <2>3, <2>4, <2>5 DEF Receive
<1>2. FlushIfDue => wake' = wake /\ (dirty' = dirty \/ dirty' = FALSE)
  BY Zenon DEF FlushIfDue, FlushPending
<1>3. Crash => wake' = FALSE /\ dirty' = FALSE
  BY Zenon DEF Crash
<1>4. WakeDaemon => wake' = TRUE /\ dirty' = dirty
  BY DEF WakeDaemon, logVars
<1>5. Main => dirty' = dirty /\ (wake' = wake \/ wake' = FALSE)
  BY DEF Main, Boot, Take, Skip, Reconcile, Drain, Serve, PollWoken, PollElse, Elapse, Others, logVars
<1>6. Tick \/ (\E p \in Packets : Send(p)) \/ UNCHANGED vars => dirty' = dirty /\ wake' = wake
  BY DEF Tick, Send, vars, logVars
<1>7. (wake' = wake \/ wake' = TRUE \/ wake' = FALSE) /\ (dirty' = dirty \/ dirty' = TRUE \/ dirty' = FALSE)
  BY <1>1, <1>2, <1>3, <1>4, <1>5, <1>6, Zenon DEF Next
<1> QED  BY <1>7, Zenon DEF FlagInv

LogDaemonInv == LogInv /\ QuotaInv /\ SocketInv /\ FlagInv /\ CounterInv /\ WakeInv /\ RetryInv

LEMMA LogDaemonInductive == Spec => []LogDaemonInv
<1>1. Init => LogDaemonInv
  <2> SUFFICES ASSUME Init PROVE LogDaemonInv
    OBVIOUS
  <2>1. LogInv
    <3>1. /\ log = Empty /\ next = 1 /\ cleared = 0 /\ crashes = 0 /\ 1 - 1 = 0
      BY DEF Init
    <3>2. Good(Empty, 1 - 1, 1, gone) /\ Empty \in Logs
      BY GoodEmpty
    <3>3. Empty.pend = <<>> /\ Empty.file = <<>> /\ Len(<<>>) = 0
      BY EmptySeq DEF Empty
    <3>4. 0 * FlushBatch = 0
      BY Limits
    <3> QED  BY <3>1, <3>2, <3>3, <3>4, Limits DEF LogInv
  <2>2. QuotaInv
    <3>1. now = 0 /\ accepted = {} /\ quotas = [u \in Uids |-> Untracked]
      BY DEF Init
    <3>2. Tracked(quotas) = {} /\ quotas \in [Uids -> [start : Int, count : Nat]]
      BY <3>1 DEF Tracked, Untracked
    <3>3. IsFiniteSet({}) /\ Cardinality({}) = 0
      BY FS_EmptySet
    <3>4. Cardinality(Tracked(quotas)) <= MaxTracked
      BY <3>2, <3>3, Limits
    <3> QED  BY <3>1, <3>2, <3>3, <3>4 DEF QuotaInv
  <2>3. SocketInv
    <3>1. <<>> \in Seq(Packets) /\ Len(<<>>) = 0
      BY EmptySeq
    <3> QED  BY <3>1, Limits DEF Init, SocketInv
  <2>4. FlagInv
    BY Zenon DEF Init, FlagInv
  <2>5. CounterInv /\ WakeInv /\ RetryInv
    BY EmptySeq DEF Init, CounterInv, WakeInv, RetryInv, Accounted
  <2> QED  BY <2>1, <2>2, <2>3, <2>4, <2>5 DEF LogDaemonInv
<1>2. LogDaemonInv /\ [Next]_vars => LogDaemonInv'
  BY LogStep, QuotaStep, SocketStep, FlagStep, CounterStep, WakeStep, RetryStep
     DEF LogDaemonInv, SocketInv
<1> QED  BY <1>1, <1>2, PTL DEF Spec

\* The files of the monitor log, its buffer, the clears acknowledged and the
\* crashes account for every record accepted, in order (RollingLog::append, flush,
\* rotate, clear_monitor), and every variable keeps to its type and its limit.
THEOREM LogIsHonest == Spec => []LogHonest
<1>1. LogDaemonInv => TypeOK
  <2> SUFFICES ASSUME LogDaemonInv PROVE TypeOK
    OBVIOUS
  <2> USE DEF LogDaemonInv
  <2>1. \A u \in Uids : quotas[u] = Untracked \/ (quotas[u].start \in 0 .. now
                                                 /\ quotas[u].count \in 0 .. MaxRecords)
    <3>1. \A u \in Uids : quotas[u] = Untracked \/ u \in Tracked(quotas)
      BY DEF Tracked
    <3>2. \A i \in 1 .. MaxRecords : i \in 0 .. MaxRecords
      BY Limits
    <3> QED  BY <3>1, <3>2 DEF QuotaInv
  <2>2. \A i \in DOMAIN retries : retries[i].app \in Apps /\ retries[i].tries \in 0 .. (MaxAttempts - 1)
    <3>1. \A i \in DOMAIN retries : retries[i] \in Entry
      BY ElementOfSeq, LenProperties DEF RetryInv
    <3> QED  BY <3>1 DEF Entry
  <2>3. dirty \in BOOLEAN /\ wake \in BOOLEAN
    BY Zenon DEF FlagInv
  <2> QED
    BY <2>1, <2>2, <2>3, Zenon DEF TypeOK, LogInv, QuotaInv, SocketInv, CounterInv, RetryInv
<1>2. LogDaemonInv => LogHonest
  BY <1>1, LogKept DEF LogDaemonInv, LogHonest
<1> QED  BY <1>2, LogDaemonInductive, PTL

\* The limiter turns a record away only when its sender had its full share accepted
\* within the last window, or as many others as the table holds each had one
\* accepted within it (allow_from_sender).
THEOREM NobodyRefusedForNothing == Spec => RefusedWithReason
<1>1. LogDaemonInv /\ [Next]_vars
        => [Receive /\ Head(socket).tag \in Records /\ accepted' = accepted
              => HasReason(Head(socket).uid)]_vars
  <2> SUFFICES ASSUME LogDaemonInv, Receive, Head(socket).tag \in Records, accepted' = accepted
               PROVE  HasReason(Head(socket).uid)
    OBVIOUS
  <2> DEFINE u == Head(socket).uid
  <2>1. u \in Uids
    BY HeadTailProperties, LogAssumption DEF Receive, LogDaemonInv, SocketInv
  <2>2. ~Allowed(u)
    <3> SUFFICES ASSUME Allowed(u) PROVE FALSE
      OBVIOUS
    <3>1. Monitor(u) \/ AddStats(u)
      BY DEF Receive, Records
    <3>2. accepted' = accepted \cup {Fresh(u)}
      BY <3>1 DEF Monitor, AddStats, Fresh
    <3>3. Fresh(u).n = Cardinality(accepted)
      BY DEF Fresh
    <3>4. IsFiniteSet(accepted) /\ \A a \in accepted : a.n \in 0 .. Cardinality(accepted) - 1
      BY DEF LogDaemonInv, QuotaInv
    <3>5. Cardinality(accepted) \in Nat
      BY <3>4, FS_CardinalityType
    <3>6. Fresh(u) \in accepted
      BY <3>2
    <3>7. Fresh(u).n \in 0 .. Cardinality(accepted) - 1
      BY <3>4, <3>6
    <3> HIDE DEF u
    <3> QED  BY <3>3, <3>5, <3>7
  <2> QED  BY <2>1, <2>2, RefusedStep DEF LogDaemonInv
<1> QED  BY <1>1, LogDaemonInductive, PTL DEF Spec, RefusedWithReason

=============================================================================
