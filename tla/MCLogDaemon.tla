---------------------------- MODULE MCLogDaemon ----------------------------
(* What reaches the daemon over sockets: the packets its log thread takes,    *)
(* and the acknowledgements of the policies it registers with the shared      *)
(* host.  One exercise per behaviour, `half` picks it: the log thread's own   *)
(* state, the main loop with its requests (the two meet only in the request   *)
(* slots), or the registrations.                                              *)
EXTENDS LogDaemon, HostControl

VARIABLE half

\* Root and two applications send; root alone commands.
P(u, t, x) == [uid |-> u, tag |-> t, arg |-> x]
MCLogPackets == {P("a1", "monitor", "-"), P("a2", "monitor", "-"), P("a1", "stats", "-"),
                 P("a1", "clear", "-"), P("root", "clear", "-"), P("root", "flush", "-"),
                 P("root", "reset", "-")}
MCTokens == {P("root", "reconcile", "r"), P("root", "register", "p1")}
MCPackets == MCLogPackets \cup MCTokens

HInit == Init /\ ControlInit /\ half \in {"log", "main", "host"}
HNext == /\ UNCHANGED half
         /\ \/ /\ half = "log" /\ UNCHANGED controlVars
               /\ (\E p \in MCLogPackets : Send(p)) \/ Tick
            \/ /\ half = "main" /\ UNCHANGED controlVars
               /\ (sends < 2 /\ \E p \in MCTokens : Send(p)) \/ Main
            \/ half # "host" /\ UNCHANGED controlVars /\ (Receive \/ WakeDaemon \/ FlushIfDue \/ Crash)
            \/ half = "host" /\ UNCHANGED vars /\ ControlNext
HSpec == /\ HInit /\ [][HNext]_<<half, vars, controlVars>>
         /\ \/ half = "log"
            \/ half = "main" /\ Fairness
            \/ half = "host" /\ ControlFairness

\* Bound: once a wait was given up, at most one datagram is under way; what the
\* properties of the registrations say then, they say of the next host.
Short == Len(toHost) + Len(acks) <= 1

=============================================================================
