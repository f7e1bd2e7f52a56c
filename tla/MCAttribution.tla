---------------------------- MODULE MCAttribution ----------------------------
(* Whom an operation is put down to: the hooks inside the media provider that *)
(* find the application a thread works for, and the monitor that names one in *)
(* its records, one of the two per behaviour.  `part` picks it.               *)
EXTENDS CallerContext, TLC

VARIABLE part

\* Hooks: two applications, one of them with a uid that several packages share, and one
\* system process.
CONSTANTS pa, pb, ps, ua, ub, us, ka, kb, ks, tb, tl, tw, self
MCUidOf == [p \in {pa, pb, ps} |-> CASE p = pa -> ua [] p = pb -> ub [] OTHER -> us]
MCPkgOf == [p \in {pa, pb, ps} |-> CASE p = pa -> ka [] p = pb -> kb [] OTHER -> ks]
MCByUid == [u \in {ua, ub} |-> IF u = ua THEN ka ELSE NoPkg]
\* Binder threads and FUSE threads share no evidence (a binder thread never takes the
\* relay slot), so it is enough to see them work one kind at a time.
Unused(t) == req[t] = NoProc /\ cur[t] = NoCaller /\ saved[t] = NoSaved /\ fuse[t] = NoHeader
Apart == Unused(tb) \/ (Unused(tl) /\ Unused(tw))

\* Monitor: two applications, two files of the same name in different directories; one
\* application may write below the directory, the other maps into it.
CONSTANTS
    Apps, Paths, SameName, NamedIn, Directory, Watchers, Owners, Kinds, Ops, Sources, Nobody,
    HintWindow, RequestWindow, QueryWindow, Park, DupWindow, DedupWindow,
    MaxHints, MaxPending, MaxRecent, MaxDedup, SocketMax, MaxTime, MaxOps
VARIABLES
    now, ops, files, hints, file, query, told, doing, socket, events, parked, recent, dedup, asked, ledger
mVars == <<now, ops, files, hints, file, query, told, doing, socket, events, parked, recent, dedup, asked, ledger>>
Monitor == INSTANCE FileMonitor
MCSameName == Paths \X Paths
MCNamedIn == [p \in Paths |-> Nobody]
AnyPath == Permutations(Paths)
MCWatchers == <<[pkg |-> "a", source |-> "allowed_real_path"], [pkg |-> "b", source |-> "path_mapping"]>>

ASSUME PartsAssumption == Monitor!WindowsAssumption

AttributionInit ==
    /\ part \in {"monitor", "caller"}
    /\ Init /\ Monitor!Init

AttributionNext ==
    \/ part = "caller" /\ Next /\ UNCHANGED <<part, mVars>>
    \/ part = "monitor" /\ Monitor!Next /\ UNCHANGED <<part, vars>>

AttributionSpec == AttributionInit /\ [][AttributionNext]_<<part, vars, mVars>>

-----------------------------------------------------------------------------
\* What a request record told of is not told again (daemon_monitor.rs); a record names a
\* package that asked, or one with evidence besides its watching, and repeats itself
\* only a window apart (monitor/source_hint.rs, daemon_monitor.rs).
RecordsTrue ==
    /\ Monitor!NotToldAgain
    /\ [](/\ TypeOK /\ Monitor!TypeOK
         /\ Monitor!BlamedAsked /\ Monitor!NamedWithEvidence /\ Monitor!RecordsSpaced)

=============================================================================
