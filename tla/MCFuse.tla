------------------------------- MODULE MCFuse -------------------------------
(* The storage an application sees.  The shared host serves it: how requests  *)
(* are routed by the policies, one request at a time, and the inode table     *)
(* under two threads.  And the media provider writes to it for others, with   *)
(* its calls hooked.  One of the three per behaviour; `part` picks it.        *)
EXTENDS InodeTable, TLC

VARIABLE part

\* Two threads, two directories with at most one file each; directories are not
\* renamed while others work inside them.
CONSTANTS t1, t2
ThreadSymmetry == Permutations({t1, t2})

\* Two applications.  p is redirected and maps Map to Download; it keeps Docs read-only,
\* or Download with Docs allowed.  q has Docs sandboxed and is only mapped otherwise.
PolicyP ==
    [pkg |-> "p", mode |-> "redirect", allowed |-> {}, excluded |-> {}, sandboxed |-> {}, sandboxedEx |-> {},
     readOnly |-> {<<"Docs">>}, readOnlyEx |-> {}, maps |-> {[from |-> <<"Map">>, to |-> <<"Download">>]}]
PolicyQ == [PolicyP EXCEPT !.pkg = "q", !.mode = "mapping", !.sandboxed = {<<"Docs">>}, !.readOnly = {}, !.maps = {}]
MCMenu(a) ==
    IF a = "q" THEN {PolicyQ}
    ELSE {PolicyP, [PolicyP EXCEPT !.readOnly = {<<"Download">>}, !.allowed = {<<"Docs">>}]}
VARIABLES
    reg, nsreg, fDisk, pdirs, held, memo, owner, pown, recent, files, cache, listed, last, fReqs
fVars == <<reg, nsreg, fDisk, pdirs, held, memo, owner, pown, recent, files, cache, listed, last, fReqs>>
Fs == INSTANCE FuseFs WITH
    disk <- fDisk, reqs <- fReqs, Apps <- {"p", "q"}, Menu <- MCMenu, MaxReq <- 4,
    Views <- {<<"Docs", "x">>, <<"Map", "x">>}, Outside <- {<<"Docs", "x">>, <<"Download", "x">>}

\* The hooked calls of two provider threads: one application maps a directory into a
\* read-only one or beside it, another has an open directory, the provider its own rules.
CONSTANT Entries
Pics == <<"Pics">>
Maps == <<"Maps">>
Ro == <<"Ro">>
NoRules == [on |-> TRUE, mapOnly |-> FALSE, maps |-> {}, allowed |-> {}, excluded |-> {},
            sandboxed |-> {}, sandboxedEx |-> {}, readOnly |-> {}, readOnlyEx |-> {}]
Plain == [NoRules EXCEPT !.maps = {[from |-> Maps, to |-> <<"Tgt">>]}, !.allowed = {Pics \o <<"x", "y">>},
                         !.readOnly = {Ro}]
Inward == [Plain EXCEPT !.maps = {[from |-> Maps, to |-> <<"Ro", "in">>]}, !.allowed = {Pics}]
Loose == [NoRules EXCEPT !.mapOnly = TRUE, !.sandboxed = {Pics}]
Own == [NoRules EXCEPT !.sandboxed = {Pics}, !.readOnly = {Ro}]
MCConfigs == <<"A" :> Plain @@ "B" :> NoRules, "A" :> Inward @@ "B" :> Loose @@ "media" :> Own>>
VARIABLES hDisk, hEdits, conf, hFiles, hDirs, touched, mapped, now, calls, th, win
hVars == <<hDisk, hEdits, conf, hFiles, hDirs, touched, mapped, now, calls, th, win>>
Hooks == INSTANCE HookOps WITH
    disk <- hDisk, edits <- hEdits, files <- hFiles, dirs <- hDirs, Packages <- {"A", "B"},
    Provider <- "media", MaxDepth <- 3, App <- {}, Self <- "A", Callers <- {"A", "B"}, Hinted <- {"A"},
    Paths <- {Append(Pics, "x"), Append(Maps, "x"), Append(Ro, "x")}, Configs <- MCConfigs,
    Files0 <- {Append(Pics, "x"), Append(Ro, "x")}, Dirs0 <- {Pics, Ro}, MaxCalls <- 2, MaxEdits <- 1,
    MappedTtl <- 1, MappedMax <- 1

FuseInit ==
    /\ part \in {"routing", "table", "hooks"}
    /\ Fs!Init /\ (part # "routing" => reg = <<>>)
    /\ Init /\ (part # "table" => disk = {<<>>})
    /\ Hooks!Init

FuseNext ==
    \/ part = "routing" /\ Fs!Next /\ UNCHANGED <<part, vars, hVars>>
    \/ part = "table" /\ Next /\ UNCHANGED <<part, fVars, hVars>>
    \/ part = "hooks" /\ Hooks!Next /\ UNCHANGED <<part, vars, fVars>>

FuseSpec == FuseInit /\ [][FuseNext]_<<part, vars, fVars, hVars>>

\* Bound: two threads call at once only without hints and Java hooks, with no reload
\* due, and if one of them makes a directory or renames.  A thread is in one Java hook at a time and makes one call there, and a call for
\* a caller known by a hint is the first of its behaviour.
Special(t) == win[t].open # {} \/ (th[t].pc # "idle" /\ th[t].hint # Hooks!NoCaller)
Busy(t) == th[t].pc # "idle"
HooksBound ==
    /\ \A t \in Threads : Special(t) => \A u \in Threads \ {t} : ~Busy(u) /\ win[u].open = {}
    /\ (\A t \in Threads : Busy(t)) => hDisk = conf /\ \E t \in Threads : th[t].op \in {"mkdir", "rename"}
    /\ \A t \in Threads : Busy(t) /\ th[t].hint # Hooks!NoCaller => calls = 1 /\ win[t].open = {}
    /\ \A t \in Threads : Cardinality(win[t].open) <= 1
    /\ (\E t \in Threads : win[t].open # {}) => calls <= 1

-----------------------------------------------------------------------------
\* An application sees and changes its own files, and writes nowhere its rules forbid;
\* a cached listing shows what the directory holds (fuse_redirect/policy.rs); and a
\* request on an inode reaches the path the kernel has it under (fuse_redirect/inode.rs).
ViewEnforced == Fs!ViewEnforced /\ Fs!ListingRight /\ PathsAgree
\* Calls made for an application stay where its rules let it write, and leave what its
\* rules say is read-only (hook/ops); a directory made at the target of a mapping is
\* found (hook/context.rs).
DirsFound == Hooks!DirsFound
Confined == Hooks!Confined
ReadOnlyKept == Hooks!ReadOnlyKept
\* An openat with an absolute path opens what was decided (hook/ops/open.rs).
RedirectHonoured == Hooks!RedirectHonoured

=============================================================================
