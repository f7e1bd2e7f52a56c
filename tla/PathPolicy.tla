----------------------------- MODULE PathPolicy -----------------------------
(* Where a path of the redirected view is served from: the decision of       *)
(* RedirectPolicy in fuse_redirect/policy.rs.  A path is the sequence of its *)
(* names below the storage root, in the view and in the storage below alike; *)
(* rules are literal paths and cover what lies below them.                   *)
EXTENDS Naturals, FiniteSets, Sequences, SequencesExt

Categories == {"data", "media", "obb"}
\* NATIVE_PUBLIC_MEDIA_TOP_DIRS, one of twelve.
PublicTops == {"Download"}
MaxHops == 8

\* The private storage of a package, and the default redirect target inside it.
PrivateRoot(c, pkg) == <<"Android", c, pkg>>
Sandbox(pkg) == <<"Android", "data", pkg, "sdcard">>

\* A policy of an application: mode "redirect" sends everything to its sandbox
\* except the rules, "mapping" leaves everything but the rules in place, and
\* "monitor" changes nothing.  "host" is the passthrough policy of the shared
\* session itself, which system callers fall back to.
Modes == {"redirect", "mapping", "monitor", "host"}
RuleSets == {"allowed", "excluded", "sandboxed", "sandboxedEx", "readOnly", "readOnlyEx"}

\* RuleIndex::matches: a rule covers a path it is equal to or an ancestor of.
Under(rules, p) == \E r \in rules : IsPrefix(r, p)
\* rule_may_match_path_or_descendant.
MayMatch(r, p) == IsPrefix(r, p) \/ IsPrefix(p, r)

IsOwnPrivate(pol, p) == \E c \in Categories : IsPrefix(PrivateRoot(c, pol.pkg), p)
IsPrivate(p) == Len(p) >= 3 /\ p[1] = "Android" /\ p[2] \in Categories
IsForeignPrivate(pol, p) == IsPrivate(p) /\ p[3] # pol.pkg
IsSharedMedia(p) == p # <<>> /\ p[1] = "Android" /\ (Len(p) = 1 \/ p[2] = "media")
IsPublicMedia(p) == p # <<>> /\ p[1] \in PublicTops
\* is_shared_media_subtree_write_path: below Android/media/<package>.
IsMediaOfPackage(p) == Len(p) >= 3 /\ p[1] = "Android" /\ p[2] = "media"
\* is_system_write_delegate_session: the media provider and the bridge write
\* for others.
IsDelegate(pol) == pol.pkg = "media_provider"

-----------------------------------------------------------------------------
(* Path mappings: the longest request path that covers the path is replaced  *)
(* by its target, again and again.                                           *)

Best(maps, p) ==
    CHOOSE m \in maps : /\ IsPrefix(m.from, p)
                        /\ \A n \in maps : IsPrefix(n.from, p) => Len(n.from) <= Len(m.from)
Moved(m, p) == m.to \o SubSeq(p, Len(m.from) + 1, Len(p))
NoPath == <<"none">>
HopStart(p) == [cur |-> p, prev |-> NoPath, hit |-> FALSE, stop |-> FALSE]
\* One round of the loop: it stops at a fixed point, at a mapping into itself
\* and when the path before the last one comes back.
Hop(maps, s) ==
    IF s.stop \/ ~ \E m \in maps : IsPrefix(m.from, s.cur) THEN [s EXCEPT !.stop = TRUE]
    ELSE LET m == Best(maps, s.cur)
             next == Moved(m, s.cur)
         IN [cur |-> next, hit |-> TRUE,
             prev |-> IF s.hit THEN s.cur ELSE NoPath,
             stop |-> next = s.cur \/ IsPrefix(m.from, m.to) \/ s.prev = next]
Hops(maps, p) ==
    LET h[n \in 0 .. MaxHops] == IF n = 0 THEN HopStart(p) ELSE Hop(maps, h[n - 1])
    IN h[MaxHops]
IsMapped(pol, p) == \E m \in pol.maps : IsPrefix(m.from, p)
MappingTarget(pol, p) == Hops(pol.maps, p).cur

-----------------------------------------------------------------------------
(* backend_decision.                                                         *)

\* is_read_only_rel: a mapped path is judged where it ends.
IsReadOnly(pol, p) ==
    LET q == IF IsMapped(pol, p) THEN MappingTarget(pol, p) ELSE p
    IN ~Under(pol.excluded, q) /\ ~Under(pol.readOnlyEx, q) /\ Under(pol.readOnly, q)
HasRealChildRule(pol, p) ==
    \E r \in pol.allowed \cup pol.readOnly \cup {m.from : m \in pol.maps} : MayMatch(r, p)
InSandboxRule(pol, p) == Under(pol.sandboxed, p) /\ ~Under(pol.sandboxedEx, p)
IsSandbox(pol, p) == pol.mode = "mapping" /\ ~IsMapped(pol, p) /\ InSandboxRule(pol, p)

IsReal(pol, p, op) ==
    CASE IsSandbox(pol, p) -> FALSE
      [] ~IsSandbox(pol, p) /\ (pol.mode = "monitor" \/ IsMapped(pol, p) \/ IsOwnPrivate(pol, p)) -> TRUE
      [] OTHER ->
            IF pol.mode = "mapping" THEN IsDelegate(pol) \/ ~IsForeignPrivate(pol, p)
            ELSE /\ ~Under(pol.excluded, p)
                 /\ \/ Under(pol.readOnlyEx, p) \/ Under(pol.allowed, p) \/ IsSharedMedia(p)
                    \/ IsDelegate(pol) /\ IsForeignPrivate(pol, p)
                    \/ op = "read" /\ (IsReadOnly(pol, p) \/ HasRealChildRule(pol, p))

\* The condition under which resolve_relative lets a write go to real storage.
WriteMayBeReal(pol, p) ==
    \/ pol.mode = "host" \/ IsDelegate(pol) \/ IsMapped(pol, p) \/ IsOwnPrivate(pol, p)
    \/ Under(pol.allowed, p) \/ IsPublicMedia(p) \/ IsMediaOfPackage(p)

\* redirect_view_rel: the part of the view that is the redirect target itself.
ViewRel(pol) == IF pol.mode = "redirect" THEN Sandbox(pol.pkg) ELSE <<>>
RedirectRoot(pol) == ViewRel(pol)
\* strip_redirect_view_prefix.
Stripped(pol, p) ==
    IF ViewRel(pol) # <<>> /\ IsPrefix(ViewRel(pol), p)
    THEN SubSeq(p, Len(ViewRel(pol)) + 1, Len(p)) ELSE p

\* The storage path of a decision before the two read fallbacks.
Backend(pol, p, op) ==
    IF IsReal(pol, p, op) THEN (IF IsMapped(pol, p) THEN MappingTarget(pol, p) ELSE p)
    ELSE IF IsSandbox(pol, p) /\ ViewRel(pol) = <<>> /\ pol.mode = "mapping" THEN Sandbox(pol.pkg) \o p
    ELSE RedirectRoot(pol) \o p

\* resolve_cross_app_read_alias: the longest mapping of any other application.
OtherMaps(pols, pol) == UNION {q.maps : q \in {r \in pols : r.pkg # pol.pkg}}
Alias(pols, pol, p) == Moved(Best(OtherMaps(pols, pol), p), p)
HasAlias(pols, pol, p) == \E m \in OtherMaps(pols, pol) : IsPrefix(m.from, p)

\* The read fallbacks, over what exists: a path another application has just
\* reached through its mapping, and the real file behind a sandboxed path.
ReadFallback(pols, recent, files, dirs, pol, p) ==
    LET b == Backend(pol, p, "read")
        there == files \cup dirs
    IN IF b \in there THEN b
       ELSE IF /\ IsReal(pol, p, "read") /\ ~IsMapped(pol, p)
               /\ \E h \in recent : IsPrefix(h, p)
               /\ HasAlias(pols, pol, p) /\ Alias(pols, pol, p) \in there
            THEN Alias(pols, pol, p)
       ELSE IF ~IsReal(pol, p, "read") /\ InSandboxRule(pol, p) /\ p \in files THEN p
       ELSE b

NoBackend == [at |-> NoPath, ro |-> FALSE]
\* resolve_relative: the storage path and whether it is read-only.
Resolve(pols, recent, files, dirs, pol, rel, op) ==
    LET p == Stripped(pol, rel)
    IN IF op = "write"
       THEN IF IsReal(pol, p, op) /\ ~WriteMayBeReal(pol, p) THEN NoBackend
            ELSE [at |-> Backend(pol, p, op), ro |-> IsReadOnly(pol, p)]
       ELSE [at |-> ReadFallback(pols, recent, files, dirs, pol, p), ro |-> IsReadOnly(pol, p)]

\* children_route_uniformly.
ChildrenRouteUniformly(pol, p) ==
    /\ p # <<>>
    /\ ~ \E k \in RuleSets : \E r \in pol[k] : IsStrictPrefix(p, r)
    /\ ~ \E m \in pol.maps : IsStrictPrefix(p, m.from)
    /\ ~ \E c \in Categories : IsStrictPrefix(p, PrivateRoot(c, pol.pkg))

\* is_virtual_dir: an ancestor of a rule exists even where no directory does.
IsVirtualDir(pol, p) ==
    \E r \in UNION {pol[k] : k \in RuleSets} \cup {m.from : m \in pol.maps} : IsPrefix(p, r)

=============================================================================
