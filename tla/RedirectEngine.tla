--------------------------- MODULE RedirectEngine ---------------------------
(* What the in-process hooks decide about one path: redirect/engine.rs with  *)
(* its caller, policy, router and writer parts.  A configuration maps every  *)
(* configured package to its rules; a path is the sequence of its names      *)
(* below the storage root, so the two spellings of a storage path (below     *)
(* /storage/emulated and below /data/media) are one path here.               *)
EXTENDS Naturals, FiniteSets, Sequences, SequencesExt

CONSTANTS
    Packages, Provider,
    MaxDepth      \* MAX_PATH_MAPPING_DEPTH
NoCaller == "none"

Private(c, pkg) == <<"Android", c, pkg>>
Sandbox(pkg) == <<"Android", "data", pkg, "sdcard">>
Allow == [act |-> "allow", to |-> <<>>, mapping |-> FALSE]
Redirect(q, m) == [act |-> "redirect", to |-> q, mapping |-> m]
Deny(q) == [act |-> "deny", to |-> q, mapping |-> FALSE]

\* RouterPathIndex::matches, caller_path_list_matches.
Covers(rules, p) == \E r \in rules : IsPrefix(r, p)

-----------------------------------------------------------------------------
(* Mappings: the longest request path that covers the path is replaced by    *)
(* its target, until none does.                                              *)

Longest(maps, p) ==
    CHOOSE m \in maps : /\ IsPrefix(m.from, p)
                        /\ \A n \in maps : IsPrefix(n.from, p) => Len(n.from) <= Len(m.from)
MapOnce(maps, p) ==
    IF \E m \in maps : IsPrefix(m.from, p)
    THEN LET m == Longest(maps, p) IN m.to \o SubSeq(p, Len(m.from) + 1, Len(p))
    ELSE p
\* A chain that comes back, or that goes on for too long, maps nothing.
MapPath(rec, p) ==
    LET chain[n \in 0 .. MaxDepth] == IF n = 0 THEN p ELSE MapOnce(rec.maps, chain[n - 1])
    IN IF \E m \in rec.maps : IsPrefix(m.from, chain[MaxDepth]) THEN p ELSE chain[MaxDepth]
IsMappingTarget(rec, p) == \E m \in rec.maps : IsPrefix(m.to, p)

-----------------------------------------------------------------------------
(* The predicates of the router and of the writer's rule cache.              *)

IsExcluded(rec, p) == Covers(rec.excluded, p)
IsAllowedReal(rec, p) == ~IsExcluded(rec, p) /\ Covers(rec.allowed, p)
IsReadOnly(rec, p) ==
    ~IsExcluded(rec, p) /\ ~Covers(rec.readOnlyEx, p) /\ Covers(rec.readOnly, p)
IsSandboxed(rec, p) == Covers(rec.sandboxed, p) /\ ~Covers(rec.sandboxedEx, p)
\* read_only_check_path: a mapped path is judged where it ends.
DeniesWrite(rec, p) == IsReadOnly(rec, MapPath(rec, p))
IsOwnPrivate(pkg, p) == \E c \in {"data", "media", "obb"} : IsPrefix(Private(c, pkg), p)
IsPrivate(p) == Len(p) >= 3 /\ p[1] = "Android" /\ p[2] \in {"data", "media", "obb"}

\* A fault in Fallback: a path that is not below the sandbox is left in place.
FallbackInPlace(pkg, p) == Allow
\* map_path_by_caller_fallback with the default redirect target.
Fallback(pkg, p) ==
    IF IsPrefix(Sandbox(pkg), p) THEN Allow ELSE Redirect(Sandbox(pkg) \o p, FALSE)

-----------------------------------------------------------------------------
(* The process of a redirected application: process_app_mount_namespace_-    *)
(* redirect.  The router state is read anew for every question, so that the  *)
(* read-only verdict may come from an older configuration than the rest.     *)

MediaTops == {"DCIM", "Pictures", "Movies"}
\* After the read-only verdict and the mappings.
RouterRules(rec, pkg, p, write) ==
    CASE ~write /\ IsReadOnly(rec, p) -> Allow
      [] write /\ IsAllowedReal(rec, p) /\ p[1] \in MediaTops -> Redirect(p, FALSE)
      [] ~write /\ ~IsReadOnly(rec, p) /\ IsMappingTarget(rec, p) /\ ~IsAllowedReal(rec, p) -> Fallback(pkg, p)
      [] OTHER -> IF IsExcluded(rec, p) \/ (rec.mapOnly /\ IsSandboxed(rec, p)) THEN Fallback(pkg, p) ELSE Allow
RouterDecision(old, rec, pkg, p, write) ==
    IF write /\ DeniesWrite(old, p) THEN Deny(MapPath(old, p))
    ELSE IF MapPath(rec, p) # p THEN Redirect(MapPath(rec, p), TRUE)
    ELSE RouterRules(rec, pkg, p, write)

-----------------------------------------------------------------------------
(* A system writer (the media provider, the download provider): it acts for  *)
(* the application behind its current request.                               *)

\* resolve_package_by_path_in_apps: the only package with the longest match.
BestLen(of) == CHOOSE n \in {Len(x[2]) : x \in of} : \A x \in of : Len(x[2]) <= n
OwnerAmong(of) ==
    LET best == {x[1] : x \in {y \in of : Len(y[2]) = BestLen(of)}}
    IN IF of # {} /\ Cardinality(best) = 1 THEN CHOOSE k \in best : TRUE ELSE NoCaller
Enabled(conf) == {k \in DOMAIN conf : k # Provider /\ conf[k].on}
Requests(conf, p) ==
    {<<k, r>> \in UNION {{k} \X {m.from : m \in conf[k].maps} : k \in Enabled(conf)} : IsPrefix(r, p)}
Targets(conf, p) ==
    {<<k, r>> \in UNION {{k} \X ({m.from : m \in conf[k].maps} \cup {m.to : m \in conf[k].maps})
                         : k \in Enabled(conf)} : IsPrefix(r, p)}
\* resolve_mapping_request_owner_package_by_path.
MappingOwner(conf, p) ==
    IF OwnerAmong(Requests(conf, p)) # NoCaller THEN OwnerAmong(Requests(conf, p))
    ELSE OwnerAmong(Targets(conf, p))
\* resolve_android_private_path_owner.
PrivateOwner(p) == IF IsPrivate(p) /\ p[3] # Provider THEN p[3] ELSE NoCaller
\* resolve_redirect_owner_package_by_path: a mapping request or the sandbox.
RedirectOwner(conf, p) ==
    OwnerAmong(Requests(conf, p) \cup
               {x \in {<<k, Sandbox(k)>> : k \in Enabled(conf)} : IsPrefix(x[2], p)})

\* resolve_system_writer_caller_context: the owner of a mapping replaces even a
\* known caller; without one the path is asked, then the hint that a recent request
\* left for it; path inference is off while a query falls back.  A caller here is
\* known with its package or not at all: one known by its uid alone and one that is
\* another system writer (maybe_override_system_writer_caller_by_path), and what
\* download rows and call stacks tell, are left out, and so are the owners of
\* paths below the provider's own private directory.
InferredCaller(conf, hint, p, write) ==
    IF write /\ RedirectOwner(conf, p) # NoCaller THEN RedirectOwner(conf, p)
    ELSE IF hint # NoCaller THEN hint ELSE PrivateOwner(p)
EffectiveCaller(conf, signal, hint, p, write, infer) ==
    CASE infer /\ MappingOwner(conf, p) # NoCaller -> MappingOwner(conf, p)
      [] ~(infer /\ MappingOwner(conf, p) # NoCaller) /\ signal # NoCaller -> signal
      [] OTHER -> IF infer THEN InferredCaller(conf, hint, p, write) ELSE NoCaller

\* resolve_anonymous_owner_hints: without one the provider acts for itself.
HasOwnerHint(conf, hint, p, write, infer) ==
    /\ infer
    /\ \/ MappingOwner(conf, p) # NoCaller
       \/ write /\ (PrivateOwner(p) # NoCaller \/ hint # NoCaller)

\* resolve_system_writer_self_explicit_rule, for a provider with rules of its
\* own; "allow" also stands for no rule.
SelfRule(conf, p, write) ==
    IF Provider \notin DOMAIN conf \/ IsOwnPrivate(Provider, p) THEN Allow
    ELSE LET rec == conf[Provider]
             q == MapPath(rec, p)
         IN IF ~rec.on THEN Allow
            ELSE IF q # p THEN IF write /\ IsReadOnly(rec, q) THEN Deny(q) ELSE Redirect(q, TRUE)
            ELSE IF IsReadOnly(rec, p) THEN IF write THEN Deny(p) ELSE Allow
            ELSE IF IsSandboxed(rec, p) THEN Fallback(Provider, p)
            ELSE Allow

\* A fault in Mapped: the target is not held against the read-only rules.
MappedUnchecked(rec, q, write) == Redirect(q, TRUE)
\* A mapped path is judged where it ends.
Mapped(rec, q, write) == IF write /\ IsReadOnly(rec, q) THEN Deny(q) ELSE Redirect(q, TRUE)

\* The rule lists, once no mapping decides.
WriterRules(rec, pkg, p, write) ==
    CASE write /\ DeniesWrite(rec, p) -> Deny(MapPath(rec, p))
      [] ~(write /\ DeniesWrite(rec, p)) /\ IsOwnPrivate(pkg, p) -> Redirect(p, FALSE)
      [] OTHER ->
            LET stays == IF rec.mapOnly THEN ~IsSandboxed(rec, p)
                         ELSE /\ ~IsExcluded(rec, p)
                              /\ \/ Covers(rec.allowed \cup rec.readOnlyEx, p)
                                 \/ ~write /\ IsReadOnly(rec, p)
            IN IF stays THEN Allow ELSE Fallback(pkg, p)
\* evaluate_system_writer_mapping_stage and process_system_writer_policy: the
\* mappings are read once, the rule lists after it.
WriterPolicy(old, rec, pkg, p, write) ==
    LET q == MapPath(old, p)
    IN CASE q # p -> Mapped(rec, q, write)
         [] q = p /\ IsMappingTarget(old, p) -> IF IsOwnPrivate(pkg, p) THEN Redirect(p, FALSE) ELSE Allow
         [] OTHER -> WriterRules(rec, pkg, p, write)

\* process_system_writer_redirect: a call of nobody is the provider's own.
ActsForItself(oldConf, conf, signal, hint, p, write, infer) ==
    /\ signal = NoCaller
    /\ \/ ~HasOwnerHint(oldConf, hint, p, write, infer)
       \/ /\ MappingOwner(oldConf, p) = NoCaller
          /\ SelfRule(conf, p, write) # Allow
WriterDecision(oldConf, conf, caller, signal, hint, p, write, infer) ==
    IF ActsForItself(oldConf, conf, signal, hint, p, write, infer) THEN SelfRule(conf, p, write)
    ELSE IF caller \notin DOMAIN conf \/ caller \notin DOMAIN oldConf THEN Allow
    ELSE IF ~conf[caller].on THEN Allow
    ELSE WriterPolicy(oldConf[caller], conf[caller], caller, p, write)

\* is_path_parent_of_caller_allowed_real_path.
AboveAllowed(rec, p) == \E r \in rec.allowed : IsPrefix(p, r)

\* Where an operation with this decision goes.
Final(d, p) == IF d.act = "redirect" THEN d.to ELSE p
=============================================================================
