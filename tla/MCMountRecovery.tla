-------------------------- MODULE MCMountRecovery --------------------------
(* Small instances of MountRecovery for TLC.                                *)
EXTENDS MountRecovery

FourTargets == {"emulated", "user", "dir", "mntuser"}
FourDepths == [emulated |-> 1, user |-> 2, dir |-> 3, mntuser |-> 1]
TwoTargets == {"emulated", "user"}
TwoDepths == [emulated |-> 1, user |-> 2]

\* Requests.  Redirect through the shared host; by binds, with and without a path
\* rule below the root; path mapping only; a package without rules; switched off.
HostCfg == [op |-> "reload", overlay |-> {}, binds |-> {"user"}, src |-> "sandbox",
            mapped |-> FALSE, host |-> TRUE, ruled |-> TRUE]
RootCfg == [HostCfg EXCEPT !.host = FALSE]
BindCfg == [RootCfg EXCEPT !.overlay = {"dir"}, !.binds = {"user", "dir"}]
MapCfg == [op |-> "reload", overlay |-> {"dir"}, binds |-> {"dir"}, src |-> "mapping",
           mapped |-> TRUE, host |-> FALSE, ruled |-> TRUE]
NoRulesCfg == [op |-> "reload", overlay |-> {}, binds |-> {}, src |-> "sandbox",
               mapped |-> FALSE, host |-> FALSE, ruled |-> FALSE]
OffCfg == [NoRulesCfg EXCEPT !.op = "disable"]
\* The redirect root bound from two different sandboxes.
OtherRootCfg == [RootCfg EXCEPT !.src = "mapping"]

AllConfigs == {HostCfg, BindCfg, MapCfg, NoRulesCfg, OffCfg}
RootConfigs == {HostCfg, RootCfg, OtherRootCfg, OffCfg}
HostAndOff == {HostCfg, OffCfg}

=============================================================================
