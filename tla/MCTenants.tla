------------------------------- MODULE MCTenants -------------------------------
(* Small instances of four modules about what a tenant or a device leaves behind: *)
(* a behaviour is one of the tenants' rows and resources (TenantLifecycle), of    *)
(* the authorization of a tenant (RealtimeAccess, with a status of its own), of   *)
(* the registration checks of a device (DeviceAccess), or of the data of two      *)
(* devices (DeviceArchive); the variables of the others stay as they are.         *)
EXTENDS TenantLifecycle, RealtimeAccess, DeviceAccess, DeviceArchive, TLC
VARIABLE side

Symmetric == UNION {Permutations(s) : s \in {Tenants, Names, Handlers, Archived, Labels, Movers}}

MCInit ==
    /\ side \in {"lifecycle", "access", "check", "archive"}
    /\ LifeInit /\ AccessInit /\ Init /\ ArchiveInit
    /\ side # "check" => registered = {}
MCNext ==
    \/ side = "lifecycle" /\ LifeNext /\ UNCHANGED <<side, rtVars, vars, archiveVars>>
    \/ side = "access" /\ AccessNext /\ UNCHANGED <<side, lifeVars, vars, archiveVars>>
    \/ side = "check" /\ Next /\ UNCHANGED <<side, lifeVars, rtVars, archiveVars>>
    \/ side = "archive" /\ ArchiveNext /\ UNCHANGED <<side, lifeVars, rtVars, vars>>
MCSpec == MCInit /\ [][MCNext]_<<side, lifeVars, rtVars, vars, archiveVars>>
=============================================================================
