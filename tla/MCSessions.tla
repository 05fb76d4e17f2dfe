------------------------------ MODULE MCSessions ------------------------------
(* Small instances of the two portals: a behaviour is one of the tenant's or one of *)
(* the platform's, and the variables of the other stay as they are.                 *)
EXTENDS Portals, TLC
VARIABLE side

FewScenes ==
    {"get", "change", "reset"} :> 2 @@ {"get", "link"} :> 1 @@ {"reset", "link", "forgot"} :> 3
      @@ {"get", "update", "delete"} :> 2 @@ {"update", "delete", "create"} :> 2
      @@ {"login", "mfa", "setup", "activate", "verify", "disable"} :> 4
      @@ {"setup", "activate", "verify", "console", "create"} :> 4
      @@ {"get", "console", "tenant", "reset", "create"} :> 2
Symmetric == Permutations(Users) \cup Permutations(Requests)

MCInit ==
    /\ side \in {"tenant", "platform"} /\ Init /\ PlatformInit
    /\ IF side = "tenant" THEN ~required
       ELSE calls = {"get", "link"} /\ \A u \in Users : row[u] = Row("admin", 0)
MCNext ==
    \/ side = "tenant" /\ Next /\ UNCHANGED <<side, platformVars>>
    \/ side = "platform" /\ PlatformNext /\ UNCHANGED <<side, vars>>
MCSpec == MCInit /\ [][MCNext]_<<side, vars, platformVars>>
=============================================================================
