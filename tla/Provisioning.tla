------------------------------ MODULE Provisioning ------------------------------
(* POST /provision (routers/provisioning.py) under one tenant's provisioning      *)
(* tokens, with revocation, device deletion and group deletion meanwhile. The     *)
(* UPDATE of the token row holds its lock until the transaction ends, the         *)
(* issuing of the certificate included; other statements see what is committed.  *)
EXTENDS Integers, FiniteSets

CONSTANTS
    Tokens, Devices, Groups,
    Requests,     \* the calls of POST /provision, each made once
    MaxLimit,     \* bound on max_devices
    MaxDeletions, \* bound on device deletions
    MaxRestarts,  \* bound on restarts of core-api
    Null          \* NULL; no row

DeviceRow == [token: Tokens, group: Groups \cup {Null}]

ASSUME ProvisioningConstants ==
    /\ IsFiniteSet(Devices)
    /\ MaxLimit \in Nat \ {0} /\ MaxDeletions \in Nat /\ MaxRestarts \in Nat
    /\ Null \notin Groups /\ Null \notin DeviceRow

VARIABLES
    token,    \* provisioning_tokens: is_active, max_devices, registered_count
    expired,  \* tokens past expires_at
    device,   \* devices: row with its token and group, or Null
    groups,   \* device_groups
    stage, req,  \* the requests
    deletions, restarts

provVars == <<token, expired, device, groups, stage, req, deletions, restarts>>

Token == [active: BOOLEAN, max: 1..MaxLimit, count: Nat]
Req == [token: Tokens, dev: Devices, group: Groups \cup {Null}]
Stages == {"new", "validated", "counted", "screened", "issued", "done"}

ProvInit ==
    /\ token \in [Tokens -> [active: {TRUE}, max: 1..MaxLimit, count: {0}]]
    /\ expired = {} /\ groups = Groups
    /\ device = [d \in Devices |-> Null]
    /\ stage = [r \in Requests |-> "new"]
    /\ req \in [Requests -> Req]
    /\ deletions = 0 /\ restarts = 0

-----------------------------------------------------------------------------
(* The transaction of a request *)

\* Slip for the mutation runs: a request that has ended keeps its transaction open.
HoldingLeaks(r) == stage[r] \in {"counted", "screened", "issued", "done"}

\* Inside the transaction that has updated the token row.
Holding(r) == stage[r] \in {"counted", "screened", "issued"}
TokenLocked(t) == \E r \in Requests : Holding(r) /\ req[r].token = t

To(r, p) == /\ stage' = [stage EXCEPT ![r] = p]
            /\ UNCHANGED <<expired, groups, req, deletions, restarts>>

\* The token is looked up; 401 when it is revoked or expired.
Validate(r) ==
    LET t == req[r].token IN
    /\ stage[r] = "new"
    /\ To(r, IF token[t].active /\ t \notin expired THEN "validated" ELSE "done")
    /\ UNCHANGED <<token, device>>

HasRoom(t) == token[t].active /\ token[t].count < token[t].max

\* Slip for the mutation runs: the row is only read.
CountUnlocked(r) ==
    /\ stage[r] = "validated"
    /\ To(r, IF HasRoom(req[r].token) THEN "counted" ELSE "done")
    /\ UNCHANGED <<token, device>>

\* UPDATE ... WHERE registered_count < max_devices AND is_active, once the row is
\* free; 403 when no row matches. The count shows when the transaction commits.
Count(r) ==
    /\ stage[r] = "validated" /\ ~TokenLocked(req[r].token)
    /\ To(r, IF HasRoom(req[r].token) THEN "counted" ELSE "done")
    /\ UNCHANGED <<token, device>>

\* Raising rolls the count back and frees the row.
Rollback(r) == To(r, "done") /\ UNCHANGED <<token, device>>

\* 422 for a group that is gone, 409 for a device that is registered.
Screen(r) ==
    /\ stage[r] = "counted"
    /\ IF req[r].group \in groups \cup {Null} /\ device[req[r].dev] = Null
       THEN To(r, "screened") /\ UNCHANGED <<token, device>>
       ELSE Rollback(r)

\* step-ca signs, or fails three times or runs out of time.
Issue(r) == stage[r] = "screened" /\ To(r, "issued") /\ UNCHANGED <<token, device>>

IssueFails(r) == stage[r] = "screened" /\ Rollback(r)

\* The foreign key of the group and the unique device_id hold at the insert.
Insertable(r) == device[req[r].dev] = Null /\ req[r].group \in groups \cup {Null}

\* The insert, and the commit that makes the count visible too.
InsertCommit(r) ==
    LET q == req[r] IN
    /\ stage[r] = "issued" /\ Insertable(r)
    /\ device' = [device EXCEPT ![q.dev] = [token |-> q.token, group |-> q.group]]
    /\ token' = [token EXCEPT ![q.token].count = @ + 1]
    /\ To(r, "done")

\* Registered meanwhile under another token, or the group was deleted.
InsertFails(r) == stage[r] = "issued" /\ ~Insertable(r) /\ Rollback(r)

-----------------------------------------------------------------------------
(* The other handlers *)

\* DELETE of a token: an update of the same row.
Revoke(t) ==
    /\ token[t].active /\ ~TokenLocked(t)
    /\ token' = [token EXCEPT ![t].active = FALSE]
    /\ UNCHANGED <<expired, device, groups, stage, req, deletions, restarts>>

ExpireToken(t) ==
    /\ t \notin expired /\ expired' = expired \cup {t}
    /\ UNCHANGED <<token, device, groups, stage, req, deletions, restarts>>

\* registered_count keeps counting a deleted device.
DeleteDevice(d) ==
    /\ device[d] # Null /\ deletions < MaxDeletions
    /\ device' = [device EXCEPT ![d] = Null] /\ deletions' = deletions + 1
    /\ UNCHANGED <<token, expired, groups, stage, req, restarts>>

\* ON DELETE SET NULL
Ungroup(g) ==
    [d \in Devices |-> IF device[d] # Null /\ device[d].group = g
                       THEN [device[d] EXCEPT !.group = Null] ELSE device[d]]

\* Refused while an active alert rule names the group; rules are not modelled
\* here, so whether one does is open.
DeleteGroup(g) ==
    /\ g \in groups /\ groups' = groups \ {g}
    /\ device' = Ungroup(g)
    /\ UNCHANGED <<token, expired, stage, req, deletions, restarts>>

\* The foreign key refuses a group that was deleted after the handler saw it.
AssignGroup(d, g) ==
    /\ device[d] # Null /\ g \in groups \cup {Null}
    /\ device' = [device EXCEPT ![d].group = g]
    /\ UNCHANGED <<token, expired, groups, stage, req, deletions, restarts>>

\* Open transactions are rolled back.
RestartCore ==
    /\ restarts < MaxRestarts /\ restarts' = restarts + 1
    /\ stage' = [r \in Requests |-> IF stage[r] = "new" THEN "new" ELSE "done"]
    /\ UNCHANGED <<token, expired, device, groups, req, deletions>>

Step(r) == \/ Validate(r) \/ Count(r) \/ Screen(r) \/ Issue(r) \/ IssueFails(r)
           \/ InsertCommit(r) \/ InsertFails(r)

ProvNext ==
    \/ \E r \in Requests : Step(r)
    \/ \E t \in Tokens : Revoke(t) \/ ExpireToken(t)
    \/ \E d \in Devices : DeleteDevice(d)
    \/ \E g \in Groups : DeleteGroup(g)
    \/ \E d \in Devices, g \in Groups \cup {Null} : AssignGroup(d, g)
    \/ RestartCore

ProvSpec == ProvInit /\ [][ProvNext]_provVars

\* The threads and step-ca's time limit drive every request on.
ProvFairSpec == ProvSpec /\ \A r \in Requests : WF_provVars(Step(r))

-----------------------------------------------------------------------------
(* Properties *)

ProvTypeOK ==
    /\ token \in [Tokens -> Token] /\ expired \subseteq Tokens /\ groups \subseteq Groups
    /\ device \in [Devices -> DeviceRow \cup {Null}]
    /\ stage \in [Requests -> Stages] /\ req \in [Requests -> Req]
    /\ deletions \in 0..MaxDeletions /\ restarts \in 0..MaxRestarts

Registered(t) == {d \in Devices : device[d] # Null /\ device[d].token = t}

\* A token never registers more than its limit, over its whole life, and the count
\* is never behind the devices: deletion gives no place back, and neither a race
\* for the last place nor a failed request loses or wins one.
LimitKept ==
    \A t \in Tokens : /\ token[t].count <= token[t].max
                      /\ Cardinality(Registered(t)) <= token[t].count

\* Once a revocation has returned, no request still under way registers a device.
NoneAfterRevoke ==
    [][\A d \in Devices : device[d] = Null /\ device'[d] # Null => token[device'[d].token].active]_provVars

\* A device is never in a group that is gone.
GroupsExist == \A d \in Devices : device[d] # Null => device[d].group \in groups \cup {Null}

\* Every request is answered, though it holds the row while it waits for step-ca.
AllAnswered == \A r \in Requests : <>(stage[r] = "done")
=============================================================================
