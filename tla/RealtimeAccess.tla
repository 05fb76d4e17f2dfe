---------------------------- MODULE RealtimeAccess ----------------------------
(***************************************************************************)
(* The read-only InfluxDB authorization of one tenant: the handlers of     *)
(* tenant_portal.py that issue and revoke it, the change of the tenant's   *)
(* status in tenants.py, which switches it on and off, and the calls of    *)
(* services/realtime_access.py.  InfluxDB itself answers the queries, so   *)
(* what it holds decides who can read; the database remembers which        *)
(* authorization that is.  A call to InfluxDB may fail, or time out after  *)
(* it took effect.                                                         *)
(***************************************************************************)
EXTENDS Integers, FiniteSets
CONSTANTS Requesters, MaxAuths, MaxRequests, Absent
ASSUME RealtimeAssumption ==
    /\ MaxAuths \in Nat /\ MaxRequests \in Nat
    /\ Absent \notin Nat \cup Requesters \cup {"active", "suspended", "deleted"}
VARIABLES tenant,     \* tenants.status, Absent once the row is gone
          record,     \* influx_authorization_id of the tenant's row in realtime_access_tokens
          auths,      \* the authorizations made so far: active, inactive or gone
          lock,       \* the handler that holds the tenant's row FOR UPDATE
          handler, requests,
          org,        \* whether InfluxDB has the tenant's organization
          crossing,   \* history: two handlers that do not exclude each other have overlapped
          halfway,    \* history: the authorization was switched and the status did not follow
          stray       \* history: authorizations whose answer or clean-up was lost
past == <<crossing, halfway, stray>>
rtVars == <<tenant, record, auths, org, lock, handler, requests, past>>

Auths == DOMAIN auths
Waiting == [at |-> "idle", op |-> "none", auth |-> Absent, to |-> "none", was |-> "none"]
Working(h) == handler[h].at # "idle"
GoTo(h, at) == [handler EXCEPT ![h].at = at]
\* The request is over, and with it its transaction.
Over(h) == handler' = [handler EXCEPT ![h] = Waiting] /\ lock' = IF lock = h THEN Absent ELSE lock
Unlocked(h) == lock \in {Absent, h}
\* An issue and a change of the status, two changes, and a revocation that meets an issue
\* are not kept apart by any lock.
Crosses(h, op) == \E g \in Requesters \ {h} :
    {handler[g].op, op} \in {{"issue", "status"}, {"status"}, {"issue", "revoke"}}

AccessInit ==
    /\ tenant = "active" /\ auths = <<>> /\ record = Absent /\ org = TRUE /\ lock = Absent
    /\ handler = [h \in Requesters |-> Waiting] /\ requests = 0
    /\ crossing = FALSE /\ halfway = FALSE /\ stray = {}

Start(h, r) ==
    /\ ~Working(h) /\ requests < MaxRequests /\ requests' = requests + 1
    /\ handler' = [handler EXCEPT ![h] = r]
    /\ crossing' = (crossing \/ Crosses(h, r.op))
    /\ UNCHANGED <<tenant, record, auths, org, halfway, stray>>

-----------------------------------------------------------------------------
(* issue_realtime_access_token_portal *)

\* The tenant's row is locked and must be active; an old authorization goes first.
Issue(h) ==
    /\ lock = Absent /\ tenant = "active" /\ Cardinality(Auths) < MaxAuths
    /\ lock' = h
    /\ Start(h, [Waiting EXCEPT !.at = IF record = Absent THEN "create" ELSE "replace", !.op = "issue",
                             !.auth = record])

\* revoke_readonly_token: an authorization that is gone counts as revoked.
Revoked(a) == [auths EXCEPT ![a] = "gone"]
Replace(h) ==
    /\ handler[h].at = "replace"
    /\ \/ auths' = Revoked(handler[h].auth) /\ handler' = GoTo(h, "forgetOld") /\ UNCHANGED lock
       \/ auths' \in {auths, Revoked(handler[h].auth)} /\ Over(h)
    /\ UNCHANGED <<tenant, record, org, requests, past>>

\* The old row is deleted at once; this commit ends the lock on the tenant.
ForgetOld(h) ==
    /\ handler[h].at = "forgetOld"
    /\ record' = Absent /\ lock' = Absent
    /\ handler' = IF tenant = Absent THEN [handler EXCEPT ![h] = Waiting] ELSE GoTo(h, "create")
    /\ UNCHANGED <<tenant, auths, org, requests, past>>

\* issue_readonly_token
CreateAuth(h) ==
    LET a == Cardinality(Auths) + 1
        Added == [x \in 1..a |-> IF x = a THEN "active" ELSE auths[x]]
    IN  /\ handler[h].at = "create" /\ a <= MaxAuths
        /\ \/ /\ org /\ auths' = Added /\ UNCHANGED <<lock, stray>>
              /\ handler' = [handler EXCEPT ![h].at = "record", ![h].auth = a]
           \/ org /\ auths' = Added /\ stray' = stray \cup {a} /\ Over(h)
           \/ Over(h) /\ UNCHANGED <<auths, stray>>
        /\ UNCHANGED <<tenant, record, org, requests, crossing, halfway>>

\* The row is inserted under the tenant's key, once nobody else holds the tenant.
Record(h) ==
    /\ handler[h].at = "record" /\ Unlocked(h)
    /\ \/ record = Absent /\ tenant # Absent /\ record' = handler[h].auth /\ Over(h)
       \/ handler' = GoTo(h, "undo") /\ lock' = (IF lock = h THEN Absent ELSE lock) /\ UNCHANGED record
    /\ UNCHANGED <<tenant, auths, org, requests, past>>

\* Slip for the mutation runs: what could not be recorded is left in InfluxDB.
UndoNothing(h) == auths' = auths /\ UNCHANGED stray
UndoAuth(h) == \/ auths' = Revoked(handler[h].auth) /\ UNCHANGED stray
               \/ stray' = stray \cup {handler[h].auth} /\ UNCHANGED auths
UndoIssue(h) ==
    /\ handler[h].at = "undo" /\ UndoAuth(h) /\ Over(h)
    /\ UNCHANGED <<tenant, record, org, requests, crossing, halfway>>

-----------------------------------------------------------------------------
(* revoke_realtime_access_token_portal *)

Revoke(h) ==
    /\ record # Absent /\ UNCHANGED lock
    /\ Start(h, [Waiting EXCEPT !.at = "revoke", !.op = "revoke", !.auth = record])

\* A failure keeps the row.
RevokeAuth(h) ==
    /\ handler[h].at = "revoke"
    /\ \/ auths' = Revoked(handler[h].auth) /\ handler' = GoTo(h, "forget") /\ UNCHANGED lock
       \/ auths' \in {auths, Revoked(handler[h].auth)} /\ Over(h)
    /\ UNCHANGED <<tenant, record, org, requests, past>>

\* The row is deleted by its key, the tenant, whichever authorization it names by now.
ForgetRow(h) ==
    /\ handler[h].at = "forget" /\ record' = Absent /\ Over(h)
    /\ UNCHANGED <<tenant, auths, org, requests, past>>

-----------------------------------------------------------------------------
(* update_tenant_status, delete_tenant with teardown_tenant *)

\* The tenant and the row of its authorization are read without a lock.
SetStatus(h, to) ==
    /\ tenant # Absent /\ UNCHANGED lock
    /\ Start(h, [at |-> IF record = Absent THEN "status" ELSE "switch", op |-> "status",
                 auth |-> record, to |-> to, was |-> tenant])

\* Slip for the mutation runs: only an activation switches the authorization.
SwitchedOn(a, to) == IF to = "active" THEN [auths EXCEPT ![a] = "active"] ELSE auths
\* set_readonly_token_active
Switched(a, to) == [auths EXCEPT ![a] = IF to = "active" THEN "active" ELSE "inactive"]

\* Without the authorization the status stays as it is.
Switch(h) ==
    LET r == handler[h]  there == auths[r.auth] # "gone" IN
    /\ r.at = "switch"
    /\ \/ /\ there /\ auths' = Switched(r.auth, r.to)
          /\ handler' = GoTo(h, "status") /\ UNCHANGED <<lock, halfway>>
       \/ there /\ auths' = Switched(r.auth, r.to) /\ halfway' = TRUE /\ Over(h)
       \/ Over(h) /\ UNCHANGED <<auths, halfway>>
    /\ UNCHANGED <<tenant, record, org, requests, crossing, stray>>

\* The update waits for whoever holds the tenant's row, and a status as it was read is not
\* written. A status of deleted is overwritten like any other; without the row the
\* commit fails, as it may at any time.
CommitStatus(h) ==
    /\ handler[h].at = "status" /\ Unlocked(h)
    /\ \/ /\ tenant # Absent /\ UNCHANGED halfway
          /\ tenant' = IF handler[h].to = handler[h].was THEN tenant ELSE handler[h].to
       \/ halfway' = (halfway \/ handler[h].auth # Absent) /\ UNCHANGED tenant
    /\ Over(h)
    /\ UNCHANGED <<record, auths, org, requests, crossing, stray>>

SoftDelete(h) ==
    /\ tenant \notin {"deleted", Absent} /\ lock = Absent
    /\ ~Working(h) /\ requests < MaxRequests /\ requests' = requests + 1
    /\ handler' = [handler EXCEPT ![h] = [Waiting EXCEPT !.at = "dropRow", !.op = "delete"]]
    /\ tenant' = "deleted"
    /\ UNCHANGED <<record, auths, org, lock, crossing, halfway, stray>>

\* The tenant's row takes the record along; then the organization goes with every
\* authorization in it. Each of the two may fail.
DropTenant(h) ==
    /\ handler[h].at = "dropRow" /\ Unlocked(h)
    /\ \/ tenant' = Absent /\ record' = Absent
       \/ UNCHANGED <<tenant, record>>
    /\ handler' = GoTo(h, "dropOrg")
    /\ UNCHANGED <<auths, org, lock, requests, past>>

DropOrg(h) ==
    /\ handler[h].at = "dropOrg"
    /\ \/ auths' = [a \in Auths |-> "gone"] /\ org' = FALSE /\ UNCHANGED stray
       \/ stray' = stray \cup Auths /\ UNCHANGED <<auths, org>>
    /\ Over(h)
    /\ UNCHANGED <<tenant, record, requests, crossing, halfway>>

\* A restart of core-api loses the requests and the background tasks.
RestartCore ==
    /\ \E h \in Requesters : Working(h)
    /\ handler' = [h \in Requesters |-> Waiting] /\ lock' = Absent
    /\ stray' = stray \cup {handler[h].auth : h \in {g \in Requesters : handler[g].at \in {"record", "undo"}}}
                      \cup (IF \E h \in Requesters : handler[h].op = "delete" THEN Auths ELSE {})
    /\ halfway' = (halfway \/ \E h \in Requesters : handler[h].op = "status")
    /\ UNCHANGED <<tenant, record, auths, org, requests, crossing>>

AccessNext ==
    \/ \E h \in Requesters :
          \/ Issue(h) \/ Replace(h) \/ ForgetOld(h) \/ CreateAuth(h) \/ Record(h) \/ UndoIssue(h)
          \/ Revoke(h) \/ RevokeAuth(h) \/ ForgetRow(h)
          \/ \E to \in {"active", "suspended"} : SetStatus(h, to)
          \/ Switch(h) \/ CommitStatus(h) \/ SoftDelete(h) \/ DropTenant(h) \/ DropOrg(h)
    \/ RestartCore
AccessSpec == AccessInit /\ [][AccessNext]_rtVars

-----------------------------------------------------------------------------
(* Properties *)

Resuming == \E h \in Requesters : handler[h].op = "status" /\ handler[h].to = "active"

\* "Do not make a state in which a stopped tenant can be read", tenants.py: whatever call
\* fails, no authorization the database has had is accepted while the tenant is suspended,
\* but for handlers that overlapped and a switch that the status did not follow.
SuspendedCannotRead ==
    tenant = "suspended" /\ ~Resuming =>
        crossing \/ halfway \/ \A a \in Auths : auths[a] # "active" \/ a \in stray

\* Every authorization InfluxDB accepts is the one the database names, so that somebody
\* can revoke it, or a handler at work has it in hand; the others were lost with a
\* timeout, a clean-up that failed or a restart, or by handlers that overlapped.
LiveAuthIsRecorded ==
    \A a \in Auths : auths[a] = "active" =>
        a = record \/ a \in stray \/ crossing
          \/ \E h \in Requesters : handler[h].auth = a \/ handler[h].at = "dropOrg"
=============================================================================
