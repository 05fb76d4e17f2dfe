---------------------------- MODULE TenantSessions ----------------------------
(***************************************************************************)
(* The users of one tenant and their sessions: services/tenant_session.py, *)
(* routers/tenant_auth.py, tenant_mfa.py, tenant_users.py and the user     *)
(* management of tenant_portal.py.  A session is a signed cookie with the  *)
(* fingerprint of the password it was opened under.  Every request checks  *)
(* it against the user's row through a cache that lives TTL ticks, and the *)
(* handlers that change a row drop the user's entry after their commit.    *)
(*                                                                         *)
(* A password is the number of its setting; links are password reset       *)
(* mails.  A cookie or a partial token that has expired behaves as one     *)
(* that is no longer presented.                                            *)
(***************************************************************************)
EXTENDS Integers, FiniteSets
CONSTANTS Users, Requests, TTL, MaxPw, MaxLinks, None,
          Scenes  \* a behaviour makes the calls of one set in DOMAIN Scenes, this often
Roles == {"admin", "operator"}
Rows == [role : Roles, pw : Nat, active : BOOLEAN, secret : BOOLEAN, totp : BOOLEAN]
States == [role : Roles, pw : 0..MaxPw]
Causes == {"overtaken", "console", "tenant", "unanswered"}
ASSUME TenantSessionsAssumption ==
    /\ TTL \in Nat \ {0} /\ MaxPw \in Nat /\ MaxLinks \in Nat /\ IsFiniteSet(Requests)
    /\ None \notin Nat /\ None \notin Rows /\ None \notin Causes
    /\ None \notin [role : Roles, pw : Nat]
VARIABLES calls, tenantOn, mfa, row, cache, tokens, partial, links, lastPw, lastLink, request, ops,
          ago, cause, muddled, crossed
bounds == <<calls, lastPw, lastLink, ops>>
numbers == <<calls, lastPw, lastLink>>
history == <<cause, muddled, crossed>>
vars == <<tenantOn, mfa, row, cache, tokens, partial, links, request, bounds, ago, history>>

Managing == {"update", "delete"}
Setting == {"change", "reset", "link", "create"}
Long == 2 * TTL
Row(role, pw) == [role |-> role, pw |-> pw, active |-> TRUE, secret |-> FALSE, totp |-> FALSE]
Here(u) == row[u] # None
Active(u) == Here(u) /\ row[u].active
StateOf(r) == [role |-> r.role, pw |-> r.pw]
\* _fetch_state: what the database says of a session of u.
Current(u) == IF Active(u) /\ tenantOn THEN StateOf(row[u]) ELSE None
Cached(u) == [role |-> cache[u].role, pw |-> cache[u].pw]
Stale(u) == cache[u] # None /\ Cached(u) # Current(u)
Idle == [at |-> "idle", op |-> "none", u |-> None, pw |-> 0, of |-> None, to |-> None,
         left |-> 0, got |-> None]
Busy(p) == request[p].at # "idle"
Done(p) == [request EXCEPT ![p] = Idle]
At(p, at) == [request EXCEPT ![p].at = at]
\* The check of the session is over: what it read is not used again.
GoesOn(p) == [request EXCEPT ![p] = [Idle EXCEPT !.at = "write", !.op = request[p].op,
                                     !.of = request[p].of, !.to = request[p].to]]

\* The tenant has an active administrator, and the others have been added or not.
Init ==
    /\ row \in [Users -> {None} \cup {Row(r, 0) : r \in Roles}]
    /\ \E u \in Users : Here(u) /\ row[u].role = "admin"
    /\ calls \in DOMAIN Scenes /\ tenantOn = TRUE /\ mfa \in (IF "verify" \in calls THEN BOOLEAN ELSE {FALSE})
    /\ cache = [u \in Users |-> None]
    /\ links = {[id |-> 0, u |-> u, late |-> FALSE] : u \in {v \in Users : Here(v) /\ "link" \in calls}}
    /\ partial = {u \in Users : mfa /\ Here(u)}
    /\ tokens = {[u |-> u, pw |-> 0] : u \in {v \in Users : Here(v)}}
    /\ lastPw = 0 /\ lastLink = 0 /\ ops = 0
    /\ request = [p \in Requests |-> Idle]
    /\ ago = [u \in Users |-> [s \in States |-> IF s = Current(u) THEN 0 ELSE Long]]
    /\ cause = [u \in Users |-> None] /\ muddled = FALSE /\ crossed = {}

\* The history after rows or the tenant changed: a state that holds now was last held now.
Held == ago' = [u \in Users |-> [s \in States |-> IF s = Current(u)' THEN 0 ELSE ago[u][s]]]

Tick ==
    /\ \E u \in Users : cache[u] # None \/ \E p \in Requests : request[p].left > 0
    /\ cache' = [u \in Users |-> IF cache[u] = None \/ cache[u].left = 1 THEN None
                                 ELSE [cache[u] EXCEPT !.left = @ - 1]]
    /\ request' = [p \in Requests |-> [request[p] EXCEPT !.left = IF @ > 0 THEN @ - 1 ELSE 0]]
    /\ ago' = [u \in Users |-> [s \in States |->
                 IF s = Current(u) \/ ago[u][s] = Long THEN ago[u][s] ELSE ago[u][s] + 1]]
    /\ cause' = [u \in Users |-> IF cache'[u] = None THEN None ELSE cause[u]]
    /\ UNCHANGED <<tenantOn, mfa, row, tokens, partial, links, bounds, muddled, crossed>>

\* The bounds: calls in all, passwords set, links mailed.
Pending(set) == Cardinality({p \in Requests : request[p].op \in set})
Call(op) ==
    /\ op \in calls /\ ops < Scenes[calls] /\ ops' = ops + 1
    /\ op \in Setting => lastPw + Pending(Setting) < MaxPw
    /\ op = "forgot" => lastLink + Pending({"forgot"}) < MaxLinks

-----------------------------------------------------------------------------
(* require_tenant_session: cache, database, store *)

\* A state that the check of request r ends with.
Answer(r, state) == IF state # None /\ state.pw = r.pw THEN [r EXCEPT !.at = "in", !.got = state]
                    ELSE Idle
Overlaps(op) == op \in Managing /\ \E q \in Requests : request[q].op \in Managing

\* The time the entry will live from is taken before the cache is looked at.
Begin(p, t, op, v, to) ==
    LET r == [Idle EXCEPT !.at = "fetch", !.op = op, !.u = t.u, !.pw = t.pw, !.of = v, !.to = to,
                          !.left = TTL]
    IN  /\ ~Busy(p) /\ t \in tokens
        /\ IF op = "get" THEN op \in calls /\ UNCHANGED ops ELSE Call(op)
        /\ request' = [request EXCEPT ![p] = IF cache[t.u] = None THEN r ELSE
                          Answer(r, Cached(t.u))]
        /\ muddled' = (muddled \/ Overlaps(op)
                         \/ (op \in Managing /\ cache[t.u] # None /\ cause[t.u] # None))
        /\ UNCHANGED <<tenantOn, mfa, row, cache, tokens, partial, links, numbers, ago,
                       cause, crossed>>

\* The handlers behind the check.
GetMe(p, t) == Begin(p, t, "get", None, None)
ChangePassword(p, t) == Begin(p, t, "change", t.u, None)
UpdateUser(p, t, v, to) == Begin(p, t, "update", v, to)
DeleteUser(p, t, v) == Begin(p, t, "delete", v, None)
ResetUserPassword(p, t, v) == Begin(p, t, "reset", v, None)
CreateUser(p, t, v) == Begin(p, t, "create", v, "operator")

\* A row that is missing, inactive or of a tenant that is not active, or a database
\* that does not answer, is refused and not remembered.
Fetch(p) ==
    /\ request[p].at = "fetch"
    /\ \/ Current(request[p].u) # None
          /\ request' = [request EXCEPT ![p].at = "store", ![p].got = Current(request[p].u)]
       \/ request' = Done(p)
    /\ UNCHANGED <<tenantOn, mfa, row, cache, tokens, partial, links, bounds, ago, history>>

\* Slip for the mutation runs: the time is taken again when the entry is stored.
LeftFromNow(p) == TTL
Left(p) == request[p].left

Store(p) ==
    LET r == request[p] IN
    /\ r.at = "store"
    /\ cache' = [cache EXCEPT ![r.u] = IF Left(p) = 0 THEN None
                    ELSE [role |-> r.got.role, pw |-> r.got.pw, left |-> Left(p)]]
    /\ request' = [request EXCEPT ![p] = Answer(r, r.got)]
    /\ cause' = [cause EXCEPT ![r.u] = IF Left(p) > 0 /\ r.got # Current(r.u) THEN "overtaken"
                                       ELSE None]
    /\ muddled' = (muddled \/ (r.op \in Managing /\ r.got # Current(r.u)))
    /\ UNCHANGED <<tenantOn, mfa, row, tokens, partial, links, bounds, ago, crossed>>

Get(p) ==
    /\ request[p].at = "in" /\ request[p].op = "get"
    /\ request' = Done(p)
    /\ UNCHANGED <<tenantOn, mfa, row, cache, tokens, partial, links, bounds, ago, history>>

-----------------------------------------------------------------------------
(* The handlers behind the check, up to the statement that changes the row *)

Reads == UNCHANGED <<tenantOn, mfa, row, cache, tokens, partial, links, bounds, ago, history>>

\* The current password is given and right, or the call is refused.
CheckPassword(p) ==
    LET r == request[p] IN
    /\ r.at = "in" /\ r.op = "change"
    /\ \/ Active(r.u) /\ request' = GoesOn(p)
       \/ request' = Done(p)
    /\ Reads

\* An operator may not change a role; nobody may change or delete himself.
Permitted(r) == /\ r.u # r.of
                /\ \/ r.got.role = "admin"
                   \/ r.got.role = "operator" /\ r.to \notin Roles

\* Slip for the mutation runs: an operator may disable or delete anybody.
ForbiddenNever(r) == FALSE
\* _forbid_operator_on_admin
Forbidden(r) == row[r.of].role = "admin" /\ r.got.role # "admin"

Permit(p) ==
    LET r == request[p] IN
    /\ r.at = "in" /\ r.op \in Managing
    /\ request' = IF Permitted(r) /\ Here(r.of) /\ ~Forbidden(r) THEN GoesOn(p) ELSE Done(p)
    /\ Reads

\* reset_user_password and create_user ask for an administrator and nothing else.
PermitAdmin(p) ==
    LET r == request[p] IN
    /\ r.at = "in" /\ r.op \in {"reset", "create"}
    /\ request' = IF r.got.role = "admin" THEN GoesOn(p) ELSE Done(p)
    /\ Reads

-----------------------------------------------------------------------------
(* The statements, and what follows their commit *)

Updated(r, to) == CASE to \in Roles -> [r EXCEPT !.role = to]
                    [] to = "off" -> [r EXCEPT !.active = FALSE]
                    [] to = "on" -> [r EXCEPT !.active = TRUE]

\* Slip for the mutation runs: the entry is left to expire after a change of the row.
NextIsAnswer(op) == IF op \in {"change", "link"} THEN "forget" ELSE "idle"
\* Creating a user is over with the commit; the other handlers drop his entry.
NextStep(op) == CASE op = "create" -> "idle" [] op = "link" -> "unlink" [] OTHER -> "forget"

\* A new user has an id of his own: whoever holds a token of an earlier one is not he.
Known(v) == v \in partial \/ \E t \in tokens : t.u = v

\* A statement that finds no row is a 404, but for the two of the user's own password.
\* Creating a user whose address is taken is a 409; one whose id is known already would
\* be somebody else, who is not among Users.
Write(p) ==
    LET r == request[p]  v == r.of  fresh == lastPw + 1 IN
    /\ r.at = "write"
    /\ \/ /\ ~Here(v) /\ ~Known(v) /\ r.op = "create"
          /\ row' = [row EXCEPT ![v] = Row(r.to, fresh)] /\ lastPw' = fresh
       \/ /\ ~Here(v) /\ r.op # "create" /\ UNCHANGED <<row, lastPw>>
       \/ /\ Here(v) \/ Known(v)
          /\ r.op = "create" /\ UNCHANGED <<row, lastPw>>
       \/ /\ Here(v) /\ r.op \in {"change", "reset", "link"}
          /\ row' = [row EXCEPT ![v].pw = fresh] /\ lastPw' = fresh
       \/ /\ Here(v) /\ r.op = "update" /\ row' = [row EXCEPT ![v] = Updated(@, r.to)]
          /\ UNCHANGED lastPw
       \/ /\ Here(v) /\ r.op = "delete" /\ row' = [row EXCEPT ![v] = None]
          /\ UNCHANGED lastPw
    /\ request' = IF NextStep(r.op) = "idle" \/ (~Here(v) /\ r.op \notin {"change", "link"})
                  THEN Done(p)
                  ELSE [request EXCEPT ![p].at = NextStep(r.op), ![p].to = None,
                                       ![p].pw = IF r.op = "change" THEN lastPw' ELSE 0]
    /\ UNCHANGED <<tenantOn, mfa, cache, tokens, partial, links, calls, lastLink, ops, history>>
    /\ Held

\* forget_session. The new cookie of change_password carries the new fingerprint.
Forget(p) ==
    LET r == request[p] IN
    /\ r.at = "forget"
    /\ cache' = [cache EXCEPT ![r.of] = None] /\ cause' = [cause EXCEPT ![r.of] = None]
    /\ tokens' = IF r.op = "change" THEN tokens \cup {[u |-> r.of, pw |-> r.pw]} ELSE tokens
    /\ request' = Done(p)
    /\ UNCHANGED <<tenantOn, mfa, row, partial, links, bounds, ago, muddled, crossed>>

-----------------------------------------------------------------------------
(* Signing in *)

Starts(p, r) == ~Busy(p) /\ Call(r.op) /\ request' = [request EXCEPT ![p] = r]
Reader(at, op, u) == [Idle EXCEPT !.at = at, !.op = op, !.of = u]

\* tenant_login, up to the check of the password read here.
Login(p, u) ==
    /\ Current(u) # None
    /\ Starts(p, [Reader("issue", "login", u) EXCEPT !.pw = row[u].pw])
    /\ UNCHANGED <<tenantOn, mfa, row, cache, tokens, partial, links, numbers, ago, history>>

\* A session, or a partial token while a second factor is required.
Issue(p) ==
    LET r == request[p] IN
    /\ r.at = "issue"
    /\ IF mfa THEN partial' = partial \cup {r.of} /\ UNCHANGED tokens
              ELSE tokens' = tokens \cup {[u |-> r.of, pw |-> r.pw]} /\ UNCHANGED partial
    /\ request' = Done(p)
    /\ UNCHANGED <<tenantOn, mfa, row, cache, links, bounds, ago, history>>

\* The first read of a row by the holder of a partial token; his code is right.
TotpRead(p, u, op, at) ==
    /\ u \in partial /\ Here(u) /\ Starts(p, Reader(at, op, u))
    /\ UNCHANGED <<tenantOn, mfa, row, cache, tokens, partial, links, numbers, ago, history>>
TotpSetup(p, u) == TotpRead(p, u, "setup", "totp") /\ ~row[u].totp /\ ~row[u].secret
TotpActivate(p, u) == TotpRead(p, u, "activate", "totp") /\ row[u].secret
TotpVerify(p, u) == TotpRead(p, u, "verify", "cookie") /\ row[u].totp /\ row[u].secret

\* Turning the second factor off asks for the password, of any session ever opened.
TotpDisable(p, t) ==
    /\ t \in tokens /\ Here(t.u) /\ (row[t.u].totp \/ row[t.u].secret)
    /\ Starts(p, Reader("totp", "disable", t.u))
    /\ UNCHANGED <<tenantOn, mfa, row, cache, tokens, partial, links, numbers, ago, history>>

\* Slip for the mutation runs: the secret is kept when the second factor is turned off
\* and thrown away when it is activated.
TotpWriteSwapped(op, r) == CASE op = "setup" -> [r EXCEPT !.secret = TRUE]
                             [] op = "activate" -> [r EXCEPT !.totp = TRUE, !.secret = FALSE]
                             [] op = "disable" -> [r EXCEPT !.totp = FALSE]
TotpWrite(op, r) == CASE op = "setup" -> [r EXCEPT !.secret = TRUE]
                      [] op = "activate" -> [r EXCEPT !.totp = TRUE]
                      [] op = "disable" -> [r EXCEPT !.totp = FALSE, !.secret = FALSE]

\* The statement touches a row that is still there; crossed: a second factor was
\* turned off between the read and the statement of its activation.
TotpSet(p) ==
    LET r == request[p]  u == r.of IN
    /\ r.at = "totp"
    /\ row' = IF Here(u) THEN [row EXCEPT ![u] = TotpWrite(r.op, @)] ELSE row
    /\ request' = IF r.op = "activate" THEN At(p, "cookie") ELSE Done(p)
    /\ crossed' = IF r.op = "disable" /\ \E q \in Requests :
                        request[q].at = "totp" /\ request[q].op = "activate" /\ request[q].of = u
                  THEN crossed \cup {u} ELSE crossed
    /\ UNCHANGED <<tenantOn, mfa, cache, tokens, partial, links, bounds, ago, cause, muddled>>

\* _set_tenant_cookie: the session carries the fingerprint of the row as it is now.
TotpCookie(p) ==
    LET u == request[p].of IN
    /\ request[p].at = "cookie"
    /\ tokens' = IF Current(u) = None THEN tokens ELSE tokens \cup {[u |-> u, pw |-> row[u].pw]}
    /\ request' = Done(p)
    /\ UNCHANGED <<tenantOn, mfa, row, cache, partial, links, bounds, ago, history>>

-----------------------------------------------------------------------------
(* Password reset by mail *)

\* _process_forgot_password: the link a user has is read before it is replaced.
Forgot(p, u, l) ==
    /\ Current(u) # None /\ l \in {k \in links : k.u = u} \cup {None}
    /\ l = None => \A k \in links : k.u # u
    /\ Starts(p, [Reader("mail", "forgot", u) EXCEPT !.got = l])
    /\ UNCHANGED <<tenantOn, mfa, row, cache, tokens, partial, links, numbers, ago, history>>

Mail(p) ==
    LET r == request[p] IN
    /\ r.at = "mail" /\ lastLink' = lastLink + 1
    /\ links' = (links \ {r.got}) \cup {[id |-> lastLink', u |-> r.of, late |-> FALSE]}
    /\ request' = Done(p)
    /\ UNCHANGED <<tenantOn, mfa, row, cache, tokens, partial, calls, lastPw, ops, ago, history>>

LinkExpires(l) ==
    /\ l \in links /\ ~l.late
    /\ links' = (links \ {l}) \cup {[l EXCEPT !.late = TRUE]}
    /\ request' = [p \in Requests |-> IF request[p].got = l THEN [request[p] EXCEPT !.got.late = TRUE]
                                      ELSE request[p]]
    /\ UNCHANGED <<tenantOn, mfa, row, cache, tokens, partial, bounds, ago, history>>

\* reset_password: a link that is too old, or of a user who may not sign in, is dropped.
UseLink(p, l) ==
    /\ l \in links
    /\ \/ /\ ~l.late /\ Current(l.u) # None
          /\ Starts(p, [Reader("write", "link", l.u) EXCEPT !.got = l])
          /\ UNCHANGED links
       \/ /\ l.late \/ Current(l.u) = None
          /\ links' = links \ {l} /\ Call("link") /\ UNCHANGED request
    /\ UNCHANGED <<tenantOn, mfa, row, cache, tokens, partial, numbers, ago, history>>

Unlink(p) ==
    /\ request[p].at = "unlink"
    /\ links' = links \ {request[p].got} /\ request' = At(p, "forget")
    /\ UNCHANGED <<tenantOn, mfa, row, cache, tokens, partial, bounds, ago, history>>

\* A commit is answered by an error, the second of reset_password or one that took effect
\* all the same: the row is changed and forget_session is not reached.
CommitFails(p) ==
    LET r == request[p] IN
    /\ r.at \in {"unlink", "forget"}
    /\ links' \in {links, links \ {r.got}} /\ request' = Done(p)
    /\ cause' = [cause EXCEPT ![r.of] = IF Stale(r.of) THEN "unanswered" ELSE @]
    /\ UNCHANGED <<tenantOn, mfa, row, cache, tokens, partial, bounds, ago, muddled, crossed>>

-----------------------------------------------------------------------------
(* The platform console (tenant_users.py, tenants.py, platform.py) *)

Console(newRow, why) ==
    /\ Call("console") /\ row' = newRow
    /\ cause' = [u \in Users |-> IF cache[u] # None /\ newRow[u] # row[u] THEN why ELSE cause[u]]
    /\ muddled' = TRUE
    /\ UNCHANGED <<tenantOn, mfa, cache, tokens, partial, links, request, numbers, crossed>>
    /\ Held

\* update_tenant_user and delete_tenant_user leave the cached entry alone.
ConsoleUpdate(u, to) ==
    /\ tenantOn /\ Here(u) /\ Updated(row[u], to) # row[u]
    /\ Console([row EXCEPT ![u] = Updated(@, to)], "console")
ConsoleDelete(u) == tenantOn /\ Here(u) /\ Console([row EXCEPT ![u] = None], "console")

\* The other two go on as the portal's do.
ConsoleWrite(p, u, op) ==
    /\ tenantOn /\ "console" \in calls
    /\ Starts(p, [Reader("write", op, u) EXCEPT !.to = "operator"])
    /\ UNCHANGED <<tenantOn, mfa, row, cache, tokens, partial, links, numbers, ago, history>>

ConsoleReset(p, u) == ConsoleWrite(p, u, "reset")
ConsoleCreate(p, u) == ConsoleWrite(p, u, "create")

\* update_tenant_status: sessions are not dropped.
ChangeTenant ==
    /\ Call("tenant") /\ tenantOn' = ~tenantOn /\ UNCHANGED row
    /\ cause' = [u \in Users |-> IF cache[u] = None THEN None
                                 ELSE IF tenantOn THEN "tenant"
                                 ELSE IF Current(u)' = Cached(u)
                                      THEN None ELSE cause[u]]
    /\ Held
    /\ UNCHANGED <<mfa, cache, tokens, partial, links, request, numbers, muddled, crossed>>

ChangeMfa ==
    /\ Call("mfa") /\ mfa' = ~mfa
    /\ UNCHANGED <<tenantOn, row, cache, tokens, partial, links, request, numbers, ago, history>>

Next ==
    \/ \E p \in Requests :
          \/ \E t \in tokens :
                \/ GetMe(p, t) \/ ChangePassword(p, t)
                \/ \E v \in Users : \/ DeleteUser(p, t, v) \/ ResetUserPassword(p, t, v)
                                   \/ CreateUser(p, t, v)
                                   \/ \E to \in Roles \cup {"off", "on"} : UpdateUser(p, t, v, to)
                \/ TotpDisable(p, t)
          \/ \E u \in Users :
                \/ Login(p, u) \/ \E l \in links \cup {None} : Forgot(p, u, l)
                \/ TotpSetup(p, u) \/ TotpActivate(p, u) \/ TotpVerify(p, u)
                \/ ConsoleReset(p, u) \/ ConsoleCreate(p, u)
          \/ \E l \in links : UseLink(p, l)
          \/ Fetch(p) \/ Store(p) \/ Get(p) \/ CheckPassword(p) \/ Permit(p) \/ PermitAdmin(p)
          \/ Write(p) \/ Forget(p) \/ Issue(p) \/ TotpSet(p) \/ TotpCookie(p) \/ Mail(p) \/ Unlink(p)
          \/ CommitFails(p)
    \/ \E l \in links : LinkExpires(l)
    \/ \E u \in Users : ConsoleDelete(u) \/ \E to \in Roles \cup {"off", "on"} : ConsoleUpdate(u, to)
    \/ Tick \/ ChangeTenant \/ ChangeMfa
Spec == Init /\ [][Next]_vars

-----------------------------------------------------------------------------
(* Properties *)

\* A request is let in with a role and a password that the database held less than
\* TTL before the request began, or since, unless the request itself takes longer than
\* TTL: tenant_session.py, _TTL.
AcceptedIsRecent ==
    [][\A p \in Requests : (request[p].at # "in" /\ request'[p].at = "in" /\ request'[p].left > 0) =>
         ago[request'[p].u][request'[p].got] + request'[p].left < Long]_vars

\* A cached state differs from the database only while a handler that changed it is
\* about to drop it, after the check of a session was overtaken by a change, because the
\* console or a suspension of the tenant, which drop nothing, changed it, or because the
\* handler met an error between its change and forget_session.
StaleHasCause ==
    \A u \in Users : Stale(u) =>
            \/ cause[u] # None
            \/ \E p \in Requests : request[p].of = u /\ request[p].at \in {"unlink", "forget"}

\* The tenant keeps an active administrator: no sequence of calls from the portal, one
\* after the other and on sessions that are up to date, takes the last one away.
AdminRemains == muddled \/ \E u \in Users : Active(u) /\ row[u].role = "admin"

\* A user whose second factor is on has the secret it is checked with, unless turning
\* it off overlapped its activation: without it neither setup nor verify lets him in.
TotpUsable == \A u \in Users : (Here(u) /\ row[u].totp) => row[u].secret \/ u \in crossed

\* What the comment on _TTL says of changes made in this process.
ChangesShowAtOnce == \A u \in Users : cause[u] # "console"
=============================================================================
