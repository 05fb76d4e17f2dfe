--------------------------- MODULE SessionsProofs ---------------------------
(***************************************************************************)
(* Proofs about the two portals' sessions.  TenantSessions: the portal     *)
(* leaves a tenant an active administrator, for any number of users, of    *)
(* requests that overlap, and for any lifetime of the cached sessions; a   *)
(* stale cached session has a known cause; a request is let in on what the *)
(* database held within that lifetime.  PlatformSessions: a spent          *)
(* refresh token yields nothing, a raised version ends every session       *)
(* before it, and a second factor that is on has its secret, for any       *)
(* number of callers, of tokens and of restarts.                           *)
(***************************************************************************)
EXTENDS Portals, FiniteSetTheorems, TLAPS

Fields == {"at", "op", "u", "pw", "of", "to", "left", "got"}
State == [role : Roles, pw : Nat]
Tos == Roles \cup {"off", "on"}

\* What a request carries from one step to the next.
RequestOk(r) ==
    /\ DOMAIN r = Fields /\ r.left \in Nat
    /\ r.at \in {"fetch", "store", "in"} => r.u \in Users
    /\ r.at \in {"store", "in"} => r.got \in State /\ r.got # None
    /\ r.at # "idle" /\ r.op # "get" => r.of \in Users
    /\ r.at \in {"fetch", "store", "in", "write"} =>
          /\ r.op = "update" => r.to \in Tos
          /\ r.op = "create" => r.to = "operator"
    /\ r.at = "write" => r.op \in {"change", "reset", "link", "create", "update", "delete"}
    /\ r.at = "totp" => r.op \in {"setup", "activate", "disable"}
    /\ r.at \in {"issue", "cookie", "mail", "unlink", "forget"} => r.op # "get"

CacheOk(e) == DOMAIN e = {"role", "pw", "left"} /\ e.role \in Roles /\ e.pw \in Nat

Types ==
    /\ row \in [Users -> {None} \cup Rows] /\ lastPw \in Nat
    /\ DOMAIN cache = Users /\ \A u \in Users : cache[u] # None => CacheOk(cache[u])
    /\ DOMAIN cause = Users
    /\ DOMAIN request = Requests /\ \A p \in Requests : RequestOk(request[p])
    /\ \A t \in tokens : t.u \in Users
    /\ \A l \in links : DOMAIN l = {"id", "u", "late"} /\ l.u \in Users

\* While the history is clear, at most one call from the portal changes a user's role or
\* removes him, its session is as the database has it when it is let in, and once it is
\* permitted, somebody else is an administrator.
Admin(u) == Active(u) /\ row[u].role = "admin"
HasRole(u, role) == Active(u) /\ row[u].role = role
Spare(v) == \E w \in Users : w # v /\ Admin(w)
OneManages == \A p, q \in Requests : request[p].op \in Managing /\ request[q].op \in Managing => p = q
Forgets(u) == \E p \in Requests : request[p].op \in Managing /\ request[p].of = u /\ request[p].at = "forget"
CacheIsTrue == \A u \in Users : cache[u] # None /\ cause[u] = None => HasRole(u, cache[u].role) \/ Forgets(u)
ManagerOk(r) ==
    r.op \in Managing =>
        /\ r.at = "in" => HasRole(r.u, r.got.role)
        /\ r.at = "write" => Spare(r.of)
Safe ==
    /\ \E u \in Users : Admin(u)
    /\ OneManages /\ CacheIsTrue
    /\ \A p \in Requests : ManagerOk(request[p])

AdminInv == Types /\ (muddled \in BOOLEAN) /\ (~muddled => Safe)

\* An idle request is sound and manages nothing.
LEMMA IdleOk == RequestOk(Idle) /\ Idle.at = "idle" /\ Idle.op = "none"
BY DEF RequestOk, Idle, Fields

LEMMA AdminInit == Init => AdminInv
<1>. SUFFICES ASSUME Init PROVE AdminInv
    OBVIOUS
<1>1. \A r \in Roles : Row(r, 0) \in Rows /\ Row(r, 0) # None /\ Row(r, 0).active = TRUE
  <2>. TAKE r \in Roles
  <2>1. Row(r, 0) \in Rows
    <3>1. 0 \in Nat /\ TRUE \in BOOLEAN /\ FALSE \in BOOLEAN
        OBVIOUS
    <3>. QED  BY <3>1 DEF Row, Rows
  <2>2. Row(r, 0) # None
      BY <2>1, TenantSessionsAssumption
  <2>3. Row(r, 0).active = TRUE
      BY DEF Row
  <2>. QED  BY <2>1, <2>2, <2>3
<1>2. \A u \in Users : Here(u) => row[u].active = TRUE
    BY <1>1 DEF Init, Here
<1>3. \E u \in Users : Admin(u)
    BY <1>2 DEF Init, Admin, Active
<1>4. \A p \in Requests : request[p] = Idle
    BY DEF Init
<1>5. Types
  <2>1. row \in [Users -> {None} \cup Rows]
      BY <1>1 DEF Init
  <2>2. \A p \in Requests : RequestOk(request[p])
      BY <1>4, IdleOk
  <2>3. \A t \in tokens : t.u \in Users
      BY DEF Init
  <2>4. \A l \in links : DOMAIN l = {"id", "u", "late"} /\ l.u \in Users
      BY DEF Init
  <2>. QED  BY <2>1, <2>2, <2>3, <2>4 DEF Types, Init
<1>6. Safe
    BY <1>3, <1>4, IdleOk DEF Safe, OneManages, CacheIsTrue, ManagerOk, Managing, Init
<1>. QED  BY <1>5, <1>6 DEF AdminInv, Init

\* No user loses his role or his place, as in most steps.
RolesKept ==
    \A u \in Users, role \in Roles : HasRole(u, role) => HasRole(u, role)'
\* Only request p moves.
Moves(p) == DOMAIN request' = Requests /\ \A q \in Requests \ {p} : request'[q] = request[q]
TokensOk == \A t \in tokens : t.u \in Users
LinksOk == \A l \in links : DOMAIN l = {"id", "u", "late"} /\ l.u \in Users
RowsOk == row \in [Users -> {None} \cup Rows] /\ lastPw \in Nat

\* One request moves on and users keep their roles.
LEMMA OneMoves ==
    ASSUME AdminInv, NEW p \in Requests, Moves(p), UNCHANGED <<cache, cause, muddled>>, RolesKept,
           RequestOk(request'[p]), RowsOk', TokensOk', LinksOk',
           request[p].at # "forget",
           request'[p].op \in Managing => request[p].op \in Managing,
           ~muddled /\ request'[p].op \in Managing =>
              /\ request'[p].at = "in" => HasRole(request'[p].u, request'[p].got.role)
              /\ request'[p].at = "write" => Spare(request'[p].of)
    PROVE  AdminInv'
<1>0. \A q \in Requests : RequestOk(request'[q])
    BY DEF Moves, AdminInv, Types
<1>a. Types'
    BY <1>0 DEF Types, AdminInv, Moves, RowsOk, TokensOk, LinksOk, RequestOk, CacheOk, Fields
<1>. SUFFICES ASSUME ~muddled PROVE Safe'
    BY <1>a DEF AdminInv
<1>1. Safe
    BY DEF AdminInv
<1>2. \A q \in Requests \ {p} : request'[q] = request[q]
    BY DEF Moves
<1>3. \A u \in Users : Admin(u) => Admin(u)'
    BY DEF RolesKept, Admin, HasRole, Roles
<1>4. \A v : Spare(v) => Spare(v)'
    BY <1>3 DEF Spare
<1>6. (\E u \in Users : Admin(u))'
    BY <1>1, <1>3 DEF Safe
<1>7. OneManages'
    BY <1>1, <1>2 DEF Safe, OneManages
<1>8. ASSUME NEW u \in Users, cache'[u] # None, cause'[u] = None
      PROVE  HasRole(u, cache[u].role)' \/ Forgets(u)'
  <2>1. CASE HasRole(u, cache[u].role)
      BY <1>8, <2>1 DEF RolesKept, AdminInv, Types, CacheOk
  <2>2. CASE Forgets(u)
    <3>1. PICK q \in Requests : request[q].op \in Managing /\ request[q].of = u /\ request[q].at = "forget"
        BY <2>2 DEF Forgets
    <3>2. q # p /\ request'[q] = request[q]
        BY <3>1, <1>2
    <3>. QED  BY <3>1, <3>2 DEF Forgets
  <2>. QED  BY <1>1, <1>8, <2>1, <2>2 DEF Safe, CacheIsTrue
<1>9. ASSUME NEW q \in Requests, request'[q].op \in Managing, request'[q].at = "in"
      PROVE  HasRole(request[q].u, request[q].got.role)'
  <2>1. /\ HasRole(request'[q].u, request'[q].got.role)
        /\ request'[q].u \in Users /\ request'[q].got.role \in Roles
    <3>1. CASE q = p
        BY <1>0, <1>9, <3>1 DEF RequestOk, State
    <3>2. CASE q # p
        BY <1>0, <1>1, <1>2, <1>9, <3>2 DEF Safe, ManagerOk, RequestOk, State
    <3>. QED  BY <3>1, <3>2
  <2>. QED  BY <2>1 DEF RolesKept, HasRole, Active, Here
<1>10. ASSUME NEW q \in Requests, request'[q].op \in Managing, request'[q].at = "write"
       PROVE  Spare(request[q].of)'
  <2>1. Spare(request'[q].of)
    <3>1. CASE q = p
        BY <1>10, <3>1
    <3>2. CASE q # p
        BY <1>1, <1>2, <1>10, <3>2 DEF Safe, ManagerOk
    <3>. QED  BY <3>1, <3>2
  <2>2. PICK w \in Users : w # request'[q].of /\ Admin(w)
      BY <2>1 DEF Spare
  <2>. QED  BY <1>3, <2>2 DEF Spare
<1>. QED  BY <1>6, <1>7, <1>8, <1>9, <1>10 DEF Safe, CacheIsTrue, ManagerOk

\* The same when no row changes.
LEMMA OneMovesOn ==
    ASSUME AdminInv, NEW p \in Requests, Moves(p), UNCHANGED <<row, lastPw, cache, cause, muddled>>,
           RequestOk(request'[p]), TokensOk', LinksOk',
           request[p].at # "forget",
           request'[p].op \in Managing => request[p].op \in Managing,
           ~muddled /\ request'[p].op \in Managing =>
              /\ request'[p].at = "in" => HasRole(request'[p].u, request'[p].got.role)
              /\ request'[p].at = "write" => Spare(request'[p].of)
    PROVE  AdminInv'
<1>1. RolesKept /\ RowsOk'
    BY DEF RolesKept, HasRole, Active, Here, RowsOk, AdminInv, Types
<1>. QED  BY <1>1, OneMoves

\* A request that ends, or goes on to a step that manages nothing.
LEMMA OneEnds ==
    ASSUME AdminInv, NEW p \in Requests, request' = Done(p), request[p].at # "forget",
           UNCHANGED <<row, lastPw, cache, cause, muddled>>, TokensOk', LinksOk'
    PROVE  AdminInv'
<1>1. Moves(p) /\ request'[p] = Idle
    BY DEF Done, Moves, AdminInv, Types
<1>. QED  BY <1>1, IdleOk, OneMovesOn DEF Managing

\* A new request that manages nothing.
LEMMA OneStarts ==
    ASSUME AdminInv, NEW p \in Requests, NEW r, Starts(p, r), RequestOk(r), r.op \notin Managing,
           UNCHANGED <<row, lastPw, cache, cause, muddled>>, TokensOk', LinksOk'
    PROVE  AdminInv'
<1>1. request[p].at = "idle" /\ Moves(p) /\ request'[p] = r
    BY DEF Starts, Busy, Moves, AdminInv, Types
<1>. QED  BY <1>1, OneMovesOn

\* A step of p that keeps the request but for the place it is at.
LEMMA AtOk ==
    ASSUME Types, NEW p \in Requests, NEW at, request' = At(p, at)
    PROVE  /\ Moves(p) /\ DOMAIN request'[p] = Fields /\ request'[p].at = at
           /\ request'[p].op = request[p].op /\ request'[p].of = request[p].of
           /\ request'[p].left \in Nat
BY DEF Types, RequestOk, At, Moves, Fields

LEMMA GoesOnOk ==
    ASSUME Types, NEW p \in Requests, request' = GoesOn(p)
    PROVE  /\ Moves(p) /\ DOMAIN request'[p] = Fields /\ request'[p].at = "write"
           /\ request'[p].op = request[p].op /\ request'[p].of = request[p].of
           /\ request'[p].to = request[p].to /\ request'[p].left \in Nat
BY DEF Types, GoesOn, Moves, Fields, Idle

-----------------------------------------------------------------------------
(* The check of a session *)

LEMMA AdminFetch ==
    ASSUME AdminInv, NEW p \in Requests, Fetch(p)
    PROVE  AdminInv'
<1>1. request[p].at = "fetch" /\ UNCHANGED <<row, lastPw, cache, cause, muddled, tokens, links>>
    BY DEF Fetch, bounds, history
<1>2. TokensOk' /\ LinksOk'
    BY <1>1 DEF AdminInv, Types, TokensOk, LinksOk
<1>3. CASE request' = Done(p)
    BY <1>1, <1>2, <1>3, OneEnds
<1>4. CASE /\ Current(request[p].u) # None
           /\ request' = [request EXCEPT ![p].at = "store", ![p].got = Current(request[p].u)]
  <2>1. /\ Moves(p) /\ DOMAIN request'[p] = Fields /\ request'[p].at = "store"
        /\ request'[p].op = request[p].op /\ request'[p].of = request[p].of
        /\ request'[p].to = request[p].to /\ request'[p].u = request[p].u
        /\ request'[p].got = Current(request[p].u) /\ request'[p].left = request[p].left
      BY <1>4 DEF AdminInv, Types, RequestOk, Moves, Fields
  <2>2. RequestOk(request[p])
      BY DEF AdminInv, Types
  <2>3. Current(request[p].u) \in State
    <3>1. request[p].u \in Users /\ row[request[p].u] \in Rows
        BY <1>1, <1>4, <2>2 DEF Current, Active, Here, RequestOk, AdminInv, Types
    <3>2. StateOf(row[request[p].u]) \in State
        BY <3>1 DEF StateOf, State, Rows
    <3>. QED  BY <3>2, <1>4 DEF Current
  <2>4. RequestOk(request'[p])
      BY <1>1, <1>4, <2>1, <2>2, <2>3 DEF RequestOk
  <2>. QED  BY <1>1, <1>2, <2>1, <2>4, OneMovesOn
<1>. QED  BY <1>3, <1>4 DEF Fetch

LEMMA AdminStore ==
    ASSUME AdminInv, NEW p \in Requests, Store(p)
    PROVE  AdminInv'
<1>. DEFINE r == request[p]
<1>1. r.at = "store" /\ UNCHANGED <<row, lastPw, tokens, links>>
    BY DEF Store, bounds
<1>2. RequestOk(r) /\ r.u \in Users /\ r.got \in State /\ r.got # None
    BY <1>1 DEF AdminInv, Types, RequestOk
<1>3. Moves(p) /\ request'[p] = Answer(r, r.got)
    BY DEF Store, Moves, AdminInv, Types
<1>4. /\ request'[p].at \in {"idle", "in"} /\ RequestOk(request'[p])
      /\ request'[p].op \in Managing => r.op \in Managing
      /\ request'[p].at = "in" => request'[p].op = r.op /\ request'[p].u = r.u /\ request'[p].got = r.got
  <2>1. CASE request'[p] = Idle
      BY <2>1, IdleOk DEF Managing
  <2>2. CASE request'[p] = [r EXCEPT !.at = "in", !.got = r.got]
    <3>1. /\ DOMAIN request'[p] = Fields /\ request'[p].at = "in" /\ request'[p].op = r.op
          /\ request'[p].u = r.u /\ request'[p].got = r.got /\ request'[p].of = r.of /\ request'[p].to = r.to
          /\ request'[p].left = r.left
        BY <2>2, <1>2 DEF RequestOk, Fields
    <3>. QED  BY <3>1, <1>1, <1>2 DEF RequestOk
  <2>. QED  BY <2>1, <2>2, <1>3 DEF Answer
<1>5. /\ DOMAIN cache' = Users /\ DOMAIN cause' = Users
      /\ \A u \in Users \ {r.u} : cache'[u] = cache[u] /\ cause'[u] = cause[u]
    BY DEF Store, AdminInv, Types
<1>6. \/ cache'[r.u] = None
      \/ /\ cache'[r.u] = [role |-> r.got.role, pw |-> r.got.pw, left |-> Left(p)]
         /\ r.got = Current(r.u) \/ cause'[r.u] = "overtaken"
  <2>1. cache'[r.u] = IF Left(p) = 0 THEN None
                      ELSE [role |-> r.got.role, pw |-> r.got.pw, left |-> Left(p)]
      BY <1>2 DEF Store, AdminInv, Types
  <2>2. cause'[r.u] = IF Left(p) > 0 /\ r.got # Current(r.u) THEN "overtaken" ELSE None
      BY <1>2 DEF Store, AdminInv, Types
  <2>3. Left(p) \in Nat
      BY <1>2 DEF Left, RequestOk
  <2>. QED  BY <2>1, <2>2, <2>3
<1>7. Types'
  <2>1. RowsOk' /\ TokensOk' /\ LinksOk'
      BY <1>1 DEF RowsOk, TokensOk, LinksOk, AdminInv, Types
  <2>2. \A q \in Requests : RequestOk(request'[q])
      BY <1>3, <1>4 DEF Moves, AdminInv, Types
  <2>3. \A u \in Users : cache'[u] # None => CacheOk(cache'[u])
    <3>1. CacheOk([role |-> r.got.role, pw |-> r.got.pw, left |-> Left(p)])
        BY <1>2 DEF CacheOk, State
    <3>. QED  BY <3>1, <1>5, <1>6 DEF AdminInv, Types
  <2>. QED  BY <2>1, <2>2, <2>3, <1>3, <1>5 DEF Types, RowsOk, TokensOk, LinksOk, Moves, RequestOk, CacheOk, Fields
<1>8. muddled' = (muddled \/ (r.op \in Managing /\ r.got # Current(r.u))) /\ muddled' \in BOOLEAN
    BY DEF Store
<1>9. ASSUME ~muddled' PROVE Safe'
  <2>1. ~muddled /\ Safe /\ (r.op \in Managing => r.got = Current(r.u))
      BY <1>8, <1>9 DEF AdminInv
  <2>2. \A u \in Users : \A role : HasRole(u, role)' <=> HasRole(u, role)
      BY <1>1 DEF HasRole, Active, Here
  <2>3. \A u \in Users : Admin(u)' <=> Admin(u)
      BY <1>1 DEF Admin, Active, Here
  <2>4. r.got = Current(r.u) => HasRole(r.u, r.got.role)
      BY <1>2 DEF Current, StateOf, HasRole
  <2>5. (\E u \in Users : Admin(u))' /\ OneManages'
      BY <2>1, <2>3, <1>3, <1>4 DEF Safe, OneManages, Moves
  <2>6. \A u \in Users : Forgets(u) => Forgets(u)'
    <3>1. \A q \in Requests : request[q].at = "forget" => request'[q] = request[q]
        BY <1>1, <1>3 DEF Moves
    <3>. QED  BY <3>1 DEF Forgets
  <2>7. ASSUME NEW u \in Users, cache'[u] # None, cause'[u] = None
        PROVE  HasRole(u, cache[u].role)' \/ Forgets(u)'
    <3>1. CASE u # r.u
      <4>1. HasRole(u, cache[u].role) \/ Forgets(u)
          BY <3>1, <2>1, <2>7, <1>5 DEF Safe, CacheIsTrue
      <4>2. cache'[u] = cache[u]
          BY <3>1, <1>5
      <4>. QED  BY <4>1, <4>2, <2>2, <2>6 DEF HasRole, Active, Here
    <3>2. CASE u = r.u
      <4>1. cache'[u].role = r.got.role /\ (r.got = Current(r.u) \/ cause'[r.u] = "overtaken")
          BY <3>2, <2>7, <1>6
      <4>2. HasRole(u, cache'[u].role)
          BY <4>1, <2>4, <2>7, <3>2, TenantSessionsAssumption DEF Causes
      <4>. QED  BY <4>2, <2>2, <1>1 DEF HasRole, Active, Here
    <3>. QED  BY <3>1, <3>2
  <2>8. ASSUME NEW q \in Requests, request'[q].op \in Managing, request'[q].at = "in"
        PROVE  HasRole(request[q].u, request[q].got.role)'
    <3>1. HasRole(request'[q].u, request'[q].got.role)
        BY <2>1, <2>4, <2>8, <1>3, <1>4 DEF Safe, ManagerOk, Moves
    <3>. QED  BY <3>1, <1>1 DEF HasRole, Active, Here
  <2>9. ASSUME NEW q \in Requests, request'[q].op \in Managing, request'[q].at = "write"
        PROVE  Spare(request[q].of)'
    <3>1. q # p /\ request'[q] = request[q]
        BY <2>9, <1>3, <1>4 DEF Moves
    <3>2. Spare(request'[q].of)
        BY <3>1, <2>1, <2>9 DEF Safe, ManagerOk
    <3>. QED  BY <3>2, <2>3 DEF Spare
  <2>. QED  BY <2>5, <2>7, <2>8, <2>9 DEF Safe, CacheIsTrue, ManagerOk
<1>. QED  BY <1>7, <1>8, <1>9 DEF AdminInv

LEMMA AdminBegin ==
    ASSUME AdminInv, NEW p \in Requests, NEW t \in tokens, NEW op, NEW v, NEW to,
           op \in {"get", "change", "update", "delete", "reset", "create"},
           op # "get" => v \in Users, op = "update" => to \in Tos, op = "create" => to = "operator",
           Begin(p, t, op, v, to)
    PROVE  AdminInv'
<1>. DEFINE r == [Idle EXCEPT !.at = "fetch", !.op = op, !.u = t.u, !.pw = t.pw, !.of = v, !.to = to,
                              !.left = TTL]
            state == Cached(t.u)
<1>1. UNCHANGED <<row, lastPw, cache, cause, tokens, links>> /\ request[p].at = "idle" /\ t.u \in Users
    BY DEF Begin, numbers, Busy, AdminInv, Types
<1>2. Moves(p) /\ request'[p] = IF cache[t.u] = None THEN r ELSE Answer(r, state)
    BY DEF Begin, Moves, AdminInv, Types
<1>3. /\ DOMAIN r = Fields /\ r.at = "fetch" /\ r.op = op /\ r.u = t.u /\ r.of = v /\ r.to = to
      /\ r.left = TTL /\ TTL \in Nat
    BY TenantSessionsAssumption DEF Idle, Fields
<1>. HIDE DEF r
<1>4. cache[t.u] # None => state \in State /\ state # None /\ state.role = cache[t.u].role
    BY <1>1, TenantSessionsAssumption DEF AdminInv, Types, CacheOk, State, Cached
<1>. HIDE DEF state
<1>5. /\ request'[p].at \in {"idle", "fetch", "in"} /\ RequestOk(request'[p])
      /\ request'[p].op \in Managing => op \in Managing
      /\ request'[p].at = "in" => /\ cache[t.u] # None /\ request'[p].op = op
                                  /\ request'[p].u = t.u /\ request'[p].got = state
  <2>1. CASE request'[p] = Idle
      BY <2>1, IdleOk DEF Managing
  <2>2. CASE request'[p] = r
      BY <2>2, <1>1, <1>3 DEF RequestOk
  <2>3. CASE cache[t.u] # None /\ request'[p] = [r EXCEPT !.at = "in", !.got = state]
    <3>1. /\ DOMAIN request'[p] = Fields /\ request'[p].at = "in" /\ request'[p].op = op
          /\ request'[p].u = t.u /\ request'[p].got = state /\ request'[p].of = v /\ request'[p].to = to
          /\ request'[p].left = TTL
        BY <2>3, <1>3 DEF Fields
    <3>. QED  BY <3>1, <2>3, <1>1, <1>3, <1>4 DEF RequestOk
  <2>. QED  BY <2>1, <2>2, <2>3, <1>2 DEF Answer
<1>6. Types'
  <2>1. RowsOk' /\ TokensOk' /\ LinksOk'
      BY <1>1 DEF RowsOk, TokensOk, LinksOk, AdminInv, Types
  <2>2. \A q \in Requests : RequestOk(request'[q])
      BY <1>2, <1>5 DEF Moves, AdminInv, Types
  <2>. QED  BY <2>1, <2>2, <1>1, <1>2 DEF AdminInv, Types, RowsOk, TokensOk, LinksOk, Moves, RequestOk, CacheOk, Fields
<1>7. /\ muddled' = (muddled \/ Overlaps(op) \/ (op \in Managing /\ cache[t.u] # None /\ cause[t.u] # None))
      /\ muddled' \in BOOLEAN
    BY DEF Begin
<1>8. ASSUME ~muddled' PROVE Safe'
  <2>1. Safe /\ ~Overlaps(op) /\ (op \in Managing /\ cache[t.u] # None => cause[t.u] = None)
      BY <1>7, <1>8 DEF AdminInv
  <2>2. \A u \in Users : Admin(u)' <=> Admin(u)
      BY <1>1 DEF Admin, Active, Here
  <2>3. op \in Managing => \A q \in Requests : request[q].op \notin Managing
      BY <2>1 DEF Overlaps
  <2>4. (\E u \in Users : Admin(u))'
      BY <2>1, <2>2 DEF Safe
  <2>5. OneManages'
      BY <2>1, <2>3, <1>2, <1>5 DEF Safe, OneManages, Moves
  <2>6. \A u \in Users : Forgets(u) => Forgets(u)'
    <3>1. \A q \in Requests : request[q].at = "forget" => request'[q] = request[q]
        BY <1>1, <1>2 DEF Moves
    <3>. QED  BY <3>1 DEF Forgets
  <2>7. CacheIsTrue'
      BY <2>1, <2>6, <1>1 DEF Safe, CacheIsTrue, HasRole, Active, Here
  <2>8. ASSUME NEW q \in Requests, request'[q].op \in Managing, request'[q].at = "in"
        PROVE  HasRole(request[q].u, request[q].got.role)'
    <3>1. CASE q = p
      <4>1. op \in Managing /\ cache[t.u] # None /\ cause[t.u] = None
          BY <3>1, <2>1, <2>8, <1>5
      <4>2. HasRole(t.u, cache[t.u].role)
          BY <4>1, <2>1, <2>3, <1>1 DEF Safe, CacheIsTrue, Forgets
      <4>3. HasRole(request'[q].u, request'[q].got.role)
          BY <3>1, <4>1, <4>2, <2>8, <1>4, <1>5
      <4>. QED  BY <4>3, <1>1 DEF HasRole, Active, Here
    <3>2. CASE q # p
      <4>1. HasRole(request'[q].u, request'[q].got.role)
          BY <3>2, <2>1, <2>8, <1>2 DEF Safe, ManagerOk, Moves
      <4>. QED  BY <4>1, <1>1 DEF HasRole, Active, Here
    <3>. QED  BY <3>1, <3>2
  <2>9. ASSUME NEW q \in Requests, request'[q].op \in Managing, request'[q].at = "write"
        PROVE  Spare(request[q].of)'
    <3>1. q # p /\ request'[q] = request[q]
        BY <2>9, <1>2, <1>5 DEF Moves
    <3>2. Spare(request'[q].of)
        BY <3>1, <2>1, <2>9 DEF Safe, ManagerOk
    <3>. QED  BY <3>2, <2>2 DEF Spare
  <2>. QED  BY <2>4, <2>5, <2>7, <2>8, <2>9 DEF Safe, ManagerOk
<1>. QED  BY <1>6, <1>7, <1>8 DEF AdminInv

-----------------------------------------------------------------------------
(* What the handlers check *)

\* A request that is let in to its statement manages nothing, or leaves an administrator.
LEMMA AdminGoesOn ==
    ASSUME AdminInv, NEW p \in Requests, request' = GoesOn(p), request[p].at = "in",
           request[p].op \in {"change", "reset", "create", "update", "delete"},
           UNCHANGED <<row, lastPw, cache, cause, muddled, tokens, links>>,
           ~muddled /\ request[p].op \in Managing => Spare(request[p].of)
    PROVE  AdminInv'
<1>1. RequestOk(request[p])
    BY DEF AdminInv, Types
<1>2. /\ Moves(p) /\ DOMAIN request'[p] = Fields /\ request'[p].at = "write"
      /\ request'[p].op = request[p].op /\ request'[p].of = request[p].of
      /\ request'[p].to = request[p].to /\ request'[p].left \in Nat
    BY GoesOnOk DEF AdminInv
<1>3. RequestOk(request'[p])
    BY <1>1, <1>2 DEF RequestOk
<1>4. TokensOk' /\ LinksOk'
    BY DEF TokensOk, LinksOk, AdminInv, Types
<1>. QED  BY <1>2, <1>3, <1>4, OneMovesOn

LEMMA AdminHandlers ==
    ASSUME AdminInv, NEW p \in Requests, Get(p) \/ CheckPassword(p) \/ Permit(p) \/ PermitAdmin(p)
    PROVE  AdminInv'
<1>1. request[p].at = "in" /\ UNCHANGED <<row, lastPw, cache, cause, muddled, tokens, links>>
    BY DEF Get, CheckPassword, Permit, PermitAdmin, Reads, bounds, history
<1>2. TokensOk' /\ LinksOk'
    BY <1>1 DEF TokensOk, LinksOk, AdminInv, Types
<1>3. CASE request' = Done(p)
    BY <1>1, <1>2, <1>3, OneEnds
<1>4. CASE CheckPassword(p) \/ PermitAdmin(p)
  <2>1. request[p].op \in {"change", "reset", "create"} /\ (request' = Done(p) \/ request' = GoesOn(p))
      BY <1>4 DEF CheckPassword, PermitAdmin
  <2>. QED  BY <2>1, <1>1, <1>3, AdminGoesOn DEF Managing
<1>5. CASE Permit(p) /\ request' # Done(p)
  <2>1. /\ request[p].op \in Managing /\ Permitted(request[p]) /\ Here(request[p].of)
        /\ ~Forbidden(request[p]) /\ request' = GoesOn(p)
      BY <1>5 DEF Permit
  <2>2. request[p].u \in Users /\ request[p].of \in Users /\ request[p].u # request[p].of
      BY <2>1, <1>1 DEF Permitted, AdminInv, Types, RequestOk, Managing
  <2>3. ASSUME ~muddled PROVE Spare(request[p].of)
    <3>1. Safe /\ HasRole(request[p].u, request[p].got.role)
        BY <2>1, <2>3, <1>1 DEF AdminInv, Safe, ManagerOk
    <3>2. CASE request[p].got.role = "admin"
        BY <2>2, <3>1, <3>2 DEF Spare, Admin, HasRole
    <3>3. CASE row[request[p].of].role # "admin"
        BY <3>1, <3>3 DEF Safe, Spare, Admin
    <3>. QED  BY <2>1, <3>2, <3>3 DEF Forbidden
  <2>. QED  BY <2>1, <2>3, <1>1, AdminGoesOn DEF Managing
<1>. QED  BY <1>3, <1>4, <1>5 DEF Get

-----------------------------------------------------------------------------
(* The statements that change a row *)

\* What a statement makes of a row.
LEMMA RowChanges ==
    ASSUME NEW x \in Rows, NEW n \in Nat
    PROVE  /\ [x EXCEPT !.pw = n] \in Rows
           /\ [x EXCEPT !.pw = n].role = x.role /\ [x EXCEPT !.pw = n].active = x.active
           /\ \A role \in Roles : [x EXCEPT !.role = role] \in Rows
           /\ \A b \in BOOLEAN : [x EXCEPT !.active = b] \in Rows
           /\ \A b, c \in BOOLEAN : /\ [x EXCEPT !.totp = b] \in Rows
                                    /\ [x EXCEPT !.secret = b] \in Rows
                                    /\ [x EXCEPT !.totp = b, !.secret = c] \in Rows
BY DEF Rows

\* A user keeps his role when his row changes elsewhere.
LEMMA RoleStays ==
    ASSUME AdminInv, NEW v \in Users, NEW y \in Rows, row' = [row EXCEPT ![v] = y],
           Here(v) => y.role = row[v].role /\ y.active = row[v].active
    PROVE  RolesKept
<1>1. y # None
    BY TenantSessionsAssumption
<1>. QED  BY <1>1 DEF RolesKept, HasRole, Active, Here, AdminInv, Types

\* The request after its statement: over, or about to drop the session of its user.
LEMMA AfterWrite ==
    ASSUME AdminInv, NEW p \in Requests, Write(p)
    PROVE  /\ Moves(p) /\ request[p].at = "write" /\ RequestOk(request[p]) /\ RequestOk(request'[p])
           /\ UNCHANGED <<cache, cause, muddled, tokens, links>> /\ TokensOk' /\ LinksOk'
           /\ \/ request'[p] = Idle
              \/ request'[p].at = NextStep(request[p].op) /\ request'[p].op = request[p].op
                 /\ request'[p].of = request[p].of
           /\ Here(request[p].of) /\ request[p].op \in Managing =>
                 request'[p].at = "forget" /\ request'[p].op = request[p].op /\ request'[p].of = request[p].of
<1>. DEFINE r == request[p]
<1>1. r.at = "write" /\ RequestOk(r) /\ UNCHANGED <<cache, cause, muddled, tokens, links>>
    BY DEF Write, history, AdminInv, Types
<1>2. TokensOk' /\ LinksOk'
    BY <1>1 DEF TokensOk, LinksOk, AdminInv, Types
<1>. DEFINE ends == NextStep(r.op) = "idle" \/ (~Here(r.of) /\ r.op \notin {"change", "link"})
<1>3. CASE ends
  <2>1. request' = Done(p)
      BY <1>3 DEF Write
  <2>2. Moves(p) /\ request'[p] = Idle
      BY <2>1 DEF Done, Moves, AdminInv, Types
  <2>3. ~(Here(r.of) /\ r.op \in Managing)
      BY <1>3 DEF NextStep, Managing
  <2>. QED  BY <1>1, <1>2, <2>2, <2>3, IdleOk
<1>4. CASE ~ends
  <2>1. request' = [request EXCEPT ![p].at = NextStep(r.op), ![p].to = None,
                                   ![p].pw = IF r.op = "change" THEN lastPw' ELSE 0]
      BY <1>4 DEF Write
  <2>2. /\ Moves(p) /\ DOMAIN request'[p] = Fields /\ request'[p].at = NextStep(r.op)
        /\ request'[p].op = r.op /\ request'[p].of = r.of /\ request'[p].left = r.left
      BY <2>1, <1>1 DEF Moves, AdminInv, Types, RequestOk, Fields
  <2>3. request'[p].at \in {"unlink", "forget"} /\ (r.op \in Managing => request'[p].at = "forget")
      BY <1>1, <1>4, <2>2 DEF RequestOk, NextStep, Managing
  <2>4. RequestOk(request'[p])
      BY <2>2, <2>3, <1>1 DEF RequestOk
  <2>. QED  BY <1>1, <1>2, <2>2, <2>3, <2>4
<1>. QED  BY <1>3, <1>4

\* Statements that change no role and remove nobody.
LEMMA AdminWriteOther ==
    ASSUME AdminInv, NEW p \in Requests, Write(p), request[p].op \notin Managing \/ ~Here(request[p].of)
    PROVE  AdminInv'
<1>. DEFINE r == request[p]  v == r.of  fresh == lastPw + 1
<1>1. v \in Users /\ r.op \in {"change", "reset", "link", "create", "update", "delete"}
    BY AfterWrite DEF RequestOk
<1>2. fresh \in Nat /\ lastPw \in Nat
    BY DEF AdminInv, Types
<1>3. RowsOk' /\ RolesKept
  <2>1. CASE UNCHANGED <<row, lastPw>>
      BY <2>1 DEF RowsOk, RolesKept, HasRole, Active, Here, AdminInv, Types
  <2>2. CASE ~Here(v) /\ r.op = "create" /\ row' = [row EXCEPT ![v] = Row(r.to, fresh)] /\ lastPw' = fresh
    <3>1. Row(r.to, fresh) \in Rows
      <4>1. r.to \in Roles
          BY <2>2, AfterWrite DEF RequestOk, Roles
      <4>2. TRUE \in BOOLEAN /\ FALSE \in BOOLEAN
          OBVIOUS
      <4>. QED  BY <1>2, <4>1, <4>2 DEF Row, Rows
    <3>2. RolesKept
        BY <2>2, <3>1, <1>1, RoleStays
    <3>. QED  BY <2>2, <3>1, <3>2, <1>2 DEF RowsOk, AdminInv, Types
  <2>3. CASE Here(v) /\ row' = [row EXCEPT ![v].pw = fresh] /\ lastPw' = fresh
    <3>1. row[v] \in Rows
        BY <2>3, <1>1 DEF Here, AdminInv, Types
    <3>2. row' = [row EXCEPT ![v] = [row[v] EXCEPT !.pw = fresh]]
        BY <2>3
    <3>3. /\ [row[v] EXCEPT !.pw = fresh] \in Rows
          /\ [row[v] EXCEPT !.pw = fresh].role = row[v].role
          /\ [row[v] EXCEPT !.pw = fresh].active = row[v].active
        BY <3>1, <1>2, RowChanges
    <3>. DEFINE y == [row[v] EXCEPT !.pw = fresh]
    <3>. HIDE DEF y
    <3>4. RolesKept
        BY <3>2, <3>3, <1>1, RoleStays DEF y
    <3>5. y \in Rows /\ row' = [row EXCEPT ![v] = y]
        BY <3>2, <3>3 DEF y
    <3>6. row' \in [Users -> {None} \cup Rows]
        BY <3>5 DEF AdminInv, Types
    <3>. QED  BY <2>3, <3>4, <3>6, <1>2 DEF RowsOk
  <2>. QED  BY <2>1, <2>2, <2>3 DEF Write, Managing
<1>4. /\ request'[p].op \in Managing => r.op \in Managing
      /\ r.op \in Managing => request'[p] = Idle
      /\ request'[p].at \notin {"in", "write"} /\ r.at # "forget"
  <2>1. r.op \in Managing => request'[p] = Idle
      BY DEF Write, Done, AdminInv, Types, Managing
  <2>2. request'[p].at \notin {"in", "write"}
      BY AfterWrite, IdleOk DEF NextStep
  <2>. QED  BY <2>1, <2>2, AfterWrite, IdleOk DEF Managing
<1>. QED  BY <1>3, <1>4, AfterWrite, OneMoves

\* update_user and delete_user of the portal.
LEMMA AdminWriteManaging ==
    ASSUME AdminInv, NEW p \in Requests, Write(p), request[p].op \in Managing, Here(request[p].of)
    PROVE  AdminInv'
<1>. DEFINE r == request[p]  v == r.of
<1>1. v \in Users /\ r.at = "write" /\ Moves(p)
    BY AfterWrite DEF RequestOk
<1>2. request'[p].at = "forget" /\ request'[p].op = r.op /\ request'[p].of = v /\ RequestOk(request'[p])
    BY AfterWrite
<1>3. lastPw' = lastPw /\ row' \in [Users -> {None} \cup Rows] /\ \A u \in Users \ {v} : row'[u] = row[u]
  <2>1. CASE r.op = "delete"
    <3>1. lastPw' = lastPw /\ row' = [row EXCEPT ![v] = None]
        BY <2>1 DEF Write
    <3>. QED  BY <3>1, <1>1 DEF AdminInv, Types
  <2>2. CASE r.op = "update"
    <3>1. lastPw' = lastPw /\ row' = [row EXCEPT ![v] = Updated(row[v], r.to)]
        BY <2>2 DEF Write
    <3>2. Updated(row[v], r.to) \in Rows
      <4>1. row[v] \in Rows /\ r.to \in Tos
          BY <2>2, <1>1, AfterWrite DEF Here, AdminInv, Types, RequestOk
      <4>. QED  BY <4>1, RowChanges DEF Updated, Tos, Roles
    <3>. QED  BY <3>1, <3>2, <1>1 DEF AdminInv, Types
  <2>. QED  BY <2>1, <2>2 DEF Managing
<1>4. UNCHANGED <<cache, cause, muddled, tokens, links>> /\ TokensOk' /\ LinksOk'
    BY AfterWrite
<1>5. Types'
  <2>1. \A q \in Requests : RequestOk(request'[q])
      BY <1>1, <1>2 DEF Moves, AdminInv, Types
  <2>. QED  BY <2>1, <1>1, <1>3, <1>4 DEF AdminInv, Types, TokensOk, LinksOk, Moves, RequestOk, CacheOk, Fields
<1>6. ASSUME ~muddled PROVE Safe'
  <2>1. Safe /\ Spare(v)
      BY <1>1, <1>6 DEF AdminInv, Safe, ManagerOk
  <2>2. \A u \in Users \ {v} : \A role : HasRole(u, role) => HasRole(u, role)'
      BY <1>3 DEF HasRole, Active, Here
  <2>3. (\E u \in Users : Admin(u))'
      BY <2>1, <2>2 DEF Spare, Admin, HasRole
  <2>4. \A q \in Requests \ {p} : request'[q] = request[q] /\ request[q].op \notin Managing
      BY <2>1, <1>1 DEF Safe, OneManages, Moves
  <2>5. OneManages'
      BY <2>4, <1>2 DEF OneManages
  <2>6. \A u \in Users : Forgets(u) => FALSE
      BY <2>4, <1>1 DEF Forgets
  <2>7. \E q \in Requests : request'[q].op \in Managing /\ request'[q].of = v /\ request'[q].at = "forget"
      BY <1>2
  <2>8. ASSUME NEW u \in Users, cache'[u] # None, cause'[u] = None
        PROVE  HasRole(u, cache[u].role)' \/ Forgets(u)'
    <3>1. CASE u = v
        BY <3>1, <2>7 DEF Forgets
    <3>2. CASE u # v
      <4>1. HasRole(u, cache[u].role)
          BY <2>1, <2>6, <2>8, <1>4 DEF Safe, CacheIsTrue
      <4>2. HasRole(u, cache[u].role) => Active(u) /\ row'[u] = row[u]
          BY <3>2, <1>3 DEF HasRole
      <4>. QED  BY <4>1, <4>2, <1>4 DEF HasRole, Active, Here
    <3>. QED  BY <3>1, <3>2
  <2>9. \A q \in Requests : ManagerOk(request[q])'
      BY <2>4, <1>2 DEF ManagerOk
  <2>. QED  BY <2>3, <2>5, <2>8, <2>9 DEF Safe, CacheIsTrue
<1>. QED  BY <1>4, <1>5, <1>6 DEF AdminInv

\* The two factors' statements.
LEMMA AdminTotpSet ==
    ASSUME AdminInv, NEW p \in Requests, TotpSet(p)
    PROVE  AdminInv'
<1>. DEFINE r == request[p]  u == r.of
<1>1. /\ r.at = "totp" /\ RequestOk(r) /\ u \in Users /\ r.op \in {"setup", "activate", "disable"}
      /\ UNCHANGED <<lastPw, cache, cause, muddled, tokens, links>>
    BY DEF TotpSet, bounds, AdminInv, Types, RequestOk
<1>2. TokensOk' /\ LinksOk'
    BY <1>1 DEF TokensOk, LinksOk, AdminInv, Types
<1>3. RowsOk' /\ RolesKept
  <2>1. CASE ~Here(u)
      BY <1>1, <2>1 DEF TotpSet, RowsOk, RolesKept, HasRole, Active, Here, AdminInv, Types
  <2>2. CASE Here(u)
    <3>1. row[u] \in Rows /\ row' = [row EXCEPT ![u] = TotpWrite(r.op, row[u])]
        BY <2>2, <1>1 DEF TotpSet, Here, AdminInv, Types
    <3>2. TotpWrite(r.op, row[u]) \in Rows
        BY <3>1, <1>1, RowChanges DEF TotpWrite
    <3>3. TotpWrite(r.op, row[u]).role = row[u].role /\ TotpWrite(r.op, row[u]).active = row[u].active
        BY <3>1, <1>1 DEF TotpWrite, Rows
    <3>. DEFINE y == TotpWrite(r.op, row[u])
    <3>. HIDE DEF y
    <3>4. y \in Rows /\ row' = [row EXCEPT ![u] = y]
        BY <3>1, <3>2 DEF y
    <3>5. RolesKept
        BY <3>4, <3>3, <1>1, RoleStays DEF y
    <3>6. row' \in [Users -> {None} \cup Rows]
        BY <3>4 DEF AdminInv, Types
    <3>. QED  BY <3>5, <3>6, <1>1 DEF RowsOk, AdminInv, Types
  <2>. QED  BY <2>1, <2>2
<1>4. /\ Moves(p) /\ RequestOk(request'[p]) /\ request'[p].op \notin Managing
  <2>1. CASE request' = Done(p)
      BY <2>1, IdleOk DEF Done, Moves, AdminInv, Types, Managing
  <2>2. CASE request' = At(p, "cookie")
    <3>1. /\ Moves(p) /\ DOMAIN request'[p] = Fields /\ request'[p].at = "cookie"
          /\ request'[p].op = r.op /\ request'[p].of = r.of /\ request'[p].left \in Nat
        BY <2>2, AtOk DEF AdminInv
    <3>. QED  BY <3>1, <1>1 DEF RequestOk, Managing
  <2>. QED  BY <2>1, <2>2 DEF TotpSet
<1>. QED  BY <1>1, <1>2, <1>3, <1>4, OneMoves

\* forget_session: the cached session of the user is gone with the request that dropped it.
LEMMA AdminForget ==
    ASSUME AdminInv, NEW p \in Requests, Forget(p)
    PROVE  AdminInv'
<1>. DEFINE r == request[p]
<1>1. r.at = "forget" /\ UNCHANGED <<row, lastPw, links, muddled>> /\ Moves(p) /\ request'[p] = Idle
    BY DEF Forget, bounds, Done, Moves, AdminInv, Types
<1>2. /\ DOMAIN cache' = Users /\ DOMAIN cause' = Users
      /\ \A u \in Users : IF u = r.of THEN cache'[u] = None
                          ELSE cache'[u] = cache[u] /\ cause'[u] = cause[u]
    BY DEF Forget, AdminInv, Types
<1>3. Types'
  <2>1. TokensOk'
    <3>1. CASE r.op = "change" /\ r.of \in Users
        BY <3>1 DEF Forget, TokensOk, AdminInv, Types
    <3>2. CASE tokens' = tokens
        BY <3>2 DEF TokensOk, AdminInv, Types
    <3>3. RequestOk(r)
        BY DEF AdminInv, Types
    <3>. QED  BY <3>1, <3>2, <3>3, <1>1 DEF Forget, RequestOk
  <2>2. \A q \in Requests : RequestOk(request'[q])
      BY <1>1, IdleOk DEF Moves, AdminInv, Types
  <2>. QED  BY <2>1, <2>2, <1>1, <1>2 DEF AdminInv, Types, TokensOk, Moves, RequestOk, CacheOk, Fields
<1>4. ASSUME ~muddled PROVE Safe'
  <2>1. Safe
      BY <1>4 DEF AdminInv
  <2>2. \A u \in Users : \A role : HasRole(u, role)' <=> HasRole(u, role)
      BY <1>1 DEF HasRole, Active, Here
  <2>3. \A u \in Users : Admin(u)' <=> Admin(u)
      BY <1>1 DEF Admin, Active, Here
  <2>4. (\E u \in Users : Admin(u))' /\ OneManages'
      BY <2>1, <2>3, <1>1, IdleOk DEF Safe, OneManages, Moves, Managing
  <2>5. ASSUME NEW u \in Users, cache'[u] # None, cause'[u] = None
        PROVE  HasRole(u, cache[u].role)' \/ Forgets(u)'
    <3>1. u # r.of /\ cache'[u] = cache[u] /\ cause'[u] = cause[u]
        BY <2>5, <1>2
    <3>2. HasRole(u, cache[u].role) \/ Forgets(u)
        BY <3>1, <2>1, <2>5 DEF Safe, CacheIsTrue
    <3>3. Forgets(u) => Forgets(u)'
        BY <3>1, <1>1 DEF Forgets, Moves
    <3>. QED  BY <3>1, <3>2, <3>3, <1>1 DEF HasRole, Active, Here
  <2>6. ASSUME NEW q \in Requests, request'[q].op \in Managing
        PROVE  ManagerOk(request[q])'
    <3>1. q # p /\ request'[q] = request[q]
        BY <2>6, <1>1, IdleOk DEF Moves, Managing
    <3>2. ManagerOk(request'[q])
        BY <3>1, <2>1 DEF Safe
    <3>. QED  BY <3>2, <2>3, <1>1 DEF ManagerOk, HasRole, Active, Here, Spare
  <2>. QED  BY <2>4, <2>5, <2>6 DEF Safe, CacheIsTrue, ManagerOk
<1>. QED  BY <1>1, <1>3, <1>4 DEF AdminInv

\* A handler whose commit fails leaves the entry: it is marked, or as the database has it.
LEMMA AdminCommitFails ==
    ASSUME AdminInv, NEW p \in Requests, CommitFails(p)
    PROVE  AdminInv'
<1>. DEFINE r == request[p]
<1>1. /\ r.at \in {"unlink", "forget"} /\ UNCHANGED <<row, lastPw, cache, tokens, tenantOn, muddled>>
      /\ Moves(p) /\ request'[p] = Idle /\ links' \subseteq links
    BY DEF CommitFails, bounds, Done, Moves, AdminInv, Types
<1>2. /\ DOMAIN cause' = Users
      /\ \A u \in Users : IF u = r.of THEN cause'[u] = (IF Stale(u) THEN "unanswered" ELSE cause[u])
                          ELSE cause'[u] = cause[u]
    BY DEF CommitFails, AdminInv, Types
<1>3. Types'
  <2>1. \A q \in Requests : RequestOk(request'[q])
      BY <1>1, IdleOk DEF Moves, AdminInv, Types
  <2>. QED  BY <2>1, <1>1, <1>2 DEF AdminInv, Types, Moves, RequestOk, CacheOk, Fields
<1>4. ASSUME ~muddled PROVE Safe'
  <2>1. Safe
      BY <1>4 DEF AdminInv
  <2>2. \A u \in Users : \A role : HasRole(u, role)' <=> HasRole(u, role)
      BY <1>1 DEF HasRole, Active, Here
  <2>3. \A u \in Users : Admin(u)' <=> Admin(u)
      BY <1>1 DEF Admin, Active, Here
  <2>4. (\E u \in Users : Admin(u))' /\ OneManages'
      BY <2>1, <2>3, <1>1, IdleOk DEF Safe, OneManages, Moves, Managing
  <2>5. ASSUME NEW u \in Users, cache'[u] # None, cause'[u] = None
        PROVE  HasRole(u, cache[u].role)' \/ Forgets(u)'
    <3>0. "unanswered" # None
        BY TenantSessionsAssumption DEF Causes
    <3>1. CASE u # r.of
      <4>1. HasRole(u, cache[u].role) \/ Forgets(u)
          BY <1>1, <1>2, <3>1, <2>1, <2>5 DEF Safe, CacheIsTrue
      <4>2. Forgets(u) => Forgets(u)'
          BY <3>1, <1>1 DEF Forgets, Moves
      <4>. QED  BY <4>1, <4>2, <1>1 DEF HasRole, Active, Here
    <3>2. CASE u = r.of
      <4>1. ~Stale(u)
          BY <3>0, <3>2, <1>2, <2>5
      <4>2. Cached(u) = Current(u)
          BY <4>1, <1>1, <2>5 DEF Stale
      <4>3. Cached(u) # None
          BY <1>1, <2>5, TenantSessionsAssumption DEF Cached, AdminInv, Types, CacheOk
      <4>4. Active(u) /\ Cached(u) = StateOf(row[u])
          BY <4>2, <4>3 DEF Current
      <4>5. HasRole(u, cache[u].role)
          BY <4>4 DEF HasRole, Cached, StateOf
      <4>. QED  BY <4>5, <1>1 DEF HasRole, Active, Here
    <3>. QED  BY <3>1, <3>2
  <2>6. ASSUME NEW q \in Requests, request'[q].op \in Managing
        PROVE  ManagerOk(request[q])'
    <3>1. q # p /\ request'[q] = request[q]
        BY <2>6, <1>1, IdleOk DEF Moves, Managing
    <3>2. ManagerOk(request'[q])
        BY <3>1, <2>1 DEF Safe
    <3>. QED  BY <3>2, <2>3, <1>1 DEF ManagerOk, HasRole, Active, Here, Spare
  <2>. QED  BY <2>4, <2>5, <2>6 DEF Safe, CacheIsTrue, ManagerOk
<1>. QED  BY <1>1, <1>3, <1>4 DEF AdminInv

-----------------------------------------------------------------------------
(* Signing in and password resets *)

LEMMA ReaderFields ==
    ASSUME NEW at, NEW op, NEW u, NEW x, NEW r,
           r \in {Reader(at, op, u), [Reader(at, op, u) EXCEPT !.pw = x],
                  [Reader(at, op, u) EXCEPT !.got = x], [Reader(at, op, u) EXCEPT !.to = x]}
    PROVE  /\ DOMAIN r = Fields /\ r.at = at /\ r.op = op /\ r.of = u /\ r.left = 0
           /\ r = [Reader(at, op, u) EXCEPT !.to = x] => r.to = x
<1>1. CASE r = Reader(at, op, u)
    BY <1>1 DEF Reader, Idle, Fields
<1>2. CASE r = [Reader(at, op, u) EXCEPT !.pw = x]
    BY <1>2 DEF Reader, Idle, Fields
<1>3. CASE r = [Reader(at, op, u) EXCEPT !.got = x]
    BY <1>3 DEF Reader, Idle, Fields
<1>4. CASE r = [Reader(at, op, u) EXCEPT !.to = x]
    BY <1>4 DEF Reader, Idle, Fields
<1>5. DOMAIN r = Fields /\ r.at = at /\ r.op = op /\ r.of = u /\ r.left = 0
    BY <1>1, <1>2, <1>3, <1>4
<1>6. r = [Reader(at, op, u) EXCEPT !.to = x] => r.to = x
    BY <1>4 DEF Reader, Idle
<1>. QED  BY <1>5, <1>6

LEMMA ReaderOk ==
    ASSUME NEW r, r.of \in Users, DOMAIN r = Fields, r.left = 0, r.op # "get",
           \/ r.at \in {"issue", "cookie", "mail"}
           \/ r.at = "totp" /\ r.op \in {"setup", "activate", "disable"}
           \/ r.at = "write" /\ (r.op \in {"link", "reset"} \/ (r.op = "create" /\ r.to = "operator"))
    PROVE  RequestOk(r)
BY DEF RequestOk

\* Requests that start with a read of the row.
LEMMA AdminReaders ==
    ASSUME AdminInv, NEW p \in Requests,
           \/ \E u \in Users : \/ Login(p, u) \/ TotpSetup(p, u) \/ TotpActivate(p, u) \/ TotpVerify(p, u)
                               \/ ConsoleReset(p, u) \/ ConsoleCreate(p, u)
                               \/ \E l \in links \cup {None} : Forgot(p, u, l)
           \/ \E t \in tokens : TotpDisable(p, t)
           \/ \E l \in links : UseLink(p, l)
    PROVE  AdminInv'
<1>1. UNCHANGED <<row, lastPw, cache, cause, muddled, tokens>> /\ links' \subseteq links
    BY DEF Login, TotpSetup, TotpActivate, TotpVerify, TotpRead, ConsoleReset, ConsoleCreate, ConsoleWrite, Forgot,
           TotpDisable, UseLink, numbers, history
<1>2. TokensOk' /\ LinksOk'
    BY <1>1 DEF TokensOk, LinksOk, AdminInv, Types
<1>3. ASSUME NEW r, Starts(p, r), RequestOk(r), r.op \notin Managing PROVE AdminInv'
    BY <1>1, <1>2, <1>3, OneStarts
<1>4. ASSUME NEW u \in Users, Login(p, u) PROVE AdminInv'
  <2>. DEFINE r == [Reader("issue", "login", u) EXCEPT !.pw = row[u].pw]
  <2>1. Starts(p, r)
      BY <1>4 DEF Login
  <2>2. DOMAIN r = Fields /\ r.at = "issue" /\ r.op = "login" /\ r.of = u /\ r.left = 0
      BY ReaderFields
  <2>. HIDE DEF r
  <2>. QED  BY <2>1, <2>2, <1>3, ReaderOk DEF Managing
<1>5. ASSUME NEW u \in Users, TotpSetup(p, u) PROVE AdminInv'
  <2>. DEFINE r == Reader("totp", "setup", u)
  <2>1. Starts(p, r)
      BY <1>5 DEF TotpSetup, TotpRead
  <2>2. DOMAIN r = Fields /\ r.at = "totp" /\ r.op = "setup" /\ r.of = u /\ r.left = 0
      BY ReaderFields
  <2>. HIDE DEF r
  <2>. QED  BY <2>1, <2>2, <1>3, ReaderOk DEF Managing
<1>10. ASSUME NEW u \in Users, TotpActivate(p, u) PROVE AdminInv'
  <2>. DEFINE r == Reader("totp", "activate", u)
  <2>1. Starts(p, r)
      BY <1>10 DEF TotpActivate, TotpRead
  <2>2. DOMAIN r = Fields /\ r.at = "totp" /\ r.op = "activate" /\ r.of = u /\ r.left = 0
      BY ReaderFields
  <2>. HIDE DEF r
  <2>. QED  BY <2>1, <2>2, <1>3, ReaderOk DEF Managing
<1>11. ASSUME NEW u \in Users, TotpVerify(p, u) PROVE AdminInv'
  <2>. DEFINE r == Reader("cookie", "verify", u)
  <2>1. Starts(p, r)
      BY <1>11 DEF TotpVerify, TotpRead
  <2>2. DOMAIN r = Fields /\ r.at = "cookie" /\ r.op = "verify" /\ r.of = u /\ r.left = 0
      BY ReaderFields
  <2>. HIDE DEF r
  <2>. QED  BY <2>1, <2>2, <1>3, ReaderOk DEF Managing
<1>6. ASSUME NEW u \in Users, ConsoleReset(p, u) \/ ConsoleCreate(p, u) PROVE AdminInv'
  <2>1. PICK op \in {"reset", "create"} : Starts(p, [Reader("write", op, u) EXCEPT !.to = "operator"])
      BY <1>6 DEF ConsoleReset, ConsoleCreate, ConsoleWrite
  <2>. DEFINE r == [Reader("write", op, u) EXCEPT !.to = "operator"]
  <2>2. DOMAIN r = Fields /\ r.at = "write" /\ r.op = op /\ r.of = u /\ r.left = 0 /\ r.to = "operator"
      BY ReaderFields
  <2>3. Starts(p, r)
      BY <2>1
  <2>. HIDE DEF r
  <2>. QED  BY <2>2, <2>3, <1>3, ReaderOk DEF Managing
<1>7. ASSUME NEW u \in Users, NEW l \in links \cup {None}, Forgot(p, u, l) PROVE AdminInv'
  <2>. DEFINE r == [Reader("mail", "forgot", u) EXCEPT !.got = l]
  <2>1. Starts(p, r)
      BY <1>7 DEF Forgot
  <2>2. DOMAIN r = Fields /\ r.at = "mail" /\ r.op = "forgot" /\ r.of = u /\ r.left = 0
      BY ReaderFields
  <2>. HIDE DEF r
  <2>. QED  BY <2>1, <2>2, <1>3, ReaderOk DEF Managing
<1>8. ASSUME NEW t \in tokens, TotpDisable(p, t) PROVE AdminInv'
  <2>. DEFINE r == Reader("totp", "disable", t.u)
  <2>1. Starts(p, r) /\ t.u \in Users
      BY <1>8 DEF TotpDisable, AdminInv, Types
  <2>2. DOMAIN r = Fields /\ r.at = "totp" /\ r.op = "disable" /\ r.of = t.u /\ r.left = 0
      BY ReaderFields
  <2>. HIDE DEF r
  <2>. QED  BY <2>1, <2>2, <1>3, ReaderOk DEF Managing
<1>9. ASSUME NEW l \in links, UseLink(p, l) PROVE AdminInv'
  <2>1. CASE Starts(p, [Reader("write", "link", l.u) EXCEPT !.got = l])
    <3>. DEFINE r == [Reader("write", "link", l.u) EXCEPT !.got = l]
    <3>1. l.u \in Users /\ Starts(p, r)
        BY <2>1 DEF AdminInv, Types
    <3>2. DOMAIN r = Fields /\ r.at = "write" /\ r.op = "link" /\ r.of = l.u /\ r.left = 0
        BY ReaderFields
    <3>. HIDE DEF r
    <3>. QED  BY <3>1, <3>2, <1>3, ReaderOk DEF Managing
  <2>2. CASE UNCHANGED request
      BY <2>2, <1>1, <1>2 DEF AdminInv, Types, Safe, OneManages, CacheIsTrue, ManagerOk, HasRole, Active, Here,
                              Admin, Spare, Forgets, TokensOk, LinksOk, RequestOk, CacheOk
  <2>. QED  BY <1>9, <2>1, <2>2 DEF UseLink
<1>. QED  BY <1>4, <1>5, <1>6, <1>7, <1>8, <1>9, <1>10, <1>11

\* Their later steps.
LEMMA AdminReadersEnd ==
    ASSUME AdminInv, NEW p \in Requests, Issue(p) \/ TotpCookie(p) \/ Mail(p) \/ Unlink(p)
    PROVE  AdminInv'
<1>. DEFINE r == request[p]
<1>1. /\ UNCHANGED <<row, lastPw, cache, cause, muddled>> /\ r.at \in {"issue", "cookie", "mail", "unlink"}
      /\ RequestOk(r)
    BY DEF Issue, TotpCookie, Mail, Unlink, bounds, history, AdminInv, Types
<1>2. CASE Issue(p) \/ TotpCookie(p)
  <2>1. links' = links /\ request' = Done(p)
      BY <1>2 DEF Issue, TotpCookie
  <2>2. r.op # "get" => TokensOk'
      BY <1>1, <1>2 DEF Issue, TotpCookie, TokensOk, AdminInv, Types, RequestOk
  <2>3. r.op # "get"
      BY <1>1 DEF RequestOk
  <2>4. LinksOk'
      BY <2>1 DEF LinksOk, AdminInv, Types
  <2>. QED  BY <2>1, <2>2, <2>3, <2>4, <1>1, OneEnds
<1>3. CASE Mail(p)
  <2>1. tokens' = tokens /\ request' = Done(p) /\ r.at = "mail"
        /\ links' = (links \ {r.got}) \cup {[id |-> lastLink', u |-> r.of, late |-> FALSE]}
      BY <1>3 DEF Mail
  <2>2. r.of \in Users
      BY <1>1, <2>1 DEF RequestOk
  <2>3. TokensOk' /\ LinksOk'
      BY <2>1, <2>2 DEF TokensOk, LinksOk, AdminInv, Types
  <2>. QED  BY <2>1, <2>3, <1>1, OneEnds
<1>4. CASE Unlink(p)
  <2>1. tokens' = tokens /\ request' = At(p, "forget") /\ links' \subseteq links
      BY <1>4 DEF Unlink
  <2>2. /\ Moves(p) /\ DOMAIN request'[p] = Fields /\ request'[p].at = "forget"
        /\ request'[p].op = r.op /\ request'[p].of = r.of /\ request'[p].left \in Nat
      BY <2>1, AtOk DEF AdminInv
  <2>3. RequestOk(request'[p])
      BY <2>2, <1>1 DEF RequestOk
  <2>4. TokensOk' /\ LinksOk'
      BY <2>1 DEF TokensOk, LinksOk, AdminInv, Types
  <2>. QED  BY <2>2, <2>3, <2>4, <1>1, OneMovesOn
<1>. QED  BY <1>2, <1>3, <1>4

\* A link that runs out changes what a request holds of it, and no state it holds.
LEMMA AdminLinkExpires ==
    ASSUME AdminInv, NEW l \in links, LinkExpires(l)
    PROVE  AdminInv'
<1>1. UNCHANGED <<row, lastPw, cache, cause, muddled, tokens>> /\ DOMAIN request' = Requests
    BY DEF LinkExpires, bounds, history
<1>2. ASSUME NEW p \in Requests
      PROVE  /\ DOMAIN request'[p] = Fields /\ request'[p].at = request[p].at /\ request'[p].op = request[p].op
             /\ request'[p].u = request[p].u /\ request'[p].of = request[p].of /\ request'[p].to = request[p].to
             /\ request'[p].left = request[p].left
             /\ request[p].at \in {"store", "in"} => request'[p].got = request[p].got
  <2>1. RequestOk(request[p]) /\ DOMAIN l = {"id", "u", "late"}
      BY DEF AdminInv, Types
  <2>2. request'[p] = IF request[p].got = l THEN [request[p] EXCEPT !.got.late = TRUE] ELSE request[p]
      BY DEF LinkExpires
  <2>3. request[p].at \in {"store", "in"} => request[p].got # l
      BY <2>1 DEF RequestOk, State
  <2>. QED  BY <2>1, <2>2, <2>3 DEF RequestOk, Fields
<1>3. \A p \in Requests : RequestOk(request'[p])
  <2>. TAKE p \in Requests
  <2>1. RequestOk(request[p])
      BY DEF AdminInv, Types
  <2>. QED  BY <1>2, <2>1 DEF RequestOk
<1>4. LinksOk'
  <2>1. [l EXCEPT !.late = TRUE].u \in Users /\ DOMAIN [l EXCEPT !.late = TRUE] = {"id", "u", "late"}
      BY DEF AdminInv, Types
  <2>2. links' = (links \ {l}) \cup {[l EXCEPT !.late = TRUE]}
      BY DEF LinkExpires
  <2>. QED  BY <2>1, <2>2 DEF LinksOk, AdminInv, Types
<1>5. Types'
    BY <1>1, <1>3, <1>4 DEF Types, AdminInv, LinksOk, RequestOk, CacheOk, Fields
<1>6. ASSUME ~muddled PROVE Safe'
  <2>1. Safe
      BY <1>6 DEF AdminInv
  <2>2. (\E u \in Users : Admin(u))' /\ OneManages' /\ CacheIsTrue'
      BY <2>1, <1>1, <1>2 DEF Safe, OneManages, CacheIsTrue, Forgets, HasRole, Admin, Active, Here
  <2>3. (\A p \in Requests : ManagerOk(request[p]))'
      BY <2>1, <1>1, <1>2 DEF Safe, ManagerOk, Spare, HasRole, Admin, Active, Here
  <2>. QED  BY <2>2, <2>3 DEF Safe
<1>. QED  BY <1>1, <1>5, <1>6 DEF AdminInv

-----------------------------------------------------------------------------
(* Time, the console and the tenant *)

LEMMA AdminTick ==
    ASSUME AdminInv, Tick
    PROVE  AdminInv'
<1>1. UNCHANGED <<row, lastPw, tokens, links, muddled>> /\ DOMAIN request' = Requests
      /\ DOMAIN cache' = Users /\ DOMAIN cause' = Users
    BY DEF Tick, bounds
<1>2. ASSUME NEW p \in Requests
      PROVE  /\ RequestOk(request'[p]) /\ request'[p].at = request[p].at /\ request'[p].op = request[p].op
             /\ request'[p].u = request[p].u /\ request'[p].of = request[p].of /\ request'[p].got = request[p].got
  <2>1. RequestOk(request[p])
      BY DEF AdminInv, Types
  <2>2. request'[p] = [request[p] EXCEPT !.left = IF request[p].left > 0 THEN request[p].left - 1 ELSE 0]
      BY DEF Tick
  <2>3. /\ DOMAIN request'[p] = Fields /\ request'[p].at = request[p].at /\ request'[p].op = request[p].op
        /\ request'[p].u = request[p].u /\ request'[p].of = request[p].of /\ request'[p].got = request[p].got
        /\ request'[p].to = request[p].to /\ request'[p].left \in Nat
      BY <2>1, <2>2 DEF RequestOk, Fields
  <2>. QED  BY <2>1, <2>3 DEF RequestOk
<1>3. ASSUME NEW u \in Users, cache'[u] # None
      PROVE  cache[u] # None /\ CacheOk(cache'[u]) /\ cache'[u].role = cache[u].role /\ cause'[u] = cause[u]
  <2>1. cache[u] # None /\ cache'[u] = [cache[u] EXCEPT !.left = @ - 1] /\ cause'[u] = cause[u]
      BY <1>3 DEF Tick
  <2>2. CacheOk(cache[u])
      BY <2>1 DEF AdminInv, Types
  <2>. QED  BY <2>1, <2>2 DEF CacheOk
<1>4. Types'
    BY <1>1, <1>2, <1>3 DEF Types, AdminInv, RequestOk, CacheOk, Fields
<1>5. ASSUME ~muddled PROVE Safe'
  <2>1. Safe
      BY <1>5 DEF AdminInv
  <2>2. (\E u \in Users : Admin(u))' /\ OneManages' /\ CacheIsTrue'
      BY <2>1, <1>1, <1>2, <1>3 DEF Safe, OneManages, CacheIsTrue, Forgets, HasRole, Admin, Active, Here
  <2>3. (\A p \in Requests : ManagerOk(request[p]))'
      BY <2>1, <1>1, <1>2 DEF Safe, ManagerOk, Spare, HasRole, Admin, Active, Here
  <2>. QED  BY <2>2, <2>3 DEF Safe
<1>. QED  BY <1>1, <1>4, <1>5 DEF AdminInv

\* The console may take the last administrator away, which the history notes.
LEMMA AdminConsole ==
    ASSUME AdminInv, NEW u \in Users, ConsoleDelete(u) \/ \E to \in Tos : ConsoleUpdate(u, to)
    PROVE  AdminInv'
<1>1. /\ UNCHANGED <<lastPw, cache, tokens, links, request>> /\ muddled' = TRUE /\ DOMAIN cause' = Users
    BY DEF ConsoleDelete, ConsoleUpdate, Console, numbers
<1>2. row' \in [Users -> {None} \cup Rows]
  <2>1. CASE ConsoleDelete(u)
      BY <2>1 DEF ConsoleDelete, Console, AdminInv, Types
  <2>2. ASSUME NEW to \in Tos, ConsoleUpdate(u, to) PROVE row' \in [Users -> {None} \cup Rows]
    <3>1. row[u] \in Rows /\ row' = [row EXCEPT ![u] = Updated(row[u], to)]
        BY <2>2 DEF ConsoleUpdate, Console, Here, AdminInv, Types
    <3>2. Updated(row[u], to) \in Rows
        BY <3>1, RowChanges DEF Updated, Tos, Roles
    <3>. QED  BY <3>1, <3>2 DEF AdminInv, Types
  <2>. QED  BY <2>1, <2>2
<1>. QED  BY <1>1, <1>2 DEF AdminInv, Types, RequestOk, CacheOk

\* A tenant that is suspended or active again leaves its rows.
LEMMA AdminChangeTenant ==
    ASSUME AdminInv, ChangeTenant
    PROVE  AdminInv'
<1>1. UNCHANGED <<row, lastPw, cache, tokens, links, request, muddled>> /\ DOMAIN cause' = Users
    BY DEF ChangeTenant, numbers
<1>2. Types'
    BY <1>1 DEF AdminInv, Types, RequestOk, CacheOk
<1>3. ASSUME ~muddled PROVE Safe'
  <2>1. Safe
      BY <1>3 DEF AdminInv
  <2>2. \A u \in Users : \A role : HasRole(u, role)' <=> HasRole(u, role)
      BY <1>1 DEF HasRole, Active, Here
  <2>3. ASSUME NEW u \in Users, cache[u] # None, cause'[u] = None
        PROVE  HasRole(u, cache[u].role) \/ Forgets(u)
    <3>. DEFINE state == [role |-> cache[u].role, pw |-> cache[u].pw]
    <3>1. CASE cause[u] = None
        BY <3>1, <2>1, <2>3 DEF Safe, CacheIsTrue
    <3>2. CASE cause[u] # None
      <4>1. Current(u)' = state
          BY <3>2, <2>3, TenantSessionsAssumption DEF ChangeTenant, Causes, Cached
      <4>2. state # None /\ state.role = cache[u].role
          BY <2>3, TenantSessionsAssumption DEF AdminInv, Types, CacheOk
      <4>. HIDE DEF state
      <4>3. Active(u)' /\ StateOf(row[u])' = state
          BY <4>1, <4>2 DEF Current
      <4>. QED  BY <4>2, <4>3, <1>1 DEF StateOf, HasRole, Active, Here
    <3>. QED  BY <3>1, <3>2
  <2>4. (\E u \in Users : Admin(u))' /\ OneManages' /\ CacheIsTrue'
      BY <2>1, <2>3, <1>1 DEF Safe, OneManages, CacheIsTrue, Forgets, HasRole, Admin, Active, Here
  <2>5. (\A p \in Requests : ManagerOk(request[p]))'
      BY <2>1, <1>1 DEF Safe, ManagerOk, Spare, HasRole, Admin, Active, Here
  <2>. QED  BY <2>4, <2>5 DEF Safe
<1>. QED  BY <1>1, <1>2, <1>3 DEF AdminInv

-----------------------------------------------------------------------------
LEMMA AdminPortal ==
    ASSUME AdminInv, NEW p \in Requests, NEW t \in tokens,
           \/ GetMe(p, t) \/ ChangePassword(p, t)
           \/ \E v \in Users : \/ DeleteUser(p, t, v) \/ ResetUserPassword(p, t, v) \/ CreateUser(p, t, v)
                               \/ \E to \in Tos : UpdateUser(p, t, v, to)
    PROVE  AdminInv'
<1>1. CASE GetMe(p, t) \/ ChangePassword(p, t)
  <2>1. t.u \in Users
      BY DEF AdminInv, Types
  <2>2. CASE GetMe(p, t)
      BY <2>2, AdminBegin DEF GetMe
  <2>3. CASE ChangePassword(p, t)
      BY <2>1, <2>3, AdminBegin DEF ChangePassword
  <2>. QED  BY <1>1, <2>2, <2>3
<1>2. ASSUME NEW v \in Users, DeleteUser(p, t, v) PROVE AdminInv'
    BY <1>2, AdminBegin DEF DeleteUser
<1>3. ASSUME NEW v \in Users, ResetUserPassword(p, t, v) PROVE AdminInv'
    BY <1>3, AdminBegin DEF ResetUserPassword
<1>4. ASSUME NEW v \in Users, CreateUser(p, t, v) PROVE AdminInv'
    BY <1>4, AdminBegin DEF CreateUser
<1>5. ASSUME NEW v \in Users, NEW to \in Tos, UpdateUser(p, t, v, to) PROVE AdminInv'
    BY <1>5, AdminBegin DEF UpdateUser
<1>. QED  BY <1>1, <1>2, <1>3, <1>4, <1>5

LEMMA AdminNext == AdminInv /\ [Next]_vars => AdminInv'
<1>. SUFFICES ASSUME AdminInv, [Next]_vars PROVE AdminInv'
    OBVIOUS
<1>1. ASSUME NEW p \in Requests, NEW t \in tokens,
             \/ GetMe(p, t) \/ ChangePassword(p, t)
             \/ \E v \in Users : \/ DeleteUser(p, t, v) \/ ResetUserPassword(p, t, v) \/ CreateUser(p, t, v)
                                 \/ \E to \in Tos : UpdateUser(p, t, v, to)
      PROVE  AdminInv'
    BY <1>1, AdminPortal
<1>2. ASSUME NEW p \in Requests, NEW t \in tokens, TotpDisable(p, t) PROVE AdminInv'
    BY <1>2, AdminReaders
<1>3. ASSUME NEW p \in Requests, NEW u \in Users,
             \/ Login(p, u) \/ TotpSetup(p, u) \/ TotpActivate(p, u) \/ TotpVerify(p, u)
             \/ ConsoleReset(p, u) \/ ConsoleCreate(p, u) \/ \E l \in links \cup {None} : Forgot(p, u, l)
      PROVE  AdminInv'
    BY <1>3, AdminReaders
<1>4. ASSUME NEW p \in Requests, NEW l \in links, UseLink(p, l) PROVE AdminInv'
    BY <1>4, AdminReaders
<1>5. ASSUME NEW p \in Requests, Write(p) PROVE AdminInv'
    BY <1>5, AdminWriteOther, AdminWriteManaging
<1>6. ASSUME NEW p \in Requests,
             \/ Fetch(p) \/ Store(p) \/ Get(p) \/ CheckPassword(p) \/ Permit(p) \/ PermitAdmin(p)
             \/ Forget(p) \/ Issue(p) \/ TotpSet(p) \/ TotpCookie(p) \/ Mail(p) \/ Unlink(p) \/ CommitFails(p)
      PROVE  AdminInv'
    BY <1>6, AdminFetch, AdminStore, AdminHandlers, AdminForget, AdminTotpSet, AdminReadersEnd, AdminCommitFails
<1>7. ASSUME NEW l \in links, LinkExpires(l) PROVE AdminInv'
    BY <1>7, AdminLinkExpires
<1>8. ASSUME NEW u \in Users, ConsoleDelete(u) \/ \E to \in Tos : ConsoleUpdate(u, to) PROVE AdminInv'
    BY <1>8, AdminConsole
<1>9. CASE Tick \/ ChangeTenant
    BY <1>9, AdminTick, AdminChangeTenant
<1>10. CASE UNCHANGED <<row, lastPw, cache, cause, tokens, links, request, muddled>>
    BY <1>10 DEF AdminInv, Types, Safe, OneManages, CacheIsTrue, ManagerOk, HasRole, Active, Here,
                 Admin, Spare, Forgets, RequestOk, CacheOk
<1>11. CASE ChangeMfa \/ UNCHANGED vars
    BY <1>10, <1>11 DEF ChangeMfa, vars, bounds, numbers, history
<1>. QED  BY <1>1, <1>2, <1>3, <1>4, <1>5, <1>6, <1>7, <1>8, <1>9, <1>11 DEF Next, Tos

\* Disabling, demoting and deleting users from the portal, whatever handlers run meanwhile,
\* leaves the tenant an active administrator, as long as no two such calls overlap, each
\* finds the session it acts for up to date, and the console changes no user
\* (update_user, delete_user, _forbid_operator_on_admin, require_tenant_session).
THEOREM AdminAlwaysRemains == Spec => []AdminRemains
<1>1. AdminInv => AdminRemains
    BY DEF AdminInv, Safe, AdminRemains, Admin
<1>. QED  BY AdminInit, AdminNext, <1>1, PTL DEF Spec

-----------------------------------------------------------------------------
(* Stale entries of the cache *)

\* Request p is going to drop the cached entry of u.
Drops(p, u) == request[p].of = u /\ request[p].at \in {"unlink", "forget"}
DropsKept == \A p \in Requests, u \in Users : Drops(p, u) => Drops(p, u)'

\* A step that touches neither the cache nor what the database says of a user.
LEMMA StaleKept ==
    ASSUME StaleHasCause, UNCHANGED <<cache, cause>>, DropsKept,
           \A u \in Users : Current(u)' = Current(u)
    PROVE  StaleHasCause'
BY DEF StaleHasCause, Stale, Cached, DropsKept, Drops

\* Every step of a request but forget_session leaves the drops that are due.
LEMMA DropsStay ==
    ASSUME Types, NEW p \in Requests, Moves(p), request[p].at \notin {"unlink", "forget"}
    PROVE  DropsKept
BY DEF DropsKept, Drops, Moves

\* No row and no status of the tenant changes.
LEMMA StaleRows ==
    ASSUME StaleHasCause, UNCHANGED <<cache, cause, row, tenantOn>>, DropsKept
    PROVE  StaleHasCause'
<1>1. \A u \in Users : Current(u)' = Current(u)
  BY DEF Current, Active, Here, StateOf
<1>. QED  BY <1>1, StaleKept

\* A request starts.
LEMMA StaleStarts ==
    ASSUME Types, StaleHasCause, NEW p \in Requests, NEW r, Starts(p, r),
           UNCHANGED <<cache, cause, row, tenantOn>>
    PROVE  StaleHasCause'
<1>1. Moves(p) /\ request[p].at = "idle"
  BY DEF Starts, Busy, Moves, Types
<1>. QED  BY <1>1, DropsStay, StaleRows

LEMMA StaleBegin ==
    ASSUME Types, StaleHasCause, NEW p \in Requests, NEW t, NEW op, NEW v, NEW to,
           Begin(p, t, op, v, to)
    PROVE  StaleHasCause'
<1>1. /\ UNCHANGED <<cache, cause, row, tenantOn>> /\ request[p].at = "idle" /\ Moves(p)
  BY DEF Begin, Busy, Moves, Types
<1>. QED  BY <1>1, DropsStay, StaleRows

\* The steps that read, and those that write something else.
LEMMA StaleReads ==
    ASSUME Types, StaleHasCause, NEW p \in Requests,
           \/ Fetch(p) \/ Get(p) \/ CheckPassword(p) \/ Permit(p) \/ PermitAdmin(p)
           \/ Issue(p) \/ TotpCookie(p) \/ Mail(p) \/ Unlink(p)
    PROVE  StaleHasCause'
<1>1. UNCHANGED <<cache, cause, row, tenantOn>>
  BY DEF Fetch, Get, CheckPassword, Permit, PermitAdmin, Reads, Issue, TotpCookie, Mail, Unlink, history
<1>2. CASE Unlink(p)
  <2>1. Moves(p) /\ request'[p].at = "forget" /\ request'[p].of = request[p].of
    BY <1>2, AtOk DEF Unlink
  <2>. QED  BY <2>1, <1>1, StaleRows DEF DropsKept, Drops, Moves
<1>3. CASE \/ Fetch(p) \/ Get(p) \/ CheckPassword(p) \/ Permit(p) \/ PermitAdmin(p)
           \/ Issue(p) \/ TotpCookie(p) \/ Mail(p)
  <2>1. request[p].at \in {"fetch", "in", "issue", "cookie", "mail"}
    BY <1>3 DEF Fetch, Get, CheckPassword, Permit, PermitAdmin, Issue, TotpCookie, Mail
  <2>2. Moves(p)
    BY <1>3 DEF Fetch, Get, CheckPassword, Permit, PermitAdmin, Issue, TotpCookie, Mail,
                Done, GoesOn, Moves, Types
  <2>. QED  BY <2>1, <2>2, <1>1, DropsStay, StaleRows
<1>. QED  BY <1>2, <1>3

\* What is stored is marked if the row has moved on since it was read.
LEMMA StaleStore ==
    ASSUME Types, StaleHasCause, NEW p \in Requests, Store(p)
    PROVE  StaleHasCause'
<1>. DEFINE r == request[p]
<1>1. /\ r.at = "store" /\ UNCHANGED <<row, tenantOn>> /\ Moves(p) /\ r.u \in Users
      /\ r.got \in State /\ DOMAIN cache = Users /\ DOMAIN cause = Users
  BY DEF Store, Moves, Types, RequestOk
<1>2. DropsKept
  BY <1>1, DropsStay
<1>3. \A u \in Users : Current(u)' = Current(u)
  BY <1>1 DEF Current, Active, Here, StateOf
<1>4. ASSUME NEW u \in Users, u # r.u PROVE cache'[u] = cache[u] /\ cause'[u] = cause[u]
  BY <1>1, <1>4 DEF Store
<1>5. CASE Left(p) = 0
  <2>1. cache'[r.u] = None
    BY <1>1, <1>5 DEF Store
  <2>. QED  BY <2>1, <1>1, <1>2, <1>3, <1>4 DEF StaleHasCause, Stale, Cached, DropsKept, Drops
<1>6. CASE Left(p) # 0
  <2>1. cache'[r.u] = [role |-> r.got.role, pw |-> r.got.pw, left |-> Left(p)]
    BY <1>1, <1>6 DEF Store
  <2>2. [role |-> cache'[r.u].role, pw |-> cache'[r.u].pw] = r.got
    BY <2>1, <1>1 DEF State
  <2>3. Left(p) > 0
    BY <1>6 DEF Left, Types, RequestOk
  <2>4. r.got # Current(r.u) => cause'[r.u] = "overtaken"
    BY <2>3, <1>1 DEF Store
  <2>5. "overtaken" # None
    BY TenantSessionsAssumption DEF Causes
  <2>6. ASSUME NEW u \in Users, cache'[u] # None,
               [role |-> cache'[u].role, pw |-> cache'[u].pw] # Current(u)'
        PROVE  cause'[u] # None \/ \E q \in Requests : Drops(q, u)'
    <3>1. CASE u = r.u
      BY <3>1, <2>2, <2>4, <2>5, <2>6, <1>3
    <3>2. CASE u # r.u
      BY <3>2, <2>6, <1>2, <1>3, <1>4 DEF StaleHasCause, Stale, Cached, DropsKept, Drops
    <3>. QED  BY <3>1, <3>2
  <2>. QED  BY <2>6 DEF StaleHasCause, Stale, Cached, Drops
<1>. QED  BY <1>5, <1>6

\* A handler that changed a row has its entry to drop.
LEMMA StaleWrite ==
    ASSUME AdminInv, StaleHasCause, NEW p \in Requests, Write(p)
    PROVE  StaleHasCause'
<1>. DEFINE r == request[p]  v == r.of
<1>1. /\ Moves(p) /\ r.at = "write" /\ RequestOk(r) /\ UNCHANGED <<cache, cause>>
      /\ DOMAIN row = Users /\ tenantOn' = tenantOn
  BY AfterWrite DEF Write, AdminInv, Types
<1>2. /\ v \in Users /\ DropsKept /\ r.op \in {"change", "reset", "link", "create", "update", "delete"}
  BY <1>1, DropsStay DEF RequestOk, AdminInv
<1>3. ASSUME NEW u \in Users, u # v PROVE row'[u] = row[u]
  BY <1>1, <1>2, <1>3 DEF Write
<1>4. ASSUME NEW u \in Users, u # v PROVE Current(u)' = Current(u)
  BY <1>1, <1>3, <1>4 DEF Current, Active, Here, StateOf
<1>5. CASE UNCHANGED row
  <2>1. \A u \in Users : Current(u)' = Current(u)
    BY <1>1, <1>5 DEF Current, Active, Here, StateOf
  <2>. QED  BY <2>1, <1>1, <1>2, StaleKept
<1>6. CASE r.op = "create" /\ ~Here(v)
  <2>1. Current(v) = None
    BY <1>6 DEF Current, Active
  <2>2. cache[v] # None => [role |-> cache[v].role, pw |-> cache[v].pw] # None
    BY <1>2, TenantSessionsAssumption DEF AdminInv, Types, CacheOk
  <2>. QED  BY <2>1, <2>2, <1>1, <1>2, <1>4 DEF StaleHasCause, Stale, Cached, DropsKept, Drops
<1>7. CASE r.op # "create" /\ Here(v)
  <2>1. request'[p].at \in {"unlink", "forget"} /\ request'[p].of = v
    BY <1>1, <1>2, <1>7 DEF Write, NextStep, RequestOk, Fields, AdminInv, Types
  <2>2. ASSUME NEW u \in Users, u # v, cache'[u] # None,
               [role |-> cache'[u].role, pw |-> cache'[u].pw] # Current(u)'
        PROVE  cause'[u] # None \/ \E q \in Requests : Drops(q, u)'
    BY <2>2, <1>1, <1>2, <1>4 DEF StaleHasCause, Stale, Cached, DropsKept, Drops
  <2>3. ASSUME NEW u \in Users, cache'[u] # None,
               [role |-> cache'[u].role, pw |-> cache'[u].pw] # Current(u)'
        PROVE  cause'[u] # None \/ \E q \in Requests : Drops(q, u)'
    <3>1. CASE u = v
      <4>1. Drops(p, u)'
        BY <2>1, <3>1 DEF Drops
      <4>. QED  BY <4>1
    <3>. QED  BY <2>2, <2>3, <3>1
  <2>. QED  BY <2>3 DEF StaleHasCause, Stale, Cached, Drops
<1>. QED  BY <1>5, <1>6, <1>7 DEF Write

LEMMA StaleForget ==
    ASSUME Types, StaleHasCause, NEW p \in Requests, Forget(p)
    PROVE  StaleHasCause'
<1>. DEFINE r == request[p]
<1>1. r.at = "forget" /\ UNCHANGED <<row, tenantOn>> /\ Moves(p)
  BY DEF Forget, Done, Moves, Types
<1>2. \A u \in Users : Current(u)' = Current(u)
  BY <1>1 DEF Current, Active, Here, StateOf
<1>3. ASSUME NEW u \in Users, cache'[u] # None
      PROVE  u # r.of /\ cache'[u] = cache[u] /\ cause'[u] = cause[u]
  BY <1>3 DEF Forget, Types
<1>4. ASSUME NEW u \in Users, u # r.of, NEW q \in Requests, Drops(q, u)
      PROVE  Drops(q, u)'
  BY <1>1, <1>4 DEF Moves, Drops
<1>. QED  BY <1>2, <1>3, <1>4 DEF StaleHasCause, Stale, Cached, Drops

\* A handler that does not reach forget_session marks the entry if it is stale.
LEMMA StaleCommitFails ==
    ASSUME Types, StaleHasCause, NEW p \in Requests, CommitFails(p)
    PROVE  StaleHasCause'
<1>. DEFINE r == request[p]
<1>1. UNCHANGED <<row, tenantOn, cache>> /\ Moves(p)
  BY DEF CommitFails, Done, Moves, Types
<1>2. \A u \in Users : Current(u)' = Current(u)
  BY <1>1 DEF Current, Active, Here, StateOf
<1>3. \A u \in Users : Stale(u)' <=> Stale(u)
  BY <1>1, <1>2 DEF Stale, Cached
<1>4. ASSUME NEW u \in Users, Stale(u), u # r.of
      PROVE  cause'[u] # None \/ \E q \in Requests : Drops(q, u)'
  <2>1. cause'[u] = cause[u]
    BY <1>4 DEF CommitFails, Types
  <2>2. \A q \in Requests : Drops(q, u) => Drops(q, u)'
    BY <1>1, <1>4 DEF Moves, Drops
  <2>3. cause[u] # None \/ \E q \in Requests : Drops(q, u)
    BY <1>4 DEF StaleHasCause, Drops
  <2>. QED  BY <2>1, <2>2, <2>3
<1>5. ASSUME NEW u \in Users, Stale(u), u = r.of PROVE cause'[u] # None
  <2>1. cause'[u] = "unanswered"
    BY <1>5 DEF CommitFails, Types
  <2>2. "unanswered" # None
    BY TenantSessionsAssumption DEF Causes
  <2>. QED  BY <2>1, <2>2
<1>6. ASSUME NEW u \in Users, Stale(u) PROVE cause'[u] # None \/ \E q \in Requests : Drops(q, u)'
  BY <1>4, <1>5, <1>6
<1>. QED  BY <1>3, <1>6 DEF StaleHasCause, Drops

\* The second factor is no part of what is cached.
LEMMA StaleTotpSet ==
    ASSUME Types, StaleHasCause, NEW p \in Requests, TotpSet(p)
    PROVE  StaleHasCause'
<1>. DEFINE r == request[p]  v == r.of
<1>1. /\ r.at = "totp" /\ r.op \in {"setup", "activate", "disable"} /\ v \in Users
      /\ UNCHANGED <<tenantOn, cache, cause>>
  BY DEF TotpSet, Types, RequestOk
<1>2. Moves(p)
  BY DEF TotpSet, At, Done, Moves, Types
<1>3. CASE ~Here(v)
  BY <1>1, <1>2, <1>3, DropsStay, StaleRows DEF TotpSet
<1>4. CASE Here(v)
  <2>1. row[v] \in Rows /\ row' = [row EXCEPT ![v] = TotpWrite(r.op, row[v])]
    BY <1>1, <1>4 DEF TotpSet, Here, Types
  <2>2. LET y == TotpWrite(r.op, row[v])
        IN  y \in Rows /\ y.role = row[v].role /\ y.pw = row[v].pw /\ y.active = row[v].active
    BY <2>1, <1>1 DEF TotpWrite, Rows
  <2>3. row'[v] = TotpWrite(r.op, row[v]) /\ \A u \in Users \ {v} : row'[u] = row[u]
    BY <2>1, <1>1 DEF Types
  <2>4. row'[v] # None
    BY <2>2, <2>3, TenantSessionsAssumption
  <2>5. \A u \in Users : Current(u)' = Current(u)
    BY <2>2, <2>3, <2>4, <1>1, <1>4 DEF Current, Active, Here, StateOf
  <2>. QED  BY <2>5, <1>1, <1>2, DropsStay, StaleKept
<1>. QED  BY <1>3, <1>4

LEMMA StaleTick ==
    ASSUME Types, StaleHasCause, Tick
    PROVE  StaleHasCause'
<1>1. \A u \in Users : Current(u)' = Current(u)
  BY DEF Tick, Current, Active, Here, StateOf
<1>2. DropsKept
  <2>1. \A q \in Requests : request'[q] = [request[q] EXCEPT !.left = IF @ > 0 THEN @ - 1 ELSE 0]
    BY DEF Tick
  <2>2. \A q \in Requests : request'[q].of = request[q].of /\ request'[q].at = request[q].at
    BY <2>1 DEF Types, RequestOk, Fields
  <2>. QED  BY <2>2 DEF DropsKept, Drops
<1>3. ASSUME NEW u \in Users, cache'[u] # None
      PROVE  /\ cache[u] # None /\ cause'[u] = cause[u]
             /\ cache'[u].role = cache[u].role /\ cache'[u].pw = cache[u].pw
  <2>1. cache[u] # None /\ cache'[u] = [cache[u] EXCEPT !.left = @ - 1] /\ cause'[u] = cause[u]
    BY <1>3 DEF Tick
  <2>2. CacheOk(cache[u])
    BY <2>1 DEF Types
  <2>. QED  BY <2>1, <2>2 DEF CacheOk
<1>. QED  BY <1>1, <1>2, <1>3 DEF StaleHasCause, Stale, Cached, DropsKept, Drops

LEMMA StaleLinkExpires ==
    ASSUME Types, StaleHasCause, NEW l \in links, LinkExpires(l)
    PROVE  StaleHasCause'
<1>1. \A q \in Requests : request'[q].of = request[q].of /\ request'[q].at = request[q].at
  BY DEF LinkExpires, Types, RequestOk, Fields
<1>. QED  BY <1>1, StaleRows DEF LinkExpires, history, DropsKept, Drops

\* The console notes the entries it leaves behind.
LEMMA StaleConsole ==
    ASSUME Types, StaleHasCause, NEW u \in Users,
           ConsoleDelete(u) \/ \E to \in Tos : ConsoleUpdate(u, to)
    PROVE  StaleHasCause'
<1>1. /\ UNCHANGED <<cache, request, tenantOn>>
      /\ cause' = [w \in Users |-> IF cache[w] # None /\ row'[w] # row[w] THEN "console" ELSE cause[w]]
  BY DEF ConsoleDelete, ConsoleUpdate, Console
<1>2. ASSUME NEW w \in Users, row'[w] = row[w] PROVE Current(w)' = Current(w)
  BY <1>1, <1>2 DEF Current, Active, Here, StateOf
<1>3. "console" # None
  BY TenantSessionsAssumption DEF Causes
<1>. QED  BY <1>1, <1>2, <1>3 DEF StaleHasCause, Stale, Cached

LEMMA StaleChangeTenant ==
    ASSUME Types, StaleHasCause, ChangeTenant
    PROVE  StaleHasCause'
<1>1. UNCHANGED <<cache, request, row>> /\ "tenant" # None
  BY TenantSessionsAssumption DEF ChangeTenant, Causes
<1>2. ASSUME NEW u \in Users, cache[u] # None,
             [role |-> cache[u].role, pw |-> cache[u].pw] # Current(u)'
      PROVE  cause'[u] # None \/ \E p \in Requests : Drops(p, u)
  <2>1. CASE tenantOn
    BY <2>1, <1>1, <1>2 DEF ChangeTenant
  <2>2. CASE ~tenantOn
    <3>1. Current(u) = None
      BY <2>2 DEF Current
    <3>2. [role |-> cache[u].role, pw |-> cache[u].pw] # None
      BY <1>2, TenantSessionsAssumption DEF Types, CacheOk
    <3>3. cause'[u] = cause[u]
      BY <2>2, <1>2 DEF ChangeTenant, Cached
    <3>. QED  BY <3>1, <3>2, <3>3, <1>2 DEF StaleHasCause, Stale, Cached, Drops
  <2>. QED  BY <2>1, <2>2
<1>. QED  BY <1>1, <1>2 DEF StaleHasCause, Stale, Cached, Drops

LEMMA StaleNext == AdminInv /\ StaleHasCause /\ [Next]_vars => StaleHasCause'
<1>. SUFFICES ASSUME AdminInv, StaleHasCause, [Next]_vars PROVE StaleHasCause'
  OBVIOUS
<1>0. Types
  BY DEF AdminInv
<1>1. ASSUME NEW p \in Requests, NEW t \in tokens,
             \/ GetMe(p, t) \/ ChangePassword(p, t)
             \/ \E v \in Users : \/ DeleteUser(p, t, v) \/ ResetUserPassword(p, t, v) \/ CreateUser(p, t, v)
                                 \/ \E to \in Tos : UpdateUser(p, t, v, to)
      PROVE  StaleHasCause'
  BY <1>0, <1>1, StaleBegin DEF GetMe, ChangePassword, DeleteUser, ResetUserPassword, CreateUser, UpdateUser
<1>2. ASSUME NEW p \in Requests, NEW t \in tokens, TotpDisable(p, t) PROVE StaleHasCause'
  BY <1>0, <1>2, StaleStarts DEF TotpDisable, history
<1>3. ASSUME NEW p \in Requests, NEW u \in Users,
             \/ Login(p, u) \/ TotpSetup(p, u) \/ TotpActivate(p, u) \/ TotpVerify(p, u)
             \/ ConsoleReset(p, u) \/ ConsoleCreate(p, u) \/ \E l \in links \cup {None} : Forgot(p, u, l)
      PROVE  StaleHasCause'
  BY <1>0, <1>3, StaleStarts DEF Login, TotpSetup, TotpActivate, TotpVerify, TotpRead, ConsoleReset,
                                 ConsoleCreate, ConsoleWrite, Forgot, history
<1>4. ASSUME NEW p \in Requests, NEW l \in links, UseLink(p, l) PROVE StaleHasCause'
  <2>1. CASE UNCHANGED request
    BY <1>4, <2>1, StaleRows DEF UseLink, history, DropsKept, Drops
  <2>. QED  BY <1>0, <1>4, <2>1, StaleStarts DEF UseLink, history
<1>5. ASSUME NEW p \in Requests,
             \/ Fetch(p) \/ Get(p) \/ CheckPassword(p) \/ Permit(p) \/ PermitAdmin(p)
             \/ Issue(p) \/ TotpCookie(p) \/ Mail(p) \/ Unlink(p)
      PROVE  StaleHasCause'
  BY <1>0, <1>5, StaleReads
<1>6. ASSUME NEW p \in Requests, Store(p) \/ Write(p) \/ Forget(p) \/ TotpSet(p) \/ CommitFails(p)
      PROVE  StaleHasCause'
  BY <1>0, <1>6, StaleStore, StaleWrite, StaleForget, StaleTotpSet, StaleCommitFails
<1>7. ASSUME NEW l \in links, LinkExpires(l) PROVE StaleHasCause'
  BY <1>0, <1>7, StaleLinkExpires
<1>8. ASSUME NEW u \in Users, ConsoleDelete(u) \/ \E to \in Tos : ConsoleUpdate(u, to) PROVE StaleHasCause'
  BY <1>0, <1>8, StaleConsole
<1>9. CASE Tick \/ ChangeTenant
  BY <1>0, <1>9, StaleTick, StaleChangeTenant
<1>10. CASE UNCHANGED <<cache, cause, row, tenantOn, request>>
  BY <1>10, StaleRows DEF DropsKept, Drops
<1>11. CASE ChangeMfa \/ UNCHANGED vars
  BY <1>10, <1>11 DEF ChangeMfa, vars, bounds, numbers, history
<1>. QED  BY <1>1, <1>2, <1>3, <1>4, <1>5, <1>6, <1>7, <1>8, <1>9, <1>11 DEF Next, Tos

\* For any number of users and of overlapping requests, a cached session differs from the
\* database only while the handler that changed the row is about to drop it, after a check
\* was overtaken, because the console or a suspension of the tenant left it, or because the
\* handler met an error between its change and forget_session
\* (tenant_session.py, require_tenant_session and forget_session; tenant_auth.py, reset_password).
THEOREM StaleAlwaysHasCause == Spec => []StaleHasCause
<1>1. Init => StaleHasCause
  BY DEF Init, StaleHasCause, Stale, Cached
<1>. QED  BY AdminInit, AdminNext, StaleNext, <1>1, PTL DEF Spec

-----------------------------------------------------------------------------
(* How old an accepted session is *)

\* A request that has still to set a password.
Waits(r) == r.op \in Setting /\ r.at \notin {"unlink", "forget"}
Waiting == {p \in Requests : Waits(request[p])}
RowsBelow == \A u \in Users : Here(u) => row[u].pw <= lastPw
NumbersOk == RowsBelow /\ lastPw \in Nat /\ lastPw + Cardinality(Waiting) <= MaxPw

\* The requests are finitely many, so that those of any kind can be counted.
LEMMA WaitingFinite ==
    /\ IsFiniteSet(Waiting) /\ Cardinality(Waiting) \in Nat
    /\ \A set : /\ IsFiniteSet({p \in Requests : request[p].op \in set}) /\ Pending(set) \in Nat
    /\ Cardinality(Waiting) <= Pending(Setting)
<1>1. IsFiniteSet(Requests)
  BY TenantSessionsAssumption
<1>2. IsFiniteSet(Waiting) /\ Cardinality(Waiting) \in Nat
  BY <1>1, FS_Subset, FS_CardinalityType DEF Waiting
<1>3. ASSUME NEW set PROVE IsFiniteSet({p \in Requests : request[p].op \in set}) /\ Pending(set) \in Nat
  BY <1>1, FS_Subset, FS_CardinalityType DEF Pending
<1>4. Waiting \subseteq {p \in Requests : request[p].op \in Setting}
  BY DEF Waiting, Waits
<1>. QED  BY <1>2, <1>3, <1>4, FS_Subset DEF Pending

\* No password is set and none is asked for.
LEMMA NumbersKept ==
    ASSUME NumbersOk, RowsBelow', lastPw' = lastPw, \A q \in Requests : Waits(request'[q]) => Waits(request[q])
    PROVE  NumbersOk'
<1>1. Waiting' \subseteq Waiting
  BY DEF Waiting, Waits
<1>2. Cardinality(Waiting') <= Cardinality(Waiting) /\ Cardinality(Waiting') \in Nat /\ Cardinality(Waiting) \in Nat
  BY <1>1, WaitingFinite, FS_Subset, FS_CardinalityType
<1>. QED  BY <1>2, TenantSessionsAssumption DEF NumbersOk

\* A step that leaves the rows leaves their passwords.
LEMMA RowsStay == ASSUME RowsBelow, UNCHANGED <<row, lastPw>> PROVE RowsBelow'
BY DEF RowsBelow, Here

\* A request that starts has its password counted.
LEMMA NumbersStart ==
    ASSUME NumbersOk, NEW p \in Requests, Moves(p), UNCHANGED <<row, lastPw>>,
           request'[p].op \in Setting => lastPw + Pending(Setting) < MaxPw
    PROVE  NumbersOk'
<1>1. RowsBelow'
  BY RowsStay DEF NumbersOk
<1>2. CASE request'[p].op \notin Setting
  <2>1. \A q \in Requests : Waits(request'[q]) => Waits(request[q])
    BY <1>2 DEF Waits, Moves
  <2>. QED  BY <1>1, <2>1, NumbersKept
<1>3. CASE request'[p].op \in Setting
  <2>1. Waiting' \subseteq Waiting \cup {p}
    BY DEF Waiting, Waits, Moves
  <2>2. IsFiniteSet(Waiting \cup {p}) /\ Cardinality(Waiting \cup {p}) <= Cardinality(Waiting) + 1
    <3>1. IsFiniteSet(Waiting) /\ Cardinality(Waiting) \in Nat
      BY WaitingFinite
    <3>2. IsFiniteSet(Waiting \cup {p}) /\ (Cardinality(Waiting \cup {p}) = Cardinality(Waiting) \/ Cardinality(Waiting \cup {p}) = Cardinality(Waiting) + 1)
      BY <3>1, FS_AddElement
    <3>. QED  BY <3>1, <3>2
  <2>3. Cardinality(Waiting') <= Cardinality(Waiting) + 1 /\ Cardinality(Waiting') \in Nat
    <3>1. Cardinality(Waiting') <= Cardinality(Waiting \cup {p}) /\ IsFiniteSet(Waiting')
      BY <2>1, <2>2, FS_Subset
    <3>2. Cardinality(Waiting') \in Nat /\ Cardinality(Waiting \cup {p}) \in Nat
      BY <2>2, <3>1, FS_CardinalityType
    <3>. QED  BY <2>2, <3>1, <3>2, WaitingFinite
  <2>4. Cardinality(Waiting) + 1 + lastPw <= MaxPw
    <3>1. lastPw + Pending(Setting) < MaxPw /\ lastPw \in Nat /\ MaxPw \in Nat
      BY <1>3, TenantSessionsAssumption DEF NumbersOk
    <3>2. Cardinality(Waiting) \in Nat /\ Pending(Setting) \in Nat /\ Cardinality(Waiting) <= Pending(Setting)
      BY WaitingFinite
    <3>. QED  BY <3>1, <3>2
  <2>. QED  BY <1>1, <2>3, <2>4, WaitingFinite, TenantSessionsAssumption DEF NumbersOk
<1>. QED  BY <1>2, <1>3

\* A password is set by a request that waited to.
LEMMA NumbersSet ==
    ASSUME NumbersOk, NEW p \in Requests, Moves(p), Waits(request[p]), ~Waits(request'[p]),
           lastPw' = lastPw + 1, RowsBelow'
    PROVE  NumbersOk'
<1>1. Waiting' \subseteq Waiting \ {p} /\ p \in Waiting
  BY DEF Waiting, Waits, Moves
<1>2. IsFiniteSet(Waiting \ {p}) /\ Cardinality(Waiting \ {p}) = Cardinality(Waiting) - 1
  BY <1>1, WaitingFinite, FS_RemoveElement
<1>3. Cardinality(Waiting') <= Cardinality(Waiting) - 1 /\ Cardinality(Waiting') \in Nat
  BY <1>1, <1>2, FS_Subset, FS_CardinalityType
<1>. QED  BY <1>3, WaitingFinite, TenantSessionsAssumption DEF NumbersOk

\* At the start every password is the first, and nobody has asked for another.
LEMMA NumbersInit == Init => NumbersOk
<1>. SUFFICES ASSUME Init PROVE NumbersOk
  OBVIOUS
<1>1. Waiting = {}
  <2>1. \A p \in Requests : request[p].op = "none"
    BY IdleOk DEF Init
  <2>. QED  BY <2>1 DEF Waiting, Waits, Setting
<1>2. RowsBelow
  <2>1. \A r \in Roles : Row(r, 0).pw = 0
    BY DEF Row
  <2>. QED  BY <2>1 DEF RowsBelow, Init, Here
<1>. QED  BY <1>1, <1>2, FS_EmptySet, TenantSessionsAssumption DEF NumbersOk, Init

\* The requests that start with a read of the row.
LEMMA ReadersStart ==
    ASSUME Types, NEW p \in Requests,
           \/ \E u \in Users : \/ Login(p, u) \/ TotpSetup(p, u) \/ TotpActivate(p, u) \/ TotpVerify(p, u)
                               \/ ConsoleReset(p, u) \/ ConsoleCreate(p, u)
                               \/ \E l \in links \cup {None} : Forgot(p, u, l)
           \/ \E t \in tokens : TotpDisable(p, t)
           \/ \E l \in links : UseLink(p, l)
    PROVE  /\ UNCHANGED <<row, lastPw, cache, ago, tenantOn>>
           /\ \/ UNCHANGED request
              \/ /\ Moves(p) /\ request[p].at = "idle" /\ Call(request'[p].op)
                 /\ request'[p].at \in {"issue", "totp", "cookie", "write", "mail"}
<1>1. UNCHANGED <<row, lastPw, cache, ago, tenantOn>>
  BY DEF Login, TotpSetup, TotpActivate, TotpVerify, TotpRead, ConsoleReset, ConsoleCreate, ConsoleWrite, Forgot,
         TotpDisable, UseLink, numbers, history
<1>2. ASSUME NEW r, Starts(p, r), r.at \in {"issue", "totp", "cookie", "write", "mail"}
      PROVE  /\ Moves(p) /\ request[p].at = "idle" /\ Call(request'[p].op)
             /\ request'[p].at \in {"issue", "totp", "cookie", "write", "mail"}
  <2>1. request'[p] = r /\ Moves(p) /\ request[p].at = "idle" /\ Call(r.op)
    BY <1>2 DEF Starts, Busy, Moves, Types
  <2>. QED  BY <1>2, <2>1
<1>3. ASSUME NEW u \in Users, Login(p, u)
      PROVE  \E r : Starts(p, r) /\ r.at \in {"issue", "totp", "cookie", "write", "mail"}
  <2>1. [Reader("issue", "login", u) EXCEPT !.pw = row[u].pw].at = "issue"
    BY ReaderFields
  <2>. QED  BY <1>3, <2>1 DEF Login
<1>4. ASSUME NEW u \in Users, TotpSetup(p, u) \/ TotpActivate(p, u) \/ TotpVerify(p, u)
      PROVE  \E r : Starts(p, r) /\ r.at \in {"issue", "totp", "cookie", "write", "mail"}
  <2>1. /\ Reader("totp", "setup", u).at = "totp" /\ Reader("totp", "activate", u).at = "totp"
        /\ Reader("cookie", "verify", u).at = "cookie"
    BY DEF Reader, Idle
  <2>. QED  BY <1>4, <2>1 DEF TotpSetup, TotpActivate, TotpVerify, TotpRead
<1>5. ASSUME NEW u \in Users, ConsoleReset(p, u) \/ ConsoleCreate(p, u)
      PROVE  \E r : Starts(p, r) /\ r.at \in {"issue", "totp", "cookie", "write", "mail"}
  <2>1. \A op : [Reader("write", op, u) EXCEPT !.to = "operator"].at = "write"
    BY ReaderFields
  <2>. QED  BY <1>5, <2>1 DEF ConsoleReset, ConsoleCreate, ConsoleWrite
<1>6. ASSUME NEW u \in Users, NEW l \in links \cup {None}, Forgot(p, u, l)
      PROVE  \E r : Starts(p, r) /\ r.at \in {"issue", "totp", "cookie", "write", "mail"}
  <2>1. [Reader("mail", "forgot", u) EXCEPT !.got = l].at = "mail"
    BY ReaderFields
  <2>. QED  BY <1>6, <2>1 DEF Forgot
<1>7. ASSUME NEW t \in tokens, TotpDisable(p, t)
      PROVE  \E r : Starts(p, r) /\ r.at \in {"issue", "totp", "cookie", "write", "mail"}
  <2>1. Reader("totp", "disable", t.u).at = "totp"
    BY DEF Reader, Idle
  <2>. QED  BY <1>7, <2>1 DEF TotpDisable
<1>8. ASSUME NEW l \in links, UseLink(p, l), ~UNCHANGED request
      PROVE  \E r : Starts(p, r) /\ r.at \in {"issue", "totp", "cookie", "write", "mail"}
  <2>1. [Reader("write", "link", l.u) EXCEPT !.got = l].at = "write"
    BY ReaderFields
  <2>. QED  BY <1>8, <2>1 DEF UseLink
<1>. QED  BY <1>1, <1>2, <1>3, <1>4, <1>5, <1>6, <1>7, <1>8

\* The steps after the start, but for those that touch a cached state.
LEMMA LaterSteps ==
    ASSUME Types, NEW p \in Requests,
           \/ Get(p) \/ CheckPassword(p) \/ Permit(p) \/ PermitAdmin(p) \/ Issue(p) \/ TotpSet(p) \/ TotpCookie(p)
           \/ Mail(p) \/ Unlink(p) \/ Forget(p) \/ CommitFails(p)
    PROVE  /\ Moves(p) /\ request[p].at # "idle" /\ UNCHANGED <<lastPw, ago, tenantOn>>
           /\ request[p].at \in {"unlink", "forget"} => request'[p].at \in {"forget", "idle"}
           /\ \/ request'[p] = Idle
              \/ request'[p].op = request[p].op /\ request'[p].at \in {"write", "cookie", "forget"}
<1>1. request[p].at # "idle" /\ UNCHANGED <<lastPw, ago, tenantOn>>
  BY DEF Get, CheckPassword, Permit, PermitAdmin, Reads, Issue, TotpSet, TotpCookie, Mail, Unlink, Forget, CommitFails, bounds
<1>2. CASE request' = Done(p)
  <2>1. Moves(p) /\ request'[p] = Idle
    BY <1>2 DEF Done, Moves, Types
  <2>. QED  BY <1>1, <2>1, IdleOk
<1>3. CASE request' = GoesOn(p) /\ request[p].at = "in"
  BY <1>1, <1>3, GoesOnOk
<1>4. CASE request' = At(p, "cookie") /\ request[p].at = "totp"
  BY <1>1, <1>4, AtOk
<1>5. CASE request' = At(p, "forget")
  BY <1>1, <1>5, AtOk
<1>. QED  BY <1>2, <1>3, <1>4, <1>5 DEF Get, CheckPassword, Permit, PermitAdmin, Issue, TotpSet, TotpCookie, Mail, Unlink, Forget, CommitFails

\* A request of the portal that starts.
LEMMA BeginStarts ==
    ASSUME Types, NEW p \in Requests, NEW t \in tokens,
           \/ GetMe(p, t) \/ ChangePassword(p, t)
           \/ \E v \in Users : \/ DeleteUser(p, t, v) \/ ResetUserPassword(p, t, v) \/ CreateUser(p, t, v)
                               \/ \E to \in Tos : UpdateUser(p, t, v, to)
    PROVE  /\ UNCHANGED <<row, lastPw, cache, ago, tenantOn>> /\ Moves(p) /\ request[p].at = "idle" /\ t.u \in Users
           /\ request'[p].op \in Setting => lastPw + Pending(Setting) < MaxPw
           /\ \/ request'[p] = Idle
              \/ /\ request'[p].at = "fetch" /\ request'[p].left = TTL
              \/ /\ request'[p].at = "in" /\ cache[t.u] # None /\ request'[p].u = t.u /\ request'[p].left = TTL
                 /\ request'[p].got = Cached(t.u)
<1>1. PICK op, v, to : Begin(p, t, op, v, to)
  BY DEF GetMe, ChangePassword, DeleteUser, ResetUserPassword, CreateUser, UpdateUser
<1>2. UNCHANGED <<row, lastPw, cache, ago, tenantOn>> /\ request[p].at = "idle" /\ t.u \in Users
  BY <1>1 DEF Begin, Busy, numbers, Types
<1>3. op \in Setting => lastPw + Pending(Setting) < MaxPw
  BY <1>1 DEF Begin, Call, Setting
<1>. DEFINE r == [Idle EXCEPT !.at = "fetch", !.op = op, !.u = t.u, !.pw = t.pw, !.of = v, !.to = to, !.left = TTL]
            state == Cached(t.u)
<1>4. r.at = "fetch" /\ r.op = op /\ r.u = t.u /\ r.left = TTL /\ DOMAIN r = Fields
  BY DEF Idle, Fields
<1>5. Moves(p) /\ request'[p] = IF cache[t.u] = None THEN r ELSE Answer(r, state)
  BY <1>1 DEF Begin, Moves, Types
<1>. HIDE DEF r, state
<1>6. Idle.op \notin Setting
  BY IdleOk DEF Setting
<1>7. CASE cache[t.u] = None
  BY <1>2, <1>3, <1>4, <1>5, <1>7
<1>8. CASE cache[t.u] # None /\ Answer(r, state) = Idle
  BY <1>2, <1>5, <1>6, <1>8
<1>9. CASE cache[t.u] # None /\ Answer(r, state) = [r EXCEPT !.at = "in", !.got = state]
  <2>1. /\ request'[p].at = "in" /\ request'[p].op = op /\ request'[p].u = t.u /\ request'[p].left = TTL
        /\ request'[p].got = state
    BY <1>4, <1>5, <1>9 DEF Fields
  <2>. QED  BY <1>2, <1>3, <1>5, <1>9, <2>1 DEF state
<1>. QED  BY <1>7, <1>8, <1>9 DEF Answer

\* A statement sets one password, or none.
LEMMA NumbersWrite == ASSUME AdminInv, NumbersOk, NEW p \in Requests, Write(p) PROVE NumbersOk'
<1>. DEFINE r == request[p]  v == r.of  fresh == lastPw + 1
<1>1. /\ Moves(p) /\ r.at = "write" /\ v \in Users /\ r.op \in {"change", "reset", "link", "create", "update", "delete"}
  BY AfterWrite DEF RequestOk
<1>2. ~Waits(request'[p])
  <2>1. CASE r.op = "create"
    <3>1. request' = Done(p)
      BY <2>1 DEF Write, NextStep
    <3>2. request'[p] = Idle
      BY <3>1 DEF Done, AdminInv, Types
    <3>. QED  BY <3>2, IdleOk DEF Waits, Setting
  <2>2. CASE r.op # "create"
    <3>1. request'[p] = Idle \/ (request'[p].op = r.op /\ request'[p].at = NextStep(r.op))
      BY AfterWrite
    <3>2. NextStep(r.op) \in {"unlink", "forget"}
      BY <2>2 DEF NextStep
    <3>. QED  BY <3>1, <3>2, IdleOk DEF Waits, Setting
  <2>. QED  BY <2>1, <2>2
<1>3. DOMAIN row = Users /\ lastPw \in Nat /\ RowsBelow
  BY DEF NumbersOk, AdminInv, Types
<1>4. CASE lastPw' = lastPw
  <2>1. RowsBelow'
    <3>1. CASE UNCHANGED row
      BY <1>3, <1>4, <3>1 DEF RowsBelow, Here
    <3>2. CASE Here(v) /\ r.op = "update" /\ row' = [row EXCEPT ![v] = Updated(@, r.to)]
      <4>1. r.to \in Tos /\ row[v] \in Rows
        BY <1>1, <3>2, AfterWrite DEF RequestOk, AdminInv, Types, Here
      <4>2. row' = [row EXCEPT ![v] = Updated(row[v], r.to)]
        BY <3>2
      <4>3. Updated(row[v], r.to).pw = row[v].pw
        BY <4>1 DEF Updated, Tos, Roles, Rows
      <4>4. \A u \in Users : Here(u)' => Here(u) /\ row'[u].pw = row[u].pw
        BY <1>1, <1>3, <3>2, <4>2, <4>3 DEF Here
      <4>. QED  BY <1>3, <1>4, <4>4 DEF RowsBelow
    <3>3. CASE row' = [row EXCEPT ![v] = None]
      BY <1>1, <1>3, <1>4, <3>3 DEF RowsBelow, Here
    <3>. QED  BY <1>1, <1>3, <1>4, <3>1, <3>2, <3>3 DEF Write
  <2>2. \A q \in Requests : Waits(request'[q]) => Waits(request[q])
    BY <1>1, <1>2 DEF Moves
  <2>. QED  BY <1>4, <2>1, <2>2, NumbersKept
<1>5. CASE lastPw' # lastPw
  <2>1. lastPw' = fresh /\ r.op \in Setting
    BY <1>5 DEF Write, Setting
  <2>2. RowsBelow'
    <3>1. \A u \in Users : u # v => row'[u] = row[u]
      BY <1>1, <1>3, <1>5 DEF Write
    <3>2. row'[v] # None => row'[v].pw = fresh
      <4>1. CASE row' = [row EXCEPT ![v] = Row(r.to, fresh)]
        BY <1>1, <1>3, <4>1 DEF Row
      <4>2. CASE Here(v) /\ row' = [row EXCEPT ![v].pw = fresh]
        <5>1. row[v] \in Rows
          BY <1>1, <4>2 DEF Here, AdminInv, Types
        <5>. QED  BY <1>1, <1>3, <4>2, <5>1 DEF Rows
      <4>. QED  BY <1>5, <4>1, <4>2 DEF Write
    <3>3. \A u \in Users : Here(u)' => row'[u].pw <= fresh
      <4>1. \A u \in Users : u # v /\ Here(u)' => row'[u].pw <= lastPw /\ row'[u].pw \in Nat
        <5>1. \A u \in Users : u # v /\ Here(u)' => Here(u) /\ row'[u] = row[u] /\ row[u] \in Rows
          BY <3>1 DEF Here, AdminInv, Types
        <5>. QED  BY <1>3, <5>1 DEF RowsBelow, Rows
      <4>2. ASSUME NEW u \in Users, u = v, Here(u)' PROVE row'[u].pw = fresh
        BY <3>2, <4>2 DEF Here
      <4>3. \A n \in Nat : n <= lastPw => n <= fresh
        BY <1>3
      <4>. QED  BY <1>3, <4>1, <4>2, <4>3
    <3>. QED  BY <2>1, <3>3 DEF RowsBelow
  <2>3. Waits(r)
    BY <1>1, <2>1 DEF Waits
  <2>. QED  BY <1>1, <1>2, <2>1, <2>2, <2>3, NumbersSet
<1>. QED  BY <1>4, <1>5

\* The second factor is no part of a password.
LEMMA NumbersTotp == ASSUME AdminInv, NumbersOk, NEW p \in Requests, TotpSet(p) PROVE RowsBelow'
<1>. DEFINE r == request[p]  v == r.of
<1>1. r.op \in {"setup", "activate", "disable"} /\ v \in Users /\ lastPw' = lastPw /\ RowsBelow
  BY DEF TotpSet, AdminInv, Types, RequestOk, bounds, NumbersOk
<1>2. CASE ~Here(v)
  BY <1>1, <1>2, RowsStay DEF TotpSet
<1>3. CASE Here(v)
  <2>1. row[v] \in Rows /\ row' = [row EXCEPT ![v] = TotpWrite(r.op, row[v])]
    BY <1>1, <1>3 DEF TotpSet, Here, AdminInv, Types
  <2>2. TotpWrite(r.op, row[v]).pw = row[v].pw
    BY <2>1, <1>1 DEF TotpWrite, Rows
  <2>3. row'[v].pw = row[v].pw /\ \A u \in Users \ {v} : row'[u] = row[u]
    BY <2>1, <2>2, <1>1 DEF AdminInv, Types
  <2>4. \A u \in Users : Here(u)' => Here(u) /\ row'[u].pw = row[u].pw
    BY <1>3, <2>3 DEF Here
  <2>. QED  BY <1>1, <2>4 DEF RowsBelow
<1>. QED  BY <1>2, <1>3

\* The statements of the console that end with their commit set no password.
LEMMA NumbersConsole ==
    ASSUME AdminInv, NumbersOk, NEW u \in Users, ConsoleDelete(u) \/ \E to \in Tos : ConsoleUpdate(u, to)
    PROVE  NumbersOk'
<1>1. UNCHANGED <<lastPw, request>> /\ DOMAIN row = Users
  BY DEF ConsoleDelete, ConsoleUpdate, Console, numbers, AdminInv, Types
<1>2. \A w \in Users : Here(w)' => Here(w) /\ row'[w].pw = row[w].pw
  <2>1. CASE ConsoleDelete(u)
    BY <1>1, <2>1 DEF ConsoleDelete, Console, Here
  <2>2. ASSUME NEW to \in Tos, ConsoleUpdate(u, to) PROVE \A w \in Users : Here(w)' => Here(w) /\ row'[w].pw = row[w].pw
    <3>1. row[u] \in Rows /\ row' = [row EXCEPT ![u] = Updated(row[u], to)] /\ Here(u)
      BY <2>2 DEF ConsoleUpdate, Console, Here, AdminInv, Types
    <3>2. Updated(row[u], to).pw = row[u].pw
      BY <3>1 DEF Updated, Tos, Roles, Rows
    <3>. QED  BY <1>1, <3>1, <3>2 DEF Here
  <2>. QED  BY <2>1, <2>2
<1>3. RowsBelow'
  BY <1>1, <1>2 DEF RowsBelow, NumbersOk
<1>4. \A q \in Requests : Waits(request'[q]) => Waits(request[q])
  BY <1>1
<1>. QED  BY <1>1, <1>3, <1>4, NumbersKept

\* The passwords that are set stay within the bound.
LEMMA NumbersNext == AdminInv /\ NumbersOk /\ [Next]_vars => NumbersOk'
<1>. SUFFICES ASSUME AdminInv, NumbersOk, [Next]_vars PROVE NumbersOk'
  OBVIOUS
<1>0. Types /\ RowsBelow
  BY DEF AdminInv, NumbersOk
<1>1. ASSUME NEW p \in Requests, NEW t \in tokens,
             \/ GetMe(p, t) \/ ChangePassword(p, t)
             \/ \E v \in Users : \/ DeleteUser(p, t, v) \/ ResetUserPassword(p, t, v) \/ CreateUser(p, t, v)
                                 \/ \E to \in Tos : UpdateUser(p, t, v, to)
      PROVE  NumbersOk'
  <2>1. Moves(p) /\ UNCHANGED <<row, lastPw>> /\ (request'[p].op \in Setting => lastPw + Pending(Setting) < MaxPw)
    BY <1>0, <1>1, BeginStarts
  <2>. QED  BY <2>1, NumbersStart
<1>2. ASSUME NEW p \in Requests,
             \/ \E u \in Users : \/ Login(p, u) \/ TotpSetup(p, u) \/ TotpActivate(p, u) \/ TotpVerify(p, u)
                                 \/ ConsoleReset(p, u) \/ ConsoleCreate(p, u)
                                 \/ \E l \in links \cup {None} : Forgot(p, u, l)
             \/ \E t \in tokens : TotpDisable(p, t)
             \/ \E l \in links : UseLink(p, l)
      PROVE  NumbersOk'
  <2>1. /\ UNCHANGED <<row, lastPw>>
        /\ UNCHANGED request \/ (Moves(p) /\ (request'[p].op \in Setting => lastPw + Pending(Setting) < MaxPw))
    BY <1>0, <1>2, ReadersStart DEF Call
  <2>2. CASE UNCHANGED request
    BY <1>0, <2>1, <2>2, RowsStay, NumbersKept
  <2>. QED  BY <2>1, <2>2, NumbersStart
<1>3. ASSUME NEW p \in Requests,
             \/ Get(p) \/ CheckPassword(p) \/ Permit(p) \/ PermitAdmin(p) \/ Issue(p) \/ TotpSet(p) \/ TotpCookie(p)
             \/ Mail(p) \/ Unlink(p) \/ Forget(p) \/ CommitFails(p)
      PROVE  NumbersOk'
  <2>1. \A q \in Requests : Waits(request'[q]) => Waits(request[q])
    BY <1>0, <1>3, LaterSteps, IdleOk DEF Waits, Moves, Setting
  <2>2. RowsBelow'
    <3>1. CASE TotpSet(p)
      BY <3>1, NumbersTotp
    <3>2. CASE ~TotpSet(p)
      BY <1>0, <1>3, <3>2, RowsStay, LaterSteps
         DEF Get, CheckPassword, Permit, PermitAdmin, Reads, Issue, TotpCookie, Mail, Unlink, Forget, CommitFails
    <3>. QED  BY <3>1, <3>2
  <2>. QED  BY <1>0, <1>3, <2>1, <2>2, LaterSteps, NumbersKept
<1>4. ASSUME NEW p \in Requests, Fetch(p) \/ Store(p) PROVE NumbersOk'
  <2>1. UNCHANGED <<row, lastPw>> /\ RequestOk(request[p]) /\ request[p].at \in {"fetch", "store"}
    BY <1>0, <1>4 DEF Fetch, Store, bounds, Types
  <2>2. \A q \in Requests : Waits(request'[q]) => Waits(request[q])
    <3>1. Moves(p)
      BY <1>0, <1>4 DEF Fetch, Store, Done, Moves, Types
    <3>2. request'[p] = Idle \/ request'[p].op = request[p].op
      <4>1. CASE request' = Done(p)
        BY <1>0, <4>1 DEF Done, Types
      <4>2. CASE request' = [request EXCEPT ![p].at = "store", ![p].got = Current(request[p].u)]
        BY <1>0, <2>1, <4>2 DEF Types, RequestOk, Fields
      <4>3. CASE Store(p)
        <5>1. request'[p] = Answer(request[p], request[p].got)
          BY <1>0, <4>3 DEF Store, Types
        <5>. QED  BY <2>1, <5>1 DEF Answer, RequestOk, Fields
      <4>. QED  BY <1>4, <4>1, <4>2, <4>3 DEF Fetch
    <3>. QED  BY <2>1, <3>1, <3>2, IdleOk DEF Waits, Moves, Setting
  <2>. QED  BY <1>0, <2>1, <2>2, RowsStay, NumbersKept
<1>5. ASSUME NEW p \in Requests, Write(p) PROVE NumbersOk'
  BY <1>5, NumbersWrite
<1>6. ASSUME NEW u \in Users, ConsoleDelete(u) \/ \E to \in Tos : ConsoleUpdate(u, to) PROVE NumbersOk'
  BY <1>6, NumbersConsole
<1>7. CASE Tick \/ \E l \in links : LinkExpires(l)
  <2>1. UNCHANGED <<row, lastPw>>
    BY <1>7 DEF Tick, LinkExpires, bounds
  <2>2. \A q \in Requests : request'[q].op = request[q].op /\ request'[q].at = request[q].at
    BY <1>0, <1>7 DEF Tick, LinkExpires, Types, RequestOk, Fields
  <2>3. \A q \in Requests : Waits(request'[q]) => Waits(request[q])
    BY <2>2 DEF Waits
  <2>. QED  BY <1>0, <2>1, <2>3, RowsStay, NumbersKept
<1>8. CASE ChangeTenant \/ ChangeMfa \/ UNCHANGED vars
  <2>1. UNCHANGED <<row, lastPw, request>>
    BY <1>8 DEF ChangeTenant, ChangeMfa, vars, bounds, numbers
  <2>. QED  BY <1>0, <2>1, RowsStay, NumbersKept
<1>. QED  BY <1>1, <1>2, <1>3, <1>4, <1>5, <1>6, <1>7, <1>8 DEF Next, Tos

\* How long ago the database last held a state: not at all where it holds it now.
AgoOk == \A u \in Users : \A s \in States : ago[u][s] \in 0..Long /\ (s = Current(u) => ago[u][s] = 0)
\* A cached state lives no longer than TTL from the time it was held, and neither does one
\* that a request is about to store.
EntryFresh(u) ==
    cache[u] # None => /\ cache[u].left \in 1..TTL /\ Cached(u) \in States
                       /\ ago[u][Cached(u)] + cache[u].left <= TTL
RequestFresh(r) ==
    /\ r.at \in {"fetch", "store"} => r.left <= TTL
    /\ r.at = "store" => r.got \in States /\ (r.left > 0 => ago[r.u][r.got] + r.left <= TTL)
Fresh == (\A u \in Users : EntryFresh(u)) /\ (\A p \in Requests : RequestFresh(request[p]))
RecentInv == AdminInv /\ NumbersOk /\ AgoOk /\ Fresh

\* What the database says of a session is a state of the history.
LEMMA CurrentIsState ==
    ASSUME Types, NumbersOk, NEW u \in Users, Current(u) # None
    PROVE  Current(u) \in States
<1>1. row[u] \in Rows /\ Here(u) /\ Current(u) = StateOf(row[u])
  BY DEF Types, Current, Active, Here
<1>2. row[u].role \in Roles /\ row[u].pw \in Nat /\ row[u].pw <= lastPw
  BY <1>1 DEF Rows, NumbersOk, RowsBelow
<1>3. lastPw \in Nat /\ lastPw <= MaxPw /\ MaxPw \in Nat
  BY WaitingFinite, TenantSessionsAssumption DEF NumbersOk
<1>4. row[u].pw \in 0..MaxPw
  BY <1>2, <1>3
<1>. QED  BY <1>1, <1>2, <1>4 DEF StateOf, States

\* At the start nothing is cached, and no state but the current one was ever held.
LEMMA RecentInit == Init => AgoOk /\ Fresh
<1>. SUFFICES ASSUME Init PROVE AgoOk /\ Fresh
  OBVIOUS
<1>1. AgoOk
  <2>1. Long \in Nat /\ 0 \in 0..Long /\ Long \in 0..Long
    BY TenantSessionsAssumption DEF Long
  <2>2. \A u \in Users : \A s \in States : ago[u][s] = IF s = Current(u) THEN 0 ELSE Long
    BY DEF Init
  <2>. QED  BY <2>1, <2>2 DEF AgoOk
<1>2. \A p \in Requests : request[p] = Idle
  BY DEF Init
<1>3. \A u \in Users : EntryFresh(u)
  BY DEF Init, EntryFresh
<1>. QED  BY <1>1, <1>2, <1>3, IdleOk DEF Fresh, RequestFresh

\* A step that changes no row, or notes in the history what holds after it.
LEMMA AgoSame == ASSUME AgoOk, ago' = ago, \A u \in Users : Current(u)' = Current(u) PROVE AgoOk'
BY DEF AgoOk

\* What a change notes grows no older.
LEMMA AgoHeld ==
    ASSUME AgoOk, Held
    PROVE  AgoOk' /\ \A u \in Users : \A s \in States : ago'[u][s] \in {0, ago[u][s]}
<1>1. 0 \in 0..Long
  BY TenantSessionsAssumption DEF Long
<1>2. \A u \in Users : \A s \in States : ago'[u][s] = IF s = Current(u)' THEN 0 ELSE ago[u][s]
  BY DEF Held
<1>. QED  BY <1>1, <1>2 DEF AgoOk

\* No state has grown older, none is cached anew and none is about to be.
LEMMA FreshKept ==
    ASSUME Types, AgoOk, Fresh, \A u \in Users : \A s \in States : ago'[u][s] \in {0, ago[u][s]},
           \A u \in Users : cache'[u] \in {None, cache[u]},
           \A q \in Requests : \/ request'[q] = request[q]
                               \/ request'[q].at \notin {"fetch", "store"}
    PROVE  Fresh'
<1>1. ASSUME NEW u \in Users PROVE EntryFresh(u)'
  <2>1. CASE cache'[u] = None
    BY <2>1 DEF EntryFresh
  <2>2. CASE cache[u] # None /\ cache'[u] = cache[u]
    <3>1. /\ cache[u].left \in 1..TTL /\ Cached(u) \in States
          /\ ago[u][Cached(u)] + cache[u].left <= TTL /\ Cached(u)' = Cached(u)
      BY <2>2 DEF Fresh, EntryFresh, Cached
    <3>2. ago'[u][Cached(u)] + cache[u].left <= TTL
      BY <3>1, TenantSessionsAssumption
    <3>. QED  BY <2>2, <3>1, <3>2 DEF EntryFresh
  <2>. QED  BY <2>1, <2>2
<1>2. ASSUME NEW q \in Requests PROVE RequestFresh(request[q])'
  <2>1. CASE request'[q].at \notin {"fetch", "store"}
    BY <2>1 DEF RequestFresh
  <2>2. CASE request'[q] = request[q] /\ request[q].at = "fetch"
    BY <2>2 DEF Fresh, RequestFresh
  <2>3. CASE request'[q] = request[q] /\ request[q].at = "store"
    <3>1. /\ request[q].left <= TTL /\ request[q].got \in States /\ request[q].u \in Users /\ request[q].left \in Nat
          /\ request[q].left > 0 => ago[request[q].u][request[q].got] + request[q].left <= TTL
      BY <2>3 DEF Fresh, RequestFresh, Types, RequestOk
    <3>2. request[q].left > 0 => ago'[request[q].u][request[q].got] + request[q].left <= TTL
      BY <3>1, TenantSessionsAssumption
    <3>. QED  BY <2>3, <3>1, <3>2 DEF RequestFresh
  <2>. QED  BY <2>1, <2>2, <2>3
<1>. QED  BY <1>1, <1>2 DEF Fresh

\* No row and no status of the tenant changes, and no state is stored.
LEMMA RecentKept ==
    ASSUME Types, AgoOk, Fresh, UNCHANGED <<row, tenantOn, ago>>,
           \A u \in Users : cache'[u] \in {None, cache[u]},
           \A q \in Requests : \/ request'[q] = request[q]
                               \/ request'[q].at \notin {"fetch", "store"}
    PROVE  AgoOk' /\ Fresh'
<1>1. \A u \in Users : Current(u)' = Current(u)
  BY DEF Current, Active, Here, StateOf
<1>. QED  BY <1>1, AgoSame, FreshKept

\* A request that starts has a whole TTL, and holds no state yet.
LEMMA RecentBegin ==
    ASSUME Types, AgoOk, Fresh, NEW p \in Requests, UNCHANGED <<row, cache, ago, tenantOn>>, Moves(p),
           request'[p].at = "store" => FALSE, request'[p].at = "fetch" => request'[p].left = TTL
    PROVE  AgoOk' /\ Fresh'
<1>1. \A u \in Users : Current(u)' = Current(u)
  BY DEF Current, Active, Here, StateOf
<1>2. \A u \in Users : EntryFresh(u)'
  BY DEF Fresh, EntryFresh, Cached
<1>3. ASSUME NEW q \in Requests PROVE RequestFresh(request[q])'
  <2>1. CASE q = p
    BY <2>1, TenantSessionsAssumption DEF RequestFresh
  <2>2. CASE q # p
    <3>1. request'[q] = request[q]
      BY <2>2 DEF Moves
    <3>. QED  BY <3>1 DEF Fresh, RequestFresh
  <2>. QED  BY <2>1, <2>2
<1>. QED  BY <1>1, <1>2, <1>3, AgoSame DEF Fresh

\* The database holds what it is read to hold.
LEMMA RecentFetch ==
    ASSUME AdminInv, NumbersOk, AgoOk, Fresh, NEW p \in Requests, Fetch(p)
    PROVE  AgoOk' /\ Fresh'
<1>1. /\ UNCHANGED <<row, cache, ago, tenantOn>> /\ Moves(p) /\ RequestOk(request[p]) /\ Types
      /\ request[p].at = "fetch"
  BY DEF Fetch, bounds, Moves, Done, AdminInv, Types
<1>2. CASE request' = Done(p)
  <2>1. request'[p] = Idle
    BY <1>1, <1>2 DEF Done, Types
  <2>2. request'[p].at \notin {"fetch", "store"}
    BY <2>1, IdleOk
  <2>. QED  BY <1>1, <2>2, RecentKept DEF Moves
<1>3. CASE Current(request[p].u) # None /\ request' = [request EXCEPT ![p].at = "store", ![p].got = Current(request[p].u)]
  <2>. DEFINE u == request[p].u  s == Current(request[p].u)
  <2>1. u \in Users /\ s \in States
    BY <1>1, <1>3, CurrentIsState DEF RequestOk
  <2>2. ago[u][s] = 0 /\ request[p].left <= TTL /\ request[p].left \in Nat
    BY <1>1, <2>1 DEF AgoOk, Fresh, RequestFresh, RequestOk
  <2>3. /\ request'[p].at = "store" /\ request'[p].got = s /\ request'[p].u = u
        /\ request'[p].left = request[p].left
    BY <1>1, <1>3 DEF Types, RequestOk, Fields
  <2>4. RequestFresh(request[p])'
    <3>1. ago'[request'[p].u][request'[p].got] = 0
      BY <1>1, <2>2, <2>3
    <3>. QED  BY <2>1, <2>2, <2>3, <3>1, TenantSessionsAssumption DEF RequestFresh
  <2>5. \A q \in Requests \ {p} : RequestFresh(request[q])'
    <3>1. \A q \in Requests \ {p} : request'[q] = request[q]
      BY <1>1 DEF Moves
    <3>. QED  BY <1>1, <3>1 DEF Fresh, RequestFresh
  <2>6. \A w \in Users : EntryFresh(w)'
    BY <1>1 DEF Fresh, EntryFresh, Cached
  <2>7. \A w \in Users : Current(w)' = Current(w)
    BY <1>1 DEF Current, Active, Here, StateOf
  <2>. QED  BY <1>1, <2>4, <2>5, <2>6, <2>7, AgoSame DEF Fresh
<1>. QED  BY <1>2, <1>3 DEF Fetch

\* What is stored lives on from the time that was taken before the cache was looked at.
LEMMA RecentStore ==
    ASSUME Types, AgoOk, Fresh, NEW p \in Requests, Store(p)
    PROVE  AgoOk' /\ Fresh'
<1>0. PICK u, s, n : u = request[p].u /\ s = request[p].got /\ n = request[p].left
  OBVIOUS
<1>1. /\ UNCHANGED <<row, ago, tenantOn>> /\ Moves(p) /\ RequestOk(request[p]) /\ request[p].at = "store" /\ u \in Users
      /\ s \in State /\ DOMAIN cache = Users
      /\ n \in Nat
  BY <1>0 DEF Store, bounds, Moves, Types, RequestOk
<1>2. n <= TTL /\ s \in States /\ (n > 0 => ago[u][s] + n <= TTL)
  BY <1>0, <1>1 DEF Fresh, RequestFresh
<1>3. \A q \in Requests : RequestFresh(request[q])'
  <2>1. request'[p] = Answer(request[p], s)
    BY <1>0, <1>1 DEF Store, Types
  <2>2. request'[p].at \in {"in", "idle"}
    BY <1>1, <2>1, IdleOk DEF Answer, RequestOk, Fields
  <2>3. \A q \in Requests \ {p} : request'[q] = request[q]
    BY <1>1 DEF Moves
  <2>. QED  BY <1>1, <2>2, <2>3 DEF Fresh, RequestFresh
<1>4. \A w \in Users \ {u} : EntryFresh(w)'
  <2>1. \A w \in Users \ {u} : cache'[w] = cache[w]
    BY <1>0, <1>1 DEF Store
  <2>. QED  BY <1>1, <2>1 DEF Fresh, EntryFresh, Cached
<1>5. EntryFresh(u)'
  <2>1. CASE n = 0
    BY <1>0, <1>1, <2>1 DEF Store, Left, EntryFresh
  <2>2. CASE n # 0
    <3>1. cache'[u] = [role |-> s.role, pw |-> s.pw, left |-> n]
      BY <1>0, <1>1, <2>2 DEF Store, Left
    <3>2. [role |-> cache'[u].role, pw |-> cache'[u].pw] = s /\ cache'[u].left = n
      BY <1>1, <3>1 DEF State
    <3>3. n \in 1..TTL /\ ago[u][s] + n <= TTL
      BY <1>1, <1>2, <2>2, TenantSessionsAssumption
    <3>. QED  BY <1>1, <1>2, <3>2, <3>3 DEF EntryFresh, Cached
  <2>. QED  BY <2>1, <2>2
<1>6. \A w \in Users : Current(w)' = Current(w)
  BY <1>1 DEF Current, Active, Here, StateOf
<1>. QED  BY <1>1, <1>3, <1>4, <1>5, <1>6, AgoSame DEF Fresh

\* A tick takes from every lifetime what it adds to an age.
LEMMA RecentTick ==
    ASSUME Types, AgoOk, Fresh, Tick
    PROVE  AgoOk' /\ Fresh'
<1>1. \A u \in Users : Current(u)' = Current(u)
  BY DEF Tick, Current, Active, Here, StateOf
<1>2. \A u \in Users : \A s \in States :
         /\ ago'[u][s] = IF s = Current(u) \/ ago[u][s] = Long THEN ago[u][s] ELSE ago[u][s] + 1
         /\ ago'[u][s] \in {ago[u][s], ago[u][s] + 1} /\ ago[u][s] \in Nat
         /\ ago'[u][s] \in 0..Long
  <2>. TAKE u \in Users
  <2>. TAKE s \in States
  <2>1. ago'[u][s] = IF s = Current(u) \/ ago[u][s] = Long THEN ago[u][s] ELSE ago[u][s] + 1
    <3>1. ago'[u] = [x \in States |-> IF x = Current(u) \/ ago[u][x] = Long THEN ago[u][x] ELSE ago[u][x] + 1]
      BY Zenon DEF Tick
    <3>. QED  BY <3>1
  <2>2. ago[u][s] \in 0..Long /\ Long \in Nat
    BY TenantSessionsAssumption DEF AgoOk, Long
  <2>. QED  BY <2>1, <2>2
<1>3. AgoOk'
  BY <1>1, <1>2 DEF AgoOk
<1>4. ASSUME NEW u \in Users, cache'[u] # None PROVE EntryFresh(u)'
  <2>1. cache[u] # None /\ cache[u].left # 1 /\ cache'[u] = [cache[u] EXCEPT !.left = cache[u].left - 1]
    BY <1>4 DEF Tick
  <2>2. CacheOk(cache[u]) /\ EntryFresh(u)
    BY <2>1 DEF Types, Fresh
  <2>3. cache'[u].left = cache[u].left - 1 /\ Cached(u)' = Cached(u)
    BY <2>1, <2>2 DEF CacheOk, Cached
  <2>4. /\ cache[u].left \in 1..TTL /\ Cached(u) \in States /\ ago[u][Cached(u)] + cache[u].left <= TTL
    BY <2>1, <2>2 DEF EntryFresh
  <2>5. ago'[u][Cached(u)] \in {ago[u][Cached(u)], ago[u][Cached(u)] + 1} /\ ago[u][Cached(u)] \in Nat
    BY <1>2, <2>4
  <2>6. cache[u].left - 1 \in 1..TTL /\ ago'[u][Cached(u)] + (cache[u].left - 1) <= TTL
    BY <2>1, <2>4, <2>5, TenantSessionsAssumption
  <2>. QED  BY <2>3, <2>4, <2>6 DEF EntryFresh
<1>5. ASSUME NEW p \in Requests PROVE RequestFresh(request[p])'
  <2>1. request'[p] = [request[p] EXCEPT !.left = IF request[p].left > 0 THEN request[p].left - 1 ELSE 0]
    BY DEF Tick
  <2>2. /\ request'[p].at = request[p].at /\ request'[p].u = request[p].u /\ request'[p].got = request[p].got
        /\ request'[p].left = IF request[p].left > 0 THEN request[p].left - 1 ELSE 0
        /\ request[p].left \in Nat
    BY <2>1 DEF Types, RequestOk, Fields
  <2>3. CASE request[p].at = "fetch"
    BY <2>2, <2>3, TenantSessionsAssumption DEF Fresh, RequestFresh
  <2>4. CASE request[p].at = "store"
    <3>. DEFINE u == request[p].u  s == request[p].got
    <3>1. u \in Users /\ s \in States /\ request[p].left <= TTL /\ (request[p].left > 0 => ago[u][s] + request[p].left <= TTL)
      BY <2>4 DEF Types, RequestOk, Fresh, RequestFresh
    <3>2. ago'[u][s] \in {ago[u][s], ago[u][s] + 1} /\ ago[u][s] \in Nat
      BY <1>2, <3>1
    <3>3. request'[p].left <= TTL /\ (request'[p].left > 0 => ago'[u][s] + request'[p].left <= TTL)
      BY <2>2, <3>1, <3>2, TenantSessionsAssumption
    <3>. QED  BY <2>2, <2>4, <3>1, <3>3 DEF RequestFresh
  <2>5. CASE request[p].at \notin {"fetch", "store"}
    BY <2>2, <2>5 DEF RequestFresh
  <2>. QED  BY <2>3, <2>4, <2>5
<1>6. \A u \in Users : EntryFresh(u)'
  BY <1>4 DEF EntryFresh
<1>. QED  BY <1>3, <1>5, <1>6 DEF Fresh

\* The steps after the start and those of the readers store nothing.
LEMMA RecentOthers ==
    ASSUME AdminInv, AgoOk, Fresh, NEW p \in Requests,
           \/ Get(p) \/ CheckPassword(p) \/ Permit(p) \/ PermitAdmin(p) \/ Issue(p) \/ TotpCookie(p)
           \/ Mail(p) \/ Unlink(p) \/ Forget(p) \/ CommitFails(p)
    PROVE  AgoOk' /\ Fresh'
<1>1. Types /\ DOMAIN cache = Users
  BY DEF AdminInv, Types
<1>2. Moves(p) /\ request'[p].at \notin {"fetch", "store"} /\ UNCHANGED <<ago, tenantOn>>
  BY <1>1, LaterSteps, IdleOk
<1>3. UNCHANGED row
  BY DEF Get, CheckPassword, Permit, PermitAdmin, Reads, Issue, TotpCookie, Mail, Unlink, Forget, CommitFails
<1>4. \A u \in Users : cache'[u] \in {None, cache[u]}
  BY <1>1 DEF Get, CheckPassword, Permit, PermitAdmin, Reads, Issue, TotpCookie, Mail, Unlink, Forget, CommitFails
<1>. QED  BY <1>1, <1>2, <1>3, <1>4, RecentKept DEF Moves

\* The second factor is no part of what is cached.
LEMMA RecentTotp == ASSUME AdminInv, AgoOk, Fresh, NEW p \in Requests, TotpSet(p) PROVE AgoOk' /\ Fresh'
<1>1. /\ request[p].op \in {"setup", "activate", "disable"} /\ request[p].of \in Users /\ Types
      /\ UNCHANGED <<tenantOn, cache, ago>>
  BY DEF TotpSet, AdminInv, Types, RequestOk
<1>2. Moves(p) /\ request'[p].at \notin {"fetch", "store"}
  BY <1>1, LaterSteps, IdleOk
<1>3. \A q \in Requests : request'[q] = request[q] \/ request'[q].at \notin {"fetch", "store"}
  BY <1>2 DEF Moves
<1>4. Fresh'
  BY <1>1, <1>3, FreshKept
<1>5. PICK r, v : r = request[p] /\ v = request[p].of
  OBVIOUS
<1>6. \A u \in Users : Current(u)' = Current(u)
  <2>1. CASE ~Here(v)
    BY <1>1, <1>5, <2>1 DEF TotpSet, Current, Active, Here, StateOf
  <2>2. CASE Here(v)
    <3>1. row[v] \in Rows /\ row' = [row EXCEPT ![v] = TotpWrite(r.op, row[v])]
      BY <1>1, <1>5, <2>2 DEF TotpSet, Here, Types
    <3>2. LET y == TotpWrite(r.op, row[v])
          IN  y \in Rows /\ y.role = row[v].role /\ y.pw = row[v].pw /\ y.active = row[v].active
      BY <3>1, <1>1, <1>5 DEF TotpWrite, Rows
    <3>3. row'[v] = TotpWrite(r.op, row[v]) /\ \A u \in Users \ {v} : row'[u] = row[u]
      BY <3>1, <1>1, <1>5 DEF Types
    <3>4. row'[v] # None
      BY <3>2, <3>3, TenantSessionsAssumption
    <3>. QED  BY <3>2, <3>3, <3>4, <1>1, <2>2 DEF Current, Active, Here, StateOf
  <2>. QED  BY <2>1, <2>2
<1>. QED  BY <1>1, <1>4, <1>6, AgoSame

\* What changes a row or the tenant notes what holds after it.
LEMMA RecentChanges ==
    ASSUME AdminInv, AgoOk, Fresh,
           \/ \E p \in Requests : Write(p)
           \/ \E u \in Users : ConsoleDelete(u) \/ \E to \in Tos : ConsoleUpdate(u, to)
           \/ ChangeTenant
    PROVE  AgoOk' /\ Fresh'
<1>1. Held /\ UNCHANGED cache /\ Types
  BY DEF Write, ConsoleDelete, ConsoleUpdate, Console, ChangeTenant, AdminInv
<1>2. \A q \in Requests : request'[q] = request[q] \/ request'[q].at \notin {"fetch", "store"}
  <2>1. ASSUME NEW p \in Requests, Write(p) PROVE Moves(p) /\ request'[p].at \notin {"fetch", "store"}
    <3>1. Moves(p) /\ RequestOk(request[p]) /\ request[p].at = "write"
      BY <1>1, <2>1, AfterWrite DEF Types
    <3>2. CASE request' = Done(p)
      <4>1. request'[p] = Idle
        BY <1>1, <3>2 DEF Done, Types
      <4>. QED  BY <3>1, <4>1, IdleOk
    <3>3. CASE request' # Done(p)
      <4>1. request'[p].at = NextStep(request[p].op)
        BY <1>1, <2>1, <3>1, <3>3 DEF Write, Types, RequestOk, Fields
      <4>. QED  BY <3>1, <4>1 DEF NextStep
    <3>. QED  BY <3>2, <3>3
  <2>2. CASE \E u \in Users : ConsoleDelete(u) \/ \E to \in Tos : ConsoleUpdate(u, to)
    BY <2>2 DEF ConsoleDelete, ConsoleUpdate, Console
  <2>3. CASE ChangeTenant
    BY <2>3 DEF ChangeTenant
  <2>. QED  BY <2>1, <2>2, <2>3 DEF Moves
<1>. QED  BY <1>1, <1>2, AgoHeld, FreshKept

\* A link that runs out is nothing a check holds.
LEMMA RecentLinkExpires ==
    ASSUME AdminInv, AgoOk, Fresh, NEW l \in links, LinkExpires(l)
    PROVE  AgoOk' /\ Fresh'
<1>1. UNCHANGED <<row, cache, ago, tenantOn>> /\ Types /\ DOMAIN l = {"id", "u", "late"}
  BY DEF LinkExpires, AdminInv, Types
<1>2. ASSUME NEW p \in Requests PROVE RequestFresh(request[p])'
  <2>1. RequestOk(request[p]) /\ RequestFresh(request[p])
    BY <1>1 DEF Types, Fresh
  <2>2. request'[p] = IF request[p].got = l THEN [request[p] EXCEPT !.got.late = TRUE] ELSE request[p]
    BY DEF LinkExpires
  <2>3. request[p].at = "store" => request[p].got # l
    BY <1>1, <2>1 DEF RequestOk, State
  <2>4. /\ request'[p].at = request[p].at /\ request'[p].left = request[p].left /\ request'[p].u = request[p].u
        /\ request[p].at = "store" => request'[p].got = request[p].got
    BY <2>1, <2>2, <2>3 DEF RequestOk, Fields
  <2>. QED  BY <1>1, <2>1, <2>4 DEF RequestFresh
<1>3. (\A u \in Users : EntryFresh(u))' /\ \A u \in Users : Current(u)' = Current(u)
  BY <1>1 DEF Fresh, EntryFresh, Cached, Current, Active, Here, StateOf
<1>. QED  BY <1>1, <1>2, <1>3, AgoSame DEF Fresh

\* Every step keeps the ages and the lifetimes.
LEMMA RecentNext == AdminInv /\ NumbersOk /\ AgoOk /\ Fresh /\ [Next]_vars => AgoOk' /\ Fresh'
<1>. SUFFICES ASSUME AdminInv, NumbersOk, AgoOk, Fresh, [Next]_vars PROVE AgoOk' /\ Fresh'
  OBVIOUS
<1>0. Types
  BY DEF AdminInv
<1>1. ASSUME NEW p \in Requests, NEW t \in tokens,
             \/ GetMe(p, t) \/ ChangePassword(p, t)
             \/ \E v \in Users : \/ DeleteUser(p, t, v) \/ ResetUserPassword(p, t, v) \/ CreateUser(p, t, v)
                                 \/ \E to \in Tos : UpdateUser(p, t, v, to)
      PROVE  AgoOk' /\ Fresh'
  <2>1. /\ UNCHANGED <<row, cache, ago, tenantOn>> /\ Moves(p) /\ request'[p].at # "store"
        /\ request'[p].at = "fetch" => request'[p].left = TTL
    BY <1>0, <1>1, BeginStarts, IdleOk
  <2>. QED  BY <1>0, <2>1, RecentBegin
<1>2. ASSUME NEW p \in Requests,
             \/ \E u \in Users : \/ Login(p, u) \/ TotpSetup(p, u) \/ TotpActivate(p, u) \/ TotpVerify(p, u)
                                 \/ ConsoleReset(p, u) \/ ConsoleCreate(p, u)
                                 \/ \E l \in links \cup {None} : Forgot(p, u, l)
             \/ \E t \in tokens : TotpDisable(p, t)
             \/ \E l \in links : UseLink(p, l)
      PROVE  AgoOk' /\ Fresh'
  <2>1. /\ UNCHANGED <<row, cache, ago, tenantOn>>
        /\ UNCHANGED request \/ (Moves(p) /\ request'[p].at \notin {"fetch", "store"})
    BY <1>0, <1>2, ReadersStart
  <2>. QED  BY <1>0, <2>1, RecentKept DEF Moves
<1>3. ASSUME NEW p \in Requests,
             \/ Get(p) \/ CheckPassword(p) \/ Permit(p) \/ PermitAdmin(p) \/ Issue(p) \/ TotpCookie(p)
             \/ Mail(p) \/ Unlink(p) \/ Forget(p) \/ CommitFails(p)
      PROVE  AgoOk' /\ Fresh'
  BY <1>3, RecentOthers
<1>4. ASSUME NEW p \in Requests, Fetch(p) \/ Store(p) \/ TotpSet(p) PROVE AgoOk' /\ Fresh'
  BY <1>0, <1>4, RecentFetch, RecentStore, RecentTotp
<1>5. CASE \/ \E p \in Requests : Write(p)
           \/ \E u \in Users : ConsoleDelete(u) \/ \E to \in Tos : ConsoleUpdate(u, to)
           \/ ChangeTenant
  BY <1>5, RecentChanges
<1>6. CASE Tick \/ \E l \in links : LinkExpires(l)
  BY <1>0, <1>6, RecentTick, RecentLinkExpires
<1>7. CASE ChangeMfa \/ UNCHANGED vars
  <2>1. UNCHANGED <<row, tenantOn, ago, cache, request>>
    BY <1>7 DEF ChangeMfa, vars
  <2>. QED  BY <1>0, <2>1, RecentKept
<1>. QED  BY <1>1, <1>2, <1>3, <1>4, <1>5, <1>6, <1>7 DEF Next, Tos

\* A request is let in by its start, on a cached state, or by what it has just stored.
LEMMA LetIn ==
    ASSUME Types, [Next]_vars, NEW p \in Requests, request[p].at # "in", request'[p].at = "in"
    PROVE  \/ Store(p)
           \/ \E u \in Users : /\ cache[u] # None /\ request'[p].u = u /\ request'[p].left = TTL
                               /\ request'[p].got = Cached(u)
<1>1. ASSUME NEW q \in Requests, NEW t \in tokens,
             \/ GetMe(q, t) \/ ChangePassword(q, t)
             \/ \E v \in Users : \/ DeleteUser(q, t, v) \/ ResetUserPassword(q, t, v) \/ CreateUser(q, t, v)
                                 \/ \E to \in Tos : UpdateUser(q, t, v, to)
      PROVE  \E u \in Users : /\ cache[u] # None /\ request'[p].u = u /\ request'[p].left = TTL
                              /\ request'[p].got = Cached(u)
  <2>1. Moves(q) /\ t.u \in Users
    BY <1>1, BeginStarts
  <2>2. q = p
    BY <2>1 DEF Moves
  <2>3. cache[t.u] # None /\ request'[p].u = t.u /\ request'[p].left = TTL /\ request'[p].got = Cached(t.u)
    BY <1>1, <2>2, BeginStarts, IdleOk DEF Cached
  <2>. QED  BY <2>1, <2>3
<1>2. ASSUME NEW q \in Requests,
             \/ \E u \in Users : \/ Login(q, u) \/ TotpSetup(q, u) \/ TotpActivate(q, u) \/ TotpVerify(q, u)
                                 \/ ConsoleReset(q, u) \/ ConsoleCreate(q, u)
                                 \/ \E l \in links \cup {None} : Forgot(q, u, l)
             \/ \E t \in tokens : TotpDisable(q, t)
             \/ \E l \in links : UseLink(q, l)
      PROVE  FALSE
  <2>1. UNCHANGED request \/ (Moves(q) /\ request'[q].at # "in")
    BY <1>2, ReadersStart
  <2>. QED  BY <2>1 DEF Moves
<1>3. ASSUME NEW q \in Requests,
             \/ Get(q) \/ CheckPassword(q) \/ Permit(q) \/ PermitAdmin(q) \/ Issue(q) \/ TotpSet(q) \/ TotpCookie(q)
             \/ Mail(q) \/ Unlink(q) \/ Forget(q) \/ CommitFails(q)
      PROVE  FALSE
  <2>1. Moves(q) /\ request'[q].at # "in"
    BY <1>3, LaterSteps, IdleOk
  <2>. QED  BY <2>1 DEF Moves
<1>4. ASSUME NEW q \in Requests, Fetch(q) PROVE FALSE
  <2>1. Moves(q) /\ request'[q].at # "in"
    <3>1. Moves(q) /\ RequestOk(request[q])
      BY <1>4 DEF Fetch, Done, Moves, Types
    <3>2. request' = Done(q) => request'[q].at = "idle"
      BY IdleOk DEF Done, Types
    <3>3. request' = [request EXCEPT ![q].at = "store", ![q].got = Current(request[q].u)] => request'[q].at = "store"
      BY <3>1 DEF Types, RequestOk, Fields
    <3>. QED  BY <1>4, <3>1, <3>2, <3>3 DEF Fetch
  <2>. QED  BY <2>1 DEF Moves
<1>5. ASSUME NEW q \in Requests, Store(q) PROVE Store(p)
  <2>1. Moves(q)
    BY <1>5 DEF Store, Moves, Types
  <2>2. q = p
    BY <2>1 DEF Moves
  <2>. QED  BY <1>5, <2>2
<1>6. ASSUME NEW q \in Requests, Write(q) PROVE FALSE
  <2>1. Moves(q) /\ RequestOk(request[q])
    BY <1>6 DEF Write, Done, Moves, Types
  <2>2. request'[q].at # "in"
    <3>1. CASE request' = Done(q)
      BY <3>1, IdleOk DEF Done, Types
    <3>2. CASE request' # Done(q)
      <4>1. request'[q].at = NextStep(request[q].op)
        BY <1>6, <2>1, <3>2 DEF Write, Types, RequestOk, Fields
      <4>. QED  BY <4>1 DEF NextStep
    <3>. QED  BY <3>1, <3>2
  <2>. QED  BY <2>1, <2>2 DEF Moves
<1>7. CASE \/ Tick \/ ChangeTenant \/ ChangeMfa \/ UNCHANGED vars \/ \E l \in links : LinkExpires(l)
           \/ \E u \in Users : ConsoleDelete(u) \/ \E to \in Tos : ConsoleUpdate(u, to)
  <2>1. CASE UNCHANGED request
    BY <2>1
  <2>2. CASE Tick \/ \E l \in links : LinkExpires(l)
    <3>1. request'[p].at = request[p].at
      BY <2>2 DEF Tick, LinkExpires, Types, RequestOk, Fields
    <3>. QED  BY <3>1
  <2>. QED  BY <1>7, <2>1, <2>2 DEF ChangeTenant, ChangeMfa, vars, ConsoleDelete, ConsoleUpdate, Console
<1>. QED  BY <1>1, <1>2, <1>3, <1>4, <1>5, <1>6, <1>7 DEF Next, Tos

\* For any lifetime of the cached sessions, any number of users and of overlapping requests,
\* a request is let in on what the database held less than TTL before it began, or since,
\* unless it takes longer than TTL itself (tenant_session.py, require_tenant_session).
THEOREM AcceptedSessionsAreRecent == Spec => AcceptedIsRecent
<1>1. RecentInv /\ [Next]_vars => RecentInv'
  BY AdminNext, NumbersNext, RecentNext DEF RecentInv
<1>2. Init => RecentInv
  BY AdminInit, NumbersInit, RecentInit DEF RecentInv
<1>3. ASSUME RecentInv, [Next]_vars, NEW p \in Requests, request[p].at # "in" /\ request'[p].at = "in" /\ request'[p].left > 0
      PROVE  ago[request'[p].u][request'[p].got] + request'[p].left < Long
  <2>0. Types /\ TTL \in Nat \ {0} /\ Long = 2 * TTL
    BY <1>3, TenantSessionsAssumption DEF RecentInv, AdminInv, Long
  <2>1. CASE Store(p)
    <3>1. request'[p] = Answer(request[p], request[p].got) /\ request[p].at = "store" /\ RequestOk(request[p])
      BY <2>0, <2>1 DEF Store, Types
    <3>2. request'[p].u = request[p].u /\ request'[p].got = request[p].got /\ request'[p].left = request[p].left
      BY <1>3, <3>1, IdleOk DEF Answer, RequestOk, Fields
    <3>3. /\ request[p].u \in Users /\ request[p].got \in States /\ request[p].left \in Nat
          /\ ago[request[p].u][request[p].got] + request[p].left <= TTL
      BY <1>3, <3>1, <3>2 DEF RecentInv, Fresh, RequestFresh, RequestOk
    <3>4. ago[request[p].u][request[p].got] \in 0..Long
      BY <1>3, <3>3 DEF RecentInv, AgoOk
    <3>. QED  BY <2>0, <3>2, <3>3, <3>4
  <2>2. ASSUME NEW u \in Users, cache[u] # None, request'[p].u = u, request'[p].left = TTL,
               request'[p].got = Cached(u)
        PROVE  ago[request'[p].u][request'[p].got] + request'[p].left < Long
    <3>1. cache[u].left \in 1..TTL /\ Cached(u) \in States /\ ago[u][Cached(u)] + cache[u].left <= TTL
      BY <1>3, <2>2 DEF RecentInv, Fresh, EntryFresh
    <3>2. ago[u][Cached(u)] \in 0..Long
      BY <1>3, <3>1 DEF RecentInv, AgoOk
    <3>. QED  BY <2>0, <2>2, <3>1, <3>2
  <2>. QED  BY <1>3, <2>0, <2>1, <2>2, LetIn
<1>4. RecentInv /\ [Next]_vars =>
        [\A p \in Requests : (request[p].at # "in" /\ request'[p].at = "in" /\ request'[p].left > 0) =>
           ago[request'[p].u][request'[p].got] + request'[p].left < Long]_vars
  BY <1>3
<1>. QED  BY <1>1, <1>2, <1>4, PTL DEF Spec, AcceptedIsRecent

-----------------------------------------------------------------------------
(* The platform's tokens: types *)

\* What is issued, and what a call carries.
PairRow == [version : Nat, raised : Nat, old : BOOLEAN]
Carried == [at : {"idle", "lookup", "user", "revoke", "store", "issue", "write"},
            op : {"none", "refresh", "logout", "login", "verify", "activate", "change", "disable"},
            id : Nat, version : Nat, raised : Nat, late : BOOLEAN]
OnToken == {"lookup", "user", "revoke", "store"}
\* Ids name pairs that were issued, and a call at a token has one.
PlatformTypes ==
    /\ admin \in [active : BOOLEAN, version : Nat, secret : BOOLEAN, totp : BOOLEAN]
    /\ \E n \in Nat : pairs \in [1..n -> PairRow]
    /\ memory \in [now : SUBSET Ids, brief : SUBSET Ids] /\ stored \subseteq Ids
    /\ done \subseteq Ids /\ unstored \subseteq Ids
    /\ caller \in [Callers -> Carried]
    /\ \A c \in Callers : /\ caller[c].at \in OnToken \/ caller[c].late => caller[c].id \in Ids
                          /\ caller[c].at = "write" => caller[c].op \in {"activate", "change", "disable"}
    /\ raised \in Nat /\ clash \in BOOLEAN /\ locked \in BOOLEAN /\ restarts \in Nat

\* IssuePair adds one pair and leaves the others as they are.
LEMMA IssuedPairs ==
    ASSUME PlatformTypes, NEW v \in Nat, NEW n \in Nat
    PROVE  /\ \E k \in Nat : Issued(v, n) \in [1..k -> PairRow] /\ Ids \subseteq DOMAIN Issued(v, n)
           /\ \A i \in Ids : Issued(v, n)[i] = pairs[i]
           /\ \A i \in DOMAIN Issued(v, n) : i \notin Ids => Issued(v, n)[i] = Pair(v, n)
<1>1. PICK k \in Nat : pairs \in [1..k -> PairRow]
  BY DEF PlatformTypes
<1>2. Ids = 1..k /\ Cardinality(Ids) = k
  BY <1>1, FS_Interval DEF Ids
<1>3. Issued(v, n) = [i \in 1..k + 1 |-> IF i \in Ids THEN pairs[i] ELSE Pair(v, n)]
  BY <1>2 DEF Issued
<1>4. Pair(v, n) \in PairRow
  BY DEF Pair, PairRow
<1>5. Issued(v, n) \in [1..k + 1 -> PairRow] /\ k + 1 \in Nat
  BY <1>1, <1>2, <1>3, <1>4
<1>. QED  BY <1>2, <1>3, <1>5

\* Pairs are never taken back and never become good again.
PairsStay == /\ \E n \in Nat : pairs' \in [1..n -> PairRow] 
             /\ \A i \in Ids : /\ i \in Ids' /\ pairs'[i].version = pairs[i].version
                               /\ pairs'[i].raised = pairs[i].raised /\ (pairs[i].old => pairs'[i].old)

\* A call at rest is sound, and none is late.
LEMMA RestTyped == Rest \in Carried /\ Rest.late = FALSE /\ Rest.at = "idle" /\ Rest.id = 0
BY DEF Rest, Carried

\* Where no pair changes, none is taken back.
LEMMA SamePairs == ASSUME PlatformTypes, pairs' = pairs PROVE PairsStay /\ Ids' = Ids
BY DEF PairsStay, PlatformTypes, Ids

\* No step takes a pair back.
LEMMA PairsDoStay == ASSUME PlatformTypes, [PlatformNext]_platformVars PROVE PairsStay
<1>1. ASSUME NEW c \in Callers, IssuePair(c) PROVE PairsStay
  <2>1. caller[c].version \in Nat /\ caller[c].raised \in Nat
    BY DEF PlatformTypes, Carried
  <2>2. pairs' = Issued(caller[c].version, caller[c].raised)
    BY <1>1 DEF IssuePair
  <2>. QED  BY <2>1, <2>2, IssuedPairs DEF PairsStay, Ids
<1>2. ASSUME NEW i \in Ids, Expire(i) PROVE PairsStay
  <2>1. PICK n \in Nat : pairs \in [1..n -> PairRow]
    BY DEF PlatformTypes
  <2>2. pairs' = [pairs EXCEPT ![i].old = TRUE] /\ i \in 1..n
    BY <1>2, <2>1 DEF Expire, Ids
  <2>3. pairs' = [pairs EXCEPT ![i] = [pairs[i] EXCEPT !.old = TRUE]]
    BY <2>2
  <2>4. [pairs[i] EXCEPT !.old = TRUE] \in PairRow
    BY <2>1, <2>2 DEF PairRow
  <2>5. pairs' \in [1..n -> PairRow]
    BY <2>1, <2>3, <2>4
  <2>6. ASSUME NEW j \in Ids
        PROVE  /\ j \in Ids' /\ pairs'[j].version = pairs[j].version
               /\ pairs'[j].raised = pairs[j].raised /\ (pairs[j].old => pairs'[j].old)
    <3>1. j \in 1..n /\ j \in Ids' /\ pairs[j] \in PairRow /\ pairs[i] \in PairRow
      BY <2>1, <2>2, <2>5 DEF Ids
    <3>2. CASE j = i
      BY <2>1, <2>2, <2>3, <3>1, <3>2 DEF PairRow
    <3>3. CASE j # i
      BY <2>1, <2>2, <2>3, <3>1, <3>3
    <3>. QED  BY <3>2, <3>3, <3>1
  <2>. QED  BY <2>5, <2>6 DEF PairsStay
<1>3. CASE pairs' = pairs
  BY <1>3, SamePairs
<1>. QED
  BY <1>1, <1>2, <1>3 DEF PlatformNext, platformVars, Refresh, Logout, Lookup, ReadAdmin, RevokeNow, StoreRow,
     AdminLogin, Verify, Activate, AdminChangePassword, Disable, ReadsAdmin, WriteAdmin, Evict, Setup,
     RequireSecondFactor, SetActive, Restart

\* The first state is of the right types.
LEMMA PlatformTypesInit == PlatformInit => PlatformTypes
<1>. SUFFICES ASSUME PlatformInit PROVE PlatformTypes
  OBVIOUS
<1>1. pairs \in [1..1 -> PairRow] /\ Ids = {1}
  BY DEF PlatformInit, Pair, PairRow, Ids
<1>2. caller \in [Callers -> Carried] /\ \A c \in Callers : caller[c] = Rest
  BY RestTyped DEF PlatformInit
<1>3. \E n \in Nat : pairs \in [1..n -> PairRow]
  BY <1>1
<1>. QED  BY <1>2, <1>3, RestTyped DEF PlatformInit, PlatformTypes, OnToken

\* A call begins or moves on, and the rest of the types follows.
LEMMA MoveTyped ==
    ASSUME PlatformTypes, PairsStay, NEW c \in Callers, NEW r \in Carried,
           caller' = [caller EXCEPT ![c] = r],
           r.at \in OnToken \/ r.late => r.id \in Ids,
           r.at = "write" => r.op \in {"activate", "change", "disable"}
    PROVE  /\ caller' \in [Callers -> Carried]
           /\ \A d \in Callers : /\ caller'[d].at \in OnToken \/ caller'[d].late => caller'[d].id \in Ids'
                                 /\ caller'[d].at = "write" => caller'[d].op \in {"activate", "change", "disable"}
<1>1. caller' \in [Callers -> Carried]
  BY DEF PlatformTypes
<1>2. Ids \subseteq Ids'
  BY DEF PairsStay
<1>. QED  BY <1>1, <1>2 DEF PlatformTypes

\* What a step leaves alone keeps its type while pairs are added.
LEMMA TablesTyped ==
    ASSUME PlatformTypes, PairsStay
    PROVE  /\ UNCHANGED memory => memory' \in [now : SUBSET Ids', brief : SUBSET Ids']
           /\ UNCHANGED stored => stored' \subseteq Ids'
           /\ UNCHANGED done => done' \subseteq Ids'
           /\ UNCHANGED unstored => unstored' \subseteq Ids'
           /\ UNCHANGED caller =>
                /\ caller' \in [Callers -> Carried]
                /\ \A d \in Callers : /\ caller'[d].at \in OnToken \/ caller'[d].late => caller'[d].id \in Ids'
                                      /\ caller'[d].at = "write" => caller'[d].op \in {"activate", "change", "disable"}
           /\ \E n \in Nat : pairs' \in [1..n -> PairRow]
BY DEF PlatformTypes, PairsStay

\* What a call carries after moving on.
LEMMA CarriedOn ==
    ASSUME PlatformTypes, NEW c \in Callers
    PROVE  /\ caller[c] \in Carried
           /\ \A at \in {"user", "store", "issue"} :
                /\ To(c, at) = [caller EXCEPT ![c] = [caller[c] EXCEPT !.at = at]]
                /\ [caller[c] EXCEPT !.at = at] \in Carried
<1>1. caller[c] \in Carried /\ caller \in [Callers -> Carried]
  BY DEF PlatformTypes
<1>2. ASSUME NEW at \in {"user", "store", "issue"}
      PROVE  /\ To(c, at) = [caller EXCEPT ![c] = [caller[c] EXCEPT !.at = at]]
             /\ [caller[c] EXCEPT !.at = at] \in Carried
  <2>1. To(c, at) = [caller EXCEPT ![c] = [caller[c] EXCEPT !.at = at]]
    BY <1>1 DEF To
  <2>2. [caller[c] EXCEPT !.at = at] \in Carried
    BY <1>1, <1>2 DEF Carried
  <2>. QED  BY <2>1, <2>2
<1>. QED  BY <1>1, <1>2

\* Call c moves on to r.
CallStep(c, r) ==
    /\ r \in Carried /\ caller' = [caller EXCEPT ![c] = r]
    /\ r.at \in OnToken \/ r.late => r.id \in Ids
    /\ r.at = "write" => r.op \in {"activate", "change", "disable"}

\* A call that is over.
LEMMA Finishes ==
    ASSUME NEW c \in Callers, caller' = Finish(c)
    PROVE  CallStep(c, Rest)
BY RestTyped DEF CallStep, Finish, OnToken

\* A call that goes on to its next step with what it carries.
LEMMA GoesTo ==
    ASSUME PlatformTypes, NEW c \in Callers, NEW at \in {"user", "store", "issue"}, caller' = To(c, at),
           caller[c].at \in OnToken
    PROVE  CallStep(c, [caller[c] EXCEPT !.at = at])
<1>1. caller[c] \in Carried /\ caller[c].id \in Ids
  BY CarriedOn DEF PlatformTypes
<1>2. [caller[c] EXCEPT !.at = at].id = caller[c].id /\ [caller[c] EXCEPT !.at = at].at # "write"
  BY <1>1 DEF Carried
<1>. QED  BY <1>1, <1>2, CarriedOn DEF CallStep

\* A refresh is refused from memory, or goes on to the table and notes whether the
\* token had been revoked.
LEMMA RefreshMoves ==
    ASSUME PlatformTypes, NEW c \in Callers, NEW i \in Ids, Refresh(c, i)
    PROVE  \E r : /\ CallStep(c, r) /\ caller[c].at = "idle"
                  /\ \/ r = Rest
                     \/ /\ ~Remembered(i) /\ r.at = "lookup" /\ r.op = "refresh" /\ r.id = i
                        /\ r.late = (i \in done) /\ r.version = 0 /\ r.raised = 0
<1>1. i \in Nat
  BY DEF PlatformTypes, Ids
<1>. DEFINE r == [Rest EXCEPT !.at = "lookup", !.op = "refresh", !.id = i, !.late = i \in done]
<1>2. CASE Remembered(i)
  <2>1. caller' = [caller EXCEPT ![c] = Rest] /\ caller[c].at = "idle"
    BY <1>2 DEF Refresh, Opens
  <2>. QED  BY <2>1, RestTyped DEF CallStep, OnToken
<1>3. CASE ~Remembered(i)
  <2>1. caller' = [caller EXCEPT ![c] = r] /\ caller[c].at = "idle"
    BY <1>3 DEF Refresh, Opens
  <2>2. r \in Carried
    <3>. DEFINE b == i \in done
    <3>1. b \in BOOLEAN
      OBVIOUS
    <3>. HIDE DEF b
    <3>2. [Rest EXCEPT !.at = "lookup", !.op = "refresh", !.id = i, !.late = b] \in Carried
      BY <1>1, <3>1, RestTyped DEF Carried
    <3>. QED  BY <3>2 DEF b
  <2>4. /\ r.at = "lookup" /\ r.op = "refresh" /\ r.id = i
        /\ r.late = (i \in done) /\ r.version = 0 /\ r.raised = 0
    BY DEF Rest
  <2>. HIDE DEF r
  <2>3. CallStep(c, r)
    BY <2>1, <2>2, <2>4 DEF CallStep
  <2>. QED  BY <1>3, <2>1, <2>3, <2>4
<1>. QED  BY <1>2, <1>3

\* Signing out goes straight to the revocation.
LEMMA LogoutMoves ==
    ASSUME PlatformTypes, NEW c \in Callers, NEW i \in Ids, Logout(c, i)
    PROVE  \E r : /\ CallStep(c, r) /\ caller[c].at = "idle"
                  /\ r.at = "revoke" /\ r.op = "logout" /\ r.id = i
                  /\ ~r.late /\ r.version = 0 /\ r.raised = 0
<1>1. i \in Nat
  BY DEF PlatformTypes, Ids
<1>. DEFINE r == [Rest EXCEPT !.at = "revoke", !.op = "logout", !.id = i]
<1>2. caller' = [caller EXCEPT ![c] = r] /\ caller[c].at = "idle"
  BY DEF Logout, Opens
<1>3. /\ r \in Carried /\ r.at = "revoke" /\ r.op = "logout" /\ r.id = i
      /\ ~r.late /\ r.version = 0 /\ r.raised = 0
  BY <1>1 DEF Carried, Rest
<1>. HIDE DEF r
<1>4. CallStep(c, r)
  BY <1>2, <1>3 DEF CallStep
<1>. QED  BY <1>2, <1>3, <1>4

\* The calls that read the row first.
Reading(c) == AdminLogin(c) \/ Verify(c) \/ Activate(c) \/ AdminChangePassword(c) \/ Disable(c)

\* They carry the version of the row as it was read.
LEMMA ReadingMoves ==
    ASSUME PlatformTypes, NEW c \in Callers, Reading(c)
    PROVE  \E r : /\ CallStep(c, r) /\ caller[c].at = "idle"
                  /\ \/ r = Rest
                     \/ /\ r.at \in {"issue", "write"} /\ r.late = FALSE
                        /\ r.version = admin.version /\ r.raised = raised
                        /\ r.at = "write" /\ r.op = "activate" => admin.secret
<1>. DEFINE R(at, op) == [Rest EXCEPT !.at = at, !.op = op, !.version = admin.version, !.raised = raised]
<1>1. admin.version \in Nat /\ raised \in Nat
  BY DEF PlatformTypes
<1>a. ASSUME NEW at \in {"issue", "write"}, NEW op \in {"login", "verify", "activate", "change", "disable"}
      PROVE  R(at, op) \in Carried
  BY <1>1, <1>a, RestTyped DEF Carried
<1>3. CASE caller' = [caller EXCEPT ![c] = Rest] /\ caller[c].at = "idle"
  BY <1>3, RestTyped DEF CallStep, OnToken
<1>4. ASSUME NEW at \in {"issue", "write"}, NEW op \in {"login", "verify", "activate", "change", "disable"},
             caller' = [caller EXCEPT ![c] = R(at, op)], caller[c].at = "idle",
             at = "write" /\ op = "activate" => admin.secret,
             at = "write" => op \in {"activate", "change", "disable"}
      PROVE  \E r : /\ CallStep(c, r) /\ caller[c].at = "idle"
                    /\ r.at \in {"issue", "write"} /\ r.late = FALSE
                    /\ r.version = admin.version /\ r.raised = raised
                    /\ r.at = "write" /\ r.op = "activate" => admin.secret
  <2>1. R(at, op) \in Carried
    BY <1>a
  <2>2. /\ R(at, op).at = at /\ R(at, op).op = op /\ R(at, op).late = FALSE
        /\ R(at, op).version = admin.version /\ R(at, op).raised = raised
    BY DEF Rest
  <2>. HIDE DEF R
  <2>3. CallStep(c, R(at, op))
    BY <1>4, <2>1, <2>2 DEF CallStep, OnToken
  <2>. QED  BY <1>4, <2>2, <2>3
<1>5. CASE AdminLogin(c)
  <2>1. \/ caller' = [caller EXCEPT ![c] = Rest] /\ caller[c].at = "idle"
        \/ caller' = [caller EXCEPT ![c] = R("issue", "login")] /\ caller[c].at = "idle"
    BY <1>5 DEF AdminLogin, Opens
  <2>. HIDE DEF R
  <2>. QED  BY <2>1, <1>3, <1>4
<1>6. CASE Verify(c)
  <2>1. caller' = [caller EXCEPT ![c] = R("issue", "verify")] /\ caller[c].at = "idle"
    BY <1>6 DEF Verify, ReadsAdmin, Opens
  <2>. HIDE DEF R
  <2>. QED  BY <2>1, <1>4
<1>7. CASE Activate(c)
  <2>1. caller' = [caller EXCEPT ![c] = R("write", "activate")] /\ caller[c].at = "idle" /\ admin.secret
    BY <1>7 DEF Activate, ReadsAdmin, Opens
  <2>. HIDE DEF R
  <2>. QED  BY <2>1, <1>4
<1>8. CASE AdminChangePassword(c)
  <2>1. caller' = [caller EXCEPT ![c] = R("write", "change")] /\ caller[c].at = "idle"
    BY <1>8 DEF AdminChangePassword, ReadsAdmin, Opens
  <2>. HIDE DEF R
  <2>. QED  BY <2>1, <1>4
<1>9. CASE Disable(c)
  <2>1. caller' = [caller EXCEPT ![c] = R("write", "disable")] /\ caller[c].at = "idle"
    BY <1>9 DEF Disable, ReadsAdmin, Opens
  <2>. HIDE DEF R
  <2>. QED  BY <2>1, <1>4
<1>. QED  BY <1>5, <1>6, <1>7, <1>8, <1>9 DEF Reading

\* The row is read: the call goes on with its version, or ends.
LEMMA ReadAdminMoves ==
    ASSUME PlatformTypes, NEW c \in Callers, ReadAdmin(c)
    PROVE  /\ caller[c].at = "user"
           /\ \E r : /\ CallStep(c, r)
                     /\ \/ r = Rest
                        \/ /\ r.at = "revoke" /\ r.op = caller[c].op /\ r.id = caller[c].id /\ r.late = caller[c].late
                           /\ r.version = admin.version /\ r.raised = raised
<1>1. admin.version \in Nat /\ raised \in Nat /\ caller[c] \in Carried /\ caller \in [Callers -> Carried]
  BY DEF PlatformTypes
<1>. DEFINE r == [caller[c] EXCEPT !.at = "revoke", !.version = admin.version, !.raised = raised]
<1>2. caller[c].at = "user" /\ caller[c].id \in Ids
  BY DEF ReadAdmin, PlatformTypes, OnToken
<1>3. CASE admin.active /\ pairs[caller[c].id].version = admin.version
  <2>1. caller' = [caller EXCEPT ![c] = r]
    BY <1>1, <1>3 DEF ReadAdmin
  <2>2. /\ r \in Carried /\ r.at = "revoke" /\ r.op = caller[c].op /\ r.id = caller[c].id /\ r.late = caller[c].late
        /\ r.version = admin.version /\ r.raised = raised
    BY <1>1 DEF Carried
  <2>. HIDE DEF r
  <2>3. CallStep(c, r)
    BY <1>2, <2>1, <2>2 DEF CallStep
  <2>. QED  BY <1>2, <2>2, <2>3
<1>4. CASE ~(admin.active /\ pairs[caller[c].id].version = admin.version)
  <2>1. caller' = Finish(c)
    BY <1>4 DEF ReadAdmin
  <2>. QED  BY <1>2, <2>1, Finishes
<1>. QED  BY <1>3, <1>4

\* A call moves and nothing else changes but numbers and flags.
LEMMA StepTyped ==
    ASSUME PlatformTypes, PairsStay, NEW c \in Callers, NEW r, CallStep(c, r),
           memory' \in [now : SUBSET Ids, brief : SUBSET Ids], stored' \subseteq Ids,
           done' \subseteq Ids, unstored' \subseteq Ids,
           admin' \in [active : BOOLEAN, version : Nat, secret : BOOLEAN, totp : BOOLEAN],
           raised' \in Nat, clash' \in BOOLEAN, locked' \in BOOLEAN, restarts' = restarts
    PROVE  PlatformTypes'
<1>1. Ids \subseteq Ids' /\ \E n \in Nat : pairs' \in [1..n -> PairRow]
  BY DEF PairsStay
<1>2. /\ caller' \in [Callers -> Carried]
      /\ \A d \in Callers : /\ caller'[d].at \in OnToken \/ caller'[d].late => caller'[d].id \in Ids'
                            /\ caller'[d].at = "write" => caller'[d].op \in {"activate", "change", "disable"}
  BY MoveTyped DEF CallStep
<1>3. memory' \in [now : SUBSET Ids', brief : SUBSET Ids']
  BY <1>1
<1>. QED  BY <1>1, <1>2, <1>3 DEF PlatformTypes

\* What Lookup does: the caller is refused, or goes on as the token is not stored or old.
LEMMA LookupMoves ==
    ASSUME PlatformTypes, NEW c \in Callers, Lookup(c)
    PROVE  LET i == caller[c].id IN
           /\ caller[c].at = "lookup" /\ i \in Ids
           /\ \/ CallStep(c, Rest)
              \/ /\ CallStep(c, [caller[c] EXCEPT !.at = "user"]) /\ (i \notin stored \/ pairs[i].old)
           /\ \/ memory' = memory
              \/ /\ i \in stored
                 /\ memory' = [now |-> memory.now \ {i}, brief |-> memory.brief \cup {i}]
<1>1. caller[c].at = "lookup" /\ caller[c].id \in Ids
  BY DEF Lookup, PlatformTypes, OnToken
<1>2. CASE caller' = Finish(c)
  BY <1>1, <1>2, Finishes DEF Lookup, WhenUnknown
<1>3. CASE caller' = To(c, "user") /\ caller' # Finish(c)
  <2>1. CallStep(c, [caller[c] EXCEPT !.at = "user"])
    BY <1>1, <1>3, GoesTo DEF OnToken
  <2>. QED  BY <1>1, <1>3, <2>1 DEF Lookup, WhenUnknown
<1>. QED  BY <1>2, <1>3 DEF Lookup, WhenUnknown

\* The id goes into memory for good and the call on to the table.
LEMMA RevokeNowMoves ==
    ASSUME PlatformTypes, NEW c \in Callers, RevokeNow(c)
    PROVE  /\ caller[c].at = "revoke" /\ caller[c].id \in Ids
           /\ CallStep(c, [caller[c] EXCEPT !.at = "store"])
           /\ memory' = [now |-> memory.now \cup {caller[c].id}, brief |-> memory.brief \ {caller[c].id}]
<1>1. caller[c].at = "revoke" /\ caller[c].id \in Ids
  BY DEF RevokeNow, PlatformTypes, OnToken
<1>2. CallStep(c, [caller[c] EXCEPT !.at = "store"])
  BY <1>1, GoesTo DEF RevokeNow, OnToken
<1>. QED  BY <1>1, <1>2 DEF RevokeNow, Revoke, PlatformTypes

\* The row is stored or not, and the revocation is over.
LEMMA StoreRowMoves ==
    ASSUME PlatformTypes, NEW c \in Callers, StoreRow(c)
    PROVE  LET i == caller[c].id IN
           /\ caller[c].at = "store" /\ i \in Ids
           /\ CallStep(c, Rest) \/ CallStep(c, [caller[c] EXCEPT !.at = "issue"])
           /\ \/ stored' = Purged(i) /\ UNCHANGED unstored
              \/ unstored' = unstored \cup {i} /\ UNCHANGED stored
           /\ done' = done \cup {i}
<1>1. caller[c].at = "store" /\ caller[c].id \in Ids
  BY DEF StoreRow, PlatformTypes, OnToken
<1>2. CallStep(c, Rest) \/ CallStep(c, [caller[c] EXCEPT !.at = "issue"])
  BY <1>1, Finishes, GoesTo DEF StoreRow, OnToken
<1>. QED  BY <1>1, <1>2 DEF StoreRow

\* The row is written with the version that was read, raised by one, or the second
\* factor is turned on.
LEMMA WriteAdminMoves ==
    ASSUME PlatformTypes, NEW c \in Callers, WriteAdmin(c)
    PROVE  LET r == caller[c] IN
           /\ r.at = "write"
           /\ \/ /\ r.op = "activate" /\ admin' = [admin EXCEPT !.totp = TRUE]
                 /\ \E n : CallStep(c, n) /\ n.at = "issue" /\ n.version = admin.version /\ n.raised = raised
                           /\ n.late = r.late /\ n.id = r.id
                 /\ raised' = raised /\ clash' = clash /\ locked' = locked
              \/ /\ r.op # "activate"
                 /\ \/ admin' = [admin EXCEPT !.version = r.version + 1]
                    \/ /\ admin' = [admin EXCEPT !.version = r.version + 1, !.totp = FALSE, !.secret = FALSE]
                       /\ locked' = (locked \/ \E d \in Callers : caller[d].at = "write" /\ caller[d].op = "activate")
                 /\ CallStep(c, Rest) /\ raised' = raised + 1 /\ clash' = (clash \/ r.raised # raised)
                 /\ locked' \in BOOLEAN /\ (locked => locked')
<1>1. caller[c].at = "write" /\ caller[c] \in Carried /\ caller \in [Callers -> Carried]
      /\ admin.version \in Nat /\ raised \in Nat /\ caller[c].op \in {"activate", "change", "disable"}
  BY DEF WriteAdmin, PlatformTypes
<1>2. CASE caller[c].op = "activate"
  <2>. DEFINE n == [caller[c] EXCEPT !.at = "issue", !.version = admin.version, !.raised = raised]
  <2>1. caller' = [caller EXCEPT ![c] = n]
    BY <1>1, <1>2 DEF WriteAdmin
  <2>2. n \in Carried /\ n.at = "issue" /\ n.version = admin.version /\ n.raised = raised
        /\ n.late = caller[c].late /\ n.id = caller[c].id
    BY <1>1 DEF Carried
  <2>. HIDE DEF n
  <2>3. CallStep(c, n)
    BY <2>1, <2>2 DEF CallStep, OnToken, PlatformTypes
  <2>4. admin' = [admin EXCEPT !.totp = TRUE] /\ raised' = raised /\ clash' = clash /\ locked' = locked
    BY <1>2 DEF WriteAdmin
  <2>5. \E k : CallStep(c, k) /\ k.at = "issue" /\ k.version = admin.version /\ k.raised = raised
                 /\ k.late = caller[c].late /\ k.id = caller[c].id
    BY <2>2, <2>3
  <2>. QED  BY <1>1, <1>2, <2>4, <2>5
<1>3. CASE caller[c].op # "activate"
  <2>1. CallStep(c, Rest)
    BY <1>3, Finishes DEF WriteAdmin
  <2>2. locked' \in BOOLEAN /\ (locked => locked')
    BY <1>3 DEF WriteAdmin
  <2>. QED  BY <1>1, <1>3, <2>1, <2>2 DEF WriteAdmin, Raised
<1>. QED  BY <1>2, <1>3

\* A step that changes nothing of this.
LEMMA StutterTyped == ASSUME PlatformTypes, UNCHANGED <<memory, stored, done, unstored, caller, admin, raised, clash, locked, restarts, pairs>> PROVE PlatformTypes'
<1>1. Ids' = Ids
  BY DEF Ids
<1>2. \E n \in Nat : pairs' \in [1..n -> PairRow]
  BY DEF PlatformTypes
<1>. QED  BY <1>1, <1>2 DEF PlatformTypes

\* The steps, grouped as the proofs take them.
LEMMA PlatformSteps ==
    ASSUME [PlatformNext]_platformVars
    PROVE  \/ \E c \in Callers : \E i \in Ids : Refresh(c, i) \/ Logout(c, i)
           \/ \E c \in Callers : Lookup(c)
           \/ \E c \in Callers : ReadAdmin(c) \/ Reading(c)
           \/ \E c \in Callers : RevokeNow(c)
           \/ \E c \in Callers : StoreRow(c)
           \/ \E c \in Callers : IssuePair(c)
           \/ \E c \in Callers : WriteAdmin(c)
           \/ \E i \in Ids : Evict(i) \/ Expire(i)
           \/ Setup \/ RequireSecondFactor \/ SetActive
           \/ Restart
           \/ UNCHANGED platformVars
BY DEF PlatformNext, Reading

\* Every step keeps the types.
LEMMA PlatformTypesNext == PlatformTypes /\ [PlatformNext]_platformVars => PlatformTypes'
<1>. SUFFICES ASSUME PlatformTypes, [PlatformNext]_platformVars PROVE PlatformTypes'
  OBVIOUS
<1>s. PairsStay
  BY PairsDoStay
<1>t. /\ memory \in [now : SUBSET Ids, brief : SUBSET Ids] /\ stored \subseteq Ids
      /\ done \subseteq Ids /\ unstored \subseteq Ids
      /\ admin \in [active : BOOLEAN, version : Nat, secret : BOOLEAN, totp : BOOLEAN]
      /\ raised \in Nat /\ clash \in BOOLEAN /\ locked \in BOOLEAN /\ restarts \in Nat
  BY DEF PlatformTypes
<1>m. memory.now \subseteq Ids /\ memory.brief \subseteq Ids
  BY <1>t
<1>1. ASSUME NEW c \in Callers, NEW i \in Ids, Refresh(c, i) \/ Logout(c, i) PROVE PlatformTypes'
  <2>1. PICK r : CallStep(c, r)
    BY <1>1, RefreshMoves, LogoutMoves
  <2>2. UNCHANGED <<memory, stored, done, unstored, admin, raised, clash, locked, restarts>>
    BY <1>1 DEF Refresh, Logout, pastOf
  <2>. QED  BY <1>s, <1>t, <2>1, <2>2, StepTyped
<1>2. ASSUME NEW c \in Callers, Lookup(c) PROVE PlatformTypes'
  <2>1. PICK r : CallStep(c, r)
    BY <1>2, LookupMoves
  <2>2. memory' \in [now : SUBSET Ids, brief : SUBSET Ids]
    <3>1. \/ memory' = memory
          \/ \E S \in SUBSET Ids, T \in SUBSET Ids : memory' = [now |-> S, brief |-> T]
      BY <1>2, <1>m, LookupMoves
    <3>. QED  BY <1>t, <3>1
  <2>3. UNCHANGED <<stored, done, unstored, admin, raised, clash, locked, restarts>>
    BY <1>2 DEF Lookup, pastOf, limits
  <2>. QED  BY <1>s, <1>t, <2>1, <2>2, <2>3, StepTyped
<1>3. ASSUME NEW c \in Callers, ReadAdmin(c) \/ Reading(c) PROVE PlatformTypes'
  <2>1. PICK r : CallStep(c, r)
    BY <1>3, ReadAdminMoves, ReadingMoves
  <2>2. UNCHANGED <<memory, stored, done, unstored, admin, raised, clash, locked, restarts>>
    BY <1>3 DEF ReadAdmin, Reading, AdminLogin, Verify, Activate, AdminChangePassword, Disable, ReadsAdmin, pastOf, limits
  <2>. QED  BY <1>s, <1>t, <2>1, <2>2, StepTyped
<1>4. ASSUME NEW c \in Callers, RevokeNow(c) PROVE PlatformTypes'
  <2>1. PICK r : CallStep(c, r)
    BY <1>4, RevokeNowMoves
  <2>2. memory' \in [now : SUBSET Ids, brief : SUBSET Ids]
    <3>1. \/ memory' = memory
          \/ \E S \in SUBSET Ids, T \in SUBSET Ids : memory' = [now |-> S, brief |-> T]
      BY <1>4, <1>m, RevokeNowMoves
    <3>. QED  BY <1>t, <3>1
  <2>3. UNCHANGED <<stored, done, unstored, admin, raised, clash, locked, restarts>>
    BY <1>4 DEF RevokeNow, pastOf, limits
  <2>. QED  BY <1>s, <1>t, <2>1, <2>2, <2>3, StepTyped
<1>5. ASSUME NEW c \in Callers, StoreRow(c) PROVE PlatformTypes'
  <2>1. PICK r : CallStep(c, r)
    BY <1>5, StoreRowMoves
  <2>2. stored' \subseteq Ids /\ unstored' \subseteq Ids /\ done' \subseteq Ids
    BY <1>5, <1>t, StoreRowMoves DEF Purged
  <2>3. UNCHANGED <<memory, admin, raised, clash, locked, restarts>>
    BY <1>5 DEF StoreRow, limits
  <2>. QED  BY <1>s, <1>t, <2>1, <2>2, <2>3, StepTyped
<1>6. ASSUME NEW c \in Callers, IssuePair(c) PROVE PlatformTypes'
  <2>1. CallStep(c, Rest)
    BY <1>6, Finishes DEF IssuePair
  <2>2. UNCHANGED <<memory, stored, done, unstored, admin, raised, clash, locked, restarts>>
    BY <1>6 DEF IssuePair, pastOf, limits
  <2>. QED  BY <1>s, <1>t, <2>1, <2>2, StepTyped
<1>7. ASSUME NEW c \in Callers, WriteAdmin(c) PROVE PlatformTypes'
  <2>1. PICK r : CallStep(c, r)
    BY <1>7, WriteAdminMoves
  <2>2. UNCHANGED <<memory, stored, done, unstored, restarts>>
    BY <1>7 DEF WriteAdmin, limits
  <2>3. caller[c].version + 1 \in Nat
    BY DEF PlatformTypes, Carried
  <2>4. admin' \in [active : BOOLEAN, version : Nat, secret : BOOLEAN, totp : BOOLEAN]
    BY <1>7, <1>t, <2>3, WriteAdminMoves
  <2>5. raised' \in Nat /\ clash' \in BOOLEAN /\ locked' \in BOOLEAN
    <3>1. raised' = raised \/ raised' = raised + 1
      BY <1>7 DEF WriteAdmin
    <3>2. clash' = clash \/ clash' = (clash \/ caller[c].raised # raised)
      BY <1>7 DEF WriteAdmin
    <3>3. clash' \in BOOLEAN
      BY <1>t, <3>2
    <3>4. locked' = locked \/ locked' \in BOOLEAN
      BY <1>7 DEF WriteAdmin
    <3>. QED  BY <1>t, <3>1, <3>3, <3>4
  <2>. QED  BY <1>s, <1>t, <2>1, <2>2, <2>4, <2>5, StepTyped
<1>8. CASE \E i \in Ids : Evict(i) \/ Expire(i)
  <2>1. memory' \in [now : SUBSET Ids, brief : SUBSET Ids]
    BY <1>8, <1>t DEF Evict, Expire
  <2>2. UNCHANGED <<stored, done, unstored, caller, admin, raised, clash, locked, restarts>>
    BY <1>8 DEF Evict, Expire, pastOf, limits
  <2>3. Ids \subseteq Ids'
    BY <1>s DEF PairsStay
  <2>. QED  BY <1>s, <1>t, <2>1, <2>2, <2>3, TablesTyped DEF PlatformTypes
<1>9. CASE Setup \/ RequireSecondFactor \/ SetActive
  <2>1. admin' \in [active : BOOLEAN, version : Nat, secret : BOOLEAN, totp : BOOLEAN]
    BY <1>9, <1>t DEF Setup, RequireSecondFactor, SetActive
  <2>2. UNCHANGED <<memory, stored, done, unstored, caller, raised, clash, locked, restarts>>
    BY <1>9 DEF Setup, RequireSecondFactor, SetActive, pastOf
  <2>. QED  BY <1>s, <1>t, <2>1, <2>2, TablesTyped DEF PlatformTypes
<1>10. CASE Restart
  <2>1. /\ memory' = [now |-> {}, brief |-> {}] /\ caller' = [c \in Callers |-> Rest] /\ restarts' = restarts + 1
        /\ UNCHANGED <<stored, done, unstored, admin, raised, clash, locked>>
    BY <1>10 DEF Restart, pastOf
  <2>2. caller' \in [Callers -> Carried] /\ \A d \in Callers : caller'[d] = Rest
    BY <2>1, RestTyped
  <2>3. \E n \in Nat : pairs' \in [1..n -> PairRow]
    BY <1>s DEF PairsStay
  <2>4. Ids \subseteq Ids'
    BY <1>s DEF PairsStay
  <2>5. memory' \in [now : SUBSET Ids', brief : SUBSET Ids']
    BY <2>1
  <2>6. \A d \in Callers : /\ caller'[d].at \in OnToken \/ caller'[d].late => caller'[d].id \in Ids'
                           /\ caller'[d].at = "write" => caller'[d].op \in {"activate", "change", "disable"}
    BY <2>2, RestTyped DEF OnToken
  <2>7. admin' \in [active : BOOLEAN, version : Nat, secret : BOOLEAN, totp : BOOLEAN]
    BY <1>t, <2>1
  <2>8. stored' \subseteq Ids' /\ done' \subseteq Ids' /\ unstored' \subseteq Ids'
    BY <1>t, <2>1, <2>4
  <2>9. raised' \in Nat /\ clash' \in BOOLEAN /\ locked' \in BOOLEAN /\ restarts' \in Nat
    BY <1>t, <2>1
  <2>10. caller' \in [Callers -> Carried]
    BY <2>2
  <2>. QED  BY <2>3, <2>5, <2>6, <2>7, <2>8, <2>9, <2>10 DEF PlatformTypes
<1>11. CASE UNCHANGED platformVars
  BY <1>11, StutterTyped DEF platformVars, pastOf, limits
<1>. QED  BY <1>1, <1>2, <1>3, <1>4, <1>5, <1>6, <1>7, <1>8, <1>9, <1>10, <1>11, PlatformSteps

-----------------------------------------------------------------------------
(* Revoked tokens *)

\* The token of id i is of no use: too old, or its row was not stored and memory lost it.
Spent(i) == pairs[i].old \/ (i \in unstored /\ restarts > 0)
\* Id i is on the list: in memory for good, in the table, or of no use any more.
Listed(i) == i \in memory.now \/ i \in stored \/ pairs[i].old
\* What record r of a call says of its token.
CallSpent(r) ==
    /\ r.at = "store" => Listed(r.id)
    /\ r.late /\ r.at = "lookup" => r.id \in stored \/ Spent(r.id)
    /\ r.late /\ r.at \in {"user", "revoke", "store", "issue"} => Spent(r.id)
    /\ r.at = "write" => ~r.late
\* The strengthening of SpentIsSpent: where a revocation that is over can be found.
SpentInv ==
    /\ \A i \in done : i \in stored \/ i \in unstored \/ pairs[i].old
    /\ \A i \in done : Listed(i) \/ Spent(i)
    /\ \A i \in memory.brief : i \in stored \/ pairs[i].old
    /\ \A c \in Callers : CallSpent(caller[c])

\* What no step but a restart takes away.
NothingLost ==
    /\ unstored \subseteq unstored' /\ restarts' = restarts
    /\ \A i \in Ids : i \in stored => i \in stored' \/ pairs'[i].old
    /\ \A i \in Ids : i \in memory.now => i \in memory'.now \/ i \in stored' \/ pairs'[i].old
    /\ \A i \in memory'.brief : i \in stored' \/ pairs'[i].old

\* What a token's revocation has left behind stays.
LEMMA SpentStays ==
    ASSUME PlatformTypes, PairsStay, NothingLost, NEW i \in Ids
    PROVE  /\ Spent(i) => Spent(i)'
           /\ Listed(i) => Listed(i)'
           /\ i \in stored \/ Spent(i) => i \in stored' \/ Spent(i)'
           /\ pairs[i].old => pairs'[i].old
           /\ i \in unstored => i \in unstored'
<1>1. pairs[i].old => pairs'[i].old
  BY DEF PairsStay
<1>. QED  BY <1>1 DEF NothingLost, Spent, Listed

\* A call that does not move keeps what is known of its token.
LEMMA CallSpentStays ==
    ASSUME PlatformTypes, PairsStay, NothingLost, SpentInv, NEW d \in Callers,
           caller'[d] = caller[d]
    PROVE  CallSpent(caller[d])'
<1>1. CallSpent(caller[d]) /\ (caller[d].at = "store" \/ caller[d].late => caller[d].id \in Ids)
  BY DEF SpentInv, PlatformTypes, OnToken
<1>2. caller[d].at = "store" => Listed(caller[d].id)'
  BY <1>1, SpentStays DEF CallSpent, Listed
<1>3. caller[d].late /\ caller[d].at = "lookup" => caller[d].id \in stored' \/ Spent(caller[d].id)'
  BY <1>1, SpentStays DEF CallSpent, Spent
<1>4. caller[d].late /\ caller[d].at \in {"user", "revoke", "store", "issue"} => Spent(caller[d].id)'
  BY <1>1, SpentStays DEF CallSpent, Spent
<1>. QED  BY <1>1, <1>2, <1>3, <1>4 DEF CallSpent, Listed, Spent

\* A finished revocation stays finished.
LEMMA DoneStays ==
    ASSUME PlatformTypes, PairsStay, NothingLost, SpentInv, NEW i \in done
    PROVE  /\ i \in stored' \/ i \in unstored' \/ pairs'[i].old
           /\ Listed(i)' \/ Spent(i)'
<1>1. i \in Ids
  BY DEF PlatformTypes
<1>. QED  BY <1>1, SpentStays DEF SpentInv, NothingLost

\* Call c goes on to r, revoking no token for good.
LEMMA MoveSpent ==
    ASSUME PlatformTypes, PairsStay, NothingLost, SpentInv, done' = done,
           NEW c \in Callers, NEW r, CallStep(c, r),
           r.at = "store" => Listed(r.id)',
           r.late /\ r.at = "lookup" => r.id \in stored' \/ Spent(r.id)',
           r.late /\ r.at \in {"user", "revoke", "store", "issue"} => Spent(r.id)',
           r.at = "write" => ~r.late
    PROVE  SpentInv'
<1>1. ASSUME NEW d \in Callers PROVE CallSpent(caller[d])'
  <2>1. CASE d # c
    <3>1. caller'[d] = caller[d]
      BY <2>1 DEF CallStep, PlatformTypes
    <3>. QED  BY <3>1, CallSpentStays
  <2>2. CASE d = c
    <3>1. caller'[d] = r
      BY <2>2 DEF CallStep, PlatformTypes
    <3>. QED  BY <3>1 DEF CallSpent, Listed, Spent
  <2>. QED  BY <2>1, <2>2
<1>2. \A i \in done' : i \in stored' \/ i \in unstored' \/ pairs'[i].old
  BY DoneStays
<1>3. \A i \in done' : Listed(i)' \/ Spent(i)'
  BY DoneStays
<1>4. \A i \in memory'.brief : i \in stored' \/ pairs'[i].old
  BY DEF NothingLost
<1>. QED  BY <1>1, <1>2, <1>3, <1>4 DEF SpentInv

\* Nobody moves.
LEMMA NobodySpent ==
    ASSUME PlatformTypes, PairsStay, NothingLost, SpentInv, done' = done, caller' = caller
    PROVE  SpentInv'
<1>1. ASSUME NEW d \in Callers PROVE CallSpent(caller[d])'
  BY CallSpentStays
<1>2. \A i \in done' : i \in stored' \/ i \in unstored' \/ pairs'[i].old
  BY DoneStays
<1>3. \A i \in done' : Listed(i)' \/ Spent(i)'
  BY DoneStays
<1>4. \A i \in memory'.brief : i \in stored' \/ pairs'[i].old
  BY DEF NothingLost
<1>. QED  BY <1>1, <1>2, <1>3, <1>4 DEF SpentInv

\* Nothing is lost where neither memory nor the table changes.
LEMMA TablesKept ==
    ASSUME PlatformTypes, SpentInv, PairsStay, UNCHANGED <<memory, stored, unstored, restarts>>
    PROVE  NothingLost
<1>1. \A i \in memory.brief : i \in Ids /\ (i \in stored \/ pairs[i].old)
  BY DEF SpentInv, PlatformTypes
<1>. QED  BY <1>1 DEF NothingLost, PairsStay

\* Nothing has been revoked.
LEMMA SpentInit == PlatformInit => SpentInv
<1>. SUFFICES ASSUME PlatformInit PROVE SpentInv
  OBVIOUS
<1>1. \A c \in Callers : caller[c] = Rest
  BY DEF PlatformInit
<1>2. \A c \in Callers : CallSpent(caller[c])
  BY <1>1, RestTyped DEF CallSpent
<1>3. done = {} /\ memory.brief = {}
  BY DEF PlatformInit
<1>. QED  BY <1>2, <1>3 DEF SpentInv

\* Every step keeps what is known of the revoked tokens.
LEMMA SpentNext == PlatformTypes /\ SpentInv /\ [PlatformNext]_platformVars => SpentInv'
<1>. SUFFICES ASSUME PlatformTypes, SpentInv, [PlatformNext]_platformVars PROVE SpentInv'
  OBVIOUS
<1>s. PairsStay
  BY PairsDoStay
<1>1. ASSUME NEW c \in Callers, NEW i \in Ids, Refresh(c, i) \/ Logout(c, i) PROVE SpentInv'
  <2>1. UNCHANGED <<memory, stored, unstored, done, restarts>>
    BY <1>1 DEF Refresh, Logout, pastOf
  <2>2. NothingLost
    BY <1>s, <2>1, TablesKept
  <2>3. CASE Refresh(c, i)
    <3>1. PICK r : /\ CallStep(c, r)
                   /\ \/ r = Rest
                      \/ ~Remembered(i) /\ r.at = "lookup" /\ r.id = i /\ r.late = (i \in done)
      BY <2>3, RefreshMoves
    <3>2. i \in done /\ ~Remembered(i) => i \in stored \/ Spent(i)
      BY DEF Remembered, SpentInv, Listed, Spent
    <3>3. i \in done /\ ~Remembered(i) => i \in stored' \/ Spent(i)'
      BY <1>s, <2>2, <3>2, SpentStays
    <3>. QED  BY <1>s, <2>1, <2>2, <3>1, <3>3, MoveSpent, RestTyped
  <2>4. CASE Logout(c, i)
    <3>1. PICK r : CallStep(c, r) /\ r.at = "revoke" /\ ~r.late
      BY <2>4, LogoutMoves
    <3>. QED  BY <1>s, <2>1, <2>2, <3>1, MoveSpent
  <2>. QED  BY <1>1, <2>3, <2>4
<1>2. ASSUME NEW c \in Callers, Lookup(c) PROVE SpentInv'
  <2>. PICK i : i = caller[c].id
    OBVIOUS
  <2>1. UNCHANGED <<stored, unstored, done, restarts>>
    BY <1>2 DEF Lookup, pastOf, limits
  <2>2. /\ caller[c].at = "lookup" /\ i \in Ids
        /\ CallStep(c, Rest) \/ (CallStep(c, [caller[c] EXCEPT !.at = "user"]) /\ (i \notin stored \/ pairs[i].old))
        /\ \/ memory' = memory
           \/ i \in stored /\ memory' = [now |-> memory.now \ {i}, brief |-> memory.brief \cup {i}]
    BY <1>2, LookupMoves
  <2>3. NothingLost
    <3>1. CASE memory' = memory
      BY <1>s, <2>1, <3>1, TablesKept
    <3>2. CASE i \in stored /\ memory' = [now |-> memory.now \ {i}, brief |-> memory.brief \cup {i}]
      <4>1. memory'.now = memory.now \ {i} /\ memory'.brief = memory.brief \cup {i}
        BY <3>2
      <4>2. \A j \in memory.brief : j \in Ids /\ (j \in stored \/ pairs[j].old)
        BY DEF SpentInv, PlatformTypes
      <4>. QED  BY <1>s, <2>1, <3>2, <4>1, <4>2 DEF NothingLost, PairsStay
    <3>. QED  BY <2>2, <3>1, <3>2
  <2>4. CASE CallStep(c, Rest)
    BY <1>s, <2>1, <2>3, <2>4, MoveSpent, RestTyped
  <2>5. CASE CallStep(c, [caller[c] EXCEPT !.at = "user"]) /\ (i \notin stored \/ pairs[i].old)
    <3>1. PICK r : r = [caller[c] EXCEPT !.at = "user"]
      OBVIOUS
    <3>2. r.at = "user" /\ r.id = i /\ r.late = caller[c].late
      BY <3>1, CarriedOn DEF Carried
    <3>3. caller[c].late => i \in stored \/ Spent(i)
      BY <2>2 DEF SpentInv, CallSpent
    <3>4. r.late => Spent(i)'
      BY <1>s, <2>2, <2>3, <2>5, <3>2, <3>3, SpentStays DEF Spent
    <3>. QED  BY <1>s, <2>1, <2>3, <2>5, <3>1, <3>2, <3>4, MoveSpent
  <2>. QED  BY <2>2, <2>4, <2>5
<1>3. ASSUME NEW c \in Callers, ReadAdmin(c) PROVE SpentInv'
  <2>1. UNCHANGED <<memory, stored, unstored, done, restarts>>
    BY <1>3 DEF ReadAdmin, pastOf, limits
  <2>2. NothingLost
    BY <1>s, <2>1, TablesKept
  <2>3. PICK r : /\ CallStep(c, r)
                 /\ r = Rest \/ (r.at = "revoke" /\ r.id = caller[c].id /\ r.late = caller[c].late)
    BY <1>3, ReadAdminMoves
  <2>4. caller[c].at = "user" /\ caller[c].id \in Ids
    BY <1>3 DEF ReadAdmin, PlatformTypes, OnToken
  <2>5. r.late => Spent(r.id)'
    BY <1>s, <2>2, <2>3, <2>4, SpentStays, RestTyped DEF SpentInv, CallSpent
  <2>. QED  BY <1>s, <2>1, <2>2, <2>3, <2>5, MoveSpent, RestTyped
<1>4. ASSUME NEW c \in Callers, Reading(c) PROVE SpentInv'
  <2>1. UNCHANGED <<memory, stored, unstored, done, restarts>>
    BY <1>4 DEF Reading, AdminLogin, Verify, Activate, AdminChangePassword, Disable, ReadsAdmin, pastOf
  <2>2. NothingLost
    BY <1>s, <2>1, TablesKept
  <2>3. PICK r : CallStep(c, r) /\ (r = Rest \/ (r.at \in {"issue", "write"} /\ r.late = FALSE))
    BY <1>4, ReadingMoves
  <2>. QED  BY <1>s, <2>1, <2>2, <2>3, MoveSpent, RestTyped
<1>5. ASSUME NEW c \in Callers, RevokeNow(c) PROVE SpentInv'
  <2>. PICK i : i = caller[c].id
    OBVIOUS
  <2>1. UNCHANGED <<stored, unstored, done, restarts>>
    BY <1>5 DEF RevokeNow, pastOf, limits
  <2>2. /\ caller[c].at = "revoke" /\ i \in Ids
        /\ CallStep(c, [caller[c] EXCEPT !.at = "store"])
        /\ memory' = [now |-> memory.now \cup {i}, brief |-> memory.brief \ {i}]
    BY <1>5, RevokeNowMoves
  <2>3. memory'.now = memory.now \cup {i} /\ memory'.brief = memory.brief \ {i}
    BY <2>2
  <2>4. \A j \in memory.brief : j \in Ids /\ (j \in stored \/ pairs[j].old)
    BY DEF SpentInv, PlatformTypes
  <2>5. NothingLost
    BY <1>s, <2>1, <2>3, <2>4 DEF NothingLost, PairsStay
  <2>6. PICK r : r = [caller[c] EXCEPT !.at = "store"]
    OBVIOUS
  <2>7. r.at = "store" /\ r.id = i /\ r.late = caller[c].late
    BY <2>6, CarriedOn DEF Carried
  <2>8. r.late => Spent(i)'
    BY <1>s, <2>2, <2>5, <2>7, SpentStays DEF SpentInv, CallSpent
  <2>9. Listed(i)'
    BY <2>3 DEF Listed
  <2>. QED  BY <1>s, <2>1, <2>2, <2>5, <2>6, <2>7, <2>8, <2>9, MoveSpent
<1>6. ASSUME NEW c \in Callers, StoreRow(c) PROVE SpentInv'
  <2>. PICK i : i = caller[c].id
    OBVIOUS
  <2>1. UNCHANGED <<memory, restarts, pairs>>
    BY <1>6 DEF StoreRow, limits
  <2>2. /\ caller[c].at = "store" /\ i \in Ids
        /\ CallStep(c, Rest) \/ CallStep(c, [caller[c] EXCEPT !.at = "issue"])
        /\ \/ stored' = Purged(i) /\ UNCHANGED unstored
           \/ unstored' = unstored \cup {i} /\ UNCHANGED stored
        /\ done' = done \cup {i}
    BY <1>6, StoreRowMoves
  <2>3. \A j \in Ids : (j \in stored => j \in stored' \/ pairs'[j].old)
    BY <2>1, <2>2 DEF Purged
  <2>4. i \in stored' \/ i \in unstored' \/ pairs'[i].old
    BY <2>1, <2>2 DEF Purged
  <2>5. NothingLost
    <3>1. \A j \in memory.brief : j \in Ids /\ (j \in stored \/ pairs[j].old)
      BY DEF SpentInv, PlatformTypes
    <3>2. unstored \subseteq unstored'
      BY <2>2
    <3>. QED  BY <1>s, <2>1, <2>3, <3>1, <3>2 DEF NothingLost, PairsStay
  <2>6. Listed(i)'
    BY <1>s, <2>2, <2>5, SpentStays DEF SpentInv, CallSpent
  <2>7. ASSUME NEW j \in done' PROVE (j \in stored' \/ j \in unstored' \/ pairs'[j].old) /\ (Listed(j)' \/ Spent(j)')
    BY <1>s, <2>2, <2>4, <2>5, <2>6, DoneStays
  <2>8. PICK r : CallStep(c, r) /\ r.at \in {"idle", "issue"} /\ (r.late => r.id = i /\ caller[c].late)
    <3>1. PICK n : n = [caller[c] EXCEPT !.at = "issue"]
      OBVIOUS
    <3>2. n.at = "issue" /\ n.id = i /\ n.late = caller[c].late
      BY <3>1, CarriedOn DEF Carried
    <3>. QED  BY <2>2, <3>1, <3>2, RestTyped
  <2>9. r.late => Spent(r.id)'
    BY <1>s, <2>2, <2>5, <2>8, SpentStays DEF SpentInv, CallSpent
  <2>10. ASSUME NEW d \in Callers PROVE CallSpent(caller[d])'
    <3>1. CASE d # c
      <4>1. caller'[d] = caller[d]
        BY <2>8, <3>1 DEF CallStep, PlatformTypes
      <4>. QED  BY <1>s, <2>5, <4>1, CallSpentStays
    <3>2. CASE d = c
      <4>1. caller'[d] = r
        BY <2>8, <3>2 DEF CallStep, PlatformTypes
      <4>. QED  BY <2>8, <2>9, <4>1 DEF CallSpent, Listed, Spent
    <3>. QED  BY <3>1, <3>2
  <2>11. \A j \in memory'.brief : j \in stored' \/ pairs'[j].old
    BY <2>5 DEF NothingLost
  <2>. QED  BY <2>7, <2>10, <2>11 DEF SpentInv
<1>7. ASSUME NEW c \in Callers, IssuePair(c) PROVE SpentInv'
  <2>1. UNCHANGED <<memory, stored, unstored, done, restarts>>
    BY <1>7 DEF IssuePair, pastOf, limits
  <2>2. NothingLost
    BY <1>s, <2>1, TablesKept
  <2>3. CallStep(c, Rest)
    BY <1>7, Finishes DEF IssuePair
  <2>. QED  BY <1>s, <2>1, <2>2, <2>3, MoveSpent, RestTyped
<1>8. ASSUME NEW c \in Callers, WriteAdmin(c) PROVE SpentInv'
  <2>1. UNCHANGED <<memory, stored, unstored, done, restarts>>
    BY <1>8 DEF WriteAdmin, limits
  <2>2. NothingLost
    BY <1>s, <2>1, TablesKept
  <2>3. caller[c].at = "write" /\ \E r : CallStep(c, r) /\ (r = Rest \/ (r.at = "issue" /\ r.late = caller[c].late))
    BY <1>8, WriteAdminMoves
  <2>4. ~caller[c].late
    BY <2>3 DEF SpentInv, CallSpent
  <2>. QED  BY <1>s, <2>1, <2>2, <2>3, <2>4, MoveSpent, RestTyped
<1>9. ASSUME NEW i \in Ids, Evict(i) \/ Expire(i) PROVE SpentInv'
  <2>1. UNCHANGED <<stored, unstored, done, caller, restarts>>
    BY <1>9 DEF Evict, Expire, pastOf, limits
  <2>2. \A j \in memory.brief : j \in Ids /\ (j \in stored \/ pairs[j].old)
    BY DEF SpentInv, PlatformTypes
  <2>3. memory'.brief \subseteq memory.brief /\ \A j \in memory.now : j \in memory'.now \/ pairs[j].old
    BY <1>9 DEF Evict, Expire, PlatformTypes
  <2>4. NothingLost
    BY <1>s, <2>1, <2>2, <2>3 DEF NothingLost, PairsStay
  <2>. QED  BY <1>s, <2>1, <2>4, NobodySpent
<1>10. CASE Setup \/ RequireSecondFactor \/ SetActive \/ UNCHANGED platformVars
  <2>1. UNCHANGED <<memory, stored, unstored, done, caller, restarts>>
    BY <1>10 DEF Setup, RequireSecondFactor, SetActive, platformVars, pastOf, limits
  <2>. QED  BY <1>s, <2>1, TablesKept, NobodySpent
<1>11. CASE Restart
  <2>1. /\ memory' = [now |-> {}, brief |-> {}] /\ caller' = [c \in Callers |-> Rest] /\ restarts' = restarts + 1
        /\ UNCHANGED <<stored, done, unstored, pairs>>
    BY <1>11 DEF Restart, pastOf
  <2>2. restarts' > 0 /\ memory'.brief = {}
    BY <2>1 DEF PlatformTypes
  <2>3. \A i \in done : i \in stored \/ i \in unstored \/ pairs[i].old
    BY DEF SpentInv
  <2>4. \A i \in done' : Listed(i)' \/ Spent(i)'
    BY <2>1, <2>2, <2>3 DEF Listed, Spent
  <2>5. \A d \in Callers : caller'[d] = Rest
    BY <2>1
  <2>6. \A d \in Callers : CallSpent(caller[d])'
    BY <2>5, RestTyped DEF CallSpent
  <2>. QED  BY <2>1, <2>2, <2>3, <2>4, <2>6 DEF SpentInv
<1>. QED  BY <1>1, <1>2, <1>3, <1>4, <1>5, <1>6, <1>7, <1>8, <1>9, <1>10, <1>11, PlatformSteps

-----------------------------------------------------------------------------
(* Versions *)

\* Unless two changes overlapped, versions count them: in the row, in pairs, in calls.
RaiseInv == ~clash =>
    /\ admin.version = raised
    /\ \A i \in Ids : pairs[i].version = pairs[i].raised
    /\ \A c \in Callers : caller[c].version = caller[c].raised

\* The first session carries the first version.
LEMMA RaiseInit == PlatformInit => RaiseInv
BY RestTyped DEF PlatformInit, RaiseInv, Rest, Pair, Ids

\* A call at rest carries no version.
LEMMA RestIsZero == Rest.version = 0 /\ Rest.raised = 0
BY DEF Rest

\* Call c goes on to r and the pairs of before and the row stay.
LEMMA MoveRaised ==
    ASSUME PlatformTypes, PairsStay, RaiseInv, Ids' = Ids,
           NEW c \in Callers, NEW r, CallStep(c, r), clash' = clash, raised' = raised,
           admin'.version = admin.version,
           ~clash => r.version = r.raised
    PROVE  RaiseInv'
<1>1. ASSUME ~clash, NEW d \in Callers PROVE caller'[d].version = caller'[d].raised
  BY <1>1 DEF CallStep, PlatformTypes, RaiseInv
<1>2. ASSUME ~clash, NEW i \in Ids' PROVE pairs'[i].version = pairs'[i].raised
  BY <1>2 DEF PairsStay, RaiseInv
<1>. QED  BY <1>1, <1>2 DEF RaiseInv

\* Every step keeps version and count in step, unless two changes overlapped.
LEMMA RaiseNext == PlatformTypes /\ RaiseInv /\ [PlatformNext]_platformVars => RaiseInv'
<1>. SUFFICES ASSUME PlatformTypes, RaiseInv, [PlatformNext]_platformVars PROVE RaiseInv'
  OBVIOUS
<1>s. PairsStay
  BY PairsDoStay
<1>r. ASSUME NEW c \in Callers, NEW at \in {"user", "store", "issue"},
             NEW r, r = [caller[c] EXCEPT !.at = at]
      PROVE  r.version = caller[c].version /\ r.raised = caller[c].raised
  BY <1>r, CarriedOn DEF Carried
<1>1. ASSUME NEW c \in Callers,
             (\E i \in Ids : Refresh(c, i) \/ Logout(c, i)) \/ Lookup(c) \/ RevokeNow(c) \/ StoreRow(c)
      PROVE  RaiseInv'
  <2>1. UNCHANGED <<pairs, admin, raised, clash>>
    BY <1>1 DEF Refresh, Logout, Lookup, RevokeNow, StoreRow, pastOf
  <2>2. Ids' = Ids
    BY <2>1 DEF Ids
  <2>3. PICK r : CallStep(c, r) /\ (\/ r.version = 0 /\ r.raised = 0
                                    \/ r.version = caller[c].version /\ r.raised = caller[c].raised)
    <3>1. CASE \E i \in Ids : Refresh(c, i)
      <4>1. PICK i \in Ids : Refresh(c, i)
        BY <3>1
      <4>2. PICK r : CallStep(c, r) /\ (r = Rest \/ (r.version = 0 /\ r.raised = 0))
        BY <4>1, RefreshMoves
      <4>. QED  BY <4>2, RestIsZero
    <3>2. CASE \E i \in Ids : Logout(c, i)
      <4>1. PICK i \in Ids : Logout(c, i)
        BY <3>2
      <4>2. PICK r : CallStep(c, r) /\ r.version = 0 /\ r.raised = 0
        BY <4>1, LogoutMoves
      <4>. QED  BY <4>2
    <3>3. CASE Lookup(c)
      BY <3>3, LookupMoves, RestIsZero, <1>r
    <3>4. CASE RevokeNow(c)
      BY <3>4, RevokeNowMoves, <1>r
    <3>5. CASE StoreRow(c)
      BY <3>5, StoreRowMoves, RestIsZero, <1>r
    <3>. QED  BY <1>1, <3>1, <3>2, <3>3, <3>4, <3>5
  <2>4. ~clash => r.version = r.raised
    BY <2>3 DEF RaiseInv
  <2>. QED  BY <1>s, <2>1, <2>2, <2>3, <2>4, MoveRaised
<1>2. ASSUME NEW c \in Callers, ReadAdmin(c) \/ Reading(c) PROVE RaiseInv'
  <2>1. UNCHANGED <<pairs, admin, raised, clash>>
    BY <1>2 DEF ReadAdmin, Reading, AdminLogin, Verify, Activate, AdminChangePassword, Disable, ReadsAdmin, pastOf
  <2>2. Ids' = Ids
    BY <2>1 DEF Ids
  <2>3. PICK r : CallStep(c, r) /\ (r = Rest \/ (r.version = admin.version /\ r.raised = raised))
    BY <1>2, ReadAdminMoves, ReadingMoves
  <2>4. ~clash => r.version = r.raised
    BY <2>3, RestIsZero DEF RaiseInv
  <2>. QED  BY <1>s, <2>1, <2>2, <2>3, <2>4, MoveRaised
<1>3. ASSUME NEW c \in Callers, IssuePair(c) PROVE RaiseInv'
  <2>1. PICK v \in Nat, n \in Nat : v = caller[c].version /\ n = caller[c].raised
    BY DEF PlatformTypes, Carried
  <2>2. pairs' = Issued(v, n) /\ UNCHANGED <<admin, raised, clash>>
    BY <1>3, <2>1 DEF IssuePair, pastOf
  <2>3. ASSUME ~clash, NEW i \in Ids' PROVE pairs'[i].version = pairs'[i].raised
    <3>1. v = n
      BY <2>1, <2>3 DEF RaiseInv
    <3>2. CASE i \in Ids
      BY <2>2, <2>3, <3>2, IssuedPairs DEF RaiseInv
    <3>3. CASE i \notin Ids
      <4>1. i \in DOMAIN Issued(v, n) /\ pairs'[i] = Issued(v, n)[i]
        BY <2>2, <2>3 DEF Ids
      <4>2. pairs'[i] = Pair(v, n)
        BY <3>3, <4>1, IssuedPairs
      <4>. QED  BY <3>1, <4>2 DEF Pair
    <3>. QED  BY <3>2, <3>3
  <2>4. CallStep(c, Rest)
    BY <1>3, Finishes DEF IssuePair
  <2>5. ASSUME ~clash, NEW d \in Callers PROVE caller'[d].version = caller'[d].raised
    BY <2>4, <2>5, RestIsZero DEF CallStep, PlatformTypes, RaiseInv
  <2>. QED  BY <2>2, <2>3, <2>5 DEF RaiseInv
<1>4. ASSUME NEW c \in Callers, WriteAdmin(c) PROVE RaiseInv'
  <2>1. UNCHANGED pairs /\ Ids' = Ids
    BY <1>4 DEF WriteAdmin, Ids
  <2>2. admin.version \in Nat /\ caller[c].version \in Nat /\ clash \in BOOLEAN
        /\ admin \in [active : BOOLEAN, version : Nat, secret : BOOLEAN, totp : BOOLEAN]
    BY DEF PlatformTypes, Carried
  <2>3. CASE caller[c].op = "activate"
    <3>1. /\ admin' = [admin EXCEPT !.totp = TRUE] /\ raised' = raised /\ clash' = clash
          /\ \E n : CallStep(c, n) /\ n.version = admin.version /\ n.raised = raised
      BY <1>4, <2>3, WriteAdminMoves
    <3>2. admin'.version = admin.version
      BY <2>2, <3>1
    <3>. QED  BY <1>s, <2>1, <3>1, <3>2, MoveRaised DEF RaiseInv
  <2>4. CASE caller[c].op # "activate"
    <3>1. /\ \/ admin' = [admin EXCEPT !.version = caller[c].version + 1]
             \/ admin' = [admin EXCEPT !.version = caller[c].version + 1, !.totp = FALSE, !.secret = FALSE]
          /\ CallStep(c, Rest) /\ raised' = raised + 1 /\ clash' = (clash \/ caller[c].raised # raised)
      BY <1>4, <2>4, WriteAdminMoves
    <3>2. admin'.version = caller[c].version + 1
      BY <2>2, <3>1
    <3>3. ASSUME ~clash' PROVE admin'.version = raised' /\ ~clash
      BY <3>1, <3>2, <3>3 DEF RaiseInv
    <3>4. ASSUME ~clash', NEW d \in Callers PROVE caller'[d].version = caller'[d].raised
      BY <3>1, <3>3, <3>4, RestIsZero DEF CallStep, PlatformTypes, RaiseInv
    <3>. QED  BY <2>1, <3>3, <3>4 DEF RaiseInv
  <2>. QED  BY <2>3, <2>4
<1>5. ASSUME NEW i \in Ids, Evict(i) \/ Expire(i) PROVE RaiseInv'
  <2>1. UNCHANGED <<caller, admin, raised, clash>> /\ Ids' = Ids
    BY <1>5 DEF Evict, Expire, pastOf, Ids
  <2>. QED  BY <1>s, <2>1 DEF RaiseInv, PairsStay
<1>6. CASE Setup \/ RequireSecondFactor \/ SetActive \/ UNCHANGED platformVars
  <2>1. UNCHANGED <<caller, raised, clash, pairs>> /\ Ids' = Ids
    BY <1>6 DEF Setup, RequireSecondFactor, SetActive, platformVars, pastOf, Ids
  <2>2. admin'.version = admin.version
    BY <1>6 DEF Setup, RequireSecondFactor, SetActive, platformVars, PlatformTypes
  <2>. QED  BY <2>1, <2>2 DEF RaiseInv
<1>7. CASE Restart
  <2>1. caller' = [c \in Callers |-> Rest] /\ UNCHANGED <<admin, raised, clash, pairs>> /\ Ids' = Ids
    BY <1>7 DEF Restart, pastOf, Ids
  <2>2. \A d \in Callers : caller'[d] = Rest
    BY <2>1
  <2>. QED  BY <2>1, <2>2, RestIsZero DEF RaiseInv
<1>. QED  BY <1>1, <1>2, <1>3, <1>4, <1>5, <1>6, <1>7, PlatformSteps

-----------------------------------------------------------------------------
(* The second factor *)

\* Unless it was turned off within its activation, a second factor has its secret, and
\* an activation that is about to be written finds it.
SecretInv == ~locked =>
    /\ admin.totp => admin.secret
    /\ \A c \in Callers : caller[c].at = "write" /\ caller[c].op = "activate" => admin.secret

\* No second factor is on.
LEMMA SecretInit == PlatformInit => SecretInv
<1>1. PlatformInit => \A c \in Callers : caller[c] = Rest
  BY DEF PlatformInit
<1>. QED  BY <1>1, RestTyped DEF PlatformInit, SecretInv

\* Call c goes on to r and the row keeps its secret.
LEMMA MoveSecret ==
    ASSUME PlatformTypes, SecretInv, NEW c \in Callers, NEW r, CallStep(c, r), locked => locked',
           ~locked => admin'.secret = admin.secret, ~locked /\ admin'.totp => admin.secret,
           ~locked /\ r.at = "write" /\ r.op = "activate" => admin.secret
    PROVE  SecretInv'
<1>1. ASSUME ~locked', NEW d \in Callers, caller'[d].at = "write" /\ caller'[d].op = "activate" PROVE admin'.secret
  BY <1>1 DEF CallStep, PlatformTypes, SecretInv
<1>. QED  BY <1>1 DEF SecretInv

\* Every step keeps the secret of a second factor that is on, unless it was turned
\* off within its activation.
LEMMA SecretNext == PlatformTypes /\ SecretInv /\ [PlatformNext]_platformVars => SecretInv'
<1>. SUFFICES ASSUME PlatformTypes, SecretInv, [PlatformNext]_platformVars PROVE SecretInv'
  OBVIOUS
<1>r. ASSUME NEW c \in Callers, NEW at \in {"user", "store", "issue"},
             NEW r, r = [caller[c] EXCEPT !.at = at]
      PROVE  r.at # "write"
  BY <1>r, CarriedOn DEF Carried
<1>a. admin \in [active : BOOLEAN, version : Nat, secret : BOOLEAN, totp : BOOLEAN]
  BY DEF PlatformTypes
<1>1. ASSUME NEW c \in Callers,
             (\E i \in Ids : Refresh(c, i) \/ Logout(c, i)) \/ Lookup(c) \/ RevokeNow(c) \/ StoreRow(c)
             \/ ReadAdmin(c) \/ Reading(c) \/ IssuePair(c)
      PROVE  SecretInv'
  <2>1. UNCHANGED <<admin, locked>>
    BY <1>1 DEF Refresh, Logout, Lookup, RevokeNow, StoreRow, ReadAdmin, Reading, AdminLogin, Verify, Activate,
       AdminChangePassword, Disable, ReadsAdmin, IssuePair, pastOf
  <2>2. PICK r : CallStep(c, r) /\ (r.at = "write" /\ r.op = "activate" => admin.secret)
    <3>1. CASE \E i \in Ids : Refresh(c, i)
      BY <3>1, RefreshMoves, RestTyped
    <3>2. CASE \E i \in Ids : Logout(c, i)
      BY <3>2, LogoutMoves
    <3>3. CASE Lookup(c)
      BY <3>3, LookupMoves, RestTyped, <1>r
    <3>4. CASE RevokeNow(c)
      BY <3>4, RevokeNowMoves, <1>r
    <3>5. CASE StoreRow(c)
      BY <3>5, StoreRowMoves, RestTyped, <1>r
    <3>6. CASE ReadAdmin(c)
      BY <3>6, ReadAdminMoves, RestTyped
    <3>7. CASE Reading(c)
      BY <3>7, ReadingMoves, RestTyped
    <3>8. CASE IssuePair(c)
      BY <3>8, Finishes, RestTyped DEF IssuePair
    <3>. QED  BY <1>1, <3>1, <3>2, <3>3, <3>4, <3>5, <3>6, <3>7, <3>8
  <2>. QED  BY <2>1, <2>2, MoveSecret DEF SecretInv
<1>2. ASSUME NEW c \in Callers, WriteAdmin(c) PROVE SecretInv'
  <2>1. CASE caller[c].op = "activate"
    <3>1. /\ caller[c].at = "write" /\ admin' = [admin EXCEPT !.totp = TRUE] /\ locked' = locked
          /\ \E n : CallStep(c, n) /\ n.at = "issue"
      BY <1>2, <2>1, WriteAdminMoves
    <3>2. admin'.secret = admin.secret
      BY <1>a, <3>1
    <3>3. ~locked => admin.secret
      BY <2>1, <3>1 DEF SecretInv
    <3>. QED  BY <3>1, <3>2, <3>3, MoveSecret
  <2>2. CASE caller[c].op # "activate" /\ admin' = [admin EXCEPT !.version = caller[c].version + 1]
    <3>1. CallStep(c, Rest) /\ (locked => locked')
      BY <1>2, <2>2, WriteAdminMoves
    <3>2. admin'.secret = admin.secret /\ admin'.totp = admin.totp
      BY <1>a, <2>2
    <3>. QED  BY <3>1, <3>2, MoveSecret, RestTyped DEF SecretInv
  <2>3. CASE caller[c].op # "activate" /\ admin' # [admin EXCEPT !.version = caller[c].version + 1]
    <3>1. /\ admin' = [admin EXCEPT !.version = caller[c].version + 1, !.totp = FALSE, !.secret = FALSE]
          /\ locked' = (locked \/ \E d \in Callers : caller[d].at = "write" /\ caller[d].op = "activate")
          /\ CallStep(c, Rest)
      BY <1>2, <2>3, WriteAdminMoves
    <3>2. admin'.totp = FALSE
      BY <1>a, <3>1
    <3>3. ASSUME ~locked', NEW d \in Callers PROVE ~(caller'[d].at = "write" /\ caller'[d].op = "activate")
      BY <3>1, <3>3, RestTyped DEF CallStep, PlatformTypes
    <3>. QED  BY <3>2, <3>3 DEF SecretInv
  <2>. QED  BY <2>1, <2>2, <2>3
<1>3. CASE (\E i \in Ids : Evict(i) \/ Expire(i)) \/ RequireSecondFactor \/ SetActive \/ Setup \/ UNCHANGED platformVars
  <2>1. UNCHANGED <<caller, locked>>
    BY <1>3 DEF Evict, Expire, Setup, RequireSecondFactor, SetActive, platformVars, pastOf
  <2>2. (admin'.secret = admin.secret \/ admin'.secret = TRUE) /\ admin'.totp = admin.totp
    BY <1>3, <1>a DEF Evict, Expire, Setup, RequireSecondFactor, SetActive, platformVars
  <2>. QED  BY <2>1, <2>2 DEF SecretInv
<1>4. CASE Restart
  <2>1. caller' = [c \in Callers |-> Rest] /\ UNCHANGED <<admin, locked>>
    BY <1>4 DEF Restart, pastOf
  <2>2. \A d \in Callers : caller'[d] = Rest
    BY <2>1
  <2>. QED  BY <2>1, <2>2, RestTyped DEF SecretInv
<1>. QED  BY <1>1, <1>2, <1>3, <1>4, PlatformSteps

PlatformInv == PlatformTypes /\ SpentInv /\ RaiseInv /\ SecretInv

\* The inductive invariant of PlatformSessions holds in every state of every behaviour:
\* types, where a revoked token is listed, versions and the secret.
THEOREM PlatformHolds == PlatformSpec => []PlatformInv
<1>1. PlatformInit => PlatformInv
  BY PlatformTypesInit, SpentInit, RaiseInit, SecretInit DEF PlatformInv
<1>2. PlatformInv /\ [PlatformNext]_platformVars => PlatformInv'
  BY PlatformTypesNext, SpentNext, RaiseNext, SecretNext DEF PlatformInv
<1>. QED  BY <1>1, <1>2, PTL DEF PlatformSpec

\* SpentIsSpent: a refresh token whose revocation is over yields nothing to a call that
\* begins afterwards, unless its row was not stored and the process restarted.
THEOREM SpentTokensAreSpent == PlatformSpec => []SpentIsSpent
<1>1. PlatformInv => SpentIsSpent
  BY DEF PlatformInv, SpentInv, CallSpent, Spent, SpentIsSpent
<1>. QED  BY <1>1, PlatformHolds, PTL

\* RaiseEndsSessions: a session that still passes the check was opened after the last
\* change of the password or of the second factor, unless two changes overlapped.
THEOREM SessionsEnd == PlatformSpec => []RaiseEndsSessions
<1>1. PlatformInv => RaiseEndsSessions
  BY DEF PlatformInv, RaiseInv, RaiseEndsSessions, Valid
<1>. QED  BY <1>1, PlatformHolds, PTL

\* SecretIsThere: an administrator whose second factor is on has its secret, unless it
\* was turned off within its activation.
THEOREM SecretIsKept == PlatformSpec => []SecretIsThere
<1>1. PlatformInv => SecretIsThere
  BY DEF PlatformInv, SecretInv, SecretIsThere
<1>. QED  BY <1>1, PlatformHolds, PTL

-----------------------------------------------------------------------------
(* The second factor of a user *)

\* An activation is about a user who signed in, and whose secret was there when it was read.
Activating(r) == r.at = "totp" /\ r.op = "activate"
ActivationOk(r) ==
    Activating(r) => r.of \in partial /\ (row[r.of] # None => row[r.of].secret \/ r.of \in crossed)
TotpInv == TotpUsable /\ \A p \in Requests : ActivationOk(request[p])

\* Every row keeps its second factor, or is that of a user who never signed in; what is
\* being activated was before.
LEMMA TotpKept ==
    ASSUME TotpInv, Types, partial \subseteq partial', crossed \subseteq crossed',
           \A u \in Users : Here(u)' => \/ Here(u) /\ row'[u].totp = row[u].totp /\ row'[u].secret = row[u].secret
                                        \/ u \notin partial /\ row'[u].totp = FALSE,
           \A q \in Requests : Activating(request'[q]) => Activating(request[q]) /\ request'[q].of = request[q].of
    PROVE  TotpInv'
<1>1. TotpUsable'
  BY DEF TotpInv, TotpUsable, Here
<1>2. ASSUME NEW q \in Requests, Activating(request'[q]) PROVE ActivationOk(request[q])'
  <2>1. PICK u : u = request[q].of /\ u = request'[q].of /\ u \in Users /\ Activating(request[q])
    BY <1>2 DEF Types, RequestOk, Activating
  <2>2. u \in partial /\ (row[u] # None => row[u].secret \/ u \in crossed)
    BY <2>1 DEF TotpInv, ActivationOk
  <2>3. u \in partial' /\ (row'[u] # None => row'[u].secret \/ u \in crossed')
    BY <2>1, <2>2 DEF Here
  <2>. QED  BY <2>1, <2>3 DEF ActivationOk
<1>. QED  BY <1>1, <1>2 DEF TotpInv, ActivationOk

\* A step that leaves the rows leaves their second factors.
LEMMA TotpSame ==
    ASSUME TotpInv, Types, UNCHANGED <<row, crossed>>, partial \subseteq partial',
           \A q \in Requests : Activating(request'[q]) => Activating(request[q]) /\ request'[q].of = request[q].of
    PROVE  TotpInv'
BY TotpKept DEF Here

\* The requests that start are no activations but for TotpActivate.
LEMMA StartsOther ==
    ASSUME Types, NEW p \in Requests,
           \/ \E u \in Users : \/ Login(p, u) \/ TotpSetup(p, u) \/ TotpVerify(p, u)
                               \/ ConsoleReset(p, u) \/ ConsoleCreate(p, u)
                               \/ \E l \in links \cup {None} : Forgot(p, u, l)
           \/ \E t \in tokens : TotpDisable(p, t)
           \/ \E l \in links : UseLink(p, l)
    PROVE  /\ UNCHANGED <<row, partial, crossed>>
           /\ UNCHANGED request \/ (Moves(p) /\ ~Activating(request'[p]))
<1>1. UNCHANGED <<row, partial, crossed>>
  BY DEF Login, TotpSetup, TotpVerify, TotpRead, ConsoleReset, ConsoleCreate, ConsoleWrite, Forgot,
         TotpDisable, UseLink, history
<1>2. ASSUME NEW r, Starts(p, r), ~Activating(r) PROVE Moves(p) /\ ~Activating(request'[p])
  <2>1. request'[p] = r /\ Moves(p)
    BY <1>2 DEF Starts, Moves, Types
  <2>. QED  BY <1>2, <2>1
<1>3. ASSUME NEW u \in Users, Login(p, u) PROVE \E r : Starts(p, r) /\ ~Activating(r)
  <2>1. [Reader("issue", "login", u) EXCEPT !.pw = row[u].pw].at = "issue"
    BY ReaderFields
  <2>. QED  BY <1>3, <2>1 DEF Login, Activating
<1>4. ASSUME NEW u \in Users, TotpSetup(p, u) \/ TotpVerify(p, u) PROVE \E r : Starts(p, r) /\ ~Activating(r)
  <2>1. Reader("totp", "setup", u).op = "setup" /\ Reader("cookie", "verify", u).at = "cookie"
    BY DEF Reader, Idle
  <2>. QED  BY <1>4, <2>1 DEF TotpSetup, TotpVerify, TotpRead, Activating
<1>5. ASSUME NEW u \in Users, ConsoleReset(p, u) \/ ConsoleCreate(p, u) PROVE \E r : Starts(p, r) /\ ~Activating(r)
  <2>1. \A op : [Reader("write", op, u) EXCEPT !.to = "operator"].at = "write"
    BY ReaderFields
  <2>. QED  BY <1>5, <2>1 DEF ConsoleReset, ConsoleCreate, ConsoleWrite, Activating
<1>6. ASSUME NEW u \in Users, NEW l \in links \cup {None}, Forgot(p, u, l) PROVE \E r : Starts(p, r) /\ ~Activating(r)
  <2>1. [Reader("mail", "forgot", u) EXCEPT !.got = l].at = "mail"
    BY ReaderFields
  <2>. QED  BY <1>6, <2>1 DEF Forgot, Activating
<1>7. ASSUME NEW t \in tokens, TotpDisable(p, t) PROVE \E r : Starts(p, r) /\ ~Activating(r)
  <2>1. Reader("totp", "disable", t.u).op = "disable"
    BY DEF Reader, Idle
  <2>. QED  BY <1>7, <2>1 DEF TotpDisable, Activating
<1>8. ASSUME NEW l \in links, UseLink(p, l), ~UNCHANGED request PROVE \E r : Starts(p, r) /\ ~Activating(r)
  <2>1. [Reader("write", "link", l.u) EXCEPT !.got = l].at = "write"
    BY ReaderFields
  <2>. QED  BY <1>8, <2>1 DEF UseLink, Activating
<1>. QED  BY <1>1, <1>2, <1>3, <1>4, <1>5, <1>6, <1>7, <1>8

\* The activation of a second factor reads a row that has the secret.
LEMMA TotpActivateKeeps ==
    ASSUME TotpInv, Types, NEW p \in Requests, NEW u \in Users, TotpActivate(p, u)
    PROVE  TotpInv'
<1>1. /\ u \in partial /\ Here(u) /\ row[u].secret /\ UNCHANGED <<row, partial, crossed>> /\ Moves(p)
      /\ request'[p] = Reader("totp", "activate", u)
  BY DEF TotpActivate, TotpRead, Starts, Moves, history, Types
<1>2. request'[p].of = u
  BY <1>1 DEF Reader, Idle
<1>3. TotpUsable'
  BY <1>1 DEF TotpInv, TotpUsable, Here
<1>4. ASSUME NEW q \in Requests PROVE ActivationOk(request[q])'
  <2>1. CASE q = p
    BY <1>1, <1>2, <2>1 DEF ActivationOk
  <2>2. CASE q # p
    <3>1. request'[q] = request[q]
      BY <1>1, <2>2 DEF Moves
    <3>. QED  BY <1>1, <3>1 DEF TotpInv, ActivationOk
  <2>. QED  BY <2>1, <2>2
<1>. QED  BY <1>3, <1>4 DEF TotpInv

\* A new user never signed in before; the other statements leave the second factor.
LEMMA TotpWriteKeeps ==
    ASSUME AdminInv, TotpInv, NEW p \in Requests, Write(p)
    PROVE  TotpInv'
<1>0. PICK r, v, fresh : r = request[p] /\ v = request[p].of /\ fresh = lastPw + 1
  OBVIOUS
<1>1. /\ Moves(p) /\ v \in Users /\ Types /\ UNCHANGED <<partial, crossed>> /\ DOMAIN row = Users
      /\ r.op \in {"change", "reset", "link", "create", "update", "delete"} /\ r.at = "write" /\ RequestOk(r)
  BY <1>0, AfterWrite DEF Write, history, AdminInv, Types, RequestOk
<1>2. ~Activating(request'[p])
  <2>1. request'[p].at # "totp"
    BY <1>0, <1>1, AfterWrite, IdleOk DEF NextStep
  <2>. QED  BY <2>1 DEF Activating
<1>3. \A u \in Users : Here(u)' => \/ Here(u) /\ row'[u].totp = row[u].totp /\ row'[u].secret = row[u].secret
                                   \/ u \notin partial /\ row'[u].totp = FALSE
  <2>1. CASE UNCHANGED row
    BY <2>1 DEF Here
  <2>2. CASE ~Known(v) /\ row' = [row EXCEPT ![v] = Row(r.to, fresh)]
    <3>1. Row(r.to, fresh).totp = FALSE /\ v \notin partial
      BY <2>2 DEF Row, Known
    <3>. QED  BY <1>1, <2>2, <3>1 DEF Here
  <2>3. CASE Here(v) /\ row' = [row EXCEPT ![v].pw = fresh]
    <3>1. row[v] \in Rows /\ row' = [row EXCEPT ![v] = [row[v] EXCEPT !.pw = fresh]]
      BY <1>1, <2>3 DEF Here, Types
    <3>2. [row[v] EXCEPT !.pw = fresh].totp = row[v].totp /\ [row[v] EXCEPT !.pw = fresh].secret = row[v].secret
      BY <3>1 DEF Rows
    <3>. QED  BY <1>1, <2>3, <3>1, <3>2 DEF Here
  <2>4. CASE Here(v) /\ r.op = "update" /\ row' = [row EXCEPT ![v] = Updated(@, r.to)]
    <3>1. row[v] \in Rows /\ row' = [row EXCEPT ![v] = Updated(row[v], r.to)] /\ r.to \in Tos
      BY <1>1, <2>4 DEF Here, Types, RequestOk
    <3>2. Updated(row[v], r.to).totp = row[v].totp /\ Updated(row[v], r.to).secret = row[v].secret
      BY <3>1 DEF Updated, Tos, Roles, Rows
    <3>. QED  BY <1>1, <2>4, <3>1, <3>2 DEF Here
  <2>5. CASE row' = [row EXCEPT ![v] = None]
    BY <1>1, <2>5 DEF Here
  <2>. QED  BY <1>0, <1>1, <2>1, <2>2, <2>3, <2>4, <2>5 DEF Write
<1>. QED  BY <1>1, <1>2, <1>3, TotpKept DEF Moves

\* Turning the second factor off marks the user whose activation it overtakes.
LEMMA TotpSetKeeps ==
    ASSUME AdminInv, TotpInv, NEW p \in Requests, TotpSet(p)
    PROVE  TotpInv'
<1>0. PICK r, v : r = request[p] /\ v = request[p].of
  OBVIOUS
<1>1. /\ Types /\ v \in Users /\ r.op \in {"setup", "activate", "disable"} /\ r.at = "totp" /\ UNCHANGED partial
      /\ DOMAIN row = Users /\ crossed \subseteq crossed'
  BY <1>0 DEF TotpSet, AdminInv, Types, RequestOk
<1>2. Moves(p) /\ ~Activating(request'[p])
  BY <1>1, LaterSteps, IdleOk DEF Activating
<1>3. CASE ~Here(v)
  <2>1. row' = row
    BY <1>0, <1>3 DEF TotpSet
  <2>. QED  BY <1>1, <1>2, <2>1, TotpKept DEF Moves, Here
<1>4. CASE Here(v)
  <2>1. row[v] \in Rows /\ row' = [row EXCEPT ![v] = TotpWrite(r.op, row[v])]
    BY <1>0, <1>1, <1>4 DEF TotpSet, Here, Types
  <2>2. row'[v] = TotpWrite(r.op, row[v]) /\ \A u \in Users \ {v} : row'[u] = row[u]
    BY <1>1, <2>1
  <2>3. /\ r.op = "setup" => row'[v].secret = TRUE /\ row'[v].totp = row[v].totp
        /\ r.op = "activate" => row'[v].secret = row[v].secret
        /\ r.op = "disable" => row'[v].totp = FALSE
    <3>1. CASE r.op = "setup"
      <4>1. row'[v] = [row[v] EXCEPT !.secret = TRUE]
        BY <2>2, <3>1 DEF TotpWrite
      <4>. QED  BY <2>1, <3>1, <4>1 DEF Rows
    <3>2. CASE r.op = "activate"
      <4>1. row'[v] = [row[v] EXCEPT !.totp = TRUE]
        BY <2>2, <3>2 DEF TotpWrite
      <4>. QED  BY <2>1, <3>2, <4>1 DEF Rows
    <3>3. CASE r.op = "disable"
      <4>1. row'[v] = [row[v] EXCEPT !.totp = FALSE, !.secret = FALSE]
        BY <2>2, <3>3 DEF TotpWrite
      <4>. QED  BY <2>1, <3>3, <4>1 DEF Rows
    <3>. QED  BY <1>1, <3>1, <3>2, <3>3
  <2>4. r.op = "activate" => row[v].secret \/ v \in crossed
    BY <1>0, <1>1, <1>4 DEF TotpInv, ActivationOk, Activating, Here
  <2>5. r.op = "disable" /\ (\E q \in Requests : Activating(request[q]) /\ request[q].of = v) => v \in crossed'
    BY <1>0 DEF TotpSet, Activating
  <2>6. ASSUME NEW u \in Users, Here(u)', row'[u].totp PROVE row'[u].secret \/ u \in crossed'
    <3>1. CASE u # v
      BY <1>1, <2>2, <2>6, <3>1 DEF TotpInv, TotpUsable, Here
    <3>2. CASE u = v
      BY <1>1, <1>4, <2>3, <2>4, <2>6, <3>2 DEF TotpInv, TotpUsable
    <3>. QED  BY <3>1, <3>2
  <2>7. ASSUME NEW q \in Requests, Activating(request'[q]) PROVE ActivationOk(request[q])'
    <3>1. request'[q] = request[q]
      BY <1>2, <2>7 DEF Moves
    <3>2. PICK u : u = request[q].of /\ u = request'[q].of /\ u \in Users /\ Activating(request[q])
      BY <1>1, <2>7, <3>1 DEF Types, RequestOk, Activating
    <3>3. u \in partial /\ (row[u] # None => row[u].secret \/ u \in crossed)
      BY <3>2 DEF TotpInv, ActivationOk
    <3>4. row'[u] # None => row'[u].secret \/ u \in crossed'
      BY <1>1, <1>4, <2>2, <2>3, <2>5, <3>2, <3>3 DEF Here
    <3>. QED  BY <1>1, <3>2, <3>3, <3>4 DEF ActivationOk
  <2>. QED  BY <2>6, <2>7 DEF TotpInv, TotpUsable, ActivationOk
<1>. QED  BY <1>3, <1>4

\* The console changes no second factor.
LEMMA TotpConsole ==
    ASSUME AdminInv, TotpInv, NEW v \in Users, ConsoleDelete(v) \/ \E to \in Tos : ConsoleUpdate(v, to)
    PROVE  TotpInv'
<1>1. UNCHANGED <<partial, crossed, request>> /\ Types /\ DOMAIN row = Users
  BY DEF ConsoleDelete, ConsoleUpdate, Console, AdminInv, Types
<1>2. \A u \in Users : Here(u)' => Here(u) /\ row'[u].totp = row[u].totp /\ row'[u].secret = row[u].secret
  <2>1. CASE ConsoleDelete(v)
    BY <1>1, <2>1 DEF ConsoleDelete, Console, Here
  <2>2. ASSUME NEW to \in Tos, ConsoleUpdate(v, to)
        PROVE  \A u \in Users : Here(u)' => Here(u) /\ row'[u].totp = row[u].totp /\ row'[u].secret = row[u].secret
    <3>1. row[v] \in Rows /\ row' = [row EXCEPT ![v] = Updated(row[v], to)] /\ Here(v)
      BY <1>1, <2>2 DEF ConsoleUpdate, Console, Here, Types
    <3>2. Updated(row[v], to).totp = row[v].totp /\ Updated(row[v], to).secret = row[v].secret
      BY <3>1 DEF Updated, Tos, Roles, Rows
    <3>. QED  BY <1>1, <3>1, <3>2 DEF Here
  <2>. QED  BY <2>1, <2>2
<1>. QED  BY <1>1, <1>2, TotpKept

\* Every step keeps the invariant.
LEMMA TotpNext == AdminInv /\ TotpInv /\ [Next]_vars => TotpInv'
<1>. SUFFICES ASSUME AdminInv, TotpInv, [Next]_vars PROVE TotpInv'
  OBVIOUS
<1>0. Types
  BY DEF AdminInv
<1>1. ASSUME NEW p \in Requests, NEW t \in tokens,
             \/ GetMe(p, t) \/ ChangePassword(p, t)
             \/ \E v \in Users : \/ DeleteUser(p, t, v) \/ ResetUserPassword(p, t, v) \/ CreateUser(p, t, v)
                                 \/ \E to \in Tos : UpdateUser(p, t, v, to)
      PROVE  TotpInv'
  <2>1. Moves(p) /\ UNCHANGED row /\ request'[p].at # "totp"
    BY <1>0, <1>1, BeginStarts, IdleOk
  <2>2. UNCHANGED <<partial, crossed>>
    BY <1>1 DEF GetMe, ChangePassword, DeleteUser, ResetUserPassword, CreateUser, UpdateUser, Begin
  <2>. QED  BY <1>0, <2>1, <2>2, TotpSame DEF Moves, Activating
<1>2. ASSUME NEW p \in Requests,
             \/ \E u \in Users : \/ Login(p, u) \/ TotpSetup(p, u) \/ TotpVerify(p, u)
                                 \/ ConsoleReset(p, u) \/ ConsoleCreate(p, u)
                                 \/ \E l \in links \cup {None} : Forgot(p, u, l)
             \/ \E t \in tokens : TotpDisable(p, t)
             \/ \E l \in links : UseLink(p, l)
      PROVE  TotpInv'
  <2>1. /\ UNCHANGED <<row, partial, crossed>>
        /\ UNCHANGED request \/ (Moves(p) /\ ~Activating(request'[p]))
    BY <1>0, <1>2, StartsOther
  <2>. QED  BY <1>0, <2>1, TotpSame DEF Moves
<1>3. ASSUME NEW p \in Requests, NEW u \in Users, TotpActivate(p, u) PROVE TotpInv'
  BY <1>0, <1>3, TotpActivateKeeps
<1>4. ASSUME NEW p \in Requests,
             \/ Get(p) \/ CheckPassword(p) \/ Permit(p) \/ PermitAdmin(p) \/ Issue(p) \/ TotpCookie(p)
             \/ Mail(p) \/ Unlink(p) \/ Forget(p) \/ CommitFails(p)
      PROVE  TotpInv'
  <2>1. Moves(p) /\ request'[p].at # "totp"
    BY <1>0, <1>4, LaterSteps, IdleOk
  <2>2. UNCHANGED <<row, crossed>> /\ partial \subseteq partial'
    BY <1>4 DEF Get, CheckPassword, Permit, PermitAdmin, Reads, Issue, TotpCookie, Mail, Unlink, Forget, CommitFails, history
  <2>. QED  BY <1>0, <2>1, <2>2, TotpSame DEF Moves, Activating
<1>5. ASSUME NEW p \in Requests, Fetch(p) \/ Store(p) PROVE TotpInv'
  <2>1. UNCHANGED <<row, crossed, partial>> /\ Moves(p) /\ RequestOk(request[p])
    BY <1>0, <1>5 DEF Fetch, Store, history, Done, Moves, Types
  <2>2. request'[p].at # "totp"
    <3>1. request' = Done(p) => request'[p].at = "idle"
      BY <1>0, IdleOk DEF Done, Types
    <3>2. request' = [request EXCEPT ![p].at = "store", ![p].got = Current(request[p].u)] => request'[p].at = "store"
      BY <1>0, <2>1 DEF Types, RequestOk, Fields
    <3>3. Store(p) => request'[p].at \in {"in", "idle"}
      <4>1. Store(p) => request'[p] = Answer(request[p], request[p].got)
        BY <1>0 DEF Store, Types
      <4>. QED  BY <2>1, <4>1, IdleOk DEF Answer, RequestOk, Fields
    <3>. QED  BY <1>5, <3>1, <3>2, <3>3 DEF Fetch
  <2>. QED  BY <1>0, <2>1, <2>2, TotpSame DEF Moves, Activating
<1>6. ASSUME NEW p \in Requests, Write(p) \/ TotpSet(p) PROVE TotpInv'
  BY <1>6, TotpWriteKeeps, TotpSetKeeps
<1>7. ASSUME NEW u \in Users, ConsoleDelete(u) \/ \E to \in Tos : ConsoleUpdate(u, to) PROVE TotpInv'
  BY <1>7, TotpConsole
<1>8. CASE Tick \/ \E l \in links : LinkExpires(l)
  <2>1. UNCHANGED <<row, partial, crossed>>
    BY <1>8 DEF Tick, LinkExpires, history
  <2>2. \A q \in Requests : /\ request'[q].op = request[q].op /\ request'[q].at = request[q].at
                            /\ request'[q].of = request[q].of
    BY <1>0, <1>8 DEF Tick, LinkExpires, Types, RequestOk, Fields
  <2>3. \A q \in Requests : Activating(request'[q]) => Activating(request[q]) /\ request'[q].of = request[q].of
    BY <2>2 DEF Activating
  <2>. QED  BY <1>0, <2>1, <2>3, TotpSame
<1>9. CASE ChangeTenant \/ ChangeMfa \/ UNCHANGED vars
  <2>1. UNCHANGED <<row, request, crossed, partial>>
    BY <1>9 DEF ChangeTenant, ChangeMfa, vars, history
  <2>. QED  BY <1>0, <2>1, TotpSame
<1>. QED  BY <1>1, <1>2, <1>3, <1>4, <1>5, <1>6, <1>7, <1>8, <1>9 DEF Next, Tos

\* At the start no second factor is on.
LEMMA TotpInit == Init => TotpInv
<1>. SUFFICES ASSUME Init PROVE TotpInv
  OBVIOUS
<1>1. \A r \in Roles : Row(r, 0).totp = FALSE
  BY DEF Row
<1>2. \A p \in Requests : request[p].at = "idle"
  BY IdleOk DEF Init
<1>. QED  BY <1>1, <1>2 DEF TotpInv, TotpUsable, ActivationOk, Activating, Init, Here

\* The half of the property that is about the tenants.
LEMMA TotpHolds == Spec => []TotpUsable
<1>1. TotpInv => TotpUsable
  BY DEF TotpInv
<1>. QED  BY AdminInit, AdminNext, TotpInit, TotpNext, <1>1, PTL DEF Spec

\* In both portals: for any number of users, callers and overlapping requests, a second
\* factor that is on has the secret it is checked with, unless it was turned off within
\* its activation (tenant_mfa.py and mfa.py, totp_activate and totp_disable).
THEOREM SecondFactorIsUsable == PortalsSpec => []SecondFactorUsable
BY TotpHolds, SecretIsKept, PTL DEF PortalsSpec, SecondFactorUsable
=============================================================================
