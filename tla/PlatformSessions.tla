--------------------------- MODULE PlatformSessions ---------------------------
(***************************************************************************)
(* The sessions of a platform administrator: routers/auth.py and mfa.py    *)
(* with services/token_blocklist.py.  A refresh token is good for one pair *)
(* of new tokens: using it, or signing out, puts its id on the list of     *)
(* revoked ones, in memory and then in the database, and the version of    *)
(* the administrator's row, raised by a new password or by turning the     *)
(* second factor off, ends every session at once.                          *)
(***************************************************************************)
EXTENDS Integers, FiniteSets
CONSTANTS Callers, MaxPairs, MaxCalls, MaxRestarts
ASSUME PlatformSessionsAssumption ==
    MaxPairs \in Nat \ {0} /\ MaxCalls \in Nat /\ MaxRestarts \in Nat
VARIABLES admin,    \* the row of platform_users
          required, \* platform_required of mfa_settings
          halfway,  \* a partial token is held: the password was right
          pairs,    \* refresh tokens issued, by id
          memory,   \* _revoked: ids, with those cached for a minute only
          stored,   \* rows of revoked_tokens
          caller, done, unstored, raised, clash, locked, made, restarts
pastOf == <<done, unstored, raised, clash, locked>>
limits == <<made, restarts>>
platformVars == <<admin, required, halfway, pairs, memory, stored, caller, pastOf, limits>>

Ids == DOMAIN pairs
Rest == [at |-> "idle", op |-> "none", id |-> 0, version |-> 0, raised |-> 0, late |-> FALSE]
Finish(c) == [caller EXCEPT ![c] = Rest]
To(c, at) == [caller EXCEPT ![c].at = at]
Pair(version, n) == [version |-> version, raised |-> n, old |-> FALSE]
\* A pair for an administrator whose row was read with this version, after n changes.
Issued(version, n) == [i \in 1..Cardinality(Ids) + 1 |->
                         IF i \in Ids THEN pairs[i] ELSE Pair(version, n)]

PlatformInit ==
    /\ admin = [active |-> TRUE, version |-> 0, secret |-> FALSE, totp |-> FALSE]
    /\ required \in BOOLEAN /\ halfway = required
    /\ pairs = [i \in {1} |-> Pair(0, 0)]
    /\ memory = [now |-> {}, brief |-> {}] /\ stored = {}
    /\ caller = [c \in Callers |-> Rest]
    /\ done = {} /\ unstored = {} /\ raised = 0 /\ clash = FALSE /\ locked = FALSE
    /\ made = 0 /\ restarts = 0

Opens(c, r) == /\ caller[c].at = "idle" /\ made < MaxCalls /\ made' = made + 1
               /\ caller' = [caller EXCEPT ![c] = r]
\* Room for the pairs that calls in flight may still issue.
Issuing == {c \in Callers : caller[c].op \in {"refresh", "login", "verify", "activate"}}
Room == Cardinality(Ids) + Cardinality(Issuing) < MaxPairs

-----------------------------------------------------------------------------
(* The list of revoked tokens *)

Remembered(i) == i \in memory.now \cup memory.brief
Revoke(i) == [memory EXCEPT !.now = @ \cup {i}, !.brief = @ \ {i}]

\* _evict: entries found in the database last a minute, the others as long as the token.
Evict(i) ==
    /\ \/ i \in memory.brief /\ memory' = [memory EXCEPT !.brief = @ \ {i}]
       \/ i \in memory.now /\ pairs[i].old /\ memory' = [memory EXCEPT !.now = @ \ {i}]
    /\ UNCHANGED <<admin, required, halfway, pairs, stored, caller, pastOf, limits>>

\* A refresh token expires.
Expire(i) ==
    /\ ~pairs[i].old /\ pairs' = [pairs EXCEPT ![i].old = TRUE]
    /\ UNCHANGED <<admin, required, halfway, memory, stored, caller, pastOf, limits>>

\* POST /auth/refresh up to the lookup in memory; late: the token had been revoked by
\* a call that was over.
Refresh(c, i) ==
    /\ ~pairs[i].old /\ Room
    /\ Opens(c, IF Remembered(i) THEN Rest
                ELSE [Rest EXCEPT !.at = "lookup", !.op = "refresh", !.id = i, !.late = i \in done])
    /\ UNCHANGED <<admin, required, halfway, pairs, memory, stored, pastOf, restarts>>

\* Slip for the mutation runs: a lookup that fails counts as not revoked.
WithoutAnswer(c) == To(c, "user")
WhenUnknown(c) == Finish(c)

\* A row found, of a token that is still good, is kept in memory for a minute; no answer is a refusal.
Lookup(c) ==
    LET i == caller[c].id IN
    /\ caller[c].at = "lookup"
    /\ \/ i \in stored /\ ~pairs[i].old
          /\ memory' = [now |-> memory.now \ {i}, brief |-> memory.brief \cup {i}]
          /\ caller' = Finish(c)
       \/ (i \notin stored \/ pairs[i].old)
          /\ caller' = To(c, "user") /\ UNCHANGED memory
       \/ caller' = WhenUnknown(c) /\ UNCHANGED memory
    /\ UNCHANGED <<admin, required, halfway, pairs, stored, pastOf, limits>>

\* The row is read: active, and of the version the token was issued under.
ReadAdmin(c) ==
    /\ caller[c].at = "user"
    /\ caller' = IF admin.active /\ pairs[caller[c].id].version = admin.version
                 THEN [caller EXCEPT ![c].at = "revoke", ![c].version = admin.version,
                                     ![c].raised = raised]
                 ELSE Finish(c)
    /\ UNCHANGED <<admin, required, halfway, pairs, memory, stored, pastOf, limits>>

\* POST /auth/logout reaches the same steps.
Logout(c, i) ==
    /\ ~pairs[i].old
    /\ Opens(c, [Rest EXCEPT !.at = "revoke", !.op = "logout", !.id = i])
    /\ UNCHANGED <<admin, required, halfway, pairs, memory, stored, pastOf, restarts>>

\* revoke_jti: memory first.
RevokeNow(c) ==
    /\ caller[c].at = "revoke"
    /\ memory' = Revoke(caller[c].id) /\ caller' = To(c, "store")
    /\ UNCHANGED <<admin, required, halfway, pairs, stored, pastOf, limits>>

Purged(i) == {j \in stored \cup {i} : ~pairs[j].old}

\* _store with its cleaning of expired rows; a failure is logged and nothing else.
StoreRow(c) ==
    LET i == caller[c].id IN
    /\ caller[c].at = "store"
    /\ \/ stored' = Purged(i) /\ UNCHANGED unstored
       \/ unstored' = unstored \cup {i} /\ UNCHANGED stored
    /\ done' = done \cup {i}
    /\ caller' = IF caller[c].op = "logout" THEN Finish(c) ELSE To(c, "issue")
    /\ UNCHANGED <<admin, required, halfway, pairs, memory, raised, clash, locked, limits>>

\* The new pair carries the version that was read.
IssuePair(c) ==
    /\ caller[c].at = "issue"
    /\ pairs' = Issued(caller[c].version, caller[c].raised) /\ caller' = Finish(c)
    /\ UNCHANGED <<admin, required, halfway, memory, stored, pastOf, limits>>

-----------------------------------------------------------------------------
(* Signing in, the second factor, and the changes that end every session *)

\* The password is right; with a second factor required the answer is a partial token.
AdminLogin(c) ==
    /\ admin.active /\ (required \/ Room)
    /\ Opens(c, IF required THEN Rest
                ELSE [Rest EXCEPT !.at = "issue", !.op = "login", !.version = admin.version,
                                  !.raised = raised])
    /\ halfway' = (halfway \/ required)
    /\ UNCHANGED <<admin, required, pairs, memory, stored, pastOf, restarts>>

Setup ==
    /\ halfway /\ ~admin.totp /\ ~admin.secret /\ made < MaxCalls /\ made' = made + 1
    /\ admin' = [admin EXCEPT !.secret = TRUE]
    /\ UNCHANGED <<required, halfway, pairs, memory, stored, caller, pastOf, restarts>>

\* The row is read and the code or the password is right: verify answers with what it
\* read, the others write their columns in a second step.
ReadsAdmin(c, op, at) ==
    /\ Opens(c, [Rest EXCEPT !.at = at, !.op = op, !.version = admin.version, !.raised = raised])
    /\ UNCHANGED <<admin, required, halfway, pairs, memory, stored, pastOf, restarts>>
Verify(c) == halfway /\ admin.totp /\ admin.secret /\ Room /\ ReadsAdmin(c, "verify", "issue")
Activate(c) == halfway /\ admin.secret /\ Room /\ ReadsAdmin(c, "activate", "write")
AdminChangePassword(c) == ReadsAdmin(c, "change", "write")
Disable(c) == admin.totp /\ ReadsAdmin(c, "disable", "write")

\* Slip for the mutation runs: turning the second factor off keeps the version.
RaisedByPassword(r) == IF r.op = "change" THEN r.version + 1 ELSE admin.version
\* The version in the row is the one that was read, plus one.
Raised(r) == r.version + 1

\* clash: two of these calls read the row before either wrote it; locked: the second
\* factor was turned off within its activation.
WriteAdmin(c) ==
    LET r == caller[c] IN
    /\ r.at = "write"
    /\ IF r.op = "activate"
       THEN /\ admin' = [admin EXCEPT !.totp = TRUE]
            /\ caller' = [caller EXCEPT ![c].at = "issue", ![c].version = admin.version,
                                        ![c].raised = raised]
            /\ UNCHANGED <<raised, clash, locked>>
       ELSE /\ admin' = IF r.op = "change" THEN [admin EXCEPT !.version = Raised(r)]
                        ELSE [admin EXCEPT !.version = Raised(r), !.totp = FALSE, !.secret = FALSE]
            /\ raised' = raised + 1 /\ clash' = (clash \/ r.raised # raised)
            /\ locked' = (locked \/ (r.op = "disable" /\ \E d \in Callers :
                                       caller[d].at = "write" /\ caller[d].op = "activate"))
            /\ caller' = Finish(c)
    /\ UNCHANGED <<required, halfway, pairs, memory, stored, done, unstored, limits>>

RequireSecondFactor ==
    /\ made < MaxCalls /\ made' = made + 1 /\ required' = ~required
    /\ UNCHANGED <<admin, halfway, pairs, memory, stored, caller, pastOf, restarts>>

\* No endpoint sets is_active: somebody does in the database.
SetActive ==
    /\ made < MaxCalls /\ made' = made + 1 /\ admin' = [admin EXCEPT !.active = ~@]
    /\ UNCHANGED <<required, halfway, pairs, memory, stored, caller, pastOf, restarts>>

Restart ==
    /\ restarts < MaxRestarts /\ restarts' = restarts + 1
    /\ memory' = [now |-> {}, brief |-> {}]
    /\ caller' = [c \in Callers |-> Rest]
    /\ UNCHANGED <<admin, required, halfway, pairs, stored, pastOf, made>>

PlatformNext ==
    \/ \E c \in Callers :
          \/ \E i \in Ids : Refresh(c, i) \/ Logout(c, i)
          \/ Lookup(c) \/ ReadAdmin(c) \/ RevokeNow(c) \/ StoreRow(c) \/ IssuePair(c) \/ AdminLogin(c)
          \/ Verify(c) \/ Activate(c) \/ AdminChangePassword(c) \/ Disable(c) \/ WriteAdmin(c)
    \/ \E i \in Ids : Evict(i) \/ Expire(i)
    \/ Setup \/ RequireSecondFactor \/ SetActive \/ Restart
PlatformSpec == PlatformInit /\ [][PlatformNext]_platformVars

-----------------------------------------------------------------------------
(* Properties *)

\* A refresh token that was used or signed out yields nothing to a call that begins when
\* the revocation is over, before and after a restart, unless the row of the revocation
\* could not be stored and the process restarted since, or the token expires while the
\* call is on its way: token_blocklist.py.
SpentIsSpent ==
    \A c \in Callers : (caller[c].late /\ caller[c].at \in {"revoke", "store", "issue"}) =>
        (caller[c].id \in unstored /\ restarts > 0) \/ pairs[caller[c].id].old

\* revalidate_platform_session, and the same test in refresh.
Valid(i) == ~pairs[i].old /\ admin.active /\ pairs[i].version = admin.version

\* A new password or a second factor turned off ends every session opened before it,
\* unless two such calls overlapped, which raise the version once.
RaiseEndsSessions == clash \/ \A i \in Ids : Valid(i) => pairs[i].raised = raised

\* As for the users of a tenant.
SecretIsThere == (admin.totp => admin.secret) \/ locked
=============================================================================
