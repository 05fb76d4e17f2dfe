----------------------------- MODULE AccessProofs -----------------------------
(***************************************************************************)
(* RealtimeAccess for any number of handlers, authorizations and requests: *)
(* what InfluxDB accepts is what the tenant's row says, unless two         *)
(* requests of one kind crossed.  DeviceAccess for any devices, threads,   *)
(* times to live and bounds: what a device is told was true a moment ago.  *)
(***************************************************************************)
EXTENDS RealtimeAccess, DeviceAccess, FiniteSetTheorems, TLAPS
-----------------------------------------------------------------------------
(* The authorization of a tenant. *)

AuthStates == {"active", "inactive", "gone"}
AtIssue == {"replace", "forgetOld", "create", "record", "undo"}
\* What a handler carries, and the steps of each operation.
Request == [at : {"idle", "revoke", "forget", "switch", "status", "dropRow", "dropOrg"} \cup AtIssue,
            op : {"none", "issue", "revoke", "status", "delete"}, auth : Nat \cup {Absent},
            to : {"none", "active", "suspended"}, was : {"none", "active", "suspended", "deleted"}]
StepOf(r) ==
    /\ r.at = "idle" <=> r.op = "none"
    /\ r.at \in AtIssue <=> r.op = "issue"
    /\ r.at \in {"revoke", "forget"} <=> r.op = "revoke"
    /\ r.at \in {"switch", "status"} <=> r.op = "status"
    /\ r.at \in {"dropRow", "dropOrg"} <=> r.op = "delete"
    /\ r.op = "status" => r.to \in {"active", "suspended"}
Named == {"replace", "forgetOld", "record", "undo", "revoke", "forget", "switch"}
AccessTypes ==
    /\ tenant \in {"active", "suspended", "deleted", Absent}
    /\ record \in Auths \cup {Absent}
    /\ \E n \in Nat : auths \in [1..n -> AuthStates]
    /\ handler \in [Requesters -> Request]
    /\ \A h \in Requesters : StepOf(handler[h]) /\ (handler[h].at \in Named => handler[h].auth \in Auths)
    /\ crossing \in BOOLEAN /\ halfway \in BOOLEAN

\* Authorizations are never taken off the list, and one that is gone stays gone.
AuthsStay == /\ \E n \in Nat : auths' \in [1..n -> AuthStates]
             /\ \A a \in Auths : a \in Auths' /\ (auths[a] = "gone" => auths'[a] = "gone")

\* Handler h goes on to r.
Move(h, r) == /\ handler' = [handler EXCEPT ![h] = r] /\ r \in Request /\ StepOf(r)
              /\ (r.at \in Named => r.auth \in Auths')

\* At the start the list of authorizations is empty and nobody is at work.
LEMMA AccessTypesInit == AccessInit => AccessTypes
<1>. SUFFICES ASSUME AccessInit PROVE AccessTypes
  OBVIOUS
<1>1. auths \in [1..0 -> AuthStates] /\ 0 \in Nat
  BY DEF AccessInit
<1>2. Waiting \in Request /\ StepOf(Waiting) /\ Waiting.at = "idle"
  BY DEF Waiting, Request, StepOf, AtIssue
<1>3. handler \in [Requesters -> Request] /\ \A h \in Requesters : handler[h] = Waiting
  BY <1>2 DEF AccessInit
<1>4. \E n \in Nat : auths \in [1..n -> AuthStates]
  BY <1>1
<1>. QED  BY <1>2, <1>3, <1>4 DEF AccessInit, AccessTypes, Named

\* A handler without a request is at a step of no operation.
LEMMA WaitingOk == /\ Waiting \in Request /\ StepOf(Waiting) /\ Waiting.at = "idle" /\ Waiting.op = "none"
                   /\ Waiting.auth = Absent
BY DEF Waiting, Request, StepOf, AtIssue

\* A step of one handler that keeps the authorizations keeps the shapes.
LEMMA MoveTypes ==
    ASSUME AccessTypes, AuthsStay, NEW h \in Requesters, NEW r, Move(h, r),
           tenant' \in {"active", "suspended", "deleted", Absent}, record' \in Auths' \cup {Absent},
           crossing' \in BOOLEAN, halfway' \in BOOLEAN
    PROVE  AccessTypes'
<1>1. handler' \in [Requesters -> Request]
  BY DEF Move, AccessTypes
<1>2. \A g \in Requesters : StepOf(handler'[g]) /\ (handler'[g].at \in Named => handler'[g].auth \in Auths')
  BY DEF Move, AccessTypes, AuthsStay
<1>3. \E n \in Nat : auths' \in [1..n -> AuthStates]
  BY DEF AuthsStay
<1>. QED  BY <1>1, <1>2, <1>3 DEF AccessTypes, StepOf

LEMMA EndMoves ==
    ASSUME NEW h \in Requesters, Over(h)
    PROVE  Move(h, Waiting)
BY WaitingOk DEF Over, Move, Named

LEMMA GoMoves ==
    ASSUME AccessTypes, AuthsStay, NEW h \in Requesters, handler[h].at \in Named \cup {"dropRow"},
           NEW at \in AtIssue \cup {"forget", "status", "dropOrg"},
           handler' = GoTo(h, at),
           \/ at \in AtIssue /\ handler[h].op = "issue"
           \/ at = "forget" /\ handler[h].op = "revoke"
           \/ at = "status" /\ handler[h].op = "status"
           \/ at = "dropOrg" /\ handler[h].op = "delete"
    PROVE  \E r : /\ Move(h, r) /\ r.at = at /\ r.op = handler[h].op /\ r.auth = handler[h].auth
                  /\ r.to = handler[h].to /\ r.was = handler[h].was
<1>. DEFINE r == [handler[h] EXCEPT !.at = at]
<1>1. handler[h] \in Request /\ handler \in [Requesters -> Request] /\ (at \in Named => handler[h].auth \in Auths)
      /\ (handler[h].op = "status" => handler[h].to \in {"active", "suspended"})
  BY DEF AccessTypes, AtIssue, Named, StepOf
<1>2. /\ r.at = at /\ r.op = handler[h].op /\ r.auth = handler[h].auth
      /\ r.to = handler[h].to /\ r.was = handler[h].was /\ r \in Request
  BY <1>1 DEF Request
<1>3. handler' = [handler EXCEPT ![h] = r]
  BY <1>1 DEF GoTo
<1>. HIDE DEF r
<1>4. StepOf(r)
  BY <1>1, <1>2 DEF StepOf, AtIssue
<1>5. Move(h, r)
  BY <1>1, <1>2, <1>3, <1>4 DEF Move, AuthsStay
<1>. QED  BY <1>2, <1>5

\* Without a call to InfluxDB the authorizations are what they were.
LEMMA AuthsSame == ASSUME AccessTypes, auths' = auths PROVE AuthsStay /\ Auths' = Auths
BY DEF AccessTypes, AuthsStay, Auths

\* One authorization is switched, or deleted for good.
LEMMA AuthSet ==
    ASSUME AccessTypes, NEW a \in Auths, NEW s \in AuthStates, auths' = [auths EXCEPT ![a] = s],
           s = "gone" \/ auths[a] # "gone"
    PROVE  AuthsStay /\ Auths' = Auths /\ auths'[a] = s /\ \A b \in Auths \ {a} : auths'[b] = auths[b]
<1>1. PICK n \in Nat : auths \in [1..n -> AuthStates]
  BY DEF AccessTypes
<1>2. Auths = 1..n /\ auths' \in [1..n -> AuthStates]
  BY <1>1 DEF Auths
<1>. QED  BY <1>1, <1>2 DEF AuthsStay, Auths

\* A new authorization has an id that none had before.
LEMMA AuthAdded ==
    ASSUME AccessTypes, NEW a, a = Cardinality(Auths) + 1,
           auths' = [x \in 1..a |-> IF x = a THEN "active" ELSE auths[x]]
    PROVE  /\ AuthsStay /\ a \in Nat /\ a \notin Auths /\ Auths' = Auths \cup {a} /\ auths'[a] = "active"
           /\ \A b \in Auths : auths'[b] = auths[b]
<1>1. PICK n \in Nat : auths \in [1..n -> AuthStates]
  BY DEF AccessTypes
<1>2. Auths = 1..n /\ a = n + 1
  <2>1. Auths = 1..n
    BY <1>1 DEF Auths
  <2>2. Cardinality(1..n) = n
    BY FS_Interval
  <2>. QED  BY <2>1, <2>2
<1>3. auths' \in [1..n + 1 -> AuthStates] /\ n + 1 \in Nat
  BY <1>1, <1>2 DEF AuthStates
<1>4. Auths' = 1..n + 1
  BY <1>3 DEF Auths
<1>. QED  BY <1>1, <1>2, <1>3, <1>4 DEF AuthsStay

\* A request of an idle handler.
LEMMA StartMoves ==
    ASSUME AccessTypes, NEW h \in Requesters, NEW r \in Request, Start(h, r), StepOf(r),
           r.at \in Named => r.auth \in Auths
    PROVE  /\ Move(h, r) /\ handler[h].at = "idle" /\ handler[h].op = "none"
           /\ crossing' = (crossing \/ Crosses(h, r.op)) /\ crossing' \in BOOLEAN
           /\ UNCHANGED <<tenant, record, auths, org, halfway, stray>>
BY AuthsSame DEF Start, Working, Move, AccessTypes, StepOf

LEMMA IssueMoves ==
    ASSUME AccessTypes, NEW h \in Requesters, Issue(h)
    PROVE  /\ lock = Absent /\ tenant = "active" /\ lock' = h
           /\ handler[h].at = "idle" /\ handler[h].op = "none"
           /\ UNCHANGED <<tenant, record, auths, halfway, stray>>
           /\ crossing' = (crossing \/ Crosses(h, "issue")) /\ crossing' \in BOOLEAN
           /\ \E r : /\ Move(h, r) /\ r.op = "issue"
                     /\ \/ r.at = "create"
                        \/ r.at = "replace" /\ r.auth = record
<1>1. record \in Nat \cup {Absent} /\ (record # Absent => record \in Auths)
  BY DEF AccessTypes, Auths
<1>. DEFINE r == [Waiting EXCEPT !.at = IF record = Absent THEN "create" ELSE "replace", !.op = "issue",
                                 !.auth = record]
<1>2. r \in Request /\ r.op = "issue" /\ r.auth = record
      /\ r.at = IF record = Absent THEN "create" ELSE "replace"
  BY <1>1, WaitingOk DEF Waiting, Request, AtIssue
<1>3. lock = Absent /\ tenant = "active" /\ lock' = h /\ Start(h, r)
  BY DEF Issue
<1>. HIDE DEF r
<1>4. StepOf(r) /\ (r.at \in Named => r.auth \in Auths)
  BY <1>1, <1>2 DEF StepOf, AtIssue, Named
<1>. QED  BY <1>2, <1>3, <1>4, StartMoves

LEMMA RevokeMoves ==
    ASSUME AccessTypes, NEW h \in Requesters, Revoke(h)
    PROVE  /\ handler[h].at = "idle" /\ handler[h].op = "none"
           /\ UNCHANGED <<tenant, record, auths, halfway, stray, lock>>
           /\ crossing' = (crossing \/ Crosses(h, "revoke")) /\ crossing' \in BOOLEAN
           /\ \E r : Move(h, r) /\ r.op = "revoke" /\ r.at = "revoke" /\ r.auth = record
<1>1. record \in Nat /\ record \in Auths
  BY DEF AccessTypes, Auths, Revoke
<1>. DEFINE r == [Waiting EXCEPT !.at = "revoke", !.op = "revoke", !.auth = record]
<1>2. r \in Request /\ r.op = "revoke" /\ r.auth = record /\ r.at = "revoke"
  BY <1>1, WaitingOk DEF Waiting, Request
<1>3. Start(h, r) /\ UNCHANGED lock
  BY DEF Revoke
<1>. HIDE DEF r
<1>4. StepOf(r)
  BY <1>2 DEF StepOf, AtIssue
<1>. QED  BY <1>1, <1>2, <1>3, <1>4, StartMoves

LEMMA SetStatusMoves ==
    ASSUME AccessTypes, NEW h \in Requesters, NEW to \in {"active", "suspended"}, SetStatus(h, to)
    PROVE  /\ handler[h].at = "idle" /\ handler[h].op = "none"
           /\ UNCHANGED <<tenant, record, auths, halfway, stray, lock>>
           /\ crossing' = (crossing \/ Crosses(h, "status")) /\ crossing' \in BOOLEAN
           /\ \E r : /\ Move(h, r) /\ r.op = "status" /\ r.auth = record /\ r.was = tenant
                     /\ r.to \in {"active", "suspended"}
                     /\ r.at = "switch" \/ (r.at = "status" /\ record = Absent)
<1>1. record \in Nat \cup {Absent} /\ (record # Absent => record \in Auths)
      /\ tenant \in {"active", "suspended", "deleted"}
  BY DEF AccessTypes, Auths, SetStatus
<1>. DEFINE r == [at |-> IF record = Absent THEN "status" ELSE "switch", op |-> "status",
                 auth |-> record, to |-> to, was |-> tenant]
<1>2. r \in Request /\ r.op = "status" /\ r.auth = record /\ r.was = tenant /\ r.to = to
      /\ r.at = IF record = Absent THEN "status" ELSE "switch"
  BY <1>1 DEF Request
<1>3. Start(h, r) /\ UNCHANGED lock
  BY DEF SetStatus
<1>. HIDE DEF r
<1>4. StepOf(r) /\ (r.at \in Named => r.auth \in Auths)
  BY <1>1, <1>2 DEF StepOf, AtIssue, Named
<1>. QED  BY <1>2, <1>3, <1>4, StartMoves

LEMMA SoftDeleteMoves ==
    ASSUME AccessTypes, NEW h \in Requesters, SoftDelete(h)
    PROVE  /\ handler[h].at = "idle" /\ handler[h].op = "none"
           /\ tenant \notin {"deleted", Absent} /\ tenant' = "deleted"
           /\ UNCHANGED <<record, auths, halfway, stray, lock, crossing>>
           /\ \E r : Move(h, r) /\ r.op = "delete" /\ r.at = "dropRow"
<1>. DEFINE r == [Waiting EXCEPT !.at = "dropRow", !.op = "delete"]
<1>2. r \in Request /\ r.op = "delete" /\ r.at = "dropRow"
  BY WaitingOk DEF Waiting, Request
<1>3. handler' = [handler EXCEPT ![h] = r] /\ handler[h].at = "idle"
  BY DEF SoftDelete, Working
<1>. HIDE DEF r
<1>4. StepOf(r) /\ r.at \notin Named
  BY <1>2 DEF StepOf, AtIssue, Named
<1>5. handler[h].op = "none"
  BY <1>3 DEF AccessTypes, StepOf
<1>6. Move(h, r)
  BY <1>2, <1>3, <1>4 DEF Move
<1>. QED  BY <1>2, <1>3, <1>5, <1>6 DEF SoftDelete

\* Authorizations only go.
OnlyGo == AuthsStay /\ Auths' = Auths /\ \A b \in Auths : auths'[b] = auths[b] \/ auths'[b] = "gone"

LEMMA RevokedGoes ==
    ASSUME AccessTypes, NEW a \in Auths, auths' \in {auths, Revoked(a)}
    PROVE  OnlyGo /\ (auths' = Revoked(a) => auths'[a] = "gone")
<1>1. CASE auths' = auths
  <2>1. auths = Revoked(a) => auths[a] = "gone"
    BY DEF Revoked, AccessTypes, Auths
  <2>. QED  BY <1>1, <2>1, AuthsSame DEF OnlyGo
<1>2. CASE auths' = Revoked(a)
  BY <1>2, AuthSet DEF OnlyGo, Revoked, AuthStates
<1>. QED  BY <1>1, <1>2

Closes(h) == Move(h, Waiting) /\ lock' = IF lock = h THEN Absent ELSE lock

LEMMA ReplaceMoves ==
    ASSUME AccessTypes, NEW h \in Requesters, Replace(h)
    PROVE  /\ handler[h].at = "replace" /\ handler[h].op = "issue" /\ OnlyGo
           /\ UNCHANGED <<tenant, record, crossing, halfway, stray>>
           /\ \/ Closes(h)
              \/ /\ auths'[handler[h].auth] = "gone" /\ lock' = lock
                 /\ \E r : Move(h, r) /\ r.op = "issue" /\ r.at = "forgetOld" /\ r.auth = handler[h].auth
<1>1. handler[h].at = "replace" /\ handler[h].op = "issue" /\ handler[h].auth \in Auths
  BY DEF Replace, AccessTypes, Named, StepOf, AtIssue
<1>2. auths' \in {auths, Revoked(handler[h].auth)} /\ UNCHANGED <<tenant, record, crossing, halfway, stray>>
  BY DEF Replace, past
<1>3. OnlyGo /\ (auths' = Revoked(handler[h].auth) => auths'[handler[h].auth] = "gone")
  BY <1>1, <1>2, RevokedGoes
<1>4. CASE Over(h)
  BY <1>1, <1>2, <1>3, <1>4, EndMoves DEF Closes, Over
<1>5. CASE auths' = Revoked(handler[h].auth) /\ handler' = GoTo(h, "forgetOld") /\ UNCHANGED lock
  <2>1. PICK r : Move(h, r) /\ r.at = "forgetOld" /\ r.op = handler[h].op /\ r.auth = handler[h].auth
    BY <1>1, <1>3, <1>5, GoMoves DEF OnlyGo, Named, AtIssue
  <2>. QED  BY <1>1, <1>2, <1>3, <1>5, <2>1
<1>. QED  BY <1>4, <1>5 DEF Replace

LEMMA RevokeAuthMoves ==
    ASSUME AccessTypes, NEW h \in Requesters, RevokeAuth(h)
    PROVE  /\ handler[h].at = "revoke" /\ handler[h].op = "revoke" /\ OnlyGo
           /\ UNCHANGED <<tenant, record, crossing, halfway, stray>>
           /\ \/ Closes(h)
              \/ /\ auths'[handler[h].auth] = "gone" /\ lock' = lock
                 /\ \E r : Move(h, r) /\ r.op = "revoke" /\ r.at = "forget" /\ r.auth = handler[h].auth
<1>1. handler[h].at = "revoke" /\ handler[h].op = "revoke" /\ handler[h].auth \in Auths
  BY DEF RevokeAuth, AccessTypes, Named, StepOf, AtIssue
<1>2. auths' \in {auths, Revoked(handler[h].auth)} /\ UNCHANGED <<tenant, record, crossing, halfway, stray>>
  BY DEF RevokeAuth, past
<1>3. OnlyGo /\ (auths' = Revoked(handler[h].auth) => auths'[handler[h].auth] = "gone")
  BY <1>1, <1>2, RevokedGoes
<1>4. CASE Over(h)
  BY <1>1, <1>2, <1>3, <1>4, EndMoves DEF Closes, Over
<1>5. CASE auths' = Revoked(handler[h].auth) /\ handler' = GoTo(h, "forget") /\ UNCHANGED lock
  <2>1. PICK r : Move(h, r) /\ r.at = "forget" /\ r.op = handler[h].op /\ r.auth = handler[h].auth
    BY <1>1, <1>3, <1>5, GoMoves DEF OnlyGo, Named, AtIssue
  <2>. QED  BY <1>1, <1>2, <1>3, <1>5, <2>1
<1>. QED  BY <1>4, <1>5 DEF RevokeAuth

LEMMA ForgetOldMoves ==
    ASSUME AccessTypes, NEW h \in Requesters, ForgetOld(h)
    PROVE  /\ handler[h].at = "forgetOld" /\ handler[h].op = "issue" /\ record' = Absent /\ lock' = Absent
           /\ UNCHANGED <<tenant, auths, crossing, halfway, stray>>
           /\ Move(h, Waiting) \/ \E r : Move(h, r) /\ r.op = "issue" /\ r.at = "create" /\ tenant # Absent
<1>1. handler[h].at = "forgetOld" /\ handler[h].op = "issue"
  BY DEF ForgetOld, AccessTypes, StepOf, AtIssue
<1>2. record' = Absent /\ lock' = Absent /\ UNCHANGED <<tenant, auths, crossing, halfway, stray>>
  BY DEF ForgetOld, past
<1>3. CASE tenant = Absent
  BY <1>1, <1>2, <1>3, WaitingOk DEF ForgetOld, Move, Named
<1>4. CASE tenant # Absent
  <2>1. PICK r : Move(h, r) /\ r.at = "create" /\ r.op = handler[h].op
    BY <1>1, <1>2, <1>4, GoMoves, AuthsSame DEF Named, AtIssue, ForgetOld
  <2>. QED  BY <1>1, <1>2, <1>4, <2>1
<1>. QED  BY <1>3, <1>4

LEMMA CreateAuthMoves ==
    ASSUME AccessTypes, NEW h \in Requesters, CreateAuth(h)
    PROVE  /\ handler[h].at = "create" /\ handler[h].op = "issue"
           /\ UNCHANGED <<tenant, record, crossing, halfway>>
           /\ \/ auths' = auths /\ stray' = stray /\ Closes(h)
              \/ \E a : /\ AuthsStay /\ Auths' = Auths \cup {a} /\ a \notin Auths /\ auths'[a] = "active"
                        /\ \A b \in Auths : auths'[b] = auths[b]
                        /\ \/ stray' = stray \cup {a} /\ Closes(h)
                           \/ /\ lock' = lock /\ stray' = stray
                              /\ \E r : Move(h, r) /\ r.op = "issue" /\ r.at = "record" /\ r.auth = a
<1>1. handler[h].at = "create" /\ handler[h].op = "issue" /\ UNCHANGED <<tenant, record, crossing, halfway>>
      /\ handler[h] \in Request /\ handler \in [Requesters -> Request]
  BY DEF CreateAuth, AccessTypes, StepOf, AtIssue
<1>2. PICK a : a = Cardinality(Auths) + 1
  OBVIOUS
<1>3. CASE Over(h) /\ UNCHANGED <<auths, stray>>
  BY <1>1, <1>3, EndMoves DEF Closes, Over
<1>. DEFINE Added == [x \in 1..a |-> IF x = a THEN "active" ELSE auths[x]]
<1>4. CASE auths' = Added
  <2>1. /\ AuthsStay /\ a \in Nat /\ a \notin Auths /\ Auths' = Auths \cup {a} /\ auths'[a] = "active"
        /\ \A b \in Auths : auths'[b] = auths[b]
    BY <1>2, <1>4, AuthAdded
  <2>2. CASE stray' = stray \cup {a} /\ Over(h)
    BY <1>1, <2>1, <2>2, EndMoves DEF Closes, Over
  <2>3. CASE UNCHANGED <<lock, stray>> /\ handler' = [handler EXCEPT ![h].at = "record", ![h].auth = a]
    <3>1. PICK r : r = [handler[h] EXCEPT !.at = "record", !.auth = a]
      OBVIOUS
    <3>2. r \in Request /\ r.at = "record" /\ r.auth = a /\ r.op = "issue"
      BY <1>1, <2>1, <3>1 DEF Request, AtIssue
    <3>3. handler' = [handler EXCEPT ![h] = r]
      BY <1>1, <2>3, <3>1
    <3>4. StepOf(r)
      BY <3>2 DEF StepOf, AtIssue
    <3>5. Move(h, r)
      BY <2>1, <3>2, <3>3, <3>4 DEF Move
    <3>. QED  BY <1>1, <2>1, <2>3, <3>2, <3>5
  <2>4. \/ stray' = stray \cup {a} /\ Over(h)
        \/ UNCHANGED <<lock, stray>> /\ handler' = [handler EXCEPT ![h].at = "record", ![h].auth = a]
        \/ Over(h) /\ UNCHANGED <<auths, stray>>
    BY <1>2 DEF CreateAuth
  <2>. QED  BY <1>3, <2>2, <2>3, <2>4
<1>. QED  BY <1>2, <1>3, <1>4 DEF CreateAuth

LEMMA RecordMoves ==
    ASSUME AccessTypes, NEW h \in Requesters, Record(h)
    PROVE  /\ handler[h].at = "record" /\ handler[h].op = "issue" /\ handler[h].auth \in Auths
           /\ lock \in {Absent, h} /\ lock' = Absent
           /\ UNCHANGED <<tenant, auths, crossing, halfway, stray>>
           /\ \/ /\ record = Absent /\ tenant # Absent /\ record' = handler[h].auth /\ Closes(h)
              \/ /\ record' = record
                 /\ \E r : Move(h, r) /\ r.op = "issue" /\ r.at = "undo" /\ r.auth = handler[h].auth
<1>1. handler[h].at = "record" /\ handler[h].op = "issue" /\ handler[h].auth \in Auths
  BY DEF Record, AccessTypes, StepOf, AtIssue, Named
<1>2. UNCHANGED <<tenant, auths, crossing, halfway, stray>> /\ lock \in {Absent, h}
  BY DEF Record, past, Unlocked
<1>3. CASE record = Absent /\ tenant # Absent /\ record' = handler[h].auth /\ Over(h)
  BY <1>1, <1>2, <1>3, EndMoves DEF Closes, Over
<1>4. CASE handler' = GoTo(h, "undo") /\ lock' = (IF lock = h THEN Absent ELSE lock) /\ UNCHANGED record
  <2>1. PICK r : Move(h, r) /\ r.at = "undo" /\ r.op = handler[h].op /\ r.auth = handler[h].auth
    BY <1>1, <1>2, <1>4, GoMoves, AuthsSame DEF Named, AtIssue
  <2>. QED  BY <1>1, <1>2, <1>4, <2>1
<1>. QED  BY <1>3, <1>4 DEF Record

LEMMA UndoIssueMoves ==
    ASSUME AccessTypes, NEW h \in Requesters, UndoIssue(h)
    PROVE  /\ handler[h].at = "undo" /\ handler[h].op = "issue" /\ handler[h].auth \in Auths /\ OnlyGo
           /\ UNCHANGED <<tenant, record, crossing, halfway>> /\ Closes(h)
           /\ \/ auths'[handler[h].auth] = "gone" /\ stray' = stray
              \/ stray' = stray \cup {handler[h].auth}
<1>1. handler[h].at = "undo" /\ handler[h].op = "issue" /\ handler[h].auth \in Auths
  BY DEF UndoIssue, AccessTypes, StepOf, AtIssue, Named
<1>2. UNCHANGED <<tenant, record, crossing, halfway>> /\ Closes(h)
  BY EndMoves DEF UndoIssue, Closes, Over
<1>3. \/ auths' = Revoked(handler[h].auth) /\ stray' = stray
      \/ stray' = stray \cup {handler[h].auth} /\ auths' = auths
  BY DEF UndoIssue, UndoAuth
<1>. QED  BY <1>1, <1>2, <1>3, RevokedGoes

LEMMA ForgetRowMoves ==
    ASSUME AccessTypes, NEW h \in Requesters, ForgetRow(h)
    PROVE  /\ handler[h].at = "forget" /\ handler[h].op = "revoke" /\ record' = Absent /\ Closes(h)
           /\ UNCHANGED <<tenant, auths, crossing, halfway, stray>>
<1>1. handler[h].at = "forget" /\ handler[h].op = "revoke"
  BY DEF ForgetRow, AccessTypes, StepOf, AtIssue
<1>. QED  BY <1>1, EndMoves DEF ForgetRow, past, Closes, Over

LEMMA SwitchMoves ==
    ASSUME AccessTypes, NEW h \in Requesters, Switch(h)
    PROVE  /\ handler[h].at = "switch" /\ handler[h].op = "status" /\ handler[h].auth \in Auths
           /\ AuthsStay /\ Auths' = Auths /\ \A b \in Auths \ {handler[h].auth} : auths'[b] = auths[b]
           /\ UNCHANGED <<tenant, record, crossing, stray>> /\ halfway' \in {halfway, TRUE}
           /\ \/ /\ halfway' = halfway /\ lock' = lock /\ auths[handler[h].auth] # "gone"
                 /\ auths'[handler[h].auth] = IF handler[h].to = "active" THEN "active" ELSE "inactive"
                 /\ \E r : Move(h, r) /\ r.op = "status" /\ r.at = "status" /\ r.auth = handler[h].auth
                           /\ r.to = handler[h].to /\ r.was = handler[h].was
              \/ halfway' = TRUE /\ Closes(h) /\ auths[handler[h].auth] # "gone"
              \/ halfway' = halfway /\ auths' = auths /\ Closes(h)
<1>. PICK a : a = handler[h].auth
  OBVIOUS
<1>1. handler[h].at = "switch" /\ handler[h].op = "status" /\ a \in Auths
  BY DEF Switch, AccessTypes, StepOf, AtIssue, Named
<1>2. UNCHANGED <<tenant, record, crossing, stray>>
  BY DEF Switch
<1>3. CASE Over(h) /\ UNCHANGED <<auths, halfway>>
  BY <1>1, <1>2, <1>3, AuthsSame, EndMoves DEF Closes, Over
<1>4. CASE auths[a] # "gone" /\ auths' = Switched(a, handler[h].to)
  <2>1. PICK s \in AuthStates : s = IF handler[h].to = "active" THEN "active" ELSE "inactive"
    BY DEF AuthStates
  <2>2. auths' = [auths EXCEPT ![a] = s]
    BY <1>4, <2>1 DEF Switched
  <2>3. AuthsStay /\ Auths' = Auths /\ auths'[a] = s /\ \A b \in Auths \ {a} : auths'[b] = auths[b]
    BY <1>1, <1>4, <2>2, AuthSet
  <2>4. CASE handler' = GoTo(h, "status") /\ UNCHANGED <<lock, halfway>>
    <3>1. PICK r : /\ Move(h, r) /\ r.at = "status" /\ r.op = handler[h].op /\ r.auth = handler[h].auth
                   /\ r.to = handler[h].to /\ r.was = handler[h].was
      BY <1>1, <2>3, <2>4, GoMoves DEF Named
    <3>. QED  BY <1>1, <1>2, <1>4, <2>1, <2>3, <2>4, <3>1
  <2>5. CASE halfway' = TRUE /\ Over(h)
    BY <1>1, <1>2, <1>4, <2>3, <2>5, EndMoves DEF Closes, Over
  <2>6. \/ handler' = GoTo(h, "status") /\ UNCHANGED <<lock, halfway>>
        \/ halfway' = TRUE /\ Over(h)
        \/ Over(h) /\ UNCHANGED <<auths, halfway>>
    BY DEF Switch
  <2>. QED  BY <1>3, <2>4, <2>5, <2>6
<1>. QED  BY <1>3, <1>4 DEF Switch

LEMMA CommitStatusMoves ==
    ASSUME AccessTypes, NEW h \in Requesters, CommitStatus(h)
    PROVE  /\ handler[h].at = "status" /\ handler[h].op = "status" /\ handler[h].to \in {"active", "suspended"}
           /\ UNCHANGED <<record, auths, crossing, stray>> /\ Closes(h)
           /\ \/ /\ tenant # Absent /\ halfway' = halfway
                 /\ tenant' = IF handler[h].to = handler[h].was THEN tenant ELSE handler[h].to
              \/ halfway' = (halfway \/ handler[h].auth # Absent) /\ tenant' = tenant
<1>1. handler[h].at = "status" /\ handler[h].op = "status" /\ handler[h].to \in {"active", "suspended"}
  BY DEF CommitStatus, AccessTypes, StepOf, AtIssue, Request
<1>. QED  BY <1>1, EndMoves DEF CommitStatus, Closes, Over

LEMMA DropTenantMoves ==
    ASSUME AccessTypes, NEW h \in Requesters, DropTenant(h)
    PROVE  /\ handler[h].at = "dropRow" /\ handler[h].op = "delete" /\ lock \in {Absent, h}
           /\ UNCHANGED <<auths, lock, crossing, halfway, stray>>
           /\ (tenant' = Absent /\ record' = Absent) \/ UNCHANGED <<tenant, record>>
           /\ \E r : Move(h, r) /\ r.op = "delete" /\ r.at = "dropOrg"
<1>1. handler[h].at = "dropRow" /\ handler[h].op = "delete" /\ UNCHANGED <<auths, lock, crossing, halfway, stray>>
      /\ lock \in {Absent, h}
  BY DEF DropTenant, AccessTypes, StepOf, AtIssue, past, Unlocked
<1>2. PICK r : Move(h, r) /\ r.at = "dropOrg" /\ r.op = handler[h].op
  BY <1>1, GoMoves, AuthsSame DEF DropTenant
<1>. QED  BY <1>1, <1>2 DEF DropTenant

LEMMA DropOrgMoves ==
    ASSUME AccessTypes, NEW h \in Requesters, DropOrg(h)
    PROVE  /\ handler[h].at = "dropOrg" /\ handler[h].op = "delete" /\ OnlyGo
           /\ UNCHANGED <<tenant, record, crossing, halfway>> /\ Closes(h)
           /\ \/ stray' = stray /\ \A a \in Auths : auths'[a] = "gone"
              \/ stray' = stray \cup Auths
<1>1. handler[h].at = "dropOrg" /\ handler[h].op = "delete" /\ UNCHANGED <<tenant, record, crossing, halfway>>
  BY DEF DropOrg, AccessTypes, StepOf, AtIssue
<1>2. CASE auths' = [a \in Auths |-> "gone"] /\ stray' = stray
  <2>1. PICK n \in Nat : auths \in [1..n -> AuthStates]
    BY DEF AccessTypes
  <2>2. Auths = 1..n
    BY <2>1 DEF Auths
  <2>3. auths' \in [1..n -> AuthStates] /\ \A a \in Auths : auths'[a] = "gone"
    BY <1>2, <2>2 DEF AuthStates
  <2>4. OnlyGo
    BY <2>2, <2>3 DEF OnlyGo, AuthsStay, Auths
  <2>. QED  BY <1>1, <1>2, <2>3, <2>4, EndMoves DEF DropOrg, Closes, Over
<1>3. CASE stray' = stray \cup Auths /\ auths' = auths
  BY <1>1, <1>3, AuthsSame, EndMoves DEF DropOrg, Closes, Over, OnlyGo
<1>. QED  BY <1>2, <1>3 DEF DropOrg

\* Handler h has an authorization in hand that is not recorded yet.
Holds(h, a) == handler[h].op = "issue" /\ handler[h].at \in {"record", "undo"} /\ handler[h].auth = a
Owned(a) == \/ a = record \/ a \in stray
            \/ tenant = Absent /\ \E h \in Requesters : handler[h].at = "dropOrg"
            \/ \E h \in Requesters : Holds(h, a)
\* While no two handlers have crossed: a change of the status runs without an issue or
\* another change, and an issue without a revocation.
Apart == ~crossing => \A g, h \in Requesters :
            /\ g # h /\ handler[g].op = "status" => handler[h].op \notin {"status", "issue"}
            /\ handler[g].op = "issue" => handler[h].op # "revoke"
HandlerInv(h) ==
    LET r == handler[h] IN
    /\ r.at \in {"replace", "forgetOld"} => lock = h
    /\ r.at \in {"forget", "forgetOld"} => auths[r.auth] = "gone"
    /\ ~crossing =>
         /\ r.at \in {"replace", "forgetOld"} => record = r.auth
         /\ r.op \in {"revoke", "status"} => record \in {r.auth, Absent}
         /\ r.at = "status" /\ r.to = "suspended" => record = Absent \/ auths[record] # "active"
         /\ r.op = "status" => tenant \in {r.was, "deleted", Absent}
         /\ tenant = "suspended" => r.op # "issue"
OwnInv == ~crossing => \A a \in Auths : auths[a] = "gone" \/ Owned(a)
StopInv == ~crossing /\ ~halfway /\ tenant = "suspended" =>
    \/ record = Absent \/ auths[record] # "active"
    \/ \E h \in Requesters : handler[h].at = "status" /\ handler[h].to = "active"
HandlersInv == \A h \in Requesters : HandlerInv(h)
RealtimeInv == AccessTypes /\ Apart /\ HandlersInv /\ OwnInv /\ StopInv

LEMMA ApartMoves ==
    ASSUME AccessTypes, Apart, NEW h \in Requesters, NEW r, Move(h, r), crossing' = crossing,
           r.op \in {handler[h].op, "none", "delete"}
    PROVE  Apart'
BY DEF Apart, Move, AccessTypes

\* A request that does not cross another begins while no request of its kind is at work.
LEMMA ApartStarts ==
    ASSUME AccessTypes, Apart, NEW h \in Requesters, NEW r, Move(h, r),
           NEW op \in {"issue", "revoke", "status"}, r.op = op, crossing' = (crossing \/ Crosses(h, op))
    PROVE  Apart'
<1>. SUFFICES ASSUME ~crossing' PROVE Apart'
  BY DEF Apart
<1>1. ~crossing /\ \A g \in Requesters \ {h} :
         {handler[g].op, op} \notin {{"issue", "status"}, {"status"}, {"issue", "revoke"}}
  BY DEF Crosses
<1>2. ASSUME NEW g \in Requesters \ {h}
      PROVE  /\ ~(handler[g].op = "issue" /\ op \in {"status", "revoke"})
             /\ ~(handler[g].op = "status" /\ op \in {"status", "issue"})
             /\ ~(handler[g].op = "revoke" /\ op = "issue")
  BY <1>1
<1>3. /\ handler'[h].op = op /\ \A g \in Requesters \ {h} : handler'[g] = handler[g]
  BY DEF Move, AccessTypes
<1>4. ASSUME NEW f \in Requesters, NEW g \in Requesters
      PROVE  /\ f # g /\ handler'[f].op = "status" => handler'[g].op \notin {"status", "issue"}
             /\ handler'[f].op = "issue" => handler'[g].op # "revoke"
  BY <1>1, <1>2, <1>3 DEF Apart
<1>. QED  BY <1>4 DEF Apart

\* The invariant holds at the start.
LEMMA RealtimeInvInit == AccessInit => RealtimeInv
<1>. SUFFICES ASSUME AccessInit PROVE RealtimeInv
  OBVIOUS
<1>1. AccessTypes /\ \A h \in Requesters : handler[h].op = "none" /\ handler[h].at = "idle"
  BY AccessTypesInit, WaitingOk DEF AccessInit
<1>2. Auths = {} /\ tenant = "active"
  BY DEF AccessInit, Auths
<1>. QED  BY <1>1, <1>2 DEF RealtimeInv, Apart, HandlersInv, HandlerInv, OwnInv, StopInv

\* The new record of a request that has just begun says nothing false.
LEMMA BeginsOk ==
    ASSUME RealtimeInv, NEW h \in Requesters, NEW r, Move(h, r), handler[h].op = "none",
           NEW op \in {"issue", "revoke", "status"}, r.op = op, crossing' = (crossing \/ Crosses(h, op)),
           crossing' \in BOOLEAN, UNCHANGED <<tenant, record, auths, halfway, stray>>,
           lock' = lock \/ (lock = Absent /\ lock' = h),
           op = "issue" => tenant = "active" /\ (r.at = "create" \/ (r.at = "replace" /\ r.auth = record /\ lock' = h)),
           op = "revoke" => r.at = "revoke" /\ r.auth = record,
           op = "status" => /\ r.auth = record /\ r.was = tenant
                            /\ r.at = "switch" \/ (r.at = "status" /\ record = Absent)
    PROVE  RealtimeInv'
<1>0. AccessTypes /\ Apart /\ HandlersInv /\ OwnInv /\ StopInv
  BY DEF RealtimeInv
<1>1. AuthsStay /\ Auths' = Auths
  BY <1>0, AuthsSame
<1>2. AccessTypes'
  BY <1>0, <1>1, MoveTypes DEF AccessTypes
<1>3. Apart'
  BY <1>0, ApartStarts
<1>4. handler'[h] = r /\ \A g \in Requesters \ {h} : handler'[g] = handler[g]
  BY <1>0 DEF Move, AccessTypes
<1>5. ASSUME NEW g \in Requesters PROVE HandlerInv(g)'
  <2>1. CASE g = h
    <3>1. r.at \notin {"forget", "forgetOld"} /\ (r.at \in {"replace", "forgetOld"} => r.op = "issue")
      BY DEF Move, StepOf, AtIssue
    <3>. QED  BY <2>1, <3>1, <1>4, RealtimeAssumption DEF HandlerInv
  <2>2. CASE g # h
    <3>1. HandlerInv(g) /\ handler'[g] = handler[g]
      BY <1>0, <1>4, <2>2 DEF HandlersInv
    <3>2. lock = g => lock' = g
      BY RealtimeAssumption
    <3>. QED  BY <3>1, <3>2 DEF HandlerInv
  <2>. QED  BY <2>1, <2>2
<1>6. OwnInv'
  <2>1. ASSUME ~crossing', NEW a \in Auths', auths'[a] # "gone" PROVE Owned(a)'
    <3>1. a \in Auths /\ Owned(a) /\ handler[h].at = "idle"
      BY <1>0, <1>1, <2>1 DEF OwnInv, AccessTypes, StepOf
    <3>. QED  BY <3>1, <1>4 DEF Owned, Holds
  <2>. QED  BY <2>1 DEF OwnInv
<1>7. StopInv'
  <2>1. handler[h].at = "idle"
    BY <1>0 DEF AccessTypes, StepOf
  <2>. QED  BY <1>0, <1>4, <2>1 DEF StopInv
<1>. QED  BY <1>2, <1>3, <1>5, <1>6, <1>7 DEF RealtimeInv, HandlersInv

\* A request that begins keeps the invariant.
LEMMA StartsKeep ==
    ASSUME RealtimeInv, NEW h \in Requesters,
           Issue(h) \/ Revoke(h) \/ \E to \in {"active", "suspended"} : SetStatus(h, to)
    PROVE  RealtimeInv'
<1>0. AccessTypes
  BY DEF RealtimeInv
<1>1. CASE Issue(h)
  BY <1>0, <1>1, IssueMoves, BeginsOk
<1>2. CASE Revoke(h)
  BY <1>0, <1>2, RevokeMoves, BeginsOk
<1>3. ASSUME NEW to \in {"active", "suspended"}, SetStatus(h, to) PROVE RealtimeInv'
  BY <1>0, <1>3, SetStatusMoves, BeginsOk
<1>. QED  BY <1>1, <1>2, <1>3

\* Only handler h moves, and each keeps what the others' steps leave alone.
LEMMA Moved ==
    ASSUME RealtimeInv, NEW h \in Requesters, NEW r, Move(h, r), AuthsStay, crossing' = crossing,
           r.op \in {handler[h].op, "none", "delete"},
           tenant' \in {"active", "suspended", "deleted", Absent}, record' \in Auths' \cup {Absent}, halfway' \in BOOLEAN
    PROVE  /\ AccessTypes /\ Apart /\ HandlersInv /\ OwnInv /\ StopInv
           /\ AccessTypes' /\ Apart' /\ handler'[h] = r /\ StepOf(r) /\ StepOf(handler[h])
           /\ \A g \in Requesters \ {h} : handler'[g] = handler[g] /\ HandlerInv(g) /\ StepOf(handler[g])
BY MoveTypes, ApartMoves DEF RealtimeInv, Move, AccessTypes, HandlersInv

\* Another handler's step that leaves the tenant's row and the record alone.
LEMMA OtherKept ==
    ASSUME NEW g \in Requesters, HandlerInv(g), handler'[g] = handler[g], crossing' = crossing, AuthsStay,
           record' = record, tenant' = tenant, lock = g => lock' = g, AccessTypes,
           ~crossing /\ record # Absent /\ auths[record] # "active" => auths'[record] # "active"
    PROVE  HandlerInv(g)'
<1>1. handler[g].at \in {"forget", "forgetOld"} => handler[g].auth \in Auths
  BY DEF AccessTypes, Named
<1>. QED  BY <1>1 DEF HandlerInv, AuthsStay

\* What nobody owned before is gone, and what was owned stays owned, where no record is lost.
LEMMA OwnedStays ==
    ASSUME NEW h \in Requesters, handler[h].at # "dropOrg", ~\E a : Holds(h, a),
           \A g \in Requesters \ {h} : handler'[g] = handler[g],
           tenant' = tenant, record' = record, stray \subseteq stray', NEW a, Owned(a)
    PROVE  Owned(a)'
BY DEF Owned, Holds

\* An authorization goes, or nothing changes, and the handler ends or goes on.
LEMMA ReplaceKeeps == ASSUME RealtimeInv, NEW h \in Requesters, Replace(h) PROVE RealtimeInv'
<1>0. /\ handler[h].at = "replace" /\ OnlyGo /\ UNCHANGED <<tenant, record, crossing, halfway, stray>>
      /\ \E r : /\ Move(h, r) /\ r.op \in {"none", "issue"} /\ handler[h].op = "issue"
                /\ \/ r.op = "none" /\ lock' = IF lock = h THEN Absent ELSE lock
                   \/ /\ r.op = "issue" /\ r.at = "forgetOld" /\ lock' = lock /\ r.auth = handler[h].auth
                      /\ auths'[r.auth] = "gone"
  BY ReplaceMoves, WaitingOk DEF RealtimeInv, Closes
<1>r. PICK r : /\ Move(h, r) /\ r.op \in {"none", "issue"} /\ handler[h].op = "issue"
               /\ \/ r.op = "none" /\ lock' = IF lock = h THEN Absent ELSE lock
                  \/ /\ r.op = "issue" /\ r.at = "forgetOld" /\ lock' = lock /\ r.auth = handler[h].auth
                     /\ auths'[r.auth] = "gone"
  BY <1>0
<1>1. AuthsStay /\ Auths' = Auths /\ \A b \in Auths : auths'[b] = auths[b] \/ auths'[b] = "gone"
  BY <1>0 DEF OnlyGo
<1>2. /\ AccessTypes /\ Apart /\ HandlersInv /\ OwnInv /\ StopInv
      /\ AccessTypes' /\ Apart' /\ handler'[h] = r /\ StepOf(r) /\ StepOf(handler[h])
      /\ \A g \in Requesters \ {h} : handler'[g] = handler[g] /\ HandlerInv(g) /\ StepOf(handler[g])
  BY <1>0, <1>1, <1>r, Moved DEF RealtimeInv, AccessTypes
<1>s. record # Absent /\ auths[record] # "active" => auths'[record] # "active"
  BY <1>1, <1>2 DEF AccessTypes
<1>3. ASSUME NEW g \in Requesters PROVE HandlerInv(g)'
  <2>1. CASE g = h
    <3>1. HandlerInv(h) /\ h # Absent
      BY <1>2, RealtimeAssumption DEF HandlersInv
    <3>. QED  BY <2>1, <3>1, <1>0, <1>r, <1>2 DEF HandlerInv, StepOf, AtIssue
  <2>2. CASE g # h
    <3>1. lock = g => lock' = g
      BY <1>r, <2>2
    <3>. QED  BY <1>0, <1>1, <1>2, <1>s, <2>2, <3>1, OtherKept
  <2>. QED  BY <2>1, <2>2
<1>4. OwnInv'
  <2>1. ~\E a : Holds(h, a)
    BY <1>0 DEF Holds
  <2>2. \A a : Owned(a) => Owned(a)'
    BY <1>0, <1>2, <2>1, OwnedStays
  <2>. QED  BY <1>0, <1>1, <1>2, <2>2 DEF OwnInv, AuthsStay
<1>5. StopInv'
  BY <1>0, <1>2, <1>s DEF StopInv
<1>. QED  BY <1>2, <1>3, <1>4, <1>5 DEF RealtimeInv, HandlersInv

\* Each step of a handler keeps the invariant: here and below, one lemma for each action.
LEMMA RevokeAuthKeeps == ASSUME RealtimeInv, NEW h \in Requesters, RevokeAuth(h) PROVE RealtimeInv'
<1>0. /\ handler[h].at = "revoke" /\ OnlyGo /\ UNCHANGED <<tenant, record, crossing, halfway, stray>>
      /\ \E r : /\ Move(h, r) /\ r.op \in {"none", "revoke"} /\ handler[h].op = "revoke"
                /\ \/ r.op = "none" /\ lock' = IF lock = h THEN Absent ELSE lock
                   \/ /\ r.op = "revoke" /\ r.at = "forget" /\ lock' = lock /\ r.auth = handler[h].auth
                      /\ auths'[r.auth] = "gone"
  BY RevokeAuthMoves, WaitingOk DEF RealtimeInv, Closes
<1>r. PICK r : /\ Move(h, r) /\ r.op \in {"none", "revoke"} /\ handler[h].op = "revoke"
               /\ \/ r.op = "none" /\ lock' = IF lock = h THEN Absent ELSE lock
                  \/ /\ r.op = "revoke" /\ r.at = "forget" /\ lock' = lock /\ r.auth = handler[h].auth
                     /\ auths'[r.auth] = "gone"
  BY <1>0
<1>1. AuthsStay /\ Auths' = Auths /\ \A b \in Auths : auths'[b] = auths[b] \/ auths'[b] = "gone"
  BY <1>0 DEF OnlyGo
<1>2. /\ AccessTypes /\ Apart /\ HandlersInv /\ OwnInv /\ StopInv
      /\ AccessTypes' /\ Apart' /\ handler'[h] = r /\ StepOf(r) /\ StepOf(handler[h])
      /\ \A g \in Requesters \ {h} : handler'[g] = handler[g] /\ HandlerInv(g) /\ StepOf(handler[g])
  BY <1>0, <1>1, <1>r, Moved DEF RealtimeInv, AccessTypes
<1>s. record # Absent /\ auths[record] # "active" => auths'[record] # "active"
  BY <1>1, <1>2 DEF AccessTypes
<1>3. ASSUME NEW g \in Requesters PROVE HandlerInv(g)'
  <2>1. CASE g = h
    <3>1. HandlerInv(h) /\ h # Absent
      BY <1>2, RealtimeAssumption DEF HandlersInv
    <3>. QED  BY <2>1, <3>1, <1>0, <1>r, <1>2 DEF HandlerInv, StepOf, AtIssue
  <2>2. CASE g # h
    <3>1. lock = g => lock' = g
      BY <1>r, <2>2
    <3>. QED  BY <1>0, <1>1, <1>2, <1>s, <2>2, <3>1, OtherKept
  <2>. QED  BY <2>1, <2>2
<1>4. OwnInv'
  <2>1. ~\E a : Holds(h, a)
    BY <1>0 DEF Holds
  <2>2. \A a : Owned(a) => Owned(a)'
    BY <1>0, <1>2, <2>1, OwnedStays
  <2>. QED  BY <1>0, <1>1, <1>2, <2>2 DEF OwnInv, AuthsStay
<1>5. StopInv'
  BY <1>0, <1>2, <1>s DEF StopInv
<1>. QED  BY <1>2, <1>3, <1>4, <1>5 DEF RealtimeInv, HandlersInv

\* The record of an authorization that is gone is deleted, and the lock is given up.
LEMMA ForgetOldKeeps == ASSUME RealtimeInv, NEW h \in Requesters, ForgetOld(h) PROVE RealtimeInv'
<1>0. /\ handler[h].at = "forgetOld" /\ handler[h].op = "issue" /\ record' = Absent /\ lock' = Absent
      /\ UNCHANGED <<tenant, auths, crossing, halfway, stray>>
      /\ \E r : Move(h, r) /\ (r.op = "none" \/ (r.op = "issue" /\ r.at = "create"))
  BY ForgetOldMoves, WaitingOk DEF RealtimeInv
<1>r. PICK r : Move(h, r) /\ (r.op = "none" \/ (r.op = "issue" /\ r.at = "create"))
  BY <1>0
<1>1. AuthsStay /\ Auths' = Auths
  BY <1>0, AuthsSame DEF RealtimeInv
<1>2. /\ AccessTypes /\ Apart /\ HandlersInv /\ OwnInv /\ StopInv
      /\ AccessTypes' /\ Apart' /\ handler'[h] = r /\ StepOf(r) /\ StepOf(handler[h])
      /\ \A g \in Requesters \ {h} : handler'[g] = handler[g] /\ HandlerInv(g) /\ StepOf(handler[g])
  BY <1>0, <1>1, <1>r, Moved DEF RealtimeInv, AccessTypes
<1>h. HandlerInv(h) /\ lock = h /\ auths[handler[h].auth] = "gone" /\ (~crossing => record = handler[h].auth)
  BY <1>0, <1>2 DEF HandlersInv, HandlerInv
<1>3. ASSUME NEW g \in Requesters PROVE HandlerInv(g)'
  <2>1. CASE g = h
    BY <2>1, <1>h, <1>0, <1>r, <1>2 DEF HandlerInv, StepOf, AtIssue
  <2>2. CASE g # h
    <3>1. HandlerInv(g) /\ handler'[g] = handler[g] /\ lock # g
      BY <1>2, <1>h, <2>2
    <3>. QED  BY <1>0, <3>1 DEF HandlerInv
  <2>. QED  BY <2>1, <2>2
<1>4. OwnInv'
  <2>1. ASSUME ~crossing, NEW a \in Auths, auths[a] # "gone" PROVE Owned(a)'
    <3>1. Owned(a) /\ a # record
      BY <1>2, <1>h, <2>1 DEF OwnInv
    <3>. QED  BY <1>0, <1>2, <3>1 DEF Owned, Holds
  <2>. QED  BY <1>0, <1>1, <2>1 DEF OwnInv
<1>5. StopInv'
  BY <1>0 DEF StopInv
<1>. QED  BY <1>2, <1>3, <1>4, <1>5 DEF RealtimeInv, HandlersInv

\* Handler h goes on from the creation, and what it created is in its hands or lost.
Creates(h, r) ==
    /\ Move(h, r) /\ r.op \in {"none", "issue"} /\ r.at \in {"idle", "record"}
    /\ (lock' = lock /\ r.op = "issue") \/ (lock' = (IF lock = h THEN Absent ELSE lock) /\ r.op = "none")
    /\ \A b \in Auths' \ Auths : b \in stray' \/ (r.op = "issue" /\ r.at = "record" /\ r.auth = b)

LEMMA CreateAuthKeeps == ASSUME RealtimeInv, NEW h \in Requesters, CreateAuth(h) PROVE RealtimeInv'
<1>0. /\ handler[h].at = "create" /\ handler[h].op = "issue" /\ UNCHANGED <<tenant, record, crossing, halfway>>
      /\ AccessTypes /\ stray \subseteq stray'
      /\ \/ auths' = auths /\ stray' = stray /\ Closes(h)
         \/ \E a : /\ AuthsStay /\ Auths' = Auths \cup {a} /\ a \notin Auths /\ auths'[a] = "active"
                   /\ \A b \in Auths : auths'[b] = auths[b]
                   /\ \/ stray' = stray \cup {a} /\ Closes(h)
                      \/ /\ lock' = lock /\ stray' = stray
                         /\ \E r : Move(h, r) /\ r.op = "issue" /\ r.at = "record" /\ r.auth = a
  BY CreateAuthMoves DEF RealtimeInv
<1>a. AuthsStay /\ \A b \in Auths : b \in Auths' /\ auths'[b] = auths[b]
  BY <1>0, AuthsSame
<1>r. \E r : Creates(h, r)
  <2>1. CASE auths' = auths /\ stray' = stray /\ Closes(h)
    BY <2>1, <1>0, AuthsSame, WaitingOk DEF Closes, Creates
  <2>2. ASSUME NEW a, Auths' = Auths \cup {a}, stray' = stray \cup {a}, Closes(h)
        PROVE  \E r : Creates(h, r)
    BY <2>2, WaitingOk DEF Closes, Creates
  <2>3. ASSUME NEW a, Auths' = Auths \cup {a}, lock' = lock,
               \E r : Move(h, r) /\ r.op = "issue" /\ r.at = "record" /\ r.auth = a
        PROVE  \E r : Creates(h, r)
    <3>1. PICK r : Move(h, r) /\ r.op = "issue" /\ r.at = "record" /\ r.auth = a
      BY <2>3
    <3>. QED  BY <2>3, <3>1 DEF Creates
  <2>. QED  BY <1>0, <2>1, <2>2, <2>3
<1>p. PICK r : Creates(h, r)
  BY <1>r
<1>2. /\ AccessTypes /\ Apart /\ HandlersInv /\ OwnInv /\ StopInv
      /\ AccessTypes' /\ Apart' /\ handler'[h] = r /\ StepOf(r) /\ StepOf(handler[h])
      /\ \A g \in Requesters \ {h} : handler'[g] = handler[g] /\ HandlerInv(g) /\ StepOf(handler[g])
  BY <1>0, <1>a, <1>p, Moved DEF RealtimeInv, AccessTypes, Creates
<1>s. record # Absent /\ auths[record] # "active" => auths'[record] # "active"
  BY <1>a, <1>2 DEF AccessTypes
<1>3. ASSUME NEW g \in Requesters PROVE HandlerInv(g)'
  <2>1. CASE g = h
    <3>1. HandlerInv(h) /\ h # Absent
      BY <1>2, RealtimeAssumption DEF HandlersInv
    <3>. QED  BY <2>1, <3>1, <1>0, <1>p, <1>2 DEF Creates, HandlerInv, StepOf, AtIssue
  <2>2. CASE g # h
    <3>1. lock = g => lock' = g
      BY <1>p, <2>2 DEF Creates
    <3>. QED  BY <1>0, <1>a, <1>2, <1>s, <2>2, <3>1, OtherKept
  <2>. QED  BY <2>1, <2>2
<1>4. OwnInv'
  <2>1. ~\E a : Holds(h, a)
    BY <1>0 DEF Holds
  <2>2. \A a : Owned(a) => Owned(a)'
    BY <1>0, <1>2, <2>1, OwnedStays
  <2>3. \A b \in Auths' \ Auths : Owned(b)'
    BY <1>p, <1>2 DEF Owned, Holds, Creates
  <2>. QED  BY <1>0, <1>a, <1>2, <2>2, <2>3 DEF OwnInv
<1>5. StopInv'
  BY <1>0, <1>2, <1>s DEF StopInv
<1>. QED  BY <1>2, <1>3, <1>4, <1>5 DEF RealtimeInv, HandlersInv

\* The new authorization is recorded, or is to be taken back.
LEMMA RecordKeeps == ASSUME RealtimeInv, NEW h \in Requesters, Record(h) PROVE RealtimeInv'
<1>0. /\ handler[h].at = "record" /\ handler[h].op = "issue" /\ handler[h].auth \in Auths
      /\ lock \in {Absent, h} /\ lock' = Absent /\ UNCHANGED <<tenant, auths, crossing, halfway, stray>>
      /\ \E r : /\ Move(h, r)
                /\ \/ r.op = "none" /\ record = Absent /\ record' = handler[h].auth
                   \/ r.op = "issue" /\ r.at = "undo" /\ r.auth = handler[h].auth /\ record' = record
  BY RecordMoves, WaitingOk DEF RealtimeInv, Closes
<1>r. PICK r : /\ Move(h, r)
               /\ \/ r.op = "none" /\ record = Absent /\ record' = handler[h].auth
                  \/ r.op = "issue" /\ r.at = "undo" /\ r.auth = handler[h].auth /\ record' = record
  BY <1>0
<1>1. AuthsStay /\ Auths' = Auths
  BY <1>0, AuthsSame DEF RealtimeInv
<1>2. /\ AccessTypes /\ Apart /\ HandlersInv /\ OwnInv /\ StopInv
      /\ AccessTypes' /\ Apart' /\ handler'[h] = r /\ StepOf(r) /\ StepOf(handler[h])
      /\ \A g \in Requesters \ {h} : handler'[g] = handler[g] /\ HandlerInv(g) /\ StepOf(handler[g])
  BY <1>0, <1>1, <1>r, Moved DEF RealtimeInv, AccessTypes
<1>h. HandlerInv(h) /\ h # Absent /\ (~crossing => tenant # "suspended")
  BY <1>0, <1>2, RealtimeAssumption DEF HandlersInv, HandlerInv
<1>3. ASSUME NEW g \in Requesters PROVE HandlerInv(g)'
  <2>1. CASE g = h
    BY <2>1, <1>h, <1>0, <1>r, <1>2 DEF HandlerInv, StepOf, AtIssue
  <2>2. CASE g # h
    <3>1. /\ HandlerInv(g) /\ handler'[g] = handler[g] /\ lock # g
          /\ ~crossing => handler[g].op \notin {"revoke", "status"}
      BY <1>0, <1>2, <2>2, RealtimeAssumption DEF Apart
    <3>2. handler[g].at = "status" => handler[g].op = "status"
      BY <1>2, <2>2 DEF StepOf
    <3>. QED  BY <1>0, <3>1, <3>2 DEF HandlerInv
  <2>. QED  BY <2>1, <2>2
<1>4. OwnInv'
  <2>1. ASSUME ~crossing, NEW a \in Auths, auths[a] # "gone" PROVE Owned(a)'
    <3>1. Owned(a) /\ a # Absent
      BY <1>2, <2>1, RealtimeAssumption DEF OwnInv, AccessTypes, Auths
    <3>2. CASE Holds(h, a)
      BY <1>0, <1>r, <1>2, <3>2 DEF Owned, Holds
    <3>3. CASE ~Holds(h, a)
      BY <1>0, <1>r, <1>2, <3>1, <3>3 DEF Owned, Holds
    <3>. QED  BY <3>2, <3>3
  <2>. QED  BY <1>0, <1>1, <2>1 DEF OwnInv
<1>5. StopInv'
  BY <1>0, <1>h DEF StopInv
<1>. QED  BY <1>2, <1>3, <1>4, <1>5 DEF RealtimeInv, HandlersInv

\* What could not be recorded is gone, or is lost.
LEMMA UndoIssueKeeps == ASSUME RealtimeInv, NEW h \in Requesters, UndoIssue(h) PROVE RealtimeInv'
<1>0. /\ handler[h].at = "undo" /\ handler[h].op = "issue" /\ handler[h].auth \in Auths /\ OnlyGo
      /\ UNCHANGED <<tenant, record, crossing, halfway>> /\ Closes(h) /\ stray \subseteq stray'
      /\ auths'[handler[h].auth] = "gone" \/ handler[h].auth \in stray'
  BY UndoIssueMoves DEF RealtimeInv
<1>w. Move(h, Waiting) /\ lock' = (IF lock = h THEN Absent ELSE lock) /\ Waiting.op = "none" /\ Waiting.at = "idle"
  BY <1>0, WaitingOk DEF Closes
<1>1. AuthsStay /\ Auths' = Auths /\ \A b \in Auths : auths'[b] = auths[b] \/ auths'[b] = "gone"
  BY <1>0 DEF OnlyGo
<1>2. /\ AccessTypes /\ Apart /\ HandlersInv /\ OwnInv /\ StopInv
      /\ AccessTypes' /\ Apart' /\ handler'[h] = Waiting /\ StepOf(Waiting) /\ StepOf(handler[h])
      /\ \A g \in Requesters \ {h} : handler'[g] = handler[g] /\ HandlerInv(g) /\ StepOf(handler[g])
  BY <1>0, <1>1, <1>w, Moved DEF RealtimeInv, AccessTypes
<1>s. record # Absent /\ auths[record] # "active" => auths'[record] # "active"
  BY <1>1, <1>2 DEF AccessTypes
<1>3. ASSUME NEW g \in Requesters PROVE HandlerInv(g)'
  <2>1. CASE g = h
    BY <2>1, <1>w, <1>2 DEF HandlerInv
  <2>2. CASE g # h
    <3>1. lock = g => lock' = g
      BY <1>w, <2>2
    <3>. QED  BY <1>0, <1>1, <1>2, <1>s, <2>2, <3>1, OtherKept
  <2>. QED  BY <2>1, <2>2
<1>4. OwnInv'
  <2>1. ASSUME ~crossing, NEW a \in Auths, auths'[a] # "gone" PROVE Owned(a)'
    <3>1. Owned(a) /\ (a = handler[h].auth => a \in stray')
      BY <1>0, <1>1, <1>2, <2>1 DEF OwnInv, AuthsStay
    <3>2. CASE a = handler[h].auth
      BY <3>1, <3>2 DEF Owned
    <3>3. CASE a # handler[h].auth
      BY <1>0, <1>2, <3>1, <3>3 DEF Owned, Holds
    <3>. QED  BY <3>2, <3>3
  <2>. QED  BY <1>0, <1>1, <2>1 DEF OwnInv
<1>5. StopInv'
  BY <1>0, <1>2, <1>s DEF StopInv
<1>. QED  BY <1>2, <1>3, <1>4, <1>5 DEF RealtimeInv, HandlersInv

\* The row of a revoked authorization is deleted.
LEMMA ForgetRowKeeps == ASSUME RealtimeInv, NEW h \in Requesters, ForgetRow(h) PROVE RealtimeInv'
<1>0. /\ handler[h].at = "forget" /\ handler[h].op = "revoke" /\ record' = Absent /\ Closes(h)
      /\ UNCHANGED <<tenant, auths, crossing, halfway, stray>>
  BY ForgetRowMoves DEF RealtimeInv
<1>w. Move(h, Waiting) /\ lock' = (IF lock = h THEN Absent ELSE lock) /\ Waiting.op = "none" /\ Waiting.at = "idle"
  BY <1>0, WaitingOk DEF Closes
<1>1. AuthsStay /\ Auths' = Auths
  BY <1>0, AuthsSame DEF RealtimeInv
<1>2. /\ AccessTypes /\ Apart /\ HandlersInv /\ OwnInv /\ StopInv
      /\ AccessTypes' /\ Apart' /\ handler'[h] = Waiting /\ StepOf(Waiting) /\ StepOf(handler[h])
      /\ \A g \in Requesters \ {h} : handler'[g] = handler[g] /\ HandlerInv(g) /\ StepOf(handler[g])
  BY <1>0, <1>1, <1>w, Moved DEF RealtimeInv, AccessTypes
<1>h. auths[handler[h].auth] = "gone" /\ (~crossing => record \in {handler[h].auth, Absent})
  BY <1>0, <1>2 DEF HandlersInv, HandlerInv
<1>3. ASSUME NEW g \in Requesters PROVE HandlerInv(g)'
  <2>1. CASE g = h
    BY <2>1, <1>w, <1>2 DEF HandlerInv
  <2>2. CASE g # h
    <3>1. HandlerInv(g) /\ handler'[g] = handler[g] /\ (lock = g => lock' = g)
      BY <1>w, <1>2, <2>2
    <3>2. ~crossing => handler[g].at \notin {"replace", "forgetOld"}
      BY <1>0, <1>2, <2>2 DEF Apart, StepOf, AtIssue
    <3>. QED  BY <1>0, <3>1, <3>2 DEF HandlerInv
  <2>. QED  BY <2>1, <2>2
<1>4. OwnInv'
  <2>1. ASSUME ~crossing, NEW a \in Auths, auths[a] # "gone" PROVE Owned(a)'
    <3>1. Owned(a) /\ a # record
      BY <1>2, <1>h, <2>1, RealtimeAssumption DEF OwnInv, AccessTypes, Auths
    <3>. QED  BY <1>0, <1>2, <3>1 DEF Owned, Holds
  <2>. QED  BY <1>0, <1>1, <2>1 DEF OwnInv
<1>5. StopInv'
  BY <1>0 DEF StopInv
<1>. QED  BY <1>2, <1>3, <1>4, <1>5 DEF RealtimeInv, HandlersInv

\* The authorization follows the status that is about to be written.
LEMMA SwitchKeeps == ASSUME RealtimeInv, NEW h \in Requesters, Switch(h) PROVE RealtimeInv'
<1>. DEFINE a0 == handler[h].auth
            Went(r) == /\ r.op = "status" /\ r.at = "status" /\ r.auth = a0 /\ r.to = handler[h].to
                       /\ r.was = handler[h].was /\ auths[a0] # "gone" /\ halfway' = halfway
                       /\ auths'[a0] = IF handler[h].to = "active" THEN "active" ELSE "inactive"
            Ended(r) == /\ r.op = "none" /\ r.at = "idle"
                        /\ (halfway' = TRUE /\ auths[a0] # "gone") \/ (halfway' = halfway /\ auths' = auths)
<1>0. /\ handler[h].at = "switch" /\ handler[h].op = "status" /\ a0 \in Auths
      /\ AuthsStay /\ Auths' = Auths /\ \A b \in Auths \ {a0} : auths'[b] = auths[b]
      /\ UNCHANGED <<tenant, record, crossing, stray>> /\ halfway' \in {halfway, TRUE}
      /\ \E r : /\ Move(h, r) /\ lock' \in {lock, IF lock = h THEN Absent ELSE lock}
                /\ Went(r) \/ Ended(r)
  BY SwitchMoves, WaitingOk DEF RealtimeInv, Closes
<1>r. PICK r : /\ Move(h, r) /\ lock' \in {lock, IF lock = h THEN Absent ELSE lock}
               /\ Went(r) \/ Ended(r)
  BY <1>0
<1>2. /\ AccessTypes /\ Apart /\ HandlersInv /\ OwnInv /\ StopInv
      /\ AccessTypes' /\ Apart' /\ handler'[h] = r /\ StepOf(r) /\ StepOf(handler[h])
      /\ \A g \in Requesters \ {h} : handler'[g] = handler[g] /\ HandlerInv(g) /\ StepOf(handler[g])
  <2>1. r.op \in {handler[h].op, "none", "delete"} /\ halfway' \in BOOLEAN
    BY <1>0, <1>r DEF RealtimeInv, AccessTypes
  <2>. QED  BY <2>1, <1>0, <1>r, Moved DEF RealtimeInv, AccessTypes
<1>h. HandlerInv(h) /\ h # Absent /\ (~crossing => record \in {a0, Absent})
  BY <1>0, <1>2, RealtimeAssumption DEF HandlersInv, HandlerInv
<1>3. ASSUME NEW g \in Requesters PROVE HandlerInv(g)'
  <2>1. CASE g = h
    <3>1. CASE Went(r)
      BY <2>1, <3>1, <1>h, <1>0, <1>2 DEF HandlerInv
    <3>2. CASE Ended(r)
      BY <2>1, <3>2, <1>2 DEF HandlerInv
    <3>. QED  BY <1>r, <3>1, <3>2
  <2>2. CASE g # h
    <3>1. HandlerInv(g) /\ handler'[g] = handler[g] /\ (lock = g => lock' = g)
      BY <1>r, <1>2, <2>2
    <3>2. ~crossing => handler[g].at # "status" /\ handler[g].op # "status"
      BY <1>0, <1>2, <2>2 DEF Apart, StepOf
    <3>3. handler[g].at \in {"forget", "forgetOld"} => handler[g].auth \in Auths
      BY <1>2 DEF AccessTypes, Named
    <3>. QED  BY <1>0, <3>1, <3>2, <3>3 DEF HandlerInv, AuthsStay
  <2>. QED  BY <2>1, <2>2
<1>4. OwnInv'
  <2>1. ~\E a : Holds(h, a)
    BY <1>0 DEF Holds
  <2>2. \A a : Owned(a) => Owned(a)'
    BY <1>0, <1>2, <2>1, OwnedStays
  <2>3. \A a \in Auths : auths'[a] # "gone" => auths[a] # "gone"
    BY <1>0 DEF AuthsStay
  <2>. QED  BY <1>0, <1>2, <2>2, <2>3 DEF OwnInv
<1>5. StopInv'
  <2>1. CASE Went(r)
    <3>1. CASE r.to = "active"
      BY <2>1, <3>1, <1>2 DEF StopInv
    <3>2. CASE r.to # "active"
      BY <2>1, <3>2, <1>0, <1>h DEF StopInv
    <3>. QED  BY <3>1, <3>2
  <2>2. CASE Ended(r)
    BY <2>2, <1>0, <1>2 DEF StopInv
  <2>. QED  BY <1>r, <2>1, <2>2
<1>. QED  BY <1>2, <1>3, <1>4, <1>5 DEF RealtimeInv, HandlersInv

\* The status is written, or the commit fails.
LEMMA CommitStatusKeeps == ASSUME RealtimeInv, NEW h \in Requesters, CommitStatus(h) PROVE RealtimeInv'
<1>0. /\ handler[h].at = "status" /\ handler[h].op = "status" /\ handler[h].to \in {"active", "suspended"}
      /\ UNCHANGED <<record, auths, crossing, stray>> /\ Closes(h)
      /\ \/ /\ tenant # Absent /\ halfway' = halfway
            /\ tenant' = IF handler[h].to = handler[h].was THEN tenant ELSE handler[h].to
         \/ halfway' = (halfway \/ handler[h].auth # Absent) /\ tenant' = tenant
  BY CommitStatusMoves DEF RealtimeInv
<1>w. Move(h, Waiting) /\ lock' = (IF lock = h THEN Absent ELSE lock) /\ Waiting.op = "none" /\ Waiting.at = "idle"
  BY <1>0, WaitingOk DEF Closes
<1>1. AuthsStay /\ Auths' = Auths
  BY <1>0, AuthsSame DEF RealtimeInv
<1>2. /\ AccessTypes /\ Apart /\ HandlersInv /\ OwnInv /\ StopInv
      /\ AccessTypes' /\ Apart' /\ handler'[h] = Waiting /\ StepOf(Waiting) /\ StepOf(handler[h])
      /\ \A g \in Requesters \ {h} : handler'[g] = handler[g] /\ HandlerInv(g) /\ StepOf(handler[g])
  <2>1. halfway' \in BOOLEAN /\ tenant' \in {"active", "suspended", "deleted", Absent} /\ record' \in Auths' \cup {Absent}
    BY <1>0, <1>1 DEF RealtimeInv, AccessTypes
  <2>. QED  BY <2>1, <1>0, <1>1, <1>w, Moved
<1>h. HandlerInv(h) /\ (~crossing => tenant \in {handler[h].was, "deleted", Absent} /\ record \in {handler[h].auth, Absent})
  BY <1>0, <1>2 DEF HandlersInv, HandlerInv
<1>3. ASSUME NEW g \in Requesters PROVE HandlerInv(g)'
  <2>1. CASE g = h
    BY <2>1, <1>w, <1>2 DEF HandlerInv
  <2>2. CASE g # h
    <3>1. HandlerInv(g) /\ handler'[g] = handler[g] /\ (lock = g => lock' = g)
      BY <1>w, <1>2, <2>2
    <3>2. ~crossing => handler[g].op \notin {"status", "issue"}
      BY <1>0, <1>2, <2>2 DEF Apart
    <3>. QED  BY <1>0, <3>1, <3>2 DEF HandlerInv
  <2>. QED  BY <2>1, <2>2
<1>4. OwnInv'
  <2>1. ~\E a : Holds(h, a)
    BY <1>0 DEF Holds
  <2>2. tenant = Absent => tenant' = Absent
    BY <1>0
  <2>3. \A a : Owned(a) => Owned(a)'
    BY <1>0, <1>2, <2>1, <2>2 DEF Owned, Holds
  <2>. QED  BY <1>0, <1>1, <1>2, <2>3 DEF OwnInv
<1>5. StopInv'
  <2>1. ASSUME ~crossing, ~halfway', tenant' = "suspended"
        PROVE  record = Absent \/ auths[record] # "active"
    <3>1. CASE halfway' = (halfway \/ handler[h].auth # Absent)
      BY <2>1, <3>1, <1>0, <1>h, <1>2 DEF StopInv
    <3>2. CASE tenant # Absent /\ tenant' = IF handler[h].to = handler[h].was THEN tenant ELSE handler[h].to
      <4>1. handler[h].to = "suspended"
        BY <2>1, <3>2, <1>h
      <4>. QED  BY <2>1, <4>1, <1>0, <1>h DEF HandlerInv
    <3>. QED  BY <1>0, <3>1, <3>2
  <2>. QED  BY <2>1, <1>0 DEF StopInv
<1>. QED  BY <1>2, <1>3, <1>4, <1>5 DEF RealtimeInv, HandlersInv

\* The tenant is marked deleted, and its resources are torn down later.
LEMMA SoftDeleteKeeps == ASSUME RealtimeInv, NEW h \in Requesters, SoftDelete(h) PROVE RealtimeInv'
<1>0. /\ handler[h].at = "idle" /\ handler[h].op = "none" /\ tenant \notin {"deleted", Absent} /\ tenant' = "deleted"
      /\ UNCHANGED <<record, auths, halfway, stray, lock, crossing>>
      /\ \E r : Move(h, r) /\ r.op = "delete" /\ r.at = "dropRow"
  BY SoftDeleteMoves DEF RealtimeInv
<1>r. PICK r : Move(h, r) /\ r.op = "delete" /\ r.at = "dropRow"
  BY <1>0
<1>1. AuthsStay /\ Auths' = Auths
  BY <1>0, AuthsSame DEF RealtimeInv
<1>2. /\ AccessTypes /\ Apart /\ HandlersInv /\ OwnInv /\ StopInv
      /\ AccessTypes' /\ Apart' /\ handler'[h] = r /\ StepOf(r) /\ StepOf(handler[h])
      /\ \A g \in Requesters \ {h} : handler'[g] = handler[g] /\ HandlerInv(g) /\ StepOf(handler[g])
  BY <1>0, <1>1, <1>r, Moved DEF RealtimeInv, AccessTypes
<1>3. ASSUME NEW g \in Requesters PROVE HandlerInv(g)'
  <2>1. CASE g = h
    BY <2>1, <1>r, <1>0, <1>2 DEF HandlerInv
  <2>2. CASE g # h
    BY <1>0, <1>2, <2>2 DEF HandlerInv
  <2>. QED  BY <2>1, <2>2
<1>4. OwnInv'
  <2>1. \A a : Owned(a) => Owned(a)'
    BY <1>0, <1>2 DEF Owned, Holds
  <2>. QED  BY <1>0, <1>1, <1>2, <2>1 DEF OwnInv
<1>5. StopInv'
  BY <1>0 DEF StopInv
<1>. QED  BY <1>2, <1>3, <1>4, <1>5 DEF RealtimeInv, HandlersInv

\* The tenant's row goes with the record, and the organization is next.
LEMMA DropTenantKeeps == ASSUME RealtimeInv, NEW h \in Requesters, DropTenant(h) PROVE RealtimeInv'
<1>0. /\ handler[h].at = "dropRow" /\ handler[h].op = "delete" /\ lock \in {Absent, h}
      /\ UNCHANGED <<auths, lock, crossing, halfway, stray>>
      /\ (tenant' = Absent /\ record' = Absent) \/ UNCHANGED <<tenant, record>>
      /\ \E r : Move(h, r) /\ r.op = "delete" /\ r.at = "dropOrg"
  BY DropTenantMoves DEF RealtimeInv
<1>r. PICK r : Move(h, r) /\ r.op = "delete" /\ r.at = "dropOrg"
  BY <1>0
<1>1. AuthsStay /\ Auths' = Auths
  BY <1>0, AuthsSame DEF RealtimeInv
<1>2. /\ AccessTypes /\ Apart /\ HandlersInv /\ OwnInv /\ StopInv
      /\ AccessTypes' /\ Apart' /\ handler'[h] = r /\ StepOf(r) /\ StepOf(handler[h])
      /\ \A g \in Requesters \ {h} : handler'[g] = handler[g] /\ HandlerInv(g) /\ StepOf(handler[g])
  BY <1>0, <1>1, <1>r, Moved DEF RealtimeInv, AccessTypes
<1>3. ASSUME NEW g \in Requesters PROVE HandlerInv(g)'
  <2>1. CASE g = h
    BY <2>1, <1>r, <1>0, <1>2 DEF HandlerInv
  <2>2. CASE g # h
    <3>1. HandlerInv(g) /\ handler'[g] = handler[g] /\ lock # g
      BY <1>0, <1>2, <2>2, RealtimeAssumption
    <3>2. Absent # "suspended"
      BY RealtimeAssumption
    <3>. QED  BY <1>0, <3>1, <3>2 DEF HandlerInv
  <2>. QED  BY <2>1, <2>2
<1>4. OwnInv'
  <2>1. CASE tenant' = Absent /\ record' = Absent
    BY <2>1, <1>2, <1>r DEF OwnInv, Owned
  <2>2. CASE UNCHANGED <<tenant, record>>
    <3>1. \A a : Owned(a) => Owned(a)'
      BY <2>2, <1>0, <1>2 DEF Owned, Holds
    <3>. QED  BY <1>0, <1>1, <1>2, <3>1 DEF OwnInv
  <2>. QED  BY <1>0, <2>1, <2>2
<1>5. StopInv'
  BY <1>0, <1>2, RealtimeAssumption DEF StopInv
<1>. QED  BY <1>2, <1>3, <1>4, <1>5 DEF RealtimeInv, HandlersInv

\* The organization goes with its authorizations, or they are all lost.
LEMMA DropOrgKeeps == ASSUME RealtimeInv, NEW h \in Requesters, DropOrg(h) PROVE RealtimeInv'
<1>0. /\ handler[h].at = "dropOrg" /\ handler[h].op = "delete" /\ OnlyGo
      /\ UNCHANGED <<tenant, record, crossing, halfway>> /\ Closes(h)
      /\ \A a \in Auths : auths'[a] = "gone" \/ a \in stray'
  BY DropOrgMoves DEF RealtimeInv
<1>w. Move(h, Waiting) /\ lock' = (IF lock = h THEN Absent ELSE lock) /\ Waiting.op = "none" /\ Waiting.at = "idle"
  BY <1>0, WaitingOk DEF Closes
<1>1. AuthsStay /\ Auths' = Auths /\ \A b \in Auths : auths'[b] = auths[b] \/ auths'[b] = "gone"
  BY <1>0 DEF OnlyGo
<1>2. /\ AccessTypes /\ Apart /\ HandlersInv /\ OwnInv /\ StopInv
      /\ AccessTypes' /\ Apart' /\ handler'[h] = Waiting /\ StepOf(Waiting) /\ StepOf(handler[h])
      /\ \A g \in Requesters \ {h} : handler'[g] = handler[g] /\ HandlerInv(g) /\ StepOf(handler[g])
  BY <1>0, <1>1, <1>w, Moved DEF RealtimeInv, AccessTypes
<1>s. record # Absent /\ auths[record] # "active" => auths'[record] # "active"
  BY <1>1, <1>2 DEF AccessTypes
<1>3. ASSUME NEW g \in Requesters PROVE HandlerInv(g)'
  <2>1. CASE g = h
    BY <2>1, <1>w, <1>2 DEF HandlerInv
  <2>2. CASE g # h
    <3>1. lock = g => lock' = g
      BY <1>w, <2>2
    <3>. QED  BY <1>0, <1>1, <1>2, <1>s, <2>2, <3>1, OtherKept
  <2>. QED  BY <2>1, <2>2
<1>4. OwnInv'
  BY <1>0, <1>1 DEF OwnInv, Owned
<1>5. StopInv'
  BY <1>0, <1>2, <1>s DEF StopInv
<1>. QED  BY <1>2, <1>3, <1>4, <1>5 DEF RealtimeInv, HandlersInv

\* Whatever the requests had in hand is lost with them.
LEMMA RestartCoreKeeps == ASSUME RealtimeInv, RestartCore PROVE RealtimeInv'
<1>0. AccessTypes /\ OwnInv /\ StopInv
  BY DEF RealtimeInv
<1>1. /\ handler' = [h \in Requesters |-> Waiting] /\ UNCHANGED <<tenant, record, auths, crossing>>
      /\ stray \subseteq stray'
      /\ \A h \in Requesters : handler[h].at \in {"record", "undo"} => handler[h].auth \in stray'
      /\ (\E h \in Requesters : handler[h].op = "delete") => Auths \subseteq stray'
      /\ halfway' = (halfway \/ \E h \in Requesters : handler[h].op = "status")
  BY DEF RestartCore
<1>2. AuthsStay /\ Auths' = Auths
  BY <1>0, <1>1, AuthsSame
<1>3. \A h \in Requesters : handler'[h] = Waiting /\ handler'[h].op = "none" /\ handler'[h].at = "idle"
  BY <1>1, WaitingOk
<1>4. AccessTypes'
  <2>1. handler' \in [Requesters -> Request]
    BY <1>1, WaitingOk
  <2>2. \A h \in Requesters : StepOf(handler'[h]) /\ handler'[h].at \notin Named
    BY <1>3, WaitingOk DEF Named
  <2>3. halfway' \in BOOLEAN
    BY <1>0, <1>1 DEF AccessTypes
  <2>. QED  BY <1>0, <1>1, <1>2, <2>1, <2>2, <2>3 DEF AccessTypes, AuthsStay, StepOf
<1>5. Apart' /\ HandlersInv'
  BY <1>3 DEF Apart, HandlersInv, HandlerInv
<1>6. OwnInv'
  <2>1. ASSUME ~crossing, NEW a \in Auths, auths[a] # "gone" PROVE Owned(a)'
    <3>1. Owned(a)
      BY <1>0, <2>1 DEF OwnInv
    <3>2. CASE \E h \in Requesters : handler[h].at = "dropOrg"
      BY <1>0, <1>1, <3>2 DEF AccessTypes, StepOf, Owned
    <3>3. CASE \E h \in Requesters : Holds(h, a)
      BY <1>1, <3>3 DEF Owned, Holds
    <3>. QED  BY <1>1, <3>1, <3>2, <3>3 DEF Owned
  <2>. QED  BY <1>1, <1>2, <2>1 DEF OwnInv
<1>7. StopInv'
  BY <1>0, <1>1 DEF StopInv, AccessTypes, StepOf
<1>. QED  BY <1>4, <1>5, <1>6, <1>7 DEF RealtimeInv

LEMMA AccessStays == ASSUME RealtimeInv, UNCHANGED rtVars PROVE RealtimeInv'
<1>1. UNCHANGED <<tenant, record, auths, lock, handler, crossing, halfway, stray>>
  BY DEF rtVars, past
<1>. QED  BY <1>1 DEF RealtimeInv, AccessTypes, Apart, HandlersInv, HandlerInv, OwnInv, Owned, Holds, StopInv,
                     StepOf, Auths

\* Every step keeps the invariant.
LEMMA AccessKept == RealtimeInv /\ [AccessNext]_rtVars => RealtimeInv'
<1>. SUFFICES ASSUME RealtimeInv, [AccessNext]_rtVars PROVE RealtimeInv'
  OBVIOUS
<1>1. CASE UNCHANGED rtVars
  BY <1>1, AccessStays
<1>2. CASE RestartCore
  BY <1>2, RestartCoreKeeps
<1>3. ASSUME NEW h \in Requesters,
             \/ Issue(h) \/ Replace(h) \/ ForgetOld(h) \/ CreateAuth(h) \/ Record(h) \/ UndoIssue(h)
             \/ Revoke(h) \/ RevokeAuth(h) \/ ForgetRow(h)
             \/ \E to \in {"active", "suspended"} : SetStatus(h, to)
             \/ Switch(h) \/ CommitStatus(h) \/ SoftDelete(h) \/ DropTenant(h) \/ DropOrg(h)
      PROVE  RealtimeInv'
  BY <1>3, StartsKeep, ReplaceKeeps, ForgetOldKeeps, CreateAuthKeeps, RecordKeeps, UndoIssueKeeps,
     RevokeAuthKeeps, ForgetRowKeeps, SwitchKeeps, CommitStatusKeeps, SoftDeleteKeeps, DropTenantKeeps,
     DropOrgKeeps
<1>. QED  BY <1>1, <1>2, <1>3 DEF AccessNext

\* The handlers, the record and what InfluxDB accepts agree in every reachable state.
THEOREM AccessHolds == AccessSpec => []RealtimeInv
BY RealtimeInvInit, AccessKept, PTL DEF AccessSpec

\* The invariant gives the property: who could still read is in the record, which the handler switched.
LEMMA StoppedIsStopped == RealtimeInv => SuspendedCannotRead
<1>. SUFFICES ASSUME RealtimeInv, tenant = "suspended", ~Resuming, ~crossing, ~halfway,
                     NEW a \in Auths, auths[a] = "active"
              PROVE  a \in stray
  BY DEF SuspendedCannotRead
<1>0. AccessTypes /\ HandlersInv /\ OwnInv /\ StopInv
  BY DEF RealtimeInv
<1>1. Owned(a)
  BY <1>0 DEF OwnInv
<1>2. record = Absent \/ auths[record] # "active"
  BY <1>0 DEF StopInv, Resuming, AccessTypes, StepOf
<1>3. a # Absent /\ Absent # "suspended"
  BY <1>0, RealtimeAssumption DEF AccessTypes, Auths
<1>4. ~\E h \in Requesters : Holds(h, a)
  BY <1>0 DEF HandlersInv, HandlerInv, Holds
<1>. QED  BY <1>1, <1>2, <1>3, <1>4 DEF Owned

\* A suspended tenant's authorization is not accepted.
THEOREM SuspendedReadsNothing == AccessSpec => []SuspendedCannotRead
BY AccessHolds, StoppedIsStopped, PTL

\* The invariant gives the property: every authorization that is left has an owner.
LEMMA OwnedIsRecorded == RealtimeInv => LiveAuthIsRecorded
BY DEF RealtimeInv, OwnInv, Owned, Holds, LiveAuthIsRecorded

\* What InfluxDB accepts somebody can revoke.
THEOREM LiveIsRecorded == AccessSpec => []LiveAuthIsRecorded
BY AccessHolds, OwnedIsRecorded, PTL

-----------------------------------------------------------------------------
(* The registration checks of a device. *)

\* The histories are up to date and never ahead of the clock.
HistoryInv == \A d \in Devices :
    /\ lastIn[d] <= clock /\ lastOut[d] <= clock
    /\ d \in registered => lastIn[d] = clock
    /\ d \notin registered => lastOut[d] = clock

\* An entry speaks of a time no earlier than its time to live before its end.
EntryInv == \A d \in Devices : cache[d] # None =>
    /\ cache[d].found => lastIn[d] >= cache[d].until - PosTTL
    /\ ~cache[d].found => lastOut[d] >= cache[d].until - NegTTL

\* What a check read was true at some time since it began.
CheckInv == \A c \in Checks :
    /\ check[c].since <= clock
    /\ check[c].pc = "store" /\ check[c].found => lastIn[check[c].dev] >= check[c].since
    /\ check[c].pc = "store" /\ ~check[c].found => lastOut[check[c].dev] >= check[c].since

\* A check that no forget_device has overtaken holds what the table says.
FreshInv == \A c \in Checks :
    check[c].pc = "store" /\ ~check[c].late /\ forgets[check[c].dev] = 0 =>
        (check[c].found <=> check[c].dev \in registered)

AccessInv == TypeOK /\ HistoryInv /\ EntryInv /\ CheckInv /\ FreshInv /\ ForgetWorks

-----------------------------------------------------------------------------

LEMMA IdleFacts == \A d \in Devices :
    /\ Idle(d) \in Check /\ Idle(d).pc = "idle" /\ Idle(d).since = 0 /\ Idle(d).dev = d
    /\ ~Idle(d).late /\ ~Idle(d).found
BY DEF Idle, Check

\* Nothing is cached and nobody asks when the process starts.
LEMMA InitAccess == Init => AccessInv
<1> SUFFICES ASSUME Init PROVE AccessInv
  OBVIOUS
<1> USE DEF Init
<1>1. check \in [Checks -> Check] /\ \A c \in Checks : check[c].pc = "idle" /\ check[c].since = 0
  BY IdleFacts
<1>2. TypeOK
  BY <1>1, AccessConstants DEF TypeOK
<1>3. HistoryInv
  <2>1. clock = 0 /\ -PosTTL <= 0 /\ -NegTTL <= 0
    BY AccessConstants
  <2>2. \A d \in Devices :
          /\ d \in registered => lastIn[d] = 0 /\ lastOut[d] = -NegTTL
          /\ d \notin registered => lastIn[d] = -PosTTL /\ lastOut[d] = 0
    BY AccessConstants
  <2> HIDE DEF Init
  <2>3. ASSUME NEW d \in Devices PROVE lastIn[d] <= 0 /\ lastOut[d] <= 0
    <3>1. CASE d \in registered
      BY <2>1, <2>2, <3>1
    <3>2. CASE d \notin registered
      BY <2>1, <2>2, <3>2
    <3> QED BY <3>1, <3>2
  <2> QED BY <2>1, <2>2, <2>3 DEF HistoryInv
<1>4. EntryInv /\ ForgetWorks
  BY DEF EntryInv, ForgetWorks
<1>5. CheckInv /\ FreshInv
  <2>1. clock = 0
    OBVIOUS
  <2> QED BY ONLY <1>1, <2>1 DEF CheckInv, FreshInv
<1> QED BY <1>2, <1>3, <1>4, <1>5 DEF AccessInv

\* The steps of a check.
LEMMA CheckKeeps ==
    ASSUME AccessInv, NEW c \in Checks,
           (\E d \in Devices : CacheMiss(c, d)) \/ ReadTable(c) \/ ReadFails(c)
    PROVE  AccessInv'
<1> USE DEF AccessInv, bounds
<1>0. clock \in Int /\ UNCHANGED <<registered, cache, clock, forgets, lastIn, lastOut>>
  <2>1. clock \in Int
    BY DEF TypeOK
  <2>2. CASE \E d \in Devices : CacheMiss(c, d)
    BY <2>1, <2>2 DEF CacheMiss
  <2>3. CASE ReadTable(c) \/ ReadFails(c)
    BY <2>1, <2>3 DEF ReadTable, ReadFails
  <2> QED BY <2>2, <2>3
<1>1. ASSUME NEW d \in Devices, CacheMiss(c, d) PROVE AccessInv'
  <2> DEFINE k == [Idle(d) EXCEPT !.pc = "read", !.since = clock]
  <2>1. k \in Check /\ k.pc = "read" /\ k.since = clock
    BY <1>0, IdleFacts DEF Idle, Check
  <2>2. check' = [check EXCEPT ![c] = k] /\ UNCHANGED bounds
    BY <1>1 DEF CacheMiss
  <2> HIDE DEF k
  <2>3. TypeOK'
    BY <1>0, <2>1, <2>2 DEF TypeOK
  <2> QED
    BY <1>0, <2>1, <2>2, <2>3 DEF TypeOK, HistoryInv, EntryInv, CheckInv, FreshInv, ForgetWorks
<1>2. CASE ReadTable(c)
  <2>1. TypeOK'
    <3> DEFINE b == check[c].dev \in registered
               k == [check[c] EXCEPT !.pc = "store", !.found = b]
    <3>1. check[c] \in Check
      BY DEF TypeOK
    <3>2. b \in BOOLEAN
      OBVIOUS
    <3>3. check' = [check EXCEPT ![c] = k] /\ UNCHANGED bounds
      BY <1>2, <3>1 DEF ReadTable, Check
    <3> HIDE DEF b
    <3>4. k \in Check
      BY <3>1, <3>2 DEF Check
    <3> HIDE DEF k
    <3> QED BY <1>0, <3>3, <3>4 DEF TypeOK
  <2>2. HistoryInv' /\ EntryInv' /\ ForgetWorks'
    BY <1>2 DEF ReadTable, HistoryInv, EntryInv, ForgetWorks
  <2>3. ASSUME NEW e \in Checks
        PROVE  /\ check'[e].dev = check[e].dev /\ check'[e].since = check[e].since
               /\ e # c => check'[e] = check[e]
               /\ check'[c].pc = "store" /\ (check'[c].found <=> check[c].dev \in registered)
    BY <1>2 DEF ReadTable, TypeOK, Check
  <2>4. CheckInv' /\ FreshInv'
    BY <1>0, <2>3 DEF TypeOK, Check, HistoryInv, CheckInv, FreshInv
  <2> QED BY <2>1, <2>2, <2>4
<1>3. CASE ReadFails(c)
  <2>1. /\ check' = [check EXCEPT ![c] = Idle(check[c].dev)] /\ UNCHANGED bounds
        /\ check[c].dev \in Devices
    BY <1>3 DEF ReadFails, TypeOK, Check
  <2>2. TypeOK'
    BY <1>0, <2>1, IdleFacts DEF TypeOK
  <2> QED
    BY <1>0, <2>1, <2>2, IdleFacts DEF TypeOK, HistoryInv, EntryInv, CheckInv, FreshInv, ForgetWorks
<1> QED BY <1>1, <1>2, <1>3

\* The store of an answer.
LEMMA StoreKeeps ==
    ASSUME AccessInv, NEW c \in Checks, Store(c) PROVE AccessInv'
<1> USE DEF AccessInv, bounds
<1> DEFINE k == check[c]
           new == [found |-> k.found, until |-> k.since + TTL(k.found), late |-> k.late]
<1>0. /\ k \in Check /\ k.pc = "store" /\ k.dev \in Devices /\ TTL(k.found) \in Int
      /\ UNCHANGED <<registered, clock, forgets, lastIn, lastOut, bounds>>
  BY AccessConstants DEF TypeOK, Store, Check, TTL
<1>1. /\ cache' = [cache EXCEPT ![k.dev] = new]
      /\ check' = [check EXCEPT ![c] = Idle(k.dev)]
  BY DEF Store, StoreTime
<1>2. /\ new \in Entry /\ new.found = k.found /\ new.late = k.late
      /\ k.found => new.until - PosTTL = k.since
      /\ ~k.found => new.until - NegTTL = k.since
  BY <1>0, AccessConstants DEF Entry, Check, TTL
<1>3. TypeOK'
  <2> HIDE DEF new
  <2> QED BY <1>0, <1>1, <1>2, IdleFacts DEF TypeOK
<1>4. HistoryInv' /\ CheckInv' /\ FreshInv'
  BY <1>0, <1>1, IdleFacts DEF HistoryInv, CheckInv, FreshInv, TypeOK
<1>5. EntryInv' /\ ForgetWorks'
  <2> HIDE DEF new
  <2>1. ASSUME NEW d \in Devices PROVE cache'[d] = IF d = k.dev THEN new ELSE cache[d]
    BY <1>1 DEF TypeOK
  <2>2. k.found => lastIn[k.dev] >= k.since
    BY <1>0 DEF CheckInv
  <2>3. ~k.found => lastOut[k.dev] >= k.since
    BY <1>0 DEF CheckInv
  <2>4. ~k.late /\ forgets[k.dev] = 0 => (k.found <=> k.dev \in registered)
    BY <1>0 DEF FreshInv
  <2> HIDE DEF k
  <2>5. EntryInv'
    BY <1>0, <1>2, <2>1, <2>2, <2>3 DEF EntryInv
  <2>6. ForgetWorks'
    BY <1>0, <1>2, <2>1, <2>4 DEF ForgetWorks
  <2> QED BY <2>5, <2>6
<1> QED BY <1>3, <1>4, <1>5

\* A registration or a deletion: its forget_device is still to come.
LEMMA ChangeKeeps ==
    ASSUME AccessInv, NEW d \in Devices, Register(d) \/ Delete(d) PROVE AccessInv'
<1> USE DEF AccessInv, bounds
<1>1. /\ UNCHANGED <<clock, cache, check, restarts>> /\ changes' = changes + 1
      /\ forgets' = [forgets EXCEPT ![d] = @ + 1]
  BY DEF Register, Delete, Changed
<1>2. /\ \A e \in Devices : lastIn'[e] >= lastIn[e] /\ lastOut'[e] >= lastOut[e]
      /\ \A e \in Devices : lastIn'[e] <= clock /\ lastOut'[e] <= clock
      /\ \A e \in Devices : e # d => /\ lastIn'[e] = lastIn[e] /\ lastOut'[e] = lastOut[e]
                                     /\ (e \in registered' <=> e \in registered)
      /\ d \in registered' => lastIn'[d] = clock
      /\ d \notin registered' => lastOut'[d] = clock
  BY DEF Register, Delete, TypeOK, HistoryInv
<1>3. TypeOK'
  BY <1>1 DEF Register, Delete, TypeOK
<1>4. \A e \in Devices : forgets'[e] = 0 => e # d /\ forgets[e] = 0
  BY <1>1 DEF TypeOK
<1>5. HistoryInv'
  BY <1>1, <1>2 DEF HistoryInv
<1>6. EntryInv'
  BY <1>1, <1>2, <1>3, AccessConstants DEF EntryInv, TypeOK, Entry
<1>7. CheckInv'
  BY <1>1, <1>2, <1>3 DEF CheckInv, TypeOK, Check
<1>8. FreshInv' /\ ForgetWorks'
  BY <1>1, <1>2, <1>4 DEF FreshInv, ForgetWorks, TypeOK, Check
<1> QED BY <1>3, <1>5, <1>6, <1>7, <1>8

\* forget_device empties the entry and overtakes the checks that have read.
LEMMA ForgetKeeps ==
    ASSUME AccessInv, NEW d \in Devices, Forget(d) PROVE AccessInv'
<1> USE DEF AccessInv, bounds
<1>1. /\ UNCHANGED <<clock, registered, lastIn, lastOut, changes, restarts>>
      /\ cache' = [cache EXCEPT ![d] = None]
      /\ forgets' = [forgets EXCEPT ![d] = @ - 1] /\ forgets[d] > 0
  BY DEF Forget, Drop
<1>2. ASSUME NEW e \in Checks
      PROVE  /\ check'[e] \in Check
             /\ check'[e].dev = check[e].dev /\ check'[e].since = check[e].since
             /\ check'[e].pc = check[e].pc /\ check'[e].found = check[e].found
             /\ check'[e].pc = "store" /\ ~check'[e].late => check[e].dev # d /\ ~check[e].late
  BY DEF Forget, TypeOK, Check
<1>3. TypeOK'
  <2>1. check' \in [Checks -> Check]
    BY <1>2 DEF Forget
  <2> QED BY <1>1, <2>1 DEF TypeOK
<1>4. HistoryInv' /\ EntryInv' /\ ForgetWorks'
  BY <1>1 DEF HistoryInv, EntryInv, ForgetWorks, TypeOK
<1>5. CheckInv' /\ FreshInv'
  BY <1>1, <1>2 DEF CheckInv, FreshInv, TypeOK, Check
<1> QED BY <1>3, <1>4, <1>5

\* A restart empties the cache; time only brings the histories forward.
LEMMA OtherKeeps == ASSUME AccessInv, Restart \/ Tick PROVE AccessInv'
<1> USE DEF AccessInv, bounds
<1>1. CASE Restart
  <2>1. /\ UNCHANGED <<clock, registered, lastIn, lastOut, changes>> /\ restarts' = restarts + 1
        /\ cache' = [d \in Devices |-> None] /\ forgets' = [d \in Devices |-> 0]
        /\ check' = [c \in Checks |-> Idle(check[c].dev)]
    BY <1>1 DEF Restart
  <2>2. \A c \in Checks : check[c].dev \in Devices
    BY DEF TypeOK, Check
  <2>3. TypeOK'
    BY <2>1, <2>2, IdleFacts DEF TypeOK
  <2> QED
    BY <2>1, <2>2, <2>3, IdleFacts DEF TypeOK, HistoryInv, EntryInv, CheckInv, FreshInv, ForgetWorks
<1>2. CASE Tick
  <2>1. /\ UNCHANGED <<registered, cache, check, forgets, bounds>> /\ clock' = clock + 1
        /\ \A d \in Devices : lastIn'[d] = IF d \in registered THEN clock' ELSE lastIn[d]
        /\ \A d \in Devices : lastOut'[d] = IF d \in registered THEN lastOut[d] ELSE clock'
    BY <1>2 DEF Tick
  <2>2. TypeOK'
    BY <1>2 DEF Tick, TypeOK
  <2>3. \A d \in Devices : lastIn'[d] >= lastIn[d] /\ lastOut'[d] >= lastOut[d]
    BY <2>1 DEF HistoryInv, TypeOK
  <2>4. HistoryInv'
    BY <2>1 DEF HistoryInv, TypeOK
  <2>5. EntryInv' /\ ForgetWorks'
    BY <2>1, <2>2, <2>3, AccessConstants DEF EntryInv, ForgetWorks, TypeOK, Entry
  <2>6. CheckInv' /\ FreshInv'
    BY <2>1, <2>2, <2>3 DEF CheckInv, FreshInv, TypeOK, Check
  <2> QED BY <2>2, <2>4, <2>5, <2>6
<1> QED BY <1>1, <1>2

LEMMA NextAccess == AccessInv /\ [Next]_vars => AccessInv'
<1> SUFFICES ASSUME AccessInv, [Next]_vars PROVE AccessInv'
  OBVIOUS
<1>1. CASE UNCHANGED vars
  BY <1>1 DEF vars, bounds, AccessInv, TypeOK, HistoryInv, EntryInv, CheckInv, FreshInv, ForgetWorks
<1>2. CASE Next
  BY <1>2, CheckKeeps, StoreKeeps, ChangeKeeps, ForgetKeeps, OtherKeeps DEF Next
<1> QED BY <1>1, <1>2

\* In every reachable state the inductive invariant holds.
THEOREM AccessInvariant == Spec => []AccessInv
<1> QED BY InitAccess, NextAccess, PTL DEF Spec

\* The cache, the checks and the histories keep their shapes.
THEOREM AccessTyped == Spec => []TypeOK
<1>1. AccessInv => TypeOK
  BY DEF AccessInv
<1> QED BY <1>1, AccessInvariant, PTL

\* However long the database takes, a yes speaks of less than PosTTL ago.
THEOREM AccessAllowIsRecent == Spec => []AllowIsRecent
<1>1. AccessInv => AllowIsRecent
  BY AccessConstants DEF AccessInv, TypeOK, Entry, Check, EntryInv, CheckInv, AllowIsRecent, Hit
<1> QED BY <1>1, AccessInvariant, PTL

\* A no, unless the database failed, speaks of less than NegTTL ago.
THEOREM AccessDenyIsRecent == Spec => []DenyIsRecent
<1>1. AccessInv => DenyIsRecent
  BY AccessConstants DEF AccessInv, TypeOK, Entry, Check, EntryInv, CheckInv, DenyIsRecent, Hit
<1> QED BY <1>1, AccessInvariant, PTL

\* Only a check that a forget_device overtook leaves a wrong entry behind.
THEOREM AccessForgetWorks == Spec => []ForgetWorks
<1>1. AccessInv => ForgetWorks
  BY DEF AccessInv
<1> QED BY <1>1, AccessInvariant, PTL
=============================================================================
