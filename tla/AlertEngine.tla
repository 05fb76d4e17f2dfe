----------------------------- MODULE AlertEngine -----------------------------
(***************************************************************************)
(* The evaluation cycle of the alert service (alert-service/app/           *)
(* scheduler.py, db.py) for one tenant, step by step at the grain of its   *)
(* database transactions, beside everything that shares those tables: the  *)
(* rule API of core-api, telemetry ingestion and the EMQX webhooks that    *)
(* write devices.connection_status, and a crash or a database error at any *)
(* point of the cycle.  The service is one process and its scheduler runs  *)
(* one cycle at a time (max_instances=1), so one program counter is enough.*)
(*                                                                         *)
(* What a sensor reads is abstracted to the set "breach" of the pairs      *)
(* <<rule, device>> whose samples satisfy the rule's trigger now; the      *)
(* trigger itself is TriggerEval.  What notify() returns is FailureNotice. *)
(***************************************************************************)
EXTENDS Naturals, Sequences, FiniteSets

CONSTANTS
    Rules,        \* ids of alert_rules rows
    Devices,      \* device_id values
    None,         \* the SQL NULL of a device_id column: every device
    Group,        \* the one device group a rule may target
    MaxEnv        \* bound on the disturbances of one behaviour

ASSUME AlertConstants ==
    /\ None \notin Devices
    /\ Group \notin Devices
    /\ None # Group
    /\ MaxEnv \in Nat

VARIABLES
    rule,         \* table alert_rules
    group,        \* devices.group_id = Group, the members of the group
    conn,         \* devices.connection_status
    seen,         \* devices.last_seen_at against the offline threshold
    breach,       \* InfluxDB: pairs that satisfy the rule's trigger
    events,       \* table alert_events, in insertion order
    pc,           \* where the cycle stands
    snap,         \* the rules the cycle loaded
    memo,         \* cache of _make_group_device_resolver
    todo,         \* rules the current loop has still to visit
    rows,         \* devices get_offline_devices returned, still to visit
    row,          \* the device the dead-device loop is on
    subject,      \* <<rule_id, device_id>> being looked up or notified
    should,       \* should_alert
    event,        \* id of the event in hand
    mail,         \* history: per event, the notifications attempted
    env           \* history: disturbances spent

database == <<rule, group, conn, seen, breach, events>>
cycle    == <<pc, snap, memo, todo, rows, row, subject, should, event>>
vars     == <<database, cycle, mail, env>>

Targets == Devices \cup {None, Group}
RuleRow == [live: {"absent", "active", "deleted"}, offline: BOOLEAN, target: Targets]
EventRow == [rule: Rules, dev: Devices \cup {None}, resolved: BOOLEAN, notified: BOOLEAN]
MailRow == [alert: Nat, resolved: Nat, cut: BOOLEAN]
Subjects == Rules \X (Devices \cup {None})
Unread == {None}      \* no answer cached: no group has None as a member
NoSubject == <<>>
Steps == {"idle", "rules", "lookup", "create", "notify", "mark", "resolve",
          "notifyResolved", "loadOffline", "rows", "row"}

\* The type invariant: every table and every local keeps its shape.
TypeOK ==
    /\ rule \in [Rules -> RuleRow]
    /\ group \subseteq Devices
    /\ conn \in [Devices -> {"online", "offline"}]
    /\ seen \in [Devices -> {"never", "fresh", "stale"}]
    /\ breach \subseteq Rules \X Devices
    /\ events \in Seq(EventRow)
    /\ pc \in Steps
    /\ snap \in [Rules -> RuleRow]
    /\ memo \in {Unread} \cup SUBSET Devices
    /\ todo \subseteq Rules
    /\ rows \subseteq Devices
    /\ row \in Devices \cup {None}
    /\ subject \in Subjects \cup {NoSubject}
    /\ should \in BOOLEAN
    /\ event \in Nat
    /\ mail \in Seq(MailRow)
    /\ env \in Nat

NoRule == [live |-> "absent", offline |-> FALSE, target |-> None]

\* A tenant whose devices were provisioned ('offline', last_seen_at NULL)
\* and that has no alert rule yet.
Init ==
    /\ rule = [r \in Rules |-> NoRule]
    /\ group = {}
    /\ conn = [d \in Devices |-> "offline"]
    /\ seen = [d \in Devices |-> "never"]
    /\ breach = {}
    /\ events = <<>>
    /\ pc = "idle"
    /\ snap = [r \in Rules |-> NoRule]
    /\ memo = Unread
    /\ todo = {}
    /\ rows = {}
    /\ row = None
    /\ subject = NoSubject
    /\ should = FALSE
    /\ event = 0
    /\ mail = <<>>
    /\ env = 0

-----------------------------------------------------------------------------
(* The rest of the platform.  Every disturbance is charged to MaxEnv.      *)

Disturb == env < MaxEnv /\ env' = env + 1

\* POST alert-rules.  device_id and group_id exclude each other, so a rule
\* has one target.
CreateRule(r, off, t) ==
    /\ rule[r].live = "absent"
    /\ rule' = [rule EXCEPT ![r] = [live |-> "active", offline |-> off, target |-> t]]
    /\ UNCHANGED <<group, conn, seen, breach, events, cycle, mail, env>>

\* PATCH alert-rules: an active rule changes its condition or its target.
\* Its open events stay as they are.
UpdateRule(r, off, t) ==
    /\ Disturb
    /\ rule[r].live = "active"
    /\ rule' = [rule EXCEPT ![r] = [live |-> "active", offline |-> off, target |-> t]]
    /\ UNCHANGED <<group, conn, seen, breach, events, cycle, mail>>

\* DELETE alert-rules is is_active = FALSE.
DeleteRule(r) ==
    /\ Disturb
    /\ rule[r].live = "active"
    /\ rule' = [rule EXCEPT ![r].live = "deleted"]
    /\ UNCHANGED <<group, conn, seen, breach, events, cycle, mail>>

\* A device joins or leaves the group.
AssignDevice(d) ==
    /\ Disturb
    /\ group' = IF d \in group THEN group \ {d} ELSE group \cup {d}
    /\ UNCHANGED <<rule, conn, seen, breach, events, cycle, mail>>

\* Telemetry, a status message or client.connected: online, seen now.
DeviceReports(d) ==
    /\ Disturb
    /\ conn' = [conn EXCEPT ![d] = "online"]
    /\ seen' = [seen EXCEPT ![d] = "fresh"]
    /\ UNCHANGED <<rule, group, breach, events, cycle, mail>>

\* client.disconnected writes 'offline' with last_seen_at = NOW().
DeviceDisconnects(d) ==
    /\ Disturb
    /\ conn' = [conn EXCEPT ![d] = "offline"]
    /\ seen' = [seen EXCEPT ![d] = "fresh"]
    /\ UNCHANGED <<rule, group, breach, events, cycle, mail>>

\* device_offline_threshold_sec pass without a word from the device.
ThresholdPasses(d) ==
    /\ seen[d] = "fresh"
    /\ seen' = [seen EXCEPT ![d] = "stale"]
    /\ UNCHANGED <<rule, group, conn, breach, events, cycle, mail, env>>

\* New samples, or their ageing out of the query window, change a verdict.
SamplesChange(r, d) ==
    /\ Disturb
    /\ breach' = IF <<r, d>> \in breach THEN breach \ {<<r, d>>} ELSE breach \cup {<<r, d>>}
    /\ UNCHANGED <<rule, group, conn, seen, events, cycle, mail>>

Platform ==
    \/ \E r \in Rules, off \in BOOLEAN, t \in Targets : CreateRule(r, off, t)
    \/ \E r \in Rules, off \in BOOLEAN, t \in Targets : UpdateRule(r, off, t)
    \/ \E r \in Rules : DeleteRule(r)
    \/ \E d \in Devices : \/ AssignDevice(d)
                          \/ DeviceReports(d)
                          \/ DeviceDisconnects(d)
                          \/ ThresholdPasses(d)
    \/ \E r \in Rules, d \in Devices : SamplesChange(r, d)

-----------------------------------------------------------------------------
(* Queries of db.py and evaluator.py                                       *)

\* The events of a subject, and get_unresolved_event's candidates.
EventsOf(s) == {e \in DOMAIN events : <<events[e].rule, events[e].dev>> = s}
OpenEventsNotifiedOnly(s) ==
    {e \in EventsOf(s) : ~events[e].resolved /\ events[e].notified}
OpenEvents(s) == {e \in EventsOf(s) : ~events[e].resolved}

\* The device_id column of a metric event: the rule's device or NULL.
EventDevice(t) == IF t \in Devices THEN t ELSE None

\* evaluate_rule over the devices a target stands for; no device, no alert.
Scope(t, members) ==
    IF t \in Devices THEN {t} ELSE IF t = Group THEN members ELSE Devices
EvaluatesAll(r, members) ==
    \A d \in Scope(snap[r].target, members) : <<r, d>> \in breach
Evaluates(r, members) ==
    \E d \in Scope(snap[r].target, members) : <<r, d>> \in breach

-----------------------------------------------------------------------------
(* _evaluate_tenant                                                        *)

ClearLocals ==
    /\ subject' = NoSubject
    /\ should' = FALSE
    /\ event' = 0

\* The end of a cycle: nothing of it outlives evaluate_all_tenants.
DropCycle ==
    /\ pc' = "idle"
    /\ snap' = [r \in Rules |-> NoRule]
    /\ memo' = Unread
    /\ todo' = {}
    /\ rows' = {}
    /\ row' = None
    /\ ClearLocals

StartCycle ==
    /\ pc = "idle"
    /\ snap' = rule
    /\ memo' = Unread
    /\ todo' = {r \in Rules : rule[r].live = "active" /\ ~rule[r].offline}
    /\ pc' = "rules"
    /\ UNCHANGED <<database, rows, row, subject, should, event, mail, env>>

\* resolve_group: the first call reads the group, later calls reuse it.  A
\* failed read is caught and remembered as an empty group.
ResolveGroup(r, members) ==
    IF snap[r].target # Group THEN members = {} /\ UNCHANGED <<memo, env>>
    ELSE IF memo # Unread THEN members = memo /\ UNCHANGED <<memo, env>>
    ELSE /\ memo' = members
         /\ \/ members = group /\ UNCHANGED env
            \/ members = {} /\ Disturb

EvaluateRule(r) ==
    /\ pc = "rules"
    /\ r \in todo
    /\ \E members \in SUBSET Devices :
         /\ ResolveGroup(r, members)
         /\ should' = Evaluates(r, members)
    /\ subject' = <<r, EventDevice(snap[r].target)>>
    /\ todo' = todo \ {r}
    /\ pc' = "lookup"
    /\ UNCHANGED <<database, snap, rows, row, event, mail>>

\* "Eval error": the query failed, the loop continues with the next rule.
EvaluationFails(r) ==
    /\ pc = "rules"
    /\ r \in todo
    /\ Disturb
    /\ todo' = todo \ {r}
    /\ UNCHANGED <<database, pc, snap, memo, rows, row, subject, should, event, mail>>

LookupEvent ==
    /\ pc = "lookup"
    /\ LET open == OpenEvents(subject) IN
       \/ /\ should /\ open = {}
          /\ pc' = "create"
          /\ UNCHANGED <<subject, should, event>>
       \/ /\ ~should
          /\ \E e \in open : (\A f \in open : f <= e) /\ event' = e
          /\ pc' = "resolve"
          /\ UNCHANGED <<subject, should>>
       \/ /\ should <=> open # {}
          /\ pc' = "rules"
          /\ ClearLocals
    /\ UNCHANGED <<database, snap, memo, todo, rows, row, mail, env>>

\* create_alert_event, in both loops.
CreateEventSilently ==
    /\ pc = "create"
    /\ events' = Append(events, [rule |-> subject[1], dev |-> subject[2],
                                 resolved |-> FALSE, notified |-> FALSE])
    /\ mail' = Append(mail, [alert |-> 0, resolved |-> 0, cut |-> FALSE])
    /\ event' = Len(events) + 1
    /\ pc' = "mark"
    /\ UNCHANGED <<rule, group, conn, seen, breach, snap, memo, todo, rows, row,
                   subject, should, env>>
CreateEvent ==
    /\ pc = "create"
    /\ events' = Append(events, [rule |-> subject[1], dev |-> subject[2],
                                 resolved |-> FALSE, notified |-> FALSE])
    /\ mail' = Append(mail, [alert |-> 0, resolved |-> 0, cut |-> FALSE])
    /\ event' = Len(events) + 1
    /\ pc' = "notify"
    /\ UNCHANGED <<rule, group, conn, seen, breach, snap, memo, todo, rows, row,
                   subject, should, env>>

\* notify never raises: whatever the channels answer, it was attempted.
NotifyAlert ==
    /\ pc = "notify"
    /\ mail' = [mail EXCEPT ![event].alert = @ + 1]
    /\ pc' = "mark"
    /\ UNCHANGED <<database, snap, memo, todo, rows, row, subject, should, event, env>>

\* Which loop the event in hand belongs to.
Resume == IF snap[subject[1]].offline THEN "row" ELSE "rules"

MarkNotified ==
    /\ pc = "mark"
    /\ events' = [events EXCEPT ![event].notified = TRUE]
    /\ pc' = Resume
    /\ ClearLocals
    /\ UNCHANGED <<rule, group, conn, seen, breach, snap, memo, todo, rows, row, mail, env>>

ResolveEventUncommitted ==
    /\ pc = "resolve"
    /\ pc' = "notifyResolved"
    /\ UNCHANGED <<database, snap, memo, todo, rows, row, subject, should, event, mail, env>>
ResolveEvent ==
    /\ pc = "resolve"
    /\ events' = [events EXCEPT ![event].resolved = TRUE]
    /\ pc' = "notifyResolved"
    /\ UNCHANGED <<rule, group, conn, seen, breach, snap, memo, todo, rows, row,
                   subject, should, event, mail, env>>

NotifyResolved ==
    /\ pc = "notifyResolved"
    /\ mail' = [mail EXCEPT ![event].resolved = @ + 1]
    /\ pc' = "rules"
    /\ ClearLocals
    /\ UNCHANGED <<database, snap, memo, todo, rows, row, env>>

-----------------------------------------------------------------------------
(* _check_dead_devices                                                     *)

\* get_offline_devices: silent past the threshold and not yet 'offline'.
DeadDevicesNeverSeen == {d \in Devices : conn[d] # "offline" /\ seen[d] = "never"}
DeadDevices == {d \in Devices : conn[d] # "offline" /\ seen[d] = "stale"}

ScanDevices ==
    /\ pc = "rules"
    /\ todo = {}
    /\ IF DeadDevices = {}
       THEN DropCycle
       ELSE /\ rows' = DeadDevices
            /\ pc' = "loadOffline"
            /\ UNCHANGED <<snap, memo, todo, row, subject, should, event>>
    /\ UNCHANGED <<database, mail, env>>

LoadOfflineRules ==
    /\ pc = "loadOffline"
    /\ snap' = rule
    /\ memo' = Unread
    /\ pc' = "rows"
    /\ UNCHANGED <<database, todo, rows, row, subject, should, event, mail, env>>

\* mark_device_offline is an unconditional UPDATE: the device may have
\* reported since the scan.
MarkOffline(d) ==
    /\ pc = "rows"
    /\ d \in rows
    /\ conn' = [conn EXCEPT ![d] = "offline"]
    /\ rows' = rows \ {d}
    /\ row' = d
    /\ todo' = {r \in Rules : /\ snap[r].live = "active"
                              /\ snap[r].offline
                              /\ snap[r].target \in {d, None, Group}}
    /\ pc' = "row"
    /\ UNCHANGED <<rule, group, seen, breach, events, snap, memo, subject, should,
                   event, mail, env>>

\* A device_offline rule that covers the device and has no open event for
\* it creates one.
CheckOfflineRule(r) ==
    /\ pc = "row"
    /\ r \in todo
    /\ todo' = todo \ {r}
    /\ \E members \in SUBSET Devices :
         /\ ResolveGroup(r, members)
         /\ IF \/ snap[r].target = Group /\ row \notin members
               \/ OpenEvents(<<r, row>>) # {}
            THEN UNCHANGED <<pc, subject>>
            ELSE pc' = "create" /\ subject' = <<r, row>>
    /\ UNCHANGED <<database, snap, rows, row, should, event, mail>>

RowDone ==
    /\ pc = "row"
    /\ todo = {}
    /\ row' = None
    /\ pc' = "rows"
    /\ UNCHANGED <<database, snap, memo, todo, rows, subject, should, event, mail, env>>

EndCycle ==
    /\ pc = "rows"
    /\ rows = {}
    /\ DropCycle
    /\ UNCHANGED <<database, mail, env>>

-----------------------------------------------------------------------------
\* The process dies, or a database call raises and evaluate_all_tenants
\* drops the rest of the tenant's cycle.  What was committed stays.
AbandonCycle ==
    /\ pc # "idle"
    /\ Disturb
    /\ mail' = IF pc \in {"notify", "notifyResolved"}
               THEN [mail EXCEPT ![event].cut = TRUE] ELSE mail
    /\ DropCycle
    /\ UNCHANGED database

Serve ==
    \/ StartCycle \/ LookupEvent \/ CreateEvent \/ NotifyAlert \/ MarkNotified
    \/ ResolveEvent \/ NotifyResolved \/ ScanDevices \/ LoadOfflineRules
    \/ RowDone \/ EndCycle
    \/ \E r \in Rules : EvaluateRule(r) \/ CheckOfflineRule(r)
    \/ \E d \in Devices : MarkOffline(d)

Next ==
    \/ Platform
    \/ Serve
    \/ \E r \in Rules : EvaluationFails(r)
    \/ AbandonCycle

Spec == Init /\ [][Next]_vars

\* The scheduler starts a cycle every eval_interval_sec and a cycle runs to
\* its end unless something stops it; nothing else is bound to happen.
FairSpec == Spec /\ WF_vars(Serve)

-----------------------------------------------------------------------------
(* Safety                                                                  *)

\* Two unresolved events never stand for one rule and device, whatever the
\* cycles that crashed or failed left behind (lookup, then insert, in two
\* transactions).
AtMostOneOpen ==
    \A e, f \in DOMAIN events :
        /\ events[e].rule = events[f].rule
        /\ events[e].dev = events[f].dev
        /\ ~events[e].resolved
        /\ ~events[f].resolved
        => e = f

\* "One mail per state change": no event is notified twice, raised or
\* resolved, across retries, crashes and rule edits; notified_at is set
\* only on an event whose notification was attempted; RESOLVED goes out
\* only for an event that is resolved.
MailedOnce ==
    \A e \in DOMAIN events :
        /\ mail[e].alert <= 1
        /\ mail[e].resolved <= 1
        /\ events[e].notified => mail[e].alert = 1
        /\ mail[e].resolved = 1 => events[e].resolved

\* A RESOLVED message reaches someone who was told of the alert, unless the
\* cycle that owed the alert was cut short.
ResolvedFollowsAlert ==
    \A e \in DOMAIN events :
        mail[e].resolved = 1 => mail[e].alert = 1 \/ mail[e].cut

\* What the cycle holds in its hand between two transactions is still what
\* it read: the subject of an insert has no open event, the event being
\* notified is the one just written, the event being resolved is open.
InHand ==
    /\ Len(mail) = Len(events)
    /\ pc \in {"lookup", "create", "notify", "mark", "resolve", "notifyResolved"}
          => subject \in Subjects
    /\ pc \in {"notify", "mark", "resolve", "notifyResolved"}
          => event \in DOMAIN events
    /\ pc = "create" => OpenEvents(subject) = {}
    /\ pc = "notify" => mail[event].alert = 0 /\ ~events[event].resolved
    /\ pc = "mark" => mail[event].alert = 1
    /\ pc = "resolve" => ~events[event].resolved
    /\ pc = "notifyResolved" => events[event].resolved /\ mail[event].resolved = 0
    /\ \A e \in DOMAIN events : ~events[e].resolved => mail[e].resolved = 0
    /\ \A e \in DOMAIN events :
          mail[e].alert = 1 \/ mail[e].cut \/ (pc = "notify" /\ event = e)

-----------------------------------------------------------------------------
(* The engine implements the board                                         *)

Board == INSTANCE AlertBoard WITH
    open   <- {s \in Subjects : OpenEvents(s) # {}},
    due    <- CASE pc = "notify" -> {<<"alert", subject>>}
                [] pc = "notifyResolved" -> {<<"resolved", subject>>}
                [] OTHER -> {},
    raised <- [s \in Subjects |-> Cardinality(EventsOf(s))],
    told   <- [k \in {"alert", "resolved"} |-> [s \in Subjects |->
                  Cardinality({e \in EventsOf(s) : mail[e][k] > 0})]]

\* Every step of the engine raises, clears, tells or loses one alert of the
\* board, or leaves the board alone: the state-change promise of the docs.
ImplementsBoard == Board!Spec

-----------------------------------------------------------------------------
(* Liveness, under FairSpec                                                *)

\* What evaluate_rule answers for the rule as it stands now.
Holds(r) == \E d \in Scope(rule[r].target, group) : <<r, d>> \in breach

\* Once the world is quiet, the open events are right: an active metric
\* rule has an open event exactly when its trigger holds, whatever crashes,
\* failed queries and half-done cycles came before.
BoardSettles ==
    <>[](\A r \in Rules : rule[r].live = "active" /\ ~rule[r].offline =>
            (Holds(r) <=> OpenEvents(<<r, EventDevice(rule[r].target)>>) # {}))

\* A device that fell silent is shown offline in the end.
SilentDevicesGoOffline ==
    <>[](\A d \in Devices : seen[d] = "stale" => conn[d] = "offline")

\* r is a device_offline rule that covers d.
Covers(r, d) ==
    /\ rule[r].live = "active"
    /\ rule[r].offline
    /\ d \in Scope(rule[r].target, group)

AlertsSent(s) == Cardinality({e \in EventsOf(s) : mail[e].alert > 0})

\* docs/alert-email-triggers.md: a device_offline alert "is not sent again
\* until the device reconnects".  So a device that reconnected and fell
\* silent again is alerted again.  No code resolves a device_offline event,
\* so it never is.
RearmedByReconnect ==
    \A r \in Rules, d \in Devices, n \in 0..MaxEnv :
        /\ env = MaxEnv /\ pc = "idle"
        /\ Covers(r, d) /\ d \in DeadDevices
        /\ AlertsSent(<<r, d>>) = n
        ~> AlertsSent(<<r, d>>) > n
=============================================================================
