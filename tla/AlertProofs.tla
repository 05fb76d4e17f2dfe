----------------------------- MODULE AlertProofs ------------------------------
(***************************************************************************)
(* AlertEngine for any set of rules and devices and any number of          *)
(* disturbances: the tables keep their shape, a subject has at most one    *)
(* open event, and an event is notified at most once in each direction.    *)
(* The invariant that carries the three is TypeOK /\ AtMostOneOpen /\      *)
(* InHand: the cycle works in several transactions, and InHand says that   *)
(* what one of them read still holds when a later one uses it.  With the   *)
(* event in hand being one of the subject in hand, it also shows that the  *)
(* engine implements AlertBoard.                                           *)
(*                                                                         *)
(* FailureNotice for every cooldown, clock bound and fault bound: what the *)
(* row, the copy of a cycle and previous_status say of the last notice.    *)
(***************************************************************************)
EXTENDS AlertEngine, FailureNotice, FiniteSetTheorems, TLAPS
-----------------------------------------------------------------------------
(* The evaluation cycle. *)

EngineInv == TypeOK /\ AtMostOneOpen /\ InHand

\* Overwriting one element of a sequence.
LEMMA UpdateSeq ==
  ASSUME NEW S, NEW s \in Seq(S), NEW i \in DOMAIN s, NEW v \in S
  PROVE  /\ [s EXCEPT ![i] = v] \in Seq(S)
         /\ Len([s EXCEPT ![i] = v]) = Len(s)
         /\ DOMAIN [s EXCEPT ![i] = v] = DOMAIN s
OBVIOUS

LEMMA InitInv == Init => EngineInv
<1> SUFFICES ASSUME Init PROVE EngineInv
  OBVIOUS
<1> USE AlertConstants DEF Init
<1>1. TypeOK
  <2>1. NoRule \in RuleRow
    BY DEF NoRule, RuleRow, Targets
  <2>2. rule \in [Rules -> RuleRow] /\ snap \in [Rules -> RuleRow]
    BY <2>1
  <2>3. /\ group \subseteq Devices /\ breach \subseteq Rules \X Devices
        /\ conn \in [Devices -> {"online", "offline"}]
        /\ seen \in [Devices -> {"never", "fresh", "stale"}]
    OBVIOUS
  <2>4. events \in Seq(EventRow) /\ mail \in Seq(MailRow)
    OBVIOUS
  <2>5. /\ pc \in Steps /\ memo \in {Unread} \cup SUBSET Devices
        /\ todo \subseteq Rules /\ rows \subseteq Devices
        /\ row \in Devices \cup {None} /\ subject \in Subjects \cup {NoSubject}
        /\ should \in BOOLEAN /\ event \in Nat /\ env \in Nat
    BY DEF Steps
  <2> QED
    BY <2>2, <2>3, <2>4, <2>5 DEF TypeOK
<1>2. AtMostOneOpen /\ InHand
  BY DEF AtMostOneOpen, InHand
<1> QED
  BY <1>1, <1>2 DEF EngineInv

\* What the platform does to rules, groups, devices and samples touches
\* neither the events nor the cycle.
LEMMA PlatformStep == TypeOK /\ Platform => TypeOK' /\ UNCHANGED <<events, cycle, mail>>
<1> SUFFICES ASSUME TypeOK, Platform
             PROVE  TypeOK' /\ UNCHANGED <<events, cycle, mail>>
  OBVIOUS
<1> USE AlertConstants DEF TypeOK, RuleRow, Disturb, cycle
<1>1. CASE \E r \in Rules, off \in BOOLEAN, t \in Targets : CreateRule(r, off, t)
  BY <1>1 DEF CreateRule
<1>2. CASE \E r \in Rules, off \in BOOLEAN, t \in Targets : UpdateRule(r, off, t)
  <2> PICK r \in Rules, off \in BOOLEAN, t \in Targets : UpdateRule(r, off, t)
    BY <1>2
  <2>1. rule' \in [Rules -> RuleRow]
    BY DEF UpdateRule
  <2> QED
    BY <2>1 DEF UpdateRule
<1>3. CASE \E r \in Rules : DeleteRule(r)
  <2> PICK r \in Rules : DeleteRule(r)
    BY <1>3
  <2>1. rule' \in [Rules -> RuleRow]
    BY DEF DeleteRule
  <2> QED
    BY <2>1 DEF DeleteRule
<1>4. CASE \E d \in Devices : AssignDevice(d)
  BY <1>4 DEF AssignDevice
<1>5. CASE \E d \in Devices : DeviceReports(d)
  BY <1>5 DEF DeviceReports
<1>6. CASE \E d \in Devices : DeviceDisconnects(d)
  BY <1>6 DEF DeviceDisconnects
<1>7. CASE \E d \in Devices : ThresholdPasses(d)
  BY <1>7 DEF ThresholdPasses
<1>8. CASE \E r \in Rules, d \in Devices : SamplesChange(r, d)
  BY <1>8 DEF SamplesChange
<1> QED
  BY <1>1, <1>2, <1>3, <1>4, <1>5, <1>6, <1>7, <1>8 DEF Platform


\* Dropping the locals of a cycle leaves them well typed.
LEMMA DropTyped ==
  ASSUME TypeOK, DropCycle, UNCHANGED database, mail' \in Seq(MailRow), env' \in Nat
  PROVE  TypeOK'
<1>1. [r \in Rules |-> NoRule] \in [Rules -> RuleRow]
  BY DEF NoRule, RuleRow, Targets
<1> QED
  BY <1>1 DEF TypeOK, DropCycle, ClearLocals, database, Unread, Steps, NoSubject

\* Every step of the cycle keeps the type invariant.  The subject of an
\* insert and the event of an update come from InHand.
LEMMA CycleTyped ==
  ASSUME EngineInv, Serve \/ (\E r \in Rules : EvaluationFails(r)) \/ AbandonCycle
  PROVE  TypeOK'
<1> USE AlertConstants DEF EngineInv, TypeOK, Steps, Disturb, database, ClearLocals,
        Subjects, NoSubject
<1>1. CASE StartCycle
  BY <1>1 DEF StartCycle, Unread
<1>2. CASE \E r \in Rules : EvaluateRule(r)
  <2> PICK r \in Rules : EvaluateRule(r)
    BY <1>2
  <2>1. memo' \in {Unread} \cup SUBSET Devices /\ env' \in Nat /\ should' \in BOOLEAN
    BY DEF EvaluateRule, ResolveGroup, Evaluates
  <2>2. subject' \in Subjects
    BY DEF EvaluateRule, EventDevice, RuleRow, Targets
  <2> QED
    BY <2>1, <2>2 DEF EvaluateRule
<1>3. CASE \E r \in Rules : EvaluationFails(r)
  BY <1>3 DEF EvaluationFails
<1>4. CASE LookupEvent
  <2>1. event' \in Nat
    <3>1. OpenEvents(subject) \subseteq Nat
      BY DEF OpenEvents, EventsOf
    <3> QED
      BY <1>4, <3>1 DEF LookupEvent
  <2>2. pc' \in Steps /\ subject' \in Subjects \cup {NoSubject} /\ should' \in BOOLEAN
    BY <1>4 DEF LookupEvent
  <2> QED
    BY <1>4, <2>1, <2>2 DEF LookupEvent
<1>5. CASE CreateEvent
  <2>1. events' \in Seq(EventRow)
    BY <1>5 DEF CreateEvent, InHand, EventRow
  <2>2. mail' \in Seq(MailRow)
    BY <1>5 DEF CreateEvent, MailRow
  <2> QED
    BY <1>5, <2>1, <2>2 DEF CreateEvent
<1>6. CASE NotifyAlert
  <2> DEFINE n == mail[event].alert + 1
             v == [mail[event] EXCEPT !.alert = n]
  <2>1. mail' \in Seq(MailRow)
    <3>1. event \in DOMAIN mail
      BY <1>6 DEF NotifyAlert, InHand
    <3>2. mail[event] \in MailRow
      BY <3>1
    <3>5. n \in Nat
      BY <3>2 DEF MailRow
    <3> HIDE DEF n
    <3>3. v \in MailRow
      BY <3>2, <3>5 DEF MailRow
    <3> USE DEF n
    <3>4. mail' = [mail EXCEPT ![event] = v]
      BY <1>6 DEF NotifyAlert
    <3> QED
      BY <3>1, <3>3, <3>4, UpdateSeq
  <2> QED
    BY <1>6, <2>1 DEF NotifyAlert
<1>7. CASE MarkNotified
  <2> DEFINE v == [events[event] EXCEPT !.notified = TRUE]
  <2>1. events' \in Seq(EventRow)
    <3>1. event \in DOMAIN events
      BY <1>7 DEF MarkNotified, InHand
    <3>2. events[event] \in EventRow
      BY <3>1
    <3>3. v \in EventRow
      BY <3>2 DEF EventRow
    <3>4. events' = [events EXCEPT ![event] = v]
      BY <1>7 DEF MarkNotified
    <3> QED
      BY <3>1, <3>3, <3>4, UpdateSeq
  <2> QED
    BY <1>7, <2>1 DEF MarkNotified, Resume
<1>8. CASE ResolveEvent
  <2> DEFINE v == [events[event] EXCEPT !.resolved = TRUE]
  <2>1. events' \in Seq(EventRow)
    <3>1. event \in DOMAIN events
      BY <1>8 DEF ResolveEvent, InHand
    <3>2. events[event] \in EventRow
      BY <3>1
    <3>3. v \in EventRow
      BY <3>2 DEF EventRow
    <3>4. events' = [events EXCEPT ![event] = v]
      BY <1>8 DEF ResolveEvent
    <3> QED
      BY <3>1, <3>3, <3>4, UpdateSeq
  <2> QED
    BY <1>8, <2>1 DEF ResolveEvent
<1>9. CASE NotifyResolved
  <2> DEFINE n == mail[event].resolved + 1
             v == [mail[event] EXCEPT !.resolved = n]
  <2>1. mail' \in Seq(MailRow)
    <3>1. event \in DOMAIN mail
      BY <1>9 DEF NotifyResolved, InHand
    <3>2. mail[event] \in MailRow
      BY <3>1
    <3>5. n \in Nat
      BY <3>2 DEF MailRow
    <3> HIDE DEF n
    <3>3. v \in MailRow
      BY <3>2, <3>5 DEF MailRow
    <3> USE DEF n
    <3>4. mail' = [mail EXCEPT ![event] = v]
      BY <1>9 DEF NotifyResolved
    <3> QED
      BY <3>1, <3>3, <3>4, UpdateSeq
  <2> QED
    BY <1>9, <2>1 DEF NotifyResolved
<1>10. CASE ScanDevices
  <2>1. CASE DeadDevices = {}
    BY <1>10, <2>1, DropTyped DEF ScanDevices
  <2>2. CASE DeadDevices # {}
    BY <1>10, <2>2 DEF ScanDevices, DeadDevices
  <2> QED
    BY <2>1, <2>2
<1>11. CASE LoadOfflineRules
  BY <1>11 DEF LoadOfflineRules, Unread
<1>12. CASE \E d \in Devices : MarkOffline(d)
  BY <1>12 DEF MarkOffline
<1>13. CASE \E r \in Rules : CheckOfflineRule(r)
  <2> PICK r \in Rules : CheckOfflineRule(r)
    BY <1>13
  <2>1. memo' \in {Unread} \cup SUBSET Devices /\ env' \in Nat
    BY DEF CheckOfflineRule, ResolveGroup
  <2>2. pc' \in Steps /\ subject' \in Subjects \cup {NoSubject}
    BY DEF CheckOfflineRule
  <2> QED
    BY <2>1, <2>2 DEF CheckOfflineRule
<1>14. CASE RowDone
  BY <1>14 DEF RowDone
<1>15. CASE EndCycle
  BY <1>15, DropTyped DEF EndCycle
<1>16. CASE AbandonCycle
  <2>1. mail' \in Seq(MailRow)
    <3>1. CASE pc \in {"notify", "notifyResolved"}
      <4> DEFINE v == [mail[event] EXCEPT !.cut = TRUE]
      <4>1. event \in DOMAIN mail
        BY <3>1 DEF InHand
      <4>2. mail[event] \in MailRow
        BY <4>1
      <4> HIDE DEF TypeOK
      <4>4. v \in MailRow
        BY <4>2 DEF MailRow
      <4>3. mail' = [mail EXCEPT ![event] = v]
        BY <1>16, <3>1 DEF AbandonCycle
      <4> QED
        BY <4>1, <4>4, <4>3, UpdateSeq DEF TypeOK
    <3>2. CASE pc \notin {"notify", "notifyResolved"}
      BY <1>16, <3>2 DEF AbandonCycle
    <3> QED
      BY <3>1, <3>2
  <2>2. DropCycle /\ UNCHANGED database /\ env' \in Nat
    BY <1>16 DEF AbandonCycle
  <2> QED
    BY <2>1, <2>2, DropTyped
<1> QED
  BY <1>1, <1>2, <1>3, <1>4, <1>5, <1>6, <1>7, <1>8, <1>9, <1>10, <1>11, <1>12, <1>13,
     <1>14, <1>15, <1>16 DEF Serve

\* A step that writes no event and no mail keeps the events unique, and
\* needs little to keep InHand: no owed alert is forgotten and what is
\* carried to the next transaction was just read.
LEMMA QuietStep ==
  ASSUME EngineInv, TypeOK', UNCHANGED <<events, mail>>, pc # "notify",
         pc' \in {"idle", "rules", "loadOffline", "rows", "row"}
  PROVE  AtMostOneOpen' /\ InHand'
BY DEF EngineInv, TypeOK, AtMostOneOpen, InHand

LEMMA CycleKeeps ==
  ASSUME EngineInv, TypeOK',
         Serve \/ (\E r \in Rules : EvaluationFails(r)) \/ AbandonCycle
  PROVE  AtMostOneOpen' /\ InHand'
<1> USE DEF database
<1>1. CASE StartCycle
  BY <1>1, QuietStep DEF StartCycle
<1>2. CASE \E r \in Rules : EvaluateRule(r)
  <2> PICK r \in Rules : EvaluateRule(r)
    BY <1>2
  <2>1. subject' \in Subjects
    BY DEF EvaluateRule, EventDevice, EngineInv, TypeOK, RuleRow, Targets, Subjects
  <2> QED
    BY <2>1 DEF EvaluateRule, EngineInv, TypeOK, AtMostOneOpen, InHand
<1>3. CASE \E r \in Rules : EvaluationFails(r)
  BY <1>3, QuietStep DEF EvaluationFails
<1>4. CASE LookupEvent
  <2>1. CASE pc' = "rules"
    BY <1>4, <2>1, QuietStep DEF LookupEvent
  <2>2. CASE pc' = "create"
    <3>1. OpenEvents(subject)' = {}
      BY <1>4, <2>2 DEF LookupEvent, OpenEvents, EventsOf
    <3> QED
      BY <1>4, <2>2, <3>1 DEF LookupEvent, EngineInv, TypeOK, AtMostOneOpen, InHand
  <2>3. CASE pc' = "resolve"
    <3>1. event' \in DOMAIN events /\ ~events[event'].resolved
      BY <1>4, <2>3 DEF LookupEvent, OpenEvents, EventsOf
    <3> QED
      BY <1>4, <2>3, <3>1 DEF LookupEvent, EngineInv, TypeOK, AtMostOneOpen, InHand
  <2> QED
    BY <1>4, <2>1, <2>2, <2>3 DEF LookupEvent
<1>5. CASE CreateEvent
  <2> DEFINE n == Len(events) + 1
  <2>1. /\ subject \in Subjects /\ OpenEvents(subject) = {}
        /\ Len(mail) = Len(events)
        /\ DOMAIN events = 1..Len(events)
        /\ events' = Append(events, [rule |-> subject[1], dev |-> subject[2],
                                     resolved |-> FALSE, notified |-> FALSE])
        /\ mail' = Append(mail, [alert |-> 0, resolved |-> 0, cut |-> FALSE])
        /\ event' = n /\ pc' = "notify" /\ subject' = subject
    BY <1>5 DEF CreateEvent, EngineInv, TypeOK, InHand
  <2>2. /\ DOMAIN events' = 1..n /\ Len(mail') = Len(events')
        /\ \A e \in DOMAIN events : events'[e] = events[e] /\ mail'[e] = mail[e]
        /\ events'[n] = [rule |-> subject[1], dev |-> subject[2],
                         resolved |-> FALSE, notified |-> FALSE]
        /\ mail'[n] = [alert |-> 0, resolved |-> 0, cut |-> FALSE]
    BY <2>1 DEF EngineInv, TypeOK
  <2>3. \A e \in DOMAIN events' : e \in DOMAIN events \/ e = n
    BY <2>1, <2>2 DEF EngineInv, TypeOK
  <2>4. AtMostOneOpen'
    <3> SUFFICES ASSUME NEW e \in DOMAIN events', NEW f \in DOMAIN events',
                        events'[e].rule = events'[f].rule, events'[e].dev = events'[f].dev,
                        ~events'[e].resolved, ~events'[f].resolved
                 PROVE  e = f
      BY DEF AtMostOneOpen
    <3>1. \A g \in DOMAIN events : ~events[g].resolved
              => ~(events[g].rule = subject[1] /\ events[g].dev = subject[2])
      <4>1. subject = <<subject[1], subject[2]>>
        BY <2>1 DEF Subjects
      <4> QED
        BY <2>1, <4>1, Zenon DEF OpenEvents, EventsOf
    <3> QED
      BY <2>2, <2>3, <3>1 DEF EngineInv, AtMostOneOpen
  <2>5. InHand'
    BY <1>5, <2>1, <2>2, <2>3 DEF InHand, EngineInv, CreateEvent
  <2> QED
    BY <2>4, <2>5
<1>6. CASE NotifyAlert
  <2>1. /\ event \in DOMAIN mail /\ mail[event].alert = 0 /\ Len(mail) = Len(events)
        /\ DOMAIN mail = DOMAIN events
        /\ mail[event] \in MailRow
    BY <1>6 DEF NotifyAlert, EngineInv, TypeOK, InHand
  <2>2. /\ mail'[event].alert = 1
        /\ mail'[event].resolved = mail[event].resolved
        /\ mail'[event].cut = mail[event].cut
        /\ Len(mail') = Len(mail)
        /\ \A e \in DOMAIN mail : e # event => mail'[e] = mail[e]
    BY <1>6, <2>1 DEF NotifyAlert, EngineInv, TypeOK, MailRow
  <2>3. /\ pc = "notify" /\ pc' = "mark"
        /\ UNCHANGED <<events, subject, event>>
    BY <1>6 DEF NotifyAlert
  <2> QED
    BY <2>1, <2>2, <2>3 DEF EngineInv, AtMostOneOpen, InHand
<1>7. CASE MarkNotified
  <2>1. /\ event \in DOMAIN events /\ mail[event].alert = 1
        /\ events[event] \in EventRow
    BY <1>7 DEF MarkNotified, EngineInv, TypeOK, InHand
  <2>2. /\ DOMAIN events' = DOMAIN events /\ Len(events') = Len(events)
        /\ \A e \in DOMAIN events : /\ events'[e].rule = events[e].rule
                                    /\ events'[e].dev = events[e].dev
                                    /\ events'[e].resolved = events[e].resolved
    BY <1>7, <2>1 DEF MarkNotified, EngineInv, TypeOK, EventRow
  <2>3. pc = "mark" /\ pc' \in {"rules", "row"} /\ mail' = mail
    BY <1>7 DEF MarkNotified, Resume
  <2> QED
    BY <2>1, <2>2, <2>3 DEF EngineInv, AtMostOneOpen, InHand
<1>8. CASE ResolveEvent
  <2>1. event \in DOMAIN events /\ events[event] \in EventRow /\ ~events[event].resolved
    BY <1>8 DEF ResolveEvent, EngineInv, TypeOK, InHand
  <2>2. /\ DOMAIN events' = DOMAIN events /\ Len(events') = Len(events)
        /\ events'[event].resolved = TRUE
        /\ events'[event].rule = events[event].rule
        /\ events'[event].dev = events[event].dev
        /\ \A e \in DOMAIN events : e # event => events'[e] = events[e]
    <3> DEFINE v == [events[event] EXCEPT !.resolved = TRUE]
    <3>1. v.resolved = TRUE /\ v.rule = events[event].rule /\ v.dev = events[event].dev
      BY <2>1 DEF EventRow
    <3>2. events' = [events EXCEPT ![event] = v] /\ events \in Seq(EventRow)
      BY <1>8 DEF ResolveEvent, EngineInv, TypeOK
    <3> HIDE DEF v
    <3> QED
      BY <2>1, <3>1, <3>2
  <2>3. pc = "resolve" /\ pc' = "notifyResolved" /\ UNCHANGED <<mail, event, subject>>
    BY <1>8 DEF ResolveEvent
  <2> QED
    BY <2>1, <2>2, <2>3 DEF EngineInv, AtMostOneOpen, InHand
<1>9. CASE NotifyResolved
  <2>1. /\ event \in DOMAIN mail /\ Len(mail) = Len(events) /\ events[event].resolved
        /\ mail[event] \in MailRow /\ DOMAIN mail = DOMAIN events
    BY <1>9 DEF NotifyResolved, EngineInv, TypeOK, InHand
  <2>2. /\ mail'[event].alert = mail[event].alert
        /\ mail'[event].cut = mail[event].cut
        /\ Len(mail') = Len(mail)
        /\ \A e \in DOMAIN mail : e # event => mail'[e] = mail[e]
    BY <1>9, <2>1 DEF NotifyResolved, EngineInv, TypeOK, MailRow
  <2>3. pc = "notifyResolved" /\ pc' = "rules" /\ events' = events
    BY <1>9 DEF NotifyResolved
  <2> QED
    BY <2>1, <2>2, <2>3 DEF EngineInv, AtMostOneOpen, InHand
<1>10. CASE ScanDevices
  BY <1>10, QuietStep DEF ScanDevices, DropCycle
<1>11. CASE LoadOfflineRules
  BY <1>11, QuietStep DEF LoadOfflineRules
<1>12. CASE \E d \in Devices : MarkOffline(d)
  BY <1>12, QuietStep DEF MarkOffline
<1>13. CASE \E r \in Rules : CheckOfflineRule(r)
  <2> PICK r \in Rules : CheckOfflineRule(r)
    BY <1>13
  <2>1. CASE pc' = "create"
    <3>1. OpenEvents(subject)' = {} /\ subject' \in Subjects
      BY <2>1 DEF CheckOfflineRule, OpenEvents, EventsOf, EngineInv, TypeOK, Subjects
    <3> QED
      BY <2>1, <3>1 DEF CheckOfflineRule, EngineInv, TypeOK, AtMostOneOpen, InHand
  <2>2. CASE pc' = "row"
    BY <2>2, QuietStep DEF CheckOfflineRule
  <2> QED
    BY <2>1, <2>2 DEF CheckOfflineRule
<1>14. CASE RowDone
  BY <1>14, QuietStep DEF RowDone
<1>15. CASE EndCycle
  BY <1>15, QuietStep DEF EndCycle, DropCycle
<1>16. CASE AbandonCycle
  <2>1. pc' = "idle" /\ events' = events
    BY <1>16 DEF AbandonCycle, DropCycle
  <2>2. CASE pc \in {"notify", "notifyResolved"}
    <3>1. /\ event \in DOMAIN mail /\ Len(mail) = Len(events)
          /\ mail[event] \in MailRow /\ DOMAIN mail = DOMAIN events
      BY <2>2 DEF EngineInv, TypeOK, InHand
    <3>2. /\ mail'[event].cut
          /\ mail'[event].alert = mail[event].alert
          /\ mail'[event].resolved = mail[event].resolved
          /\ Len(mail') = Len(mail)
          /\ \A e \in DOMAIN mail : e # event => mail'[e] = mail[e]
      BY <1>16, <2>2, <3>1 DEF AbandonCycle, EngineInv, TypeOK, MailRow
    <3> QED
      BY <2>1, <3>1, <3>2 DEF EngineInv, AtMostOneOpen, InHand
  <2>3. CASE pc \notin {"notify", "notifyResolved"}
    BY <1>16, <2>1, <2>3, QuietStep DEF AbandonCycle
  <2> QED
    BY <2>2, <2>3
<1> QED
  BY <1>1, <1>2, <1>3, <1>4, <1>5, <1>6, <1>7, <1>8, <1>9, <1>10, <1>11, <1>12, <1>13,
     <1>14, <1>15, <1>16 DEF Serve

LEMMA StepInv == EngineInv /\ [Next]_vars => EngineInv'
<1> SUFFICES ASSUME EngineInv, [Next]_vars PROVE EngineInv'
  OBVIOUS
<1>1. CASE Platform
  <2>1. TypeOK' /\ UNCHANGED <<events, cycle, mail>>
    BY <1>1, PlatformStep DEF EngineInv
  <2>2. OpenEvents(subject)' = OpenEvents(subject)
    BY <2>1 DEF OpenEvents, EventsOf, cycle
  <2> QED
    BY <2>1, <2>2 DEF EngineInv, AtMostOneOpen, InHand, cycle
<1>2. CASE Serve \/ (\E r \in Rules : EvaluationFails(r)) \/ AbandonCycle
  BY <1>2, CycleTyped, CycleKeeps DEF EngineInv
<1>3. CASE UNCHANGED vars
  <2>1. OpenEvents(subject)' = OpenEvents(subject)
    BY <1>3 DEF OpenEvents, EventsOf, vars, cycle, database
  <2> QED
    BY <1>3, <2>1 DEF vars, cycle, database, EngineInv, TypeOK, AtMostOneOpen, InHand
<1> QED
  BY <1>1, <1>2, <1>3 DEF Next

LEMMA EngineInvariant == Spec => []EngineInv
BY InitInv, StepInv, PTL DEF Spec

\* The tables and the locals of the cycle keep their shape.
THEOREM EngineTyped == Spec => []TypeOK
<1>1. EngineInv => TypeOK
  BY DEF EngineInv
<1> QED
  BY <1>1, EngineInvariant, PTL

\* For any rules, devices and disturbances, get_unresolved_event followed
\* by create_alert_event never leaves two open events for one subject.
THEOREM EngineAtMostOneOpen == Spec => []AtMostOneOpen
<1>1. EngineInv => AtMostOneOpen
  BY DEF EngineInv
<1> QED
  BY <1>1, EngineInvariant, PTL

\* Only the steps that insert an event, notify or mark it matter to the
\* count of its mails.
LEMMA MailedOnceStep == EngineInv /\ MailedOnce /\ [Next]_vars => MailedOnce'
<1> SUFFICES ASSUME EngineInv, MailedOnce, [Next]_vars PROVE MailedOnce'
  OBVIOUS
<1>0. /\ events \in Seq(EventRow) /\ mail \in Seq(MailRow) /\ Len(mail) = Len(events)
      /\ DOMAIN mail = DOMAIN events /\ DOMAIN events = 1..Len(events)
      /\ \A e \in DOMAIN events : events[e] \in EventRow /\ mail[e] \in MailRow
  BY DEF EngineInv, TypeOK, InHand
<1>1. CASE UNCHANGED <<events, mail>>
  BY <1>1 DEF MailedOnce
<1>2. CASE CreateEvent
  <2> DEFINE n == Len(events) + 1
  <2>1. /\ \A e \in DOMAIN events : events'[e] = events[e] /\ mail'[e] = mail[e]
        /\ events'[n].resolved = FALSE /\ events'[n].notified = FALSE
        /\ mail'[n].alert = 0 /\ mail'[n].resolved = 0
        /\ \A e \in DOMAIN events' : e \in DOMAIN events \/ e = n
    BY <1>0, <1>2 DEF CreateEvent
  <2> QED
    BY <2>1 DEF MailedOnce
<1>3. CASE NotifyAlert
  <2>1. event \in DOMAIN mail /\ mail[event].alert = 0
    BY <1>0, <1>3 DEF NotifyAlert, EngineInv, InHand
  <2>2. /\ mail'[event].alert = 1 /\ mail'[event].resolved = mail[event].resolved
        /\ \A e \in DOMAIN mail : e # event => mail'[e] = mail[e]
        /\ events' = events
    BY <1>0, <1>3, <2>1 DEF NotifyAlert, database, MailRow
  <2> QED
    BY <1>0, <2>1, <2>2 DEF MailedOnce
<1>4. CASE MarkNotified
  <2>1. event \in DOMAIN events /\ mail[event].alert = 1
    BY <1>4 DEF MarkNotified, EngineInv, InHand
  <2>2. /\ DOMAIN events' = DOMAIN events /\ mail' = mail
        /\ events'[event].resolved = events[event].resolved
        /\ \A e \in DOMAIN events : e # event => events'[e] = events[e]
    BY <1>0, <1>4, <2>1 DEF MarkNotified, EventRow
  <2> QED
    BY <2>1, <2>2 DEF MailedOnce
<1>5. CASE ResolveEvent
  <2>1. event \in DOMAIN events
    BY <1>5 DEF ResolveEvent, EngineInv, InHand
  <2> DEFINE v == [events[event] EXCEPT !.resolved = TRUE]
  <2>2. v.resolved = TRUE /\ v.notified = events[event].notified
    BY <1>0, <2>1 DEF EventRow
  <2>3. events' = [events EXCEPT ![event] = v] /\ mail' = mail
    BY <1>5 DEF ResolveEvent
  <2> HIDE DEF v
  <2> QED
    BY <1>0, <2>1, <2>2, <2>3 DEF MailedOnce
<1>6. CASE NotifyResolved
  <2>1. event \in DOMAIN mail /\ mail[event].resolved = 0 /\ events[event].resolved
    BY <1>0, <1>6 DEF NotifyResolved, EngineInv, InHand
  <2>2. /\ mail'[event].resolved = 1 /\ mail'[event].alert = mail[event].alert
        /\ \A e \in DOMAIN mail : e # event => mail'[e] = mail[e]
        /\ events' = events
    BY <1>0, <1>6, <2>1 DEF NotifyResolved, database, MailRow
  <2> QED
    BY <1>0, <2>1, <2>2 DEF MailedOnce
<1>7. CASE AbandonCycle
  <2>1. events' = events
    BY <1>7 DEF AbandonCycle, database
  <2>2. \A e \in DOMAIN mail : /\ mail'[e].alert = mail[e].alert
                               /\ mail'[e].resolved = mail[e].resolved
    BY <1>0, <1>7 DEF AbandonCycle, MailRow
  <2> QED
    BY <1>0, <2>1, <2>2 DEF MailedOnce
<1>8. CASE ~(CreateEvent \/ NotifyAlert \/ MarkNotified \/ ResolveEvent
             \/ NotifyResolved \/ AbandonCycle)
  <2>1. UNCHANGED <<events, mail>>
    <3>1. CASE Platform
      BY <3>1, PlatformStep DEF EngineInv
    <3>2. CASE Serve \/ (\E r \in Rules : EvaluationFails(r))
      BY <1>8, <3>2 DEF Serve, StartCycle, EvaluateRule, EvaluationFails, LookupEvent,
         ScanDevices, LoadOfflineRules, MarkOffline, CheckOfflineRule, RowDone, EndCycle,
         database
    <3>3. CASE UNCHANGED vars
      BY <3>3 DEF vars, database
    <3> QED
      BY <1>8, <3>1, <3>2, <3>3 DEF Next
  <2> QED
    BY <1>1, <2>1
<1> QED
  BY <1>2, <1>3, <1>4, <1>5, <1>6, <1>7, <1>8

\* For any history of crashes, failed calls and rule edits, an event is
\* notified at most once when raised and at most once when resolved.
THEOREM EngineMailedOnce == Spec => []MailedOnce
<1>1. Init => MailedOnce
  BY DEF Init, MailedOnce
<1> QED
  BY <1>1, MailedOnceStep, EngineInvariant, PTL DEF Spec

\* A RESOLVED message without the alert before it only follows a cycle
\* that was cut between the insert and the notification.
THEOREM EngineResolvedFollowsAlert == Spec => []ResolvedFollowsAlert
<1>1. EngineInv => ResolvedFollowsAlert
  BY DEF EngineInv, TypeOK, InHand, ResolvedFollowsAlert
<1> QED
  BY <1>1, EngineInvariant, PTL

-----------------------------------------------------------------------------
(* What the board sees of the engine. *)

OpenSubjects == {s \in Subjects : OpenEvents(s) # {}}
Owed == CASE pc = "notify" -> {<<"alert", subject>>}
          [] pc = "notifyResolved" -> {<<"resolved", subject>>}
          [] OTHER -> {}
Mailed(k, s) == {e \in EventsOf(s) : mail[e][k] > 0}
Count(k) == [s \in Subjects |-> Cardinality(Mailed(k, s))]
Raised == [s \in Subjects |-> Cardinality(EventsOf(s))]
Told == [k \in {"alert", "resolved"} |-> Count(k)]

\* The event in hand is one of the subject in hand.
OwnEvent == pc \in {"notify", "resolve", "notifyResolved"} => event \in EventsOf(subject)

\* What the two notifying steps owe.
LEMMA OwedOf ==
    /\ pc = "notify" => Owed = {<<"alert", subject>>}
    /\ pc = "notifyResolved" => Owed = {<<"resolved", subject>>}
    /\ pc \notin {"notify", "notifyResolved"} => Owed = {}
BY DEF Owed

\* Every event is about a subject, and the events of a subject are finitely many.
LEMMA EventsFinite ==
    ASSUME TypeOK, NEW s
    PROVE  /\ IsFiniteSet(EventsOf(s)) /\ Cardinality(EventsOf(s)) \in Nat
           /\ \A k : IsFiniteSet(Mailed(k, s)) /\ Cardinality(Mailed(k, s)) \in Nat
<1>1. DOMAIN events = 1..Len(events) /\ Len(events) \in Nat
  BY DEF TypeOK
<1>2. IsFiniteSet(1..Len(events))
  BY <1>1, FS_Interval
<1>3. EventsOf(s) \subseteq 1..Len(events)
  BY <1>1 DEF EventsOf
<1>4. IsFiniteSet(EventsOf(s))
  BY <1>2, <1>3, FS_Subset
<1>5. \A k : IsFiniteSet(Mailed(k, s))
  BY <1>4, FS_Subset DEF Mailed
<1>. QED  BY <1>4, <1>5, FS_CardinalityType

\* A step that keeps whom the events are about keeps the events of every subject.
LEMMA SameEvents ==
    ASSUME DOMAIN events' = DOMAIN events,
           \A e \in DOMAIN events : events'[e].rule = events[e].rule /\ events'[e].dev = events[e].dev
    PROVE  Raised' = Raised /\ \A s : EventsOf(s)' = EventsOf(s)
<1>1. \A s : EventsOf(s)' = EventsOf(s)
  BY DEF EventsOf
<1>. QED  BY <1>1 DEF Raised

\* Nor does it change what is open, if it resolves none,
LEMMA SameOpen ==
    ASSUME \A s : EventsOf(s)' = EventsOf(s), \A e \in DOMAIN events : events'[e].resolved = events[e].resolved
    PROVE  OpenSubjects' = OpenSubjects
<1>1. \A s : OpenEvents(s)' = OpenEvents(s)
  BY DEF OpenEvents, EventsOf
<1>. QED  BY <1>1 DEF OpenSubjects

\* or what was told, if it mails none.
LEMMA SameTold ==
    ASSUME \A s : EventsOf(s)' = EventsOf(s), \A e \in DOMAIN events : mail'[e].alert = mail[e].alert /\ mail'[e].resolved = mail[e].resolved
    PROVE  Told' = Told
<1>1. \A s : Mailed("alert", s)' = Mailed("alert", s) /\ Mailed("resolved", s)' = Mailed("resolved", s)
  BY DEF Mailed, EventsOf
<1>2. Count("alert")' = Count("alert") /\ Count("resolved")' = Count("resolved")
  BY <1>1 DEF Count
<1>. QED  BY <1>2 DEF Told

\* The board that Board shows is this one.
LEMMA BoardIs ==
    /\ UNCHANGED <<OpenSubjects, Owed, Raised, Told>> => UNCHANGED Board!board
    /\ \A s \in Subjects : s \notin OpenSubjects /\ Owed = {} /\ OpenSubjects' = OpenSubjects \cup {s} /\ Owed' = {<<"alert", s>>}
          /\ Raised' = [Raised EXCEPT ![s] = @ + 1] /\ Told' = Told => Board!Next
    /\ \A s \in Subjects : s \in OpenSubjects /\ Owed = {} /\ OpenSubjects' = OpenSubjects \ {s} /\ Owed' = {<<"resolved", s>>}
          /\ UNCHANGED <<Raised, Told>> => Board!Next
    /\ \A k \in {"alert", "resolved"}, s \in Subjects : <<k, s>> \in Owed /\ Owed' = {}
          /\ Told' = [Told EXCEPT ![k][s] = @ + 1] /\ UNCHANGED <<OpenSubjects, Raised>> => Board!Next
    /\ Owed # {} /\ Owed' = {} /\ UNCHANGED <<OpenSubjects, Raised, Told>> => Board!Next
<1>1. UNCHANGED <<OpenSubjects, Owed, Raised, Told>> => UNCHANGED Board!board
  BY DEF OpenSubjects, Owed, Raised, Told, Count, Mailed, Board!board
<1>2. ASSUME NEW s \in Subjects, s \notin OpenSubjects, Owed = {}, OpenSubjects' = OpenSubjects \cup {s}, Owed' = {<<"alert", s>>},
             Raised' = [Raised EXCEPT ![s] = @ + 1], Told' = Told
      PROVE  Board!Raise(s)
  BY <1>2 DEF OpenSubjects, Owed, Raised, Told, Count, Mailed, Board!Raise
<1>3. ASSUME NEW s \in Subjects, s \in OpenSubjects, Owed = {}, OpenSubjects' = OpenSubjects \ {s}, Owed' = {<<"resolved", s>>},
             UNCHANGED <<Raised, Told>>
      PROVE  Board!Clear(s)
  BY <1>3 DEF OpenSubjects, Owed, Raised, Told, Count, Mailed, Board!Clear
<1>4. ASSUME NEW k \in {"alert", "resolved"}, NEW s \in Subjects, <<k, s>> \in Owed, Owed' = {},
             Told' = [Told EXCEPT ![k][s] = @ + 1], UNCHANGED <<OpenSubjects, Raised>>
      PROVE  Board!Tell(k, s)
  BY <1>4 DEF OpenSubjects, Owed, Raised, Told, Count, Mailed, Board!Tell
<1>5. ASSUME Owed # {}, Owed' = {}, UNCHANGED <<OpenSubjects, Raised, Told>> PROVE Board!Lose
  BY <1>5 DEF OpenSubjects, Owed, Raised, Told, Count, Mailed, Board!Lose
<1>. QED  BY <1>1, <1>2, <1>3, <1>4, <1>5 DEF Board!Next, Board!Kinds

\* A step that keeps the subjects of the events, their state and the count of the mails is
\* seen through what is owed alone.
LEMMA BoardStays ==
    ASSUME EngineInv, DOMAIN events' = DOMAIN events,
           \A e \in DOMAIN events : events'[e].rule = events[e].rule /\ events'[e].dev = events[e].dev
                                    /\ events'[e].resolved = events[e].resolved,
           \A e \in DOMAIN events : mail'[e].alert = mail[e].alert /\ mail'[e].resolved = mail[e].resolved
    PROVE  UNCHANGED <<OpenSubjects, Raised, Told>> /\ \A s : EventsOf(s)' = EventsOf(s)
<1>1. Raised' = Raised /\ \A s : EventsOf(s)' = EventsOf(s)
  BY SameEvents
<1>. QED  BY <1>1, SameOpen, SameTold

\* Steps between the notifications.
LEMMA QuietBoard ==
    ASSUME EngineInv, UNCHANGED <<events, mail>>, pc \notin {"notify", "notifyResolved"}, pc' \notin {"notify", "notifyResolved"},
           pc' = "resolve" => event' \in EventsOf(subject')
    PROVE  OwnEvent' /\ UNCHANGED Board!board
<1>1. UNCHANGED <<OpenSubjects, Raised, Told>> /\ \A s : EventsOf(s)' = EventsOf(s)
  BY BoardStays
<1>2. Owed = {} /\ Owed' = {}
  BY OwedOf DEF Owed
<1>3. OwnEvent'
  BY <1>1 DEF OwnEvent, EventsOf
<1>. QED  BY <1>1, <1>2, <1>3, BoardIs

\* create_alert_event raises the alert of its subject.
LEMMA CreateRaises == ASSUME EngineInv, CreateEvent PROVE OwnEvent' /\ Board!Next
<1> DEFINE n == Len(events) + 1
<1>1. /\ subject \in Subjects /\ OpenEvents(subject) = {} /\ pc = "create"
      /\ Len(mail) = Len(events) /\ Len(events) \in Nat
      /\ DOMAIN events = 1..Len(events)
      /\ event' = n /\ pc' = "notify" /\ subject' = subject
  BY DEF CreateEvent, EngineInv, TypeOK, InHand
<1>2. /\ DOMAIN events' = 1..n /\ n \notin DOMAIN events
      /\ \A e \in DOMAIN events : events'[e] = events[e] /\ mail'[e] = mail[e]
      /\ events'[n].rule = subject[1] /\ events'[n].dev = subject[2] /\ ~events'[n].resolved
      /\ mail'[n].alert = 0 /\ mail'[n].resolved = 0
  BY <1>1 DEF CreateEvent, EngineInv, TypeOK
<1>3. DOMAIN events' = DOMAIN events \cup {n}
  BY <1>1, <1>2
<1>4. subject = <<subject[1], subject[2]>>
  BY <1>1 DEF Subjects
<1>. HIDE DEF n
<1>5. EventsOf(subject)' = EventsOf(subject) \cup {n} /\ \A s \in Subjects : s # subject => EventsOf(s)' = EventsOf(s)
  BY <1>1, <1>2, <1>3, <1>4, Zenon DEF EventsOf
<1>6. \A s \in Subjects : n \notin EventsOf(s)
  BY <1>2 DEF EventsOf
<1>7. OpenEvents(subject)' = {n}
  BY <1>1, <1>2, <1>4, <1>5 DEF OpenEvents, EventsOf
<1>8. \A s \in Subjects : s # subject => OpenEvents(s)' = OpenEvents(s)
  BY <1>2, <1>5 DEF OpenEvents, EventsOf
<1>9. OpenSubjects' = OpenSubjects \cup {subject} /\ subject \notin OpenSubjects
  BY <1>1, <1>7, <1>8 DEF OpenSubjects
<1>10. \A s \in Subjects : Mailed("alert", s)' = Mailed("alert", s) /\ Mailed("resolved", s)' = Mailed("resolved", s)
  BY <1>1, <1>2, <1>5 DEF Mailed, EventsOf
<1>11. Count("alert")' = Count("alert") /\ Count("resolved")' = Count("resolved")
  BY <1>10 DEF Count
<1>12. Told' = Told
  BY <1>11 DEF Told
<1>13. Cardinality(EventsOf(subject))' = Cardinality(EventsOf(subject)) + 1
  BY <1>1, <1>5, <1>6, EventsFinite, FS_AddElement DEF EngineInv
<1>14. Raised' = [Raised EXCEPT ![subject] = @ + 1]
  BY <1>1, <1>5, <1>13 DEF Raised
<1>15. Owed = {} /\ Owed' = {<<"alert", subject>>}
  BY <1>1, OwedOf DEF Owed
<1>16. OwnEvent'
  BY <1>1, <1>5 DEF OwnEvent
<1>. QED  BY <1>1, <1>9, <1>12, <1>14, <1>15, <1>16, BoardIs

\* resolve_alert_event clears it.
LEMMA ResolveClears == ASSUME EngineInv, OwnEvent, ResolveEvent PROVE OwnEvent' /\ Board!Next
<1>1. /\ event \in DOMAIN events /\ events[event] \in EventRow /\ ~events[event].resolved /\ pc = "resolve"
      /\ subject \in Subjects /\ event \in EventsOf(subject)
  BY DEF ResolveEvent, EngineInv, TypeOK, InHand, OwnEvent
<1>2. /\ DOMAIN events' = DOMAIN events
      /\ events'[event].resolved = TRUE
      /\ events'[event].rule = events[event].rule /\ events'[event].dev = events[event].dev
      /\ \A e \in DOMAIN events : e # event => events'[e] = events[e]
  <2> DEFINE v == [events[event] EXCEPT !.resolved = TRUE]
  <2>1. v.resolved = TRUE /\ v.rule = events[event].rule /\ v.dev = events[event].dev
    BY <1>1 DEF EventRow
  <2>2. events' = [events EXCEPT ![event] = v] /\ events \in Seq(EventRow)
    BY DEF ResolveEvent, EngineInv, TypeOK
  <2> HIDE DEF v
  <2> QED
    BY <1>1, <2>1, <2>2
<1>3. pc' = "notifyResolved" /\ UNCHANGED <<mail, event, subject>>
  BY DEF ResolveEvent
<1>4. Raised' = Raised /\ \A s : EventsOf(s)' = EventsOf(s)
  BY <1>2, SameEvents
<1>5. Told' = Told
  BY <1>3, <1>4, SameTold
<1>6. OpenEvents(subject)' = {} /\ event \in OpenEvents(subject)
  <2>1. \A e \in EventsOf(subject) : e # event => events[e].resolved
    BY <1>1 DEF EventsOf, AtMostOneOpen, EngineInv
  <2>. QED  BY <1>1, <1>2, <1>3, <1>4, <2>1 DEF OpenEvents, EventsOf
<1>7. \A s \in Subjects : s # subject => OpenEvents(s)' = OpenEvents(s)
  <2>1. \A s \in Subjects : s # subject => event \notin EventsOf(s)
    BY <1>1 DEF EventsOf
  <2>. QED  BY <1>2, <1>4, <2>1 DEF OpenEvents, EventsOf
<1>8. OpenSubjects' = OpenSubjects \ {subject} /\ subject \in OpenSubjects
  <2>1. \A s \in Subjects : OpenEvents(s)' # {} <=> s # subject /\ OpenEvents(s) # {}
    BY <1>3, <1>6, <1>7
  <2>2. subject \in OpenSubjects
    BY <1>1, <1>6 DEF OpenSubjects
  <2>3. OpenSubjects' = {s \in Subjects : s # subject /\ OpenEvents(s) # {}}
    BY <2>1 DEF OpenSubjects
  <2>. QED  BY <2>2, <2>3 DEF OpenSubjects
<1>9. Owed = {} /\ Owed' = {<<"resolved", subject>>}
  BY <1>1, <1>3, OwedOf DEF Owed
<1>10. OwnEvent'
  BY <1>1, <1>3, <1>4 DEF OwnEvent
<1>. QED  BY <1>1, <1>4, <1>5, <1>8, <1>9, <1>10, BoardIs

\* The first mail of one kind about the event in hand is counted for its subject, and for no other.
LEMMA OneMoreTold ==
    ASSUME EngineInv, NEW s0 \in Subjects, event \in EventsOf(s0),
           NEW k \in {"alert", "resolved"}, mail[event][k] = 0, mail'[event][k] = 1,
           events' = events, DOMAIN mail = DOMAIN events,
           \A j \in {"alert", "resolved"} : j # k => mail'[event][j] = mail[event][j],
           \A e \in DOMAIN mail : e # event => mail'[e] = mail[e]
    PROVE  Told' = [Told EXCEPT ![k][s0] = @ + 1]
<1>1. \A s : EventsOf(s)' = EventsOf(s)
  BY SameEvents
<1>2. Mailed(k, s0)' = Mailed(k, s0) \cup {event} /\ event \notin Mailed(k, s0)
  <2>1. mail'[event][k] > 0 /\ ~(mail[event][k] > 0)
    OBVIOUS
  <2>2. \A e \in EventsOf(s0) : e \in DOMAIN mail
    BY DEF EventsOf
  <2>. QED  BY <1>1, <2>1, <2>2, Zenon DEF Mailed
<1>3. Cardinality(Mailed(k, s0)') = Cardinality(Mailed(k, s0)) + 1
  BY <1>2, EventsFinite, FS_AddElement DEF EngineInv
<1>4. \A s \in Subjects : s # s0 => event \notin EventsOf(s)
  BY DEF EventsOf
<1>5. ASSUME NEW s \in Subjects, s # s0 PROVE \A j : Mailed(j, s)' = Mailed(j, s)
  <2>1. \A e \in EventsOf(s) : mail'[e] = mail[e]
    BY <1>4, <1>5 DEF EventsOf
  <2>. QED  BY <1>1, <2>1 DEF Mailed
<1>6. \A j \in {"alert", "resolved"} : j # k => Mailed(j, s0)' = Mailed(j, s0)
  <2>1. ASSUME NEW j \in {"alert", "resolved"}, j # k PROVE Mailed(j, s0)' = Mailed(j, s0)
    <3>1. \A e \in EventsOf(s0) : mail'[e][j] = mail[e][j]
      BY <2>1 DEF EventsOf
    <3>. QED  BY <1>1, <3>1 DEF Mailed
  <2>. QED  BY <2>1
<1>7. Count(k)' = [Count(k) EXCEPT ![s0] = @ + 1]
  BY <1>3, <1>5 DEF Count
<1>8. \A j \in {"alert", "resolved"} : j # k => Count(j)' = Count(j)
  <2>1. ASSUME NEW j \in {"alert", "resolved"}, j # k PROVE Count(j)' = Count(j)
    <3>1. \A s \in Subjects : Mailed(j, s)' = Mailed(j, s)
      BY <1>5, <1>6, <2>1
    <3>. QED  BY <3>1 DEF Count
  <2>. QED  BY <2>1
<1>. QED  BY <1>7, <1>8 DEF Told

\* notify tells of the alert.
LEMMA NotifyTells == ASSUME EngineInv, OwnEvent, NotifyAlert PROVE OwnEvent' /\ Board!Next
<1>1. /\ event \in DOMAIN mail /\ mail[event].alert = 0 /\ DOMAIN mail = DOMAIN events /\ mail[event] \in MailRow
      /\ subject \in Subjects /\ event \in EventsOf(subject) /\ pc = "notify" /\ pc' = "mark"
      /\ UNCHANGED <<events, subject>>
  BY DEF NotifyAlert, EngineInv, TypeOK, InHand, OwnEvent, database
<1>2. /\ mail'[event].alert = 1 /\ mail'[event].resolved = mail[event].resolved
      /\ \A e \in DOMAIN mail : e # event => mail'[e] = mail[e]
  BY <1>1 DEF NotifyAlert, EngineInv, TypeOK, MailRow
<1>3. Told' = [Told EXCEPT !["alert"][subject] = @ + 1]
  BY <1>1, <1>2, OneMoreTold
<1>4. UNCHANGED <<OpenSubjects, Raised>>
  BY <1>1, SameEvents, SameOpen
<1>5. <<"alert", subject>> \in Owed /\ Owed' = {} /\ OwnEvent'
  BY <1>1, OwedOf DEF Owed, OwnEvent
<1>. QED  BY <1>1, <1>3, <1>4, <1>5, BoardIs

\* notify tells that it is over.
LEMMA NotifyResolvedTells == ASSUME EngineInv, OwnEvent, NotifyResolved PROVE OwnEvent' /\ Board!Next
<1>1. /\ event \in DOMAIN mail /\ mail[event].resolved = 0 /\ DOMAIN mail = DOMAIN events /\ mail[event] \in MailRow
      /\ event \in EventsOf(subject) /\ pc = "notifyResolved" /\ pc' = "rules" /\ events' = events
  BY DEF NotifyResolved, EngineInv, TypeOK, InHand, OwnEvent, database
<1>2. subject \in Subjects
  BY <1>1 DEF EngineInv, InHand
<1>3. /\ mail'[event].resolved = 1 /\ mail'[event].alert = mail[event].alert
      /\ \A e \in DOMAIN mail : e # event => mail'[e] = mail[e]
  BY <1>1 DEF NotifyResolved, EngineInv, TypeOK, MailRow
<1>4. Told' = [Told EXCEPT !["resolved"][subject] = @ + 1]
  BY <1>1, <1>2, <1>3, OneMoreTold
<1>5. UNCHANGED <<OpenSubjects, Raised>>
  BY <1>1, SameEvents, SameOpen
<1>6. <<"resolved", subject>> \in Owed /\ Owed' = {} /\ OwnEvent'
  BY <1>1, OwedOf DEF Owed, OwnEvent
<1>. QED  BY <1>2, <1>4, <1>5, <1>6, BoardIs

\* A cycle that is cut before it notifies loses what it owed.
LEMMA AbandonLoses == ASSUME EngineInv, OwnEvent, AbandonCycle PROVE OwnEvent' /\ [Board!Next]_Board!board
<1>1. pc' = "idle" /\ events' = events
  BY DEF AbandonCycle, DropCycle, database
<1>2. CASE pc \notin {"notify", "notifyResolved"}
  <2>1. mail' = mail
    BY <1>2 DEF AbandonCycle
  <2>. QED  BY <1>1, <1>2, <2>1, QuietBoard
<1>3. CASE pc \in {"notify", "notifyResolved"}
  <2>1. event \in DOMAIN mail /\ DOMAIN mail = DOMAIN events /\ mail[event] \in MailRow
    BY <1>3 DEF EngineInv, TypeOK, InHand
  <2>2. \A e \in DOMAIN events : mail'[e].alert = mail[e].alert /\ mail'[e].resolved = mail[e].resolved
    BY <1>3, <2>1 DEF AbandonCycle, EngineInv, TypeOK, MailRow
  <2>3. UNCHANGED <<OpenSubjects, Raised, Told>>
    BY <1>1, <2>2, BoardStays
  <2>4. Owed # {} /\ Owed' = {} /\ OwnEvent'
    BY <1>1, <1>3, OwedOf DEF Owed, OwnEvent
  <2>. QED  BY <2>3, <2>4, BoardIs
<1>. QED  BY <1>2, <1>3

\* At the start the board is empty.
LEMMA BoardInit == Init => OwnEvent /\ Board!Init
<1>. SUFFICES ASSUME Init PROVE OwnEvent /\ Board!Init
  OBVIOUS
<1>1. pc = "idle" /\ DOMAIN events = {}
  BY DEF Init
<1>2. \A s : EventsOf(s) = {} /\ OpenEvents(s) = {}
  BY <1>1 DEF EventsOf, OpenEvents
<1>3. OpenSubjects = {}
  BY <1>2 DEF OpenSubjects
<1>4. Owed = {}
  BY <1>1, OwedOf
<1>5. Raised = [s \in Subjects |-> 0]
  BY <1>2, FS_EmptySet DEF Raised
<1>6. \A k, s : Cardinality(Mailed(k, s)) = 0
  BY <1>2, FS_EmptySet DEF Mailed
<1>7. Told = [k \in {"alert", "resolved"} |-> [s \in Subjects |-> 0]]
  BY <1>6 DEF Told, Count
<1>8. OwnEvent
  BY <1>1 DEF OwnEvent
<1>. QED  BY <1>3, <1>4, <1>5, <1>7, <1>8
     DEF OpenSubjects, Owed, Raised, Told, Count, Mailed, Board!Init, Board!Kinds

\* The event get_unresolved_event found is one of the subject that was looked up.
LEMMA LookupQuiet == ASSUME EngineInv, LookupEvent PROVE OwnEvent' /\ UNCHANGED Board!board
<1>1. /\ UNCHANGED <<events, mail>> /\ pc = "lookup"
      /\ pc' \notin {"notify", "notifyResolved"}
  BY DEF LookupEvent, database
<1>2. pc' = "resolve" => event' \in EventsOf(subject')
  BY DEF LookupEvent, OpenEvents
<1>. QED  BY <1>1, <1>2, QuietBoard

\* What marks an event as notified does not show on the board.
LEMMA MarkQuiet == ASSUME EngineInv, MarkNotified PROVE OwnEvent' /\ UNCHANGED Board!board
<1>1. /\ event \in DOMAIN events /\ events[event] \in EventRow /\ pc = "mark" /\ pc' \in {"rules", "row"} /\ mail' = mail
  BY DEF MarkNotified, EngineInv, TypeOK, InHand, Resume
<1>2. /\ DOMAIN events' = DOMAIN events
      /\ \A e \in DOMAIN events : /\ events'[e].rule = events[e].rule
                                  /\ events'[e].dev = events[e].dev
                                  /\ events'[e].resolved = events[e].resolved
  BY <1>1 DEF MarkNotified, EngineInv, TypeOK, EventRow
<1>3. UNCHANGED <<OpenSubjects, Raised, Told>>
  BY <1>1, <1>2, BoardStays
<1>4. Owed = {} /\ Owed' = {} /\ OwnEvent'
  BY <1>1, OwedOf DEF Owed, OwnEvent
<1>. QED  BY <1>3, <1>4, BoardIs

\* Steps that touch neither the events nor the cycle.
LEMMA AsideQuiet ==
    ASSUME EngineInv, OwnEvent, UNCHANGED <<events, mail, pc, subject, event>>
    PROVE  OwnEvent' /\ UNCHANGED Board!board
<1>1. UNCHANGED <<OpenSubjects, Raised, Told>> /\ \A s : EventsOf(s)' = EventsOf(s)
  BY BoardStays
<1>2. Owed' = Owed
  BY DEF Owed
<1>3. OwnEvent'
  BY <1>1 DEF OwnEvent, EventsOf
<1>. QED  BY <1>1, <1>2, <1>3, BoardIs

\* Every step of the engine is one of the board, or does not show on it.
LEMMA BoardStep ==
    ASSUME EngineInv, OwnEvent, [Next]_vars
    PROVE  OwnEvent' /\ [Board!Next]_Board!board
<1>1. CASE Platform \/ UNCHANGED vars
  <2>1. UNCHANGED <<events, mail, pc, subject, event>>
    BY <1>1, PlatformStep DEF EngineInv, vars, cycle, database
  <2>. QED  BY <2>1, AsideQuiet
<1>2. CASE CreateEvent \/ ResolveEvent \/ NotifyAlert \/ NotifyResolved \/ AbandonCycle
  BY <1>2, CreateRaises, ResolveClears, NotifyTells, NotifyResolvedTells, AbandonLoses
<1>3. CASE LookupEvent \/ MarkNotified
  BY <1>3, LookupQuiet, MarkQuiet
<1>4. CASE StartCycle \/ ScanDevices \/ LoadOfflineRules \/ RowDone \/ EndCycle
  <2>1. /\ UNCHANGED <<events, mail>> /\ pc \in {"idle", "rules", "loadOffline", "row", "rows"}
        /\ pc' \in {"rules", "idle", "loadOffline", "rows"}
    BY <1>4 DEF StartCycle, ScanDevices, LoadOfflineRules, RowDone, EndCycle, DropCycle, database
  <2>. QED  BY <2>1, QuietBoard
<1>5. CASE \E r \in Rules : EvaluateRule(r) \/ EvaluationFails(r) \/ CheckOfflineRule(r)
  <2>1. /\ UNCHANGED <<events, mail>> /\ pc \in {"rules", "row"} /\ pc' \in {"rules", "lookup", "row", "create"}
    BY <1>5 DEF EvaluateRule, EvaluationFails, CheckOfflineRule, database
  <2>. QED  BY <2>1, QuietBoard
<1>6. CASE \E d \in Devices : MarkOffline(d)
  <2>1. UNCHANGED <<events, mail>> /\ pc = "rows" /\ pc' = "row"
    BY <1>6 DEF MarkOffline
  <2>. QED  BY <2>1, QuietBoard
<1>. QED  BY <1>1, <1>2, <1>3, <1>4, <1>5, <1>6 DEF Next, Serve

\* docs/alert-email-triggers.md, "state change detection": for any rules, devices, crashes and
\* failed calls, each step of _evaluate_tenant raises an alert, clears it, sends or loses the
\* one notification it owes, or does nothing that the board shows.
THEOREM EngineImplementsBoard == Spec => ImplementsBoard
<1>1. Init => OwnEvent /\ Board!Init
  BY BoardInit
<1>2. EngineInv /\ OwnEvent /\ [Next]_vars => OwnEvent' /\ [Board!Next]_Board!board
  BY BoardStep
<1>. QED  BY <1>1, <1>2, EngineInvariant, PTL DEF Spec, ImplementsBoard, Board!Spec

-----------------------------------------------------------------------------
(* The notices about a channel that fails. *)

InCycle == {"cycle", "sent", "recorded", "notice", "mailed"}
Notifying == {"sent", "recorded", "notice"}

\* Whatever was mailed and recorded is what the row, the copy and previous_status
\* say; a notice about to be mailed respects the cooldown.
TimeInv ==
    /\ stage # "mailed" /\ ~unrecorded => db.at = last
    /\ stage \in InCycle \ {"mailed"} /\ ~unrecorded => copy.at = last
    /\ stage \in Notifying /\ ~unrecorded => prev.at = last
    /\ stage = "notice" /\ prev.at # NoNotice => at - prev.at >= COOLDOWN
    /\ stage = "mailed" => at = last

\* An outage that was announced is visible as failing in the row, in the copy and
\* in previous_status, unless a result was lost on the way.
OutageInv ==
    /\ told /\ ~lost => db.slack = "failed"
    /\ told /\ ~stale /\ stage \in InCycle => copy.slack = "failed"
    /\ told /\ ~blind /\ stage \in Notifying => prev.slack = "failed"
    /\ told /\ stage = "sent" => result # "ok"
    /\ stage = "recorded" /\ result = "failed" =>
          copy.slack = "failed" /\ (~lost => db.slack = "failed")
    /\ stage = "notice" => /\ prev.slack # "failed"
                           /\ copy.slack = "failed"
                           /\ ~lost => db.slack = "failed"

NoticeInv == NoticeTypeOK /\ TimeInv /\ OutageInv

-----------------------------------------------------------------------------

\* Nothing is recorded when the service starts.
LEMMA InitNotice == NoticeInit => NoticeInv
<1> SUFFICES ASSUME NoticeInit PROVE NoticeInv
  OBVIOUS
<1>1. Unknown \in Status /\ 0 \in Time
  BY NoticeConstants DEF Unknown, Status, Outcomes, Time
<1>2. NoticeTypeOK
  <2>1. {unrecorded, told, lost, stale, blind} \subseteq BOOLEAN
    BY DEF NoticeInit
  <2>2. \A s \in {db, copy, prev} : s.at # NoNotice => s.at <= now
    BY DEF NoticeInit, Unknown
  <2>3. db \in Status /\ copy \in Status /\ prev \in Status
    BY <1>1 DEF NoticeInit
  <2>4. /\ now \in Time /\ faults \in 0..MaxFaults
        /\ at \in 0..now /\ last \in 0..now \cup {NoNotice}
        /\ result \in Outcomes /\ stage = "idle"
    BY <1>1, NoticeConstants DEF NoticeInit, Outcomes
  <2> QED BY <2>1, <2>2, <2>3, <2>4 DEF NoticeTypeOK
<1>3. TimeInv /\ OutageInv
  BY DEF NoticeInit, TimeInv, OutageInv, Unknown, InCycle, Notifying
<1> QED BY <1>2, <1>3 DEF NoticeInv

\* Merging a Slack result into a status touches the slack field only.
LEMMA MergeFacts ==
    ASSUME NEW s \in Status, NEW r \in Outcomes
    PROVE  /\ MergeSlack(s, r) \in Status
           /\ MergeSlack(s, r).at = s.at
           /\ r = "none" => MergeSlack(s, r).slack = s.slack
           /\ r # "none" => MergeSlack(s, r).slack = r
BY DEF MergeSlack, Status

\* The cycle's steps up to the recorded result keep the invariant.
LEMMA NotifyKeeps ==
    ASSUME NoticeInv, \/ ReadRow \/ RecordStatus \/ RecordStatusFails
                      \/ \E r \in Outcomes : Notify(r)
    PROVE  NoticeInv'
<1>a. NoticeTypeOK /\ TimeInv /\ OutageInv BY DEF NoticeInv
<1>1. CASE ReadRow
  BY <1>1, <1>a DEF ReadRow, NoticeInv, NoticeTypeOK, TimeInv, OutageInv, InCycle,
     Notifying
<1>2. ASSUME NEW r \in Outcomes, Notify(r) PROVE NoticeInv'
  BY <1>2, <1>a DEF Notify, NoticeInv, NoticeTypeOK, TimeInv, OutageInv, InCycle,
     Notifying, Outcomes
<1>3. CASE RecordStatus
  BY <1>3, <1>a, MergeFacts DEF RecordStatus, Merged, NoticeInv, NoticeTypeOK, TimeInv,
     OutageInv, InCycle, Notifying, Outcomes
<1>4. CASE RecordStatusFails
  <2>1. NoticeTypeOK'
    <3>1. copy' \in Status /\ copy'.at = copy.at
      BY <1>4, <1>a, MergeFacts DEF RecordStatusFails, Merged, NoticeTypeOK
    <3>2. faults' \in 0..MaxFaults
      BY <1>4, <1>a, NoticeConstants DEF RecordStatusFails, NoticeTypeOK
    <3>3. {unrecorded, told, lost, stale, blind}' \subseteq BOOLEAN
      BY <1>4, <1>a DEF RecordStatusFails, NoticeTypeOK
    <3> QED BY <1>4, <1>a, <3>1, <3>2, <3>3 DEF RecordStatusFails, NoticeTypeOK
  <2>2. TimeInv' /\ OutageInv'
    BY <1>4, <1>a, MergeFacts DEF RecordStatusFails, Merged, NoticeTypeOK, TimeInv,
       OutageInv, InCycle, Notifying, Outcomes
  <2> QED BY <2>1, <2>2 DEF NoticeInv
<1> QED BY <1>1, <1>2, <1>3, <1>4

\* The decision, the mail and its record keep the invariant.
LEMMA NoticeKeeps ==
    ASSUME NoticeInv, \/ Decide \/ NoRecipients \/ MailNotice \/ RecordNotice
                      \/ RecordNoticeFails
    PROVE  NoticeInv'
<1>a. NoticeTypeOK /\ TimeInv /\ OutageInv BY DEF NoticeInv
<1>1. CASE Decide
  BY <1>1, <1>a, NoticeConstants DEF Decide, TurnedToFailing, NoticeInv, NoticeTypeOK,
     TimeInv, OutageInv, InCycle, Notifying, Status, Time, hist
<1>2. CASE NoRecipients
  BY <1>2, <1>a, NoticeConstants DEF NoRecipients, NoticeInv, NoticeTypeOK, TimeInv,
     OutageInv, InCycle, Notifying, hist
<1>3. CASE MailNotice
  BY <1>3, <1>a DEF MailNotice, NoticeInv, NoticeTypeOK, TimeInv, OutageInv, InCycle,
     Notifying
<1>4. CASE RecordNotice
  BY <1>4, <1>a, NoticeConstants DEF RecordNotice, NoticeInv, NoticeTypeOK, TimeInv,
     OutageInv, InCycle, Notifying, Status, Time, hist
<1>5. CASE RecordNoticeFails
  BY <1>5, <1>a, NoticeConstants DEF RecordNoticeFails, NoticeInv, NoticeTypeOK, TimeInv,
     OutageInv, InCycle, Notifying
<1> QED BY <1>1, <1>2, <1>3, <1>4, <1>5

\* Restarts and the clock keep the invariant.
LEMMA SurroundingsKeep ==
    ASSUME NoticeInv, Restart \/ Tick
    PROVE  NoticeInv'
<1>a. NoticeTypeOK /\ TimeInv /\ OutageInv BY DEF NoticeInv
<1>1. CASE Restart
  <2>1. unrecorded' \in BOOLEAN /\ lost' \in BOOLEAN
    BY <1>1, <1>a, Zenon DEF Restart, NoticeTypeOK
  <2>2. NoticeTypeOK'
    BY <1>1, <1>a, <2>1, NoticeConstants DEF Restart, NoticeTypeOK
  <2>3. TimeInv' /\ OutageInv'
    BY <1>1, <1>a DEF Restart, NoticeTypeOK, TimeInv, OutageInv, InCycle, Notifying
  <2> QED BY <2>2, <2>3 DEF NoticeInv
<1>2. CASE Tick
  BY <1>2, <1>a, NoticeConstants DEF Tick, NoticeInv, NoticeTypeOK, TimeInv, OutageInv,
     InCycle, Notifying, Time, Status, code, hist
<1> QED BY <1>1, <1>2

\* The invariant holds in every reachable state.
THEOREM NoticeInvariant == NoticeSpec => []NoticeInv
<1>1. ASSUME NoticeInv, [NoticeNext]_noticeVars PROVE NoticeInv'
  <2>1. CASE UNCHANGED noticeVars
    BY <2>1, <1>1 DEF noticeVars, code, hist, NoticeInv, NoticeTypeOK, TimeInv, OutageInv
  <2>2. CASE NoticeNext
    BY <2>2, <1>1, NotifyKeeps, NoticeKeeps, SurroundingsKeep DEF NoticeNext
  <2> QED BY <2>1, <2>2, <1>1
<1> QED BY InitNotice, <1>1, PTL DEF NoticeSpec

\* failure_notice.py and the status column: types, and no recorded time lies in
\* the future.
THEOREM NoticeTyped == NoticeSpec => []NoticeTypeOK
BY NoticeInvariant, PTL DEF NoticeInv

\* decide_failed_channels keeps notices about a rule apart: a recorded notice is
\* followed by the next one after the cooldown at the earliest.
THEOREM NoticesSpaced == NoticeSpec => SpacedByCooldown
<1>1. ASSUME NoticeInv
      PROVE  [(MailNotice /\ last # NoNotice /\ ~unrecorded) => at - last >= COOLDOWN]_noticeVars
  BY <1>1 DEF NoticeInv, TimeInv, MailNotice, Notifying
<1> QED BY NoticeInvariant, <1>1, PTL DEF SpacedByCooldown

\* decide_failed_channels announces an outage once: a second notice while Slack
\* keeps failing comes from a cycle that read a row with a lost result.
THEOREM NoticeOncePerOutage == NoticeSpec => OneNoticePerOutage
<1>1. ASSUME NoticeInv PROVE [MailNotice => (~told \/ blind)]_noticeVars
  BY <1>1 DEF NoticeInv, OutageInv, MailNotice, Notifying
<1> QED BY NoticeInvariant, <1>1, PTL DEF OneNoticePerOutage

-----------------------------------------------------------------------------

\* From the reading of the row to the end of the cycle the copy says of Slack what the
\* row says, unless a result could not be written: both take the same results.
SlackInv == stage \in InCycle /\ ~lost => copy.slack = db.slack

LEMMA SlackKeeps ==
    ASSUME NoticeTypeOK, SlackInv, [NoticeNext]_noticeVars
    PROVE  SlackInv'
<1>1. CASE ReadRow
  BY <1>1 DEF ReadRow, SlackInv
<1>2. ASSUME NEW r \in Outcomes, Notify(r) PROVE SlackInv'
  BY <1>2 DEF Notify, SlackInv, InCycle
<1>3. CASE RecordStatus
  <2>1. /\ result = "none" => db'.slack = db.slack /\ copy'.slack = copy.slack
        /\ result # "none" => db'.slack = copy'.slack
    BY <1>3, MergeFacts DEF RecordStatus, Merged, NoticeTypeOK
  <2> QED BY <2>1, <1>3 DEF RecordStatus, SlackInv, InCycle
<1>4. CASE RecordStatusFails
  BY <1>4 DEF RecordStatusFails, SlackInv
<1>5. CASE Decide \/ NoRecipients \/ MailNotice \/ RecordNoticeFails
  BY <1>5 DEF Decide, NoRecipients, MailNotice, RecordNoticeFails, SlackInv, InCycle, hist
<1>6. CASE RecordNotice
  BY <1>6 DEF RecordNotice, SlackInv, InCycle, hist
<1>7. CASE Restart
  BY <1>7 DEF Restart, SlackInv, InCycle
<1>8. CASE Tick \/ UNCHANGED noticeVars
  BY <1>8 DEF Tick, noticeVars, code, hist, SlackInv
<1> QED BY <1>1, <1>2, <1>3, <1>4, <1>5, <1>6, <1>7, <1>8 DEF NoticeNext

\* _merge_local_status and the two writes keep the cycle's copy of notify_status equal to
\* the row between notifications, but for a write that failed.
THEOREM NoticeCopyAgrees == NoticeSpec => []CopyAgrees
<1>1. NoticeInit => SlackInv
  BY DEF NoticeInit, SlackInv, InCycle
<1>2. NoticeInv => NoticeTypeOK
  BY DEF NoticeInv
<1>3. NoticeInv /\ SlackInv => CopyAgrees
  BY DEF NoticeInv, TimeInv, SlackInv, CopyAgrees, InCycle
<1> QED BY NoticeInvariant, SlackKeeps, <1>1, <1>2, <1>3, PTL DEF NoticeSpec
=============================================================================
