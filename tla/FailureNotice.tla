----------------------------- MODULE FailureNotice -----------------------------
(* Telling the administrators that Slack does not deliver: scheduler.py        *)
(* _notify_and_record, failure_notice.py decide_failed_channels and the two    *)
(* writes of db.py, for one alert rule over many evaluation cycles.  A cycle   *)
(* reads notify_status once and then carries a local copy of it, while each    *)
(* write of the column can fail on its own and the service can be restarted.   *)
EXTENDS Integers

CONSTANTS
    COOLDOWN,   \* least distance of two notices about a rule, in clock steps
    MaxNow,     \* bound on the clock
    MaxFaults,  \* bound on failed writes, missing recipients and restarts
    NoNotice    \* no notice yet

ASSUME NoticeConstants ==
    COOLDOWN \in Nat \ {0} /\ MaxNow \in Nat /\ MaxFaults \in Nat /\ NoNotice \notin Nat

Outcomes == {"none", "ok", "failed"}    \* of the Slack channel
Time == 0..MaxNow
Status == [slack: Outcomes, at: Time \cup {NoNotice}]

VARIABLES
    now,        \* the clock
    db,         \* alert_rules.notify_status: slack.ok and admin_notice.at
    copy,       \* the same in the cycle's own copy of the row
    stage,      \* where the cycle is
    prev,       \* previous_status, read before the notification
    result,     \* this notification's Slack result
    at,         \* now of _notify_admins_of_failure
    faults,     \* faults so far
    last,       \* history: decision time of the last notice mailed
    unrecorded, \* history: that notice was not recorded
    told,       \* history: a notice was mailed in the outage that is going on
    lost,       \* history: the last Slack result was not recorded
    stale,      \* history: the cycle read the row while the last result was lost
    blind       \* history: stale when this notification was sent

code == <<db, copy, stage, prev, result, at>>
hist == <<last, unrecorded, told, lost, stale, blind>>
noticeVars == <<now, faults, code, hist>>

Unknown == [slack |-> "none", at |-> NoNotice]

NoticeInit == /\ now = 0 /\ faults = 0 /\ stage = "idle"
              /\ db = Unknown /\ copy = Unknown /\ prev = Unknown
              /\ result = "none" /\ at = 0 /\ last = NoNotice
              /\ unrecorded = FALSE /\ told = FALSE /\ lost = FALSE
              /\ stale = FALSE /\ blind = FALSE

-----------------------------------------------------------------------------
(* One notification of the rule *)

\* get_active_alert_rules of the next cycle.
ReadRow ==
    /\ stage \in {"idle", "cycle"}
    /\ copy' = db /\ stage' = "cycle" /\ stale' = lost
    /\ UNCHANGED <<now, faults, db, prev, result, at, last, unrecorded, told, lost, blind>>

\* notify(): "none" when the rule has no Slack URL.
Notify(r) ==
    /\ stage = "cycle"
    /\ prev' = copy /\ result' = r /\ stage' = "sent"
    /\ blind' = stale
    /\ told' = (told /\ r # "ok")
    /\ UNCHANGED <<now, faults, db, copy, at, last, unrecorded, lost, stale>>

MergeSlack(s, r) == IF r = "none" THEN s ELSE [slack |-> r, at |-> s.at]

\* record_notify_status (its failure is swallowed), then _merge_local_status.
\* (First the slip of a copy left as it was, for the mutation runs.)
MergedForgets(s, r) == s
Merged(s, r) == MergeSlack(s, r)

RecordStatus ==
    /\ stage = "sent"
    /\ db' = MergeSlack(db, result)
    /\ copy' = Merged(copy, result)
    /\ stage' = "recorded"
    /\ lost' = (lost /\ result = "none")
    /\ stale' = (stale /\ result = "none")
    /\ UNCHANGED <<now, faults, prev, result, at, last, unrecorded, told, blind>>

RecordStatusFails ==
    /\ stage = "sent" /\ result # "none" /\ faults < MaxFaults
    /\ faults' = faults + 1
    /\ copy' = Merged(copy, result)
    /\ stage' = "recorded"
    /\ lost' = TRUE /\ stale' = FALSE
    /\ UNCHANGED <<now, db, prev, result, at, last, unrecorded, told, blind>>

\* Slip for the mutation runs: every failure counts once the cooldown is over.
TurnedToFailingOnAnyFailure(p, r, t) ==
    r = "failed" /\ (p.at = NoNotice \/ t - p.at >= COOLDOWN)

\* decide_failed_channels
TurnedToFailing(p, r, t) ==
    /\ r = "failed"
    /\ p.slack # "failed"
    /\ p.at = NoNotice \/ t - p.at >= COOLDOWN

Decide ==
    /\ stage = "recorded"
    /\ at' = now
    /\ stage' = IF TurnedToFailing(prev, result, now) THEN "notice" ELSE "cycle"
    /\ UNCHANGED <<now, faults, db, copy, prev, result, hist>>

\* No deliverable address, or the lookup of the contacts raises: nobody is told.
NoRecipients ==
    /\ stage = "notice" /\ faults < MaxFaults
    /\ faults' = faults + 1 /\ stage' = "cycle"
    /\ UNCHANGED <<now, db, copy, prev, result, at, hist>>

\* send_delivery_failure_email; an SMTP error counts as sent.
MailNotice ==
    /\ stage = "notice"
    /\ stage' = "mailed" /\ last' = at /\ told' = TRUE /\ unrecorded' = FALSE
    /\ UNCHANGED <<now, faults, db, copy, prev, result, at, lost, stale, blind>>

\* record_admin_notice, then the local copy.
RecordNotice ==
    /\ stage = "mailed"
    /\ db' = [slack |-> db.slack, at |-> at]
    /\ copy' = [slack |-> copy.slack, at |-> at]
    /\ stage' = "cycle"
    /\ UNCHANGED <<now, faults, prev, result, at, hist>>

RecordNoticeFails ==
    /\ stage = "mailed" /\ faults < MaxFaults
    /\ faults' = faults + 1 /\ stage' = "cycle" /\ unrecorded' = TRUE
    /\ UNCHANGED <<now, db, copy, prev, result, at, last, told, lost, stale, blind>>

\* The service restarts: the local copy is gone, the row stays.
Restart ==
    /\ stage # "idle" /\ faults < MaxFaults
    /\ faults' = faults + 1 /\ stage' = "idle"
    /\ unrecorded' = (unrecorded \/ stage = "mailed")
    /\ lost' = (lost \/ (stage = "sent" /\ result # "none"))
    /\ UNCHANGED <<now, db, copy, prev, result, at, last, told, stale, blind>>

Tick ==
    /\ now < MaxNow /\ now' = now + 1
    /\ UNCHANGED <<faults, code, hist>>

NoticeNext == \/ ReadRow
              \/ \E r \in Outcomes : Notify(r)
              \/ RecordStatus \/ RecordStatusFails \/ Decide
              \/ NoRecipients \/ MailNotice \/ RecordNotice \/ RecordNoticeFails
              \/ Restart \/ Tick

NoticeSpec == NoticeInit /\ [][NoticeNext]_noticeVars

-----------------------------------------------------------------------------
(* Properties *)

\* Shapes; the clock never runs behind a recorded time.
NoticeTypeOK ==
    /\ now \in Time /\ faults \in 0..MaxFaults
    /\ stage \in {"idle", "cycle", "sent", "recorded", "notice", "mailed"}
    /\ db \in Status /\ copy \in Status /\ prev \in Status
    /\ result \in Outcomes /\ at \in 0..now /\ last \in 0..now \cup {NoNotice}
    /\ {unrecorded, told, lost, stale, blind} \subseteq BOOLEAN
    /\ \A s \in {db, copy, prev} : s.at # NoNotice => s.at <= now

\* The copy a cycle carries agrees with the row at every point between two
\* notifications, unless the row could not be written.
CopyAgrees == stage = "cycle" => /\ copy.slack = db.slack \/ lost
                                 /\ copy.at = db.at \/ unrecorded

\* The promise of failure_notice.py: two notices about a rule are an hour apart,
\* however the channel flaps, within a cycle and across cycles and restarts.
\* Only a notice that could not be recorded lets the next one come earlier.
SpacedByCooldown ==
    [][(MailNotice /\ last # NoNotice /\ ~unrecorded) => at - last >= COOLDOWN]_noticeVars

\* One notice per outage: while Slack keeps failing a second notice is mailed
\* only if the cycle read a row whose last result had not been recorded.
OneNoticePerOutage == [][MailNotice => (~told \/ blind)]_noticeVars
=============================================================================
