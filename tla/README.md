# Specifications of the IoT platform

TLA+ models of the server side of the platform, TLC configurations that check
them on small instances, and proofs checked by TLAPS of what matters most for
every instance. All definitions are translated from the source; `PROJECT.json`
names, for each of them, the lines it stands for.

Contents: [1 The system](#1-the-system) · [2 Modules](#2-modules) ·
[3 Runs and bounds](#3-runs-and-bounds) · [4 What the code does not do](#4-what-the-code-does-not-do) ·
[5 Fairness](#5-fairness) · [6 Proofs](#6-proofs) ·
[7 What is left out](#7-what-is-left-out) · [8 Plan](#8-plan)

Commands, in this directory: `tlc -config Requests.cfg MCRequests`,
`tlapm RequestProofs.tla`.

## 1 The system

Devices speak MQTT over TLS to **EMQX**, which asks **core-api** whether a client
may connect and publish, tells it of connects and disconnects, and forwards
reports to **ingestion-service**, which writes them to **InfluxDB** and marks the
device as seen in **PostgreSQL**. **alert-service** reads both every minute.
Users and operators work through core-api, which also keeps Grafana, MinIO,
step-ca and InfluxDB in step with its tables.

| process | concurrency | what it keeps in memory |
|---|---|---|
| core-api | one process; synchronous handlers on a thread pool; daemon threads for billing, retention, audit purge (daily), the export scheduler (hourly), one thread per ad-hoc export | device access cache, tenant session cache, revoked tokens, failure counters, EMQX API token |
| alert-service | one blocking scheduler, `max_instances=1`, every 60 s | the rules of the cycle, with a copy of each row's `notify_status` |
| ingestion-service | handlers on a thread pool | tenant configuration and device name caches, 300 s |
| PostgreSQL | one schema per tenant, and `public` | - |
| InfluxDB, MinIO, EMQX, Grafana, step-ca | reached over HTTP, each call may fail or time out | - |

The components, what makes each hard, and what makes it correct:

| component | state | hard part | correct when |
|---|---|---|---|
| alert evaluation | alert_events, devices.connection_status | each lookup, insert, send and mark is a transaction or call of its own, in a cycle that may stop anywhere while users edit rules | one open event per rule and device; one mail per change; open events follow the data |
| failure notice | alert_rules.notify_status and the cycle's copy | two copies, writes that fail, a cooldown | notices a cooldown apart, one per outage |
| alert rule API | alert_rules | edits during a cycle | see alert evaluation |
| ingestion | two caches, devices.last_seen_at | stale entries, two stores written in turn | a stopped tenant is refused, a renamed device gets its new name, within the time to live |
| device access cache | `_cache` | table read outside the lock | an answer is at most a time to live old; a deleted device is refused |
| presence | devices.connection_status, its copy in InfluxDB, EMQX rules | events and reports handled in any order, two stores written in turn, rules deleted and made again at each start | the shown status is the status of the session |
| provisioning | provisioning_tokens, devices | a row lock held across step-ca; races for the last place | the limit is kept; nothing registers after a revocation; every request is answered |
| device deletion and archive | devices, data and markers in InfluxDB | several calls after the commit, none of them certain | data is moved, not lost; a name shows whether a device has it |
| device groups | device_groups, group_id columns | check then delete | no reference to a group that is gone |
| CSV export | export_jobs, export_schedules, objects | overlapping threads on one row, deletes, restarts | the link works; nothing is left busy; periodic files join |
| billing | invoices, line items | several commits per invoice, daily worker and overlapping corrections, prices and counts that change under it | items agree with totals; a past month becomes final, with the counts of that month; one mail per month |
| tenant lifecycle | tenants.status, a schema and two organizations | a setup that may fail after each resource, a background teardown, a daily check of trials, names unique in two systems | no resource without a row, no row without its resources; nobody is deleted without a warning |
| realtime tokens | realtime_access_tokens, InfluxDB authorizations | two systems, calls that fail or take effect unheard, handlers without a common lock | every accepted authorization is recorded; none is accepted while suspended |
| sessions (platform, tenant) | revoked_tokens and its cache, session cache, versions, passwords, second factors | check then act, a cache filled outside its lock, best-effort persistence | a revoked token stays revoked; a changed password ends sessions; an administrator remains |
| assistant | agent_pending_actions | action before delete | a confirmation runs once |
| firmware, OTA, simulator | firmware_releases, ota_events, the device's file and version, the simulator's threads and dialogs | object before row, publish before commit, two downloads of one file, windows closed meanwhile | a row for each command answered; a version only with its file |
| SIM management | sim_bindings | check then insert | a binding has a device |
| retention, audit, migrations | - | idempotent or append-only | - |
| Grafana dashboards, UIs, scripts | - | see section 7 | - |

`PROJECT.json` lists every component with its files and status, and under
`hazards` each place where the code could go wrong in a way a test would hardly
reach, with the properties about it or the reason why there is none yet.

## 2 Modules

Each module models one component; its variables carry the names of the tables
and locals they stand for, and its actions are the transactions, calls and
handlers of the code, in the order of the code. A step boundary is put wherever
another process can see or change something: at each commit, each call over the
network, and each entry to and exit from a lock. History variables note what the
code does not keep but a property must speak of: that two handlers overlapped, that
a step failed, when a state last held. No action is guarded by one.

| module | instances | proofs |
|---|---|---|
| AlertEngine, AlertBoard; FailureNotice; TriggerEval | MCAlert | AlertProofs; TriggerProofs |
| ExportJobs; ExportSchedule; Provisioning | MCRequests | RequestProofs |
| TenantLifecycle; DeviceArchive; RealtimeAccess; DeviceAccess | MCTenants | TenantProofs; AccessProofs |
| TenantSessions; PlatformSessions; Portals | MCSessions | SessionsProofs |
| DevicePresence; Ota | MCFleet | FleetProofs |
| Billing | Billing.cfg | BillingProofs |

An MC module extends components that share no state, with all they assume of their
constants. Its variable `side` chooses one of them for a behaviour, and the variables of
the others keep one initial value: the states of a run are the sum of those of its
components, not the product. So that one module can extend several, no two components
of an MC module use a name for different things: a definition carries the name of the
source except where two components would share it (`LifeInit`, `AccessInit`, `ArchiveInit`).

### AlertEngine, AlertBoard (alert-service/app/scheduler.py, db.py)

One tenant: `rule`, `group`, `conn`, `seen`, `events` are the tables, `breach`
says for which pairs of rule and device the trigger holds in InfluxDB (`TriggerEval`
says what that means), and `pc` with `snap`, `memo`, `todo`, `rows`, `row`,
`subject`, `event` are the locals of the cycle. `StartCycle` to `EndCycle` follow
`_evaluate_tenant` (`EvaluateRule`, `LookupEvent`, `CreateEvent`, `NotifyAlert`,
`MarkNotified`, `ResolveEvent`, `NotifyResolved`) and `_check_dead_devices`
(`ScanDevices`, `LoadOfflineRules`, `MarkOffline`, `CheckOfflineRule`).
`EvaluationFails` is the caught exception of one rule, `AbandonCycle` an exception
that leaves the tenant or a restart of the process. `Platform` is everything
around it: rule requests, group changes, reports, disconnects, new readings, time.

`AlertBoard` is the promise of docs/alert-email-triggers.md: alerts are raised and
cleared in turn, and each change is told at once or never. `AlertEngine` refines it
(`ImplementsBoard`): `open` is the set of pairs with an unresolved event, `due` the
notification the cycle is about to make.

### TriggerEval (alert-service/app/evaluator.py)

One rule, `trigger`, and the readings its query returns. `series` holds the readings of each
device under each `device_name` tag, newest first, with ages in steps of the clock, which
are `Pace` seconds long while that rule is considered; `Window`, `ValuesOf`, `CheckTrigger`
and `Verdict` are `evaluate_rule` with its query. The world reports, passes time, renames a
device and changes the group. The algorithm is checked against declarative definitions: a
device that fires a rule is of its target and its newest readings cross. That is not so for
a device whose readings a rename has split over two tables, since the tables are read one
after the other; `OneTable` says so where a property depends on it. A duration of D seconds is
a count of D / 60 readings in the code; `DurationMeansItsMinutes` says for which devices that
is what the document promises (section 4).

### FailureNotice (alert-service/app/scheduler.py:13-57, failure_notice.py)

`db` is `notify_status` in the row, `rule` the copy of the cycle, `prev`, `result`
and `at` the locals of `_notify_and_record`. The two writes to the row may fail; a
restart may come after any of them.

### ExportJobs (core-api/app/services/export_jobs.py, tenant_portal.py:1780-1799)

The row of kind adhoc, with a thread of `run_export_job` per accepted request. The
two sessions are modelled as SQLAlchemy keeps them: attributes are loaded once,
expire at a commit, and only changed ones are written (`Assign`), which is why two
threads on one row do not undo each other's columns. The id of a row and the key of
a file are the worker that made them. `Expire` is the lock timeout, `Crash` the end
of the process with all its threads.

### ExportSchedule (core-api/app/services/export_scheduler.py)

The hourly loop for one tenant, with the row of kind periodic in `job`: `Poll`, the three outcomes of the estimate, the two
commits, the generation, and a restart between any of them, with the endpoint that
changes the schedule and the deletion of the row.

### DeviceAccess (core-api/app/services/device_access.py)

A check looks in the cache (`CacheMiss`; a hit answers at once and changes nothing,
so `Hit` is a predicate), reads the table and stores. Handlers commit a deletion or
registration and call `forget_device` later. `lastIn` and `lastOut` are histories:
when the device was last registered and last not.

### Provisioning (core-api/app/routers/provisioning.py, provisioning_tokens.py)

A request reads its token, counts itself (which takes the row lock: `Holding`),
checks group and device, asks step-ca, inserts and commits; any failure rolls back.
Statements that wait for the lock (`Count`, `Revoke`) are enabled when it is free, so
waiting is being disabled. Unique device ids and `ON DELETE SET NULL` of the group are
those of the schema. `Expire` moves a token past `expires_at`, which the code tests
at the lookup only.

### DeviceArchive (core-api/app/services/grafana.py:604-850, deletion and provisioning)

After the commit a handler makes its calls one by one: `Copy`, `DeleteData`,
`MarkDeleted`, `MarkArchived`, or `Revive` after a registration. Each may fail
(`CallFails`: the code prints and goes on). Data is the set of registrations whose
reports are stored under a name; the marker is the last value, as the dashboards
read it with `last()`. ingestion-service takes the name from its own cache (`cached`, `Known`,
`ForgetName`), which neither a deletion nor a registration invalidates, so `Report` may store
data under a name its device does not bear, or not any more; when the row cannot be read it takes
the device's id for a name, here any label. A name that such a report reached is noted in
`disturbed`, like one on which a call failed or two handlers met. Two markers written in one second have the same time stamp and
replace each other in the order written, so the order of the calls decides.

### Billing (core-api/app/services/billing.py, billing_batch.py, bill_shock.py, routers/billing.py)

The invoices of one tenant. `invoices` is the table with the line items of each row,
`batch` the daily worker and `correction` each administrator's request. `Batch` is
`run_billing_batch`: `Backfill` of the months without a row, `Finalize` of stale drafts,
`Draft` or `Refresh` of the current month, each followed by `ReplaceItems` in a commit of
its own, then `Notify` and `MarkNotified` of bill shock. A correction is `CorrectRead`
(the sum of the rows so far and the difference), `CorrectInsert` and `CorrectItems`. An
aggregation that does not reach InfluxDB counts zero, as in the code. `Outside` is the rest
of the world: data that arrives late, devices, prices that hold from a month on, tax,
thresholds, suspension, the turn of the month, and `Interrupt`, which ends batch and
corrections wherever they are. Prices, tax rate and amounts are counted in halves, so that
both roundings happen.

### TenantSessions (core-api/app/services/tenant_session.py, routers/tenant_auth.py, tenant_mfa.py, tenant_users.py, tenant_portal.py)

The users of one tenant and everything that checks or ends their sessions. A request with a
cookie begins with `check_session`: a hit in the cache lets it in, a miss is `Fetch` (the
row) and `Store` (the cache); then its handler permits and writes (`Permit`, `PermitAdmin`,
`Write`) and drops the entry after the commit (`Forget`). Sign-in, the second factor,
password reset links and the platform's user endpoints follow the same pattern. `calls`
says which endpoints a behaviour uses (`Scenes`), since all at once are too many states.
`CommitFails` is a commit that is answered by an error, after which the handler does not come
to `forget_session`: the second of `reset_password`, when the password is set already, or one
that took effect all the same. `ago` remembers when the database last said what a request is
let in with; `cause` why a cached state is stale (`overtaken` by a change between its reading
and storing, changed by the `console` or with the `tenant`, or `unanswered`: a commit that
failed this way); `muddled` that two calls which change users overlapped or one acted
on a stale session; `crossed` that turning a second factor off met its activation. A user that is
created is never one whose tokens are about (`Known`): ids are UUIDs.

### PlatformSessions (core-api/app/routers/auth.py, mfa.py, services/token_blocklist.py)

The refresh tokens of one administrator: `Refresh` looks for a revocation in `memory` and
then in `stored` (a lookup that fails is a refusal), reads the row,
revokes in memory, stores the revocation (which may fail) and issues a pair; `Logout` does
the two middle steps. The version of the row, raised by `Write` of a new password or of a
second factor turned off, is compared on each use. `Restart` empties the memory. `Portals`
puts the two portals side by side and says what both promise of a second factor.

### TenantLifecycle (core-api/app/routers/tenants.py, signup.py, services/tenant.py, scripts/trial_expiry_check.py)

Rows, schemas and organizations of a few tenants that want the same slug and names. `Create`
and `Verify` (of a sign-up) insert a row and set up the rest within the transaction,
`SetupInflux` to `Finish`; a failure undoes what there is. `DeleteTenant` marks the row and
tears down step by step, as do `Undo` and the daily check, `StartCheck` to `CleanUp`, which
holds the rows it read and ends at the first of them that is gone (reading the expired object
raises). `Crash` ends the process anywhere. `mailed`, `overtaken` and `broken`
are histories: warned since the last extension, extended during a check, and a step that
failed or a deleted tenant set active again.

### RealtimeAccess (core-api/app/services/realtime_access.py, routers/tenant_portal.py, tenants.py)

The InfluxDB authorization of one tenant, with the lock on its row. Handlers issue (`Issue`,
`Replace`, `ForgetOld`, `Create`, `Record`, `Undo`), revoke (`Revoke`, `RevokeAuth`,
`ForgetRow`), switch with the status (`ChangeStatus`, `Switch`, `CommitStatus`) and delete
the tenant (`Delete`, `DropRow`, `DropOrg`). Every call may fail, or take effect and time
out. `stray` holds the authorizations whose answer or removal was lost, `crossing` that two
handlers without a common lock overlapped, `halfway` that the switch took effect and the
status did not follow.

### DevicePresence (simulator/simulator.py, sdk, core-api/app/routers/emqx_events.py, ingestion-service, services/emqx.py)

One device, from its credential files to the status that is shown. `worker` and `client`
are the threads and the paho client of the simulator's `DeviceWorker` (or of a C program);
the session with the broker makes events and the device's own messages reports, which wait
in `reports` until a handler takes any one of them (`Handle`) and writes the database and
then InfluxDB. `Setup` is `ensure_emqx_rules`, which deletes and makes the rules again,
during which reports are lost (`Lost`), and reads the list of connected clients. Every step of
it may fail: a rule or bridge that is not deleted stays, a name that exists is refused, bridges
that are not made end the setup (`failed`), a rule that is not made is only logged, and a list
that fails or misses the device (it reads 1000 clients) ends it `unlisted`. That the broker
does not delete a bridge while its rule exists is the comment of emqx_setup.py:223. `DeadCheck`
is the alert service's. A store's `doubt` notes a report handled out of order or lost.

### Ota (core-api/app/routers/firmware.py, simulator/simulator.py, sdk/c, sdk/python)

`StoreObject` and `InsertRelease` upload a release; `Dispatch` and `DispatchToGroup` publish
to each device and `Commit` the rows of `ota_events` at the end (`Crash` may come first). A
device of the SDKs downloads in its callback. The simulator's window takes a command from
its queue (`TakeCommand`, which skips it while a dialog is open) and starts a thread that
opens, writes and checks the file and posts its outcome to the queue, also when the dialog
was closed or the device removed in the meantime (`loose`). What a removed device leaves in the
queue is taken under the number of a worker that is gone (`TakeLeftover`).

## 3 Runs and bounds

| run | instance | shows |
|---|---|---|
| alert | 1 rule, 2 devices, 4 disturbances; cooldown 2, clock 5, 2 failing writes; 1 device of 1 name under 8 rules at 40 s steps; 2 devices of 2 names and a group under 5 rules at 120 s steps | `AtMostOneOpen`, `MailedOnce` while rules are edited and cycles cut short; the refinement of `AlertBoard`; `BoardSettles` and `SilentDevicesGoOffline` once disturbances stop; `CopyAgrees`, `OneNoticePerOutage` of a flapping channel; `ConsecutiveIsNewestN`, `DurationMeansItsMinutes`, `AlertHasCulprit` over every history of readings |
| billing | 2 administrators, 3 months, 3 events of any kind, 1 priced item that changes, tax of 1 or 2 halves | `ItemsAddUp`, `TotalsAgree`, `ProvisionableFromThen`, `OneMailPerMonth`, `FinalRowsStay`, and `PastMonthsGetFinal` |
| fleet | 3 reports, 1 cut or failing step of a setup, 3 clicks, 1 fault; simulator and C device, 2 versions, 2 calls, 2 downloads, 1 click, 1 fault | `StoresFollowTheSession`, `FlagHasLoop`; `LedgerIsTrue`, `VersionHasItsFile` |
| requests | 2 export threads, 2 deletes, 1 restart, 1 storage fault; intervals 1 and 2, clock 6, 2 failures; 2 tokens of 1 place, 2 devices, 1 group, 2 requests, 1 deletion, 1 restart | `RowFileExists`, `KeepsPreviousFile`, `LockIsFreed`; `FilesJoin`; `LimitKept`, `EveryRequestAnswered` |
| sessions | 2 users, 2 overlapping requests, time to live 1, 7 scenes of 1 to 4 calls; 2 callers, 3 pairs, 3 calls, 1 restart | `StaleHasCause`, `AdminRemains`, `AcceptedIsRecent`; `SpentIsSpent`, `RaiseEndsSessions`; `SecondFactorUsable` of both portals |
| tenants | 2 tenants, 1 slug, 2 names, 2 handlers and the check, 4 calls, 3 days; 2 authorizations, 4 requests; 2 checks of 1 device, times to live 2 and 1, 2 changes, 1 restart; 2 devices, 2 names, 2 registrations, 1 fault | `ResourcesFollowTheRow`, `WarnedBeforeDeletion`; `SuspendedCannotRead`, `LiveAuthIsRecorded`; `AllowIsRecent`, `ForgetWorks`; `MarkerFollows`, `DataFollows` |

Why these are enough. `Max...` constants bound what the environment may do, never a
step of the program: disturbances, changes, deletes, calls, crashes, faults. The
properties are about pairs (two events of a rule, two threads of a row, two requests
for a place, a check and a change, two administrators), so two actors of a kind reach
every pair. Four disturbances raise, cut short, clear and edit within one behaviour of
the alert cycle; with fewer a RESOLVED message after a cut-off alert does not occur. One
rule is enough there because rules share only the group memo, which two dead devices of
one rule use as well. Three months are needed for a batch that missed one and must
backfill it while the next is a draft. The clock bounds leave room for at least two times
to live, cooldowns or intervals; `Period` 2 and `Window` 1 give a trial a day before, in
and after its warning. Two versions suffice for two downloads of one file. The scenes of
`TenantSessions` put together the calls that touch the same fields. One tenant is enough
except for `TenantLifecycle`, because every table, cache key and bucket is per tenant.
A lost connection and a failing step of a setup share
one bound in `fleet` because each of them already reaches every store; both in one behaviour are
left to the theorem. Where a property is also proved (section 6), no bound is left.

`CHECK_DEADLOCK FALSE` stands where the bounds really end the behaviour (no requests,
changes or clock left); the alert and session models never stop. Symmetry is used in the
runs without liveness: users and requests in `sessions`, tenants, names and handlers in
`tenants`, versions in `fleet`.

## 4 What the code does not do

Runs with `expect: violation` state what a document, docstring or comment of the
repository says, and TLC shows a behaviour of the code that does otherwise. Each is a
finding in `PROJECT.json`, with the quotation.

| run | says | what happens |
|---|---|---|
| alert_rearm | an offline alert is not sent again until the device reconnects | after a reconnect it is not sent either: nothing resolves the first event |
| archive_lost | all data is renamed and the original deleted | the original is deleted although copying failed |
| export_gap | periodic files leave no gap | a failed, refused or cut off period is in no file |
| fleet_dialog | a download whose dialog was closed posts nothing | it posts its outcome, which ends the guard of the next one |
| sessions_console | changes made in the process take effect at once | a role or a deletion of the console waits for the cache to expire |
| tenants_name | names of organizations are ids, so that a name can be used again | Grafana's is the display name: a setup fails while one of that name is left |

Other hazards the code does not exclude have no run of their own: the models contain the
behaviour and a history variable marks it, so that the properties say exactly under which
condition they stop to hold. Two corrections of one month that overlap add the same
difference twice (`clashed`); a crash between an invoice and its items leaves them apart
until a correction (`torn`); two administrators who remove each other leave none
(`muddled`); a refresh token whose revocation was not stored is good again after a restart
(`unstored`); a status that changes while a token is issued leaves it readable
(`crossing`); reports that go by a cached name put the data of one device under the name of
another (`disturbed`); a password reset whose second commit fails leaves the session of the
old password in the cache (`unanswered`); a setup of the broker whose list or rule failed is not
made up for before the next start (`unlisted`, `rules`). `PROJECT.json` lists all of them under `hazards`.

The document and the code also differ on what a duration is: docs/alert-email-triggers.md:69
has every sample of the past D minutes cross, so that a sample that leaves the D minutes can
start an alert; evaluator.py:101-103 counts the newest D / 60 samples, so that it cannot
(`OldReadingsFireNothing`, section 6), and so that a device that reports every 40 s is judged
by less than D minutes. `DurationMeansItsMinutes` is the part that holds: for whole minutes, a
device that reports at most once a minute and readings of one table, no younger reading fails
to cross when the rule fires.

## 5 Fairness

- `MCAlert!MCFairSpec`: weak fairness of `Step`, the steps the alert service takes
  (`AlertEngine!FairSpec`). The scheduler starts a cycle each minute and the cycle is
  straight-line code with time limits on its calls. Failures, crashes and everything in
  `Platform` stay unfair; they are bounded, so the liveness properties speak of the time
  after the last one.
- `Billing!Spec`: weak fairness of `Batch`. The worker is started with the process and again
  every day, and a batch is straight-line code. Interruptions and the turn of the month are
  not fair, and a batch may fail as often as `MaxEvents` lets it.
- `MCRequests!MCFairSpec`: weak fairness of each export thread (its code has no waits
  without time limit) and of `Expire`, which is the clock passing the timeout; requests and
  deletes are not fair. Weak fairness of each provisioning request's steps: the call of
  step-ca has a time limit and bounded retries, so it ends in `Issue` or `IssueFails`. It is
  enough for a request that waits for the lock only because the holders finish and are
  finitely many in a run; PostgreSQL queues waiters, so no holder overtakes for ever.
- The other runs check safety only and assume no fairness.

## 6 Proofs

Each proof module extends its components' modules and defines inductive invariants whose
parts are named for what they say. All
theorems hold for every value of the constants allowed by the named `ASSUME` of the module,
and for any bound. What the assumptions say beyond types: values that stand for "none"
(`None`, `Absent`, `Blank`, `Nobody`, `Never`, `Null`) are none of the values proper; sets that are
counted are finite (`Requests` of the tenants' portal, `Devices` of `Provisioning`); there is
some tax rate and some interval; the daily check is not a request handler; a warning comes
within the trial; a reading is not forgotten before the query's window is over. Every invariant, every
action property and the refinement that the passing runs check is the subject of a theorem;
their five liveness properties are not.

**AlertProofs: the engine.** `EngineInv == TypeOK /\ AtMostOneOpen /\ InHand`. The table alone
is not inductive: a cycle about to insert must know that its subject has no open event.
`InHand` says so for each place in the cycle, and no other actor inserts or reopens
events, so what the cycle read stays true. `EngineMailedOnce` and
`EngineResolvedFollowsAlert` follow with the counters of `mail`. For the refinement
(`EngineImplementsBoard`) the event in hand must be one of the subject in hand (`OwnEvent`);
then every step is one of `AlertBoard` or a stutter, where the numbers of events raised and
told are cardinalities that grow by one exactly at the insert and at a mark.

**AlertProofs: the notices.** `NoticeInv == NoticeTypeOK /\ TimeInv /\ OutageInv`. `TimeInv`: the
time in the row, in the cycle's copy and in `prev` is that of the last notice, unless it
could not be recorded. `OutageInv`: while an outage was told, each copy says failed,
unless a write was lost. The two action properties follow at `MailNotice`. `CopyAgrees`
adds `SlackInv`: until the end of the cycle the copy and the row take the same results of Slack.

**TriggerProofs.** `TriggerInv`: tables are newest first (`NewestFirst`) and no two readings of a
device are of one time (`Apart`). The readings within a window are then the first of each
table (`WindowIs`), and the list `_check_trigger` sees is those tables one after the other:
the library builds it with a recursive function, of which `FlattenFirst` and `FlattenOnly` say
by induction over the number of tables what it begins with and what it is when one table
has all. `RunReaches` characterizes the leading run, and `MinutesOlder` (by
induction over a table) gives the age of a reading from its place, for `DurationAsksForItsMinutes`. `AlertAlwaysHasCulprit` supposes that a
consecutive rule counts at least one reading: the forms of both portals ask for one or more,
the API does not check it, and a rule of zero fires on anything.

**RequestProofs: exports.** `ExportInv` adds to the type invariant that ids and keys are those
of workers past their insert or upload (`IdInv`, `FileInv`), what a session holds at each
step (`SeenInv`), and that a session that loaded a file knows the row has one
(`KeepInv`). The heart is `FileInv`: every key is uploaded once, by a worker that is past
its upload, so a thread that removes the old or the new file never removes the one the
row names, however many threads overlap. For the schedule `JoinInv` says where `last_run_at` and
the period in work stand against the end of the last file (`LastFile`), and that the job that is
queued is the one of that period (`ThisPeriod`), from which each file begins where the last ended.

**RequestProofs: provisioning.** `ProvInv` says that two requests never hold one token row
(`LockInv`) and that a holder has room (`RoomInv`): the count was below the limit when it
took the lock and cannot change under it. `LimitKept` then survives the insert, with the
finite-set lemmas of the library for the devices of a token.

**TenantProofs: the lifecycle.** `LifeInv == LifeTypes /\ WorkInv /\ ResourceInv`. `WorkInv`: a row
that is a draft has exactly one worker in its setup, and the check never holds a draft, so
nobody tears down what is being built. `ResourceInv` follows each resource of a tenant for
which no step failed: what a setup has passed is there, a live row has all three and no
teardown at work on it, and whatever is left of a deleted one has a worker that still comes to
it. `WarnInv`: wherever a trial says it was warned (in the row, in what the check holds, in
the note it is about to make), the mail went out since the last extension, or the extension
came during the check.

**TenantProofs: the archive.** `ArchiveInv` gives each undisturbed name its own invariant,
`NameInv`: one handler and one device at a time, what the handler at work has done so far
(`StageInv`), data on the right side once nothing has still to be moved, and the marker right
once nobody is at work. A report under a name its device does not bear leaves `NameInv` nothing to
say of that name, and the names of others as they were.

**AccessProofs: authorizations.** `RealtimeInv`: handlers that did not cross are alone of their
kind (`Apart`), each knows at its place what the record, the lock and the authorization in its hand are
(`HandlersInv`), every authorization that exists is the record's or in somebody's hand or
stray (`OwnInv`), and while suspended the recorded one is off unless a resumption is about to
say so (`StopInv`). A call that times out after it took effect is why the two properties
cannot be had from the record alone.

**AccessProofs: the cache of devices.** `AccessInv` bounds entries and running checks by the histories
(`EntryInv`, `CheckInv`): the expiry is counted from before the read, which is why a slow
database does not make answers older. `FreshInv` says that a check that no
`forget_device` has overtaken holds what the table says.

**SessionsProofs: users of a tenant.** `AdminInv` holds `Safe` as long as `muddled` is false: at most one
call changes users (`OneManages`); a cached role with no cause to be stale is the user's role
or its handler is about to drop it (`CacheIsTrue`), hence the caller let in is what the cache
says (`ManagerOk`); and after the test of the handler somebody other than its target is an
administrator, which no other step can undo before the write. `StaleHasCause` is inductive
beside the types of `AdminInv`: each step that changes what the database says of a user marks
the entry it leaves behind or has it to drop (`Drops`), and only `forget_session` or a commit
that fails (`CommitFails`, which names its cause) ends that.
`AcceptedIsRecent` needs `Fresh`, by which the age of a cached state and the time it has left add up
to no more than the time to live, also for what a request has read and not yet stored;
`AgoOk`, by which the history says zero of what holds now; and `NumbersOk`, by which passwords to be
set are counted before they are needed. `TotpInv` adds to its property that an activation
is of somebody who signed in and whose secret was there (`ActivationOk`).

**SessionsProofs: tokens of the platform.** `PlatformInv` has three parts beside types. `SpentInv`
says where a revocation can be found at each step of a call: in memory, in the table, or in
neither once the token has expired; only a restart takes memory away, which is why the
exception of the property names rows that were not stored. `RaiseInv`: versions count the
changes, in the row, in pairs and in calls. `SecretInv`: a second factor that is on, or about
to be, has its secret.

**FleetProofs: what is shown.** `StoreInv` follows each of the two stores. `InOrderOf`: what a report
wrote, and whatever was written after it, has marked all reports before it as overtaken.
`Right`: the last word among the reports is what the broker knows, and a store that has heard it
says the same or is in doubt. `Behind` is the one time it may not: a live session whose connection
no rule may have reported, while a setup is not over, or ended without listing it, or the rule
for the broker's events is missing. A step of a setup may fail anywhere, so nothing is assumed
of the rules and bridges it leaves. `FlagInv` says which threads of the simulator can meet: the flag is
set by the one that connects when it is through (`FlagMeansIdle`), only a worker with the
flag is left (`NoLeaverYet`), so a meeting needs a second click and is noted
(`MeetingIsNoted`); the one that waits has a network thread (`WaitHasLoop`) and the one that
leaves has cleared the flag (`LeaverClears`).

**FleetProofs: firmware.** `LedgerInv == OtaShape /\ Numbered /\ Pending /\ LedgerIsTrue`. An answer is
compared with the rows of its call, so calls must not share a number (`Numbered`: every row
stored before a call carries a smaller one), and what a transaction is about to commit must
be sent already (`Pending`: publish comes before the row, and the rows are those of the
devices noted as told). `FileInv`, as long as no download is `loose`: there is one download, or one
outcome in the queue, behind the dialog and only left-over events without a device
(`OneDownload`), what it has written is in the file
(`Written`), and a reported success finds the whole version there (`Arrived`).

**BillingProofs.** `BillingInv == StructInv /\ MoneyInv /\ MailInv /\ KeptInv`. `StructInv` says where the
batch and the corrections are and that a month has one row beside its corrections. `MoneyInv`:
in a final month the items differ from the subtotals by exactly what the batch has still to
write (`Gap`), and nothing unless a correction's items are due; a clean correction is the only writer of its
month and what it holds fits. `MailInv`: a mail that went out is noted in a row, or the batch is
about to note it. `KeptInv` follows the preserved number of devices from the count through draft,
backfill and final row: it is always one that was counted in that month or before, or the zero
of a batch that was cut off. Sums over rows are recursive functions here, not `RECURSIVE`
operators; `AllNumbers` (a set with 0 and every successor is all of `Nat`, from the
well-foundedness of `<`) takes the place of induction with an operator as parameter, and
`SumsExist` and `SumsAgree` derive from it that the sums are what their equations say.

Theorems that state what the runs do not check as a property: the type invariants and the
inductive invariants that are theorems of their own, `OldReadingsFireNothing`, `ResolvedFollowsAlert`, `SpacedByCooldown`,
`DoneHasFile`, `DenyIsRecent`, `GroupsExist`, `NoneAfterRevoke` and `SecretIsThere`.

Only model-checked: liveness (`BoardSettles`, `SilentDevicesGoOffline`, `LockIsFreed`,
`EveryRequestAnswered`, `PastMonthsGetFinal`), since the prover has no rules for fairness and
ENABLED; and the runs that expect a violation, whose counterexample is the result.

## 7 What is left out

- Text of messages, documents, queries, CSV, dashboards and logs.
- `DeviceAccess`: EMQX's own table of sessions, `kick_client` (best effort) and EMQX's
  own cache of authorizations, which is external and on by default; the tenant status
  that /emqx/auth reads first. So the model says how stale the answers of core-api are,
  not how long a connected device goes on.
- `Provisioning`: the creation of tokens (the initial state has them), the status of the
  tenant (the handler does not test it), and the guard of `delete_group` that refuses a
  group with active rules (left open: a group may always go).
- `DeviceArchive`: a tenant without InfluxDB organisation, for which no calls are made;
  concurrent purges during one retirement are bounded by the two handlers. Renaming and the
  bulk endpoints of the registry.
- `AlertEngine`: the body of the rule beyond target, kind and activity; more than one
  tenant; two processes of the service (the scheduler forbids it).
- `Billing`: the other item keys, which are counted as one of the three kinds modelled. `TenantLifecycle`:
  the content of mails and of the schema.
- `TenantSessions`, `PlatformSessions`: signatures and expiry of tokens (an expired one is
  not presented), and the failure counter of rate_limiter.py, which slows a caller down and
  resets with the process.
- The tenant configuration cache of ingestion (tenant_cache.py:37-64), which lets a suspended
  tenant write for its time to live. In the cache of names a lookup and its storing are one
  step: an entry stored late is as one that was stored in time and has not expired. Reports of a deleted device after its cached name expired go under its id, a name
  nobody else has, and are not followed.
- `DevicePresence`: a thread that still connects or leaves after its worker was stopped or
  removed.
- The assistant: its retrieval and language model are external; a pending action is deleted
  after it was carried out, so a confirmation sent twice may run twice (see the hazard).
- SIM management passes calls through to SORACOM, with one row that binds a SIM. Retention is
  a daily idempotent push; the audit log is append-only; migrations run once before the
  service starts.
- Dashboards, user interfaces, nginx and EMQX configuration and scripts have no state of
  their own that anything else reads. This is most of the source that is not mapped:
  dashboard documents in grafana.py, queries and validation in tenant_portal.py, forms in
  simulator.py.

## 8 Plan

Done: alert evaluation and its notices, exports, device access, provisioning, archive,
billing, sessions of both portals, tenant lifecycle, realtime tokens, presence, firmware.
In this order next:

1. Composition through what components share: `TenantLifecycle` with `RealtimeAccess` and
   the tenant sessions (`tenants.status`), `DevicePresence` with `AlertEngine`
   (`connection_status`), `ExportSchedule` with `ExportJobs` (`run_export_job`).
2. `DeviceRegistry`: renaming and bulk registration with the ingestion caches and the group
   guard; `PendingActions`; the SIM binding.
