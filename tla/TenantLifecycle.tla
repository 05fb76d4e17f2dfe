---------------------------- MODULE TenantLifecycle ----------------------------
(***************************************************************************)
(* A tenant from its creation to its teardown: routers/tenants.py,         *)
(* routers/signup.py, services/tenant.py and the daily check of trials,    *)
(* scripts/trial_expiry_check.py.  A tenant is a row of the database, a    *)
(* schema, an organization of InfluxDB and one of Grafana; the three last  *)
(* are made while the transaction that adds the row is open, and removed   *)
(* one after the other after the row's status has become deleted.  The     *)
(* slug and the display name are unique among the rows, and the name among *)
(* the organizations of Grafana.                                           *)
(***************************************************************************)
EXTENDS Integers, FiniteSets
CONSTANTS Tenants, Slugs, Names, Emails, Handlers, Checker, MaxDay, Period, Window, MaxCalls, Nobody
ASSUME TenantLifecycleAssumption ==
    /\ MaxDay \in Nat /\ MaxCalls \in Nat /\ Checker \notin Handlers
    /\ Nobody \notin Nat \cup Tenants \cup Names
    /\ Window \in Nat /\ Period \in Nat /\ Window < Period
VARIABLES status, slug, name,   \* of each tenant's row; draft: inserted and not committed
          trial,                \* trial_expires_at, trial_warning_sent_at, trial_extension_requested_at
          schemas, influx,      \* the tenants that have a schema, an organization of InfluxDB
          grafana,              \* the name of each tenant's organization of Grafana
          pending,              \* the sign-up that waits for the confirmation of an address
          worker,               \* the handlers, and the daily check
          sweep,                \* the check: the day it began, the tenants left, the rows it holds
          day, calls,
          mailed,               \* history: warned since the trial was last extended
          overtaken,            \* history: extended while the check was at work
          broken                \* history: a step failed or was lost, or a deleted tenant was set active again
rows == <<status, slug, name>>
outside == <<schemas, influx, grafana>>
history == <<mailed, overtaken, broken>>
lifeVars == <<rows, trial, outside, pending, worker, sweep, day, calls, history>>

Workers == Handlers \cup {Checker}
Live == {"active", "suspended"}
Free == [at |-> "idle", op |-> "none", t |-> Nobody, email |-> Nobody]
Busy(w) == worker[w].at # "idle"
Go(w, at) == [worker EXCEPT ![w].at = at]
\* The check goes on with the next tenant; a request is over.
End(w) == worker' = [worker EXCEPT ![w] = IF w = Checker THEN [Free EXCEPT !.at = "check"] ELSE Free]
Broken(t) == broken' = broken \cup {t}
Has(t) == status[t] \in {"active", "suspended", "deleted"}
\* An insert waits for another that is under way, and fails for one that is committed.
NameFree(n) == \A t \in Tenants : name[t] # n
SlugFree(s) == \A t \in Tenants : slug[t] # s

LifeInit ==
    /\ status = [t \in Tenants |-> "none"]
    /\ slug = [t \in Tenants |-> Nobody] /\ name = slug /\ grafana = slug
    /\ trial = [t \in Tenants |-> [due |-> Nobody, warned |-> FALSE, asked |-> Nobody]]
    /\ schemas = {} /\ influx = {} /\ pending = [e \in Emails |-> Nobody]
    /\ worker = [w \in Workers |-> Free]
    /\ sweep = [now |-> Nobody, left |-> {}, held |-> [t \in Tenants |-> Nobody]]
    /\ day = 0 /\ calls = 0
    /\ mailed = {} /\ overtaken = {} /\ broken = {}

Call == calls < MaxCalls /\ calls' = calls + 1

-----------------------------------------------------------------------------
(* create_tenant, signup, verify_signup *)

Insert(h, t, s, n, due, r) ==
    /\ ~Busy(h) /\ status[t] = "none" /\ SlugFree(s) /\ NameFree(n)
    /\ status' = [status EXCEPT ![t] = "draft"]
    /\ slug' = [slug EXCEPT ![t] = s] /\ name' = [name EXCEPT ![t] = n]
    /\ trial' = [trial EXCEPT ![t].due = due]
    /\ worker' = [worker EXCEPT ![h] = r]
    /\ UNCHANGED <<outside, pending, sweep, day, history>>

Create(h, t, s, n) ==
    Call /\ Insert(h, t, s, n, Nobody, [Free EXCEPT !.at = "influx", !.op = "create", !.t = t])

\* The mail is sent before the commit. An earlier sign-up of the address is replaced.
Signup(e, s, n) ==
    /\ Call
    /\ \A t \in Tenants : Has(t) => slug[t] # s
    /\ \A f \in Emails \ {e} : pending[f] = Nobody \/ pending[f].slug # s
    /\ pending' = [pending EXCEPT ![e] = [slug |-> s, name |-> n, expires |-> day + 1]]
    /\ worker' = [w \in Workers |-> IF worker[w].email = e THEN [worker[w] EXCEPT !.email = Nobody]
                                    ELSE worker[w]]
    /\ UNCHANGED <<rows, trial, outside, sweep, day, history>>

Verify(h, t, e) ==
    /\ Call /\ pending[e] # Nobody
    /\ IF pending[e].expires < day
       THEN pending' = [pending EXCEPT ![e] = Nobody]
              /\ UNCHANGED <<rows, trial, outside, worker, sweep, day, history>>
       ELSE Insert(h, t, pending[e].slug, pending[e].name, day + Period,
                   [at |-> "influx", op |-> "verify", t |-> t, email |-> e])

\* The transaction is rolled back.
Rollback(t) ==
    /\ status' = [status EXCEPT ![t] = "gone"]
    /\ slug' = [slug EXCEPT ![t] = Nobody] /\ name' = [name EXCEPT ![t] = Nobody]

\* Each step of setup_tenant may fail, before or after it took effect. What is there
\* by then stays.
GiveUp(h) ==
    /\ Rollback(worker[h].t) /\ Broken(worker[h].t) /\ End(h)
SetupInflux(h) ==
    LET t == worker[h].t IN
    /\ worker[h].at = "influx"
    /\ \/ influx' = influx \cup {t} /\ worker' = Go(h, "schema") /\ UNCHANGED <<rows, broken>>
       \/ influx' \in {influx, influx \cup {t}} /\ GiveUp(h)
    /\ UNCHANGED <<trial, schemas, grafana, pending, sweep, day, calls, mailed, overtaken>>
SetupSchema(h) ==
    LET t == worker[h].t IN
    /\ worker[h].at = "schema"
    /\ \/ schemas' = schemas \cup {t} /\ worker' = Go(h, "grafana") /\ UNCHANGED <<rows, broken>>
       \/ GiveUp(h) /\ UNCHANGED schemas
    /\ UNCHANGED <<trial, influx, grafana, pending, sweep, day, calls, mailed, overtaken>>

\* create_grafana_org takes the display name.
Clash(h) == worker[h].at = "grafana" /\ \E u \in Tenants : grafana[u] = name[worker[h].t]
SetupGrafana(h) ==
    LET t == worker[h].t  Made == [grafana EXCEPT ![t] = name[t]] IN
    /\ worker[h].at = "grafana"
    /\ \/ ~Clash(h) /\ grafana' = Made /\ worker' = Go(h, "finish") /\ UNCHANGED <<rows, broken>>
       \/ grafana' \in {grafana} \cup {g \in {Made} : ~Clash(h)} /\ GiveUp(h)
    /\ UNCHANGED <<trial, schemas, influx, pending, sweep, day, calls, mailed, overtaken>>

\* Slip for the mutation runs: a sign-up that fails leaves what was made.
LeaveAll(h) == End(h)
\* What verify_signup does once its transaction is rolled back.
Undo(h) == worker' = [worker EXCEPT ![h].at = "dropSchema", ![h].email = Nobody]

\* The organizations are recorded and the row is committed, for a sign-up with its first
\* user and without the pending row. A sign-up that fails here tears down what was made.
Finish(h) ==
    LET r == worker[h] IN
    /\ r.at = "finish"
    /\ \/ /\ status' = [status EXCEPT ![r.t] = "active"]
          /\ pending' = [e \in Emails |-> IF e = r.email THEN Nobody ELSE pending[e]]
          /\ End(h) /\ UNCHANGED <<slug, name, broken>>
       \/ /\ Rollback(r.t) /\ UNCHANGED pending
          /\ IF r.op = "verify" THEN Undo(h) /\ UNCHANGED broken ELSE End(h) /\ Broken(r.t)
    /\ UNCHANGED <<trial, outside, sweep, day, calls, mailed, overtaken>>

-----------------------------------------------------------------------------
(* teardown_tenant: each step may fail, and the next is taken all the same *)

DropSchema(w) ==
    LET t == worker[w].t IN
    /\ worker[w].at = "dropSchema" /\ worker' = Go(w, "dropRow")
    /\ \/ schemas' = schemas \ {t} /\ UNCHANGED broken
       \/ Broken(t) /\ UNCHANGED schemas
    /\ UNCHANGED <<rows, trial, influx, grafana, pending, sweep, day, calls, mailed, overtaken>>
DropRow(w) ==
    LET t == worker[w].t IN
    /\ worker[w].at = "dropRow" /\ worker' = Go(w, "dropInflux")
    /\ \/ Rollback(t) /\ UNCHANGED broken
       \/ Broken(t) /\ UNCHANGED rows
    /\ UNCHANGED <<trial, outside, pending, sweep, day, calls, mailed, overtaken>>
DropInflux(w) ==
    LET t == worker[w].t IN
    /\ worker[w].at = "dropInflux" /\ worker' = Go(w, "dropGrafana")
    /\ \/ influx' = influx \ {t} /\ UNCHANGED broken
       \/ Broken(t) /\ UNCHANGED influx
    /\ UNCHANGED <<rows, trial, schemas, grafana, pending, sweep, day, calls, mailed, overtaken>>
DropGrafana(w) ==
    LET t == worker[w].t IN
    /\ worker[w].at = "dropGrafana" /\ End(w)
    /\ \/ grafana' = [grafana EXCEPT ![t] = Nobody] /\ UNCHANGED broken
       \/ Broken(t) /\ UNCHANGED grafana
    /\ UNCHANGED <<rows, trial, schemas, influx, pending, sweep, day, calls, mailed, overtaken>>

\* The status is committed and the slug renamed, so that it is free at once; the name is not.
Deleted(t) ==
    /\ status' = [status EXCEPT ![t] = "deleted"]
    /\ slug' = [slug EXCEPT ![t] = Nobody] /\ UNCHANGED name
DeleteTenant(h, t) ==
    /\ Call /\ ~Busy(h) /\ status[t] \in Live
    /\ Deleted(t)
    /\ worker' = [worker EXCEPT ![h] = [Free EXCEPT !.at = "dropSchema", !.op = "delete", !.t = t]]
    /\ UNCHANGED <<trial, outside, pending, sweep, day, history>>

\* update_tenant_status sets a tenant that is being deleted active again.
ChangeStatus(t, to) ==
    /\ Call /\ Has(t) /\ status[t] # to
    /\ status' = [status EXCEPT ![t] = to]
    /\ broken' = IF status[t] = "deleted" THEN broken \cup {t} ELSE broken
    /\ UNCHANGED <<slug, name, trial, outside, pending, worker, sweep, day, mailed, overtaken>>
\* update_tenant: the organization of Grafana keeps the first name.
Rename(t, n) ==
    /\ Call /\ Has(t) /\ NameFree(n)
    /\ name' = [name EXCEPT ![t] = n]
    /\ UNCHANGED <<status, slug, trial, outside, pending, worker, sweep, day, history>>

-----------------------------------------------------------------------------
(* Trials: request_trial_extension, approve_trial_extension, run_trial_expiry_check *)

AskExtension(t) ==
    /\ Call /\ status[t] = "active" /\ trial[t].due # Nobody /\ trial[t].asked = Nobody
    /\ trial' = [trial EXCEPT ![t].asked = day]
    /\ UNCHANGED <<rows, outside, pending, worker, sweep, day, history>>

\* Slip for the mutation runs: the next period keeps the warning of the last.
ExtendedOnly(t) == [trial EXCEPT ![t].due = day + Period, ![t].asked = Nobody]
Extended(t) == [trial EXCEPT ![t] = [due |-> day + Period, warned |-> FALSE, asked |-> Nobody]]
Approve(t) ==
    /\ Call /\ Has(t) /\ trial[t].due # Nobody
    /\ trial' = Extended(t)
    /\ mailed' = mailed \ {t}
    /\ overtaken' = IF Busy(Checker) THEN overtaken \cup {t} ELSE overtaken \ {t}
    /\ UNCHANGED <<rows, outside, pending, worker, sweep, day, broken>>

\* The rows are loaded at once. They are held as they are until the next commit, after
\* which each is read again when its turn comes.
Held(t) == [trial[t] EXCEPT !.due = IF status[t] = "active" THEN trial[t].due ELSE Nobody]
StartCheck ==
    /\ ~Busy(Checker) /\ sweep.now # day
    /\ sweep' = [now |-> day, left |-> {t \in Tenants : status[t] = "active" /\ trial[t].due # Nobody},
                 held |-> [t \in Tenants |-> Held(t)]]
    /\ worker' = Go(Checker, "check")
    /\ UNCHANGED <<rows, trial, outside, pending, day, calls, history>>

\* A row that is gone raises when it is loaded again or updated, and the whole check ends.
EndCheck == worker' = [worker EXCEPT ![Checker] = Free]
Fresh == [t \in Tenants |-> Nobody]
Without(t) == [sweep EXCEPT !.left = @ \ {t}]
CheckTenant(t) ==
    LET r == IF sweep.held[t] = Nobody THEN Held(t) ELSE sweep.held[t]
        expired == r.due # Nobody /\ r.due <= sweep.now
        near == r.due # Nobody /\ r.due <= sweep.now + Window
        waits == r.asked # Nobody /\ r.asked + Window >= sweep.now
        gone == sweep.held[t] = Nobody /\ ~Has(t)
    IN  /\ worker[Checker].at = "check" /\ t \in sweep.left
        /\ \/ /\ near /\ ~r.warned
              /\ worker' = [worker EXCEPT ![Checker].at = "mail", ![Checker].t = t]
              /\ sweep' = Without(t) /\ UNCHANGED rows
           \/ /\ gone \/ (expired /\ r.warned /\ ~waits /\ ~Has(t))
              /\ EndCheck /\ sweep' = Without(t) /\ UNCHANGED rows
           \/ /\ expired /\ r.warned /\ ~waits /\ Has(t)
              /\ Deleted(t)
              /\ worker' = [worker EXCEPT ![Checker].at = "dropSchema", ![Checker].t = t]
              /\ sweep' = [Without(t) EXCEPT !.held = Fresh]
           \/ /\ ~gone /\ (~near \/ (r.warned /\ (~expired \/ waits)))
              /\ sweep' = Without(t) /\ UNCHANGED <<rows, worker>>
        /\ UNCHANGED <<trial, outside, pending, day, calls, history>>

\* The address is read from the schema, without which the whole check ends; the mail
\* goes out or does not, and the next check tries again.
MailWarning ==
    LET t == worker[Checker].t IN
    /\ worker[Checker].at = "mail"
    /\ \/ t \notin schemas /\ EndCheck /\ UNCHANGED mailed
       \/ t \in schemas /\ End(Checker) /\ UNCHANGED mailed
       \/ t \in schemas /\ mailed' = mailed \cup {t} /\ worker' = Go(Checker, "note")
    /\ UNCHANGED <<rows, trial, outside, pending, sweep, day, calls, overtaken, broken>>
NoteWarning ==
    LET t == worker[Checker].t IN
    /\ worker[Checker].at = "note"
    /\ IF Has(t) THEN trial' = [trial EXCEPT ![t].warned = TRUE] /\ End(Checker)
                 ELSE EndCheck /\ UNCHANGED trial
    /\ sweep' = [sweep EXCEPT !.held = Fresh]
    /\ UNCHANGED <<rows, outside, pending, day, calls, history>>
\* The sign-ups that were never confirmed go, and the slugs they kept with them.
CleanUp ==
    /\ worker[Checker].at = "check" /\ sweep.left = {} /\ EndCheck
    /\ pending' = [e \in Emails |-> IF pending[e] # Nobody /\ pending[e].expires < sweep.now
                                    THEN Nobody ELSE pending[e]]
    /\ UNCHANGED <<rows, trial, outside, sweep, day, calls, history>>

-----------------------------------------------------------------------------
\* No request or check takes a day.
NextDay ==
    /\ day < MaxDay /\ \A w \in Workers : ~Busy(w)
    /\ day' = day + 1
    /\ UNCHANGED <<rows, trial, outside, pending, worker, sweep, calls, history>>

\* A restart of core-api, in which the check runs too: transactions are rolled back and
\* the background tasks are lost.
Crash ==
    /\ \E w \in Workers : Busy(w)
    /\ worker' = [w \in Workers |-> Free]
    /\ LET lost == {worker[w].t : w \in Workers} \ {Nobody}
           drafts == {t \in Tenants : status[t] = "draft"}
       IN  /\ broken' = broken \cup lost
           /\ status' = [t \in Tenants |-> IF t \in drafts THEN "gone" ELSE status[t]]
           /\ slug' = [t \in Tenants |-> IF t \in drafts THEN Nobody ELSE slug[t]]
           /\ name' = [t \in Tenants |-> IF t \in drafts THEN Nobody ELSE name[t]]
    /\ UNCHANGED <<trial, outside, pending, sweep, day, calls, mailed, overtaken>>

LifeNext ==
    \/ \E h \in Handlers :
          \/ \E t \in Tenants, s \in Slugs, n \in Names : Create(h, t, s, n)
          \/ \E t \in Tenants, e \in Emails : Verify(h, t, e)
          \/ SetupInflux(h) \/ SetupSchema(h) \/ SetupGrafana(h) \/ Finish(h)
          \/ \E t \in Tenants : DeleteTenant(h, t)
    \/ \E w \in Workers : DropSchema(w) \/ DropRow(w) \/ DropInflux(w) \/ DropGrafana(w)
    \/ \E e \in Emails, s \in Slugs, n \in Names : Signup(e, s, n)
    \/ \E t \in Tenants :
          \/ AskExtension(t) \/ Approve(t) \/ CheckTenant(t)
          \/ \E to \in Live : ChangeStatus(t, to)
          \/ \E n \in Names : Rename(t, n)
    \/ StartCheck \/ MailWarning \/ NoteWarning \/ CleanUp \/ NextDay \/ Crash
LifeSpec == LifeInit /\ [][LifeNext]_lifeVars

-----------------------------------------------------------------------------
(* Properties *)

\* "Prevent a sudden deletion without a warning", trial_expiry_check.py: the check deletes
\* a tenant only after a warning was sent for its present trial, unless the trial was
\* extended while the check was at work.
Culls(t) == worker[Checker].at = "check" /\ worker'[Checker].at = "dropSchema" /\ worker'[Checker].t = t
WarnedBeforeDeletion == [][\A t \in Tenants : Culls(t) => t \in mailed \cup overtaken]_lifeVars

\* Between the operations a tenant with an active or suspended row has its schema and both
\* organizations, and any other has none of them and no row, so that nothing of a tenant
\* that is deleted or was never completed stays behind, but where a step failed, the
\* program restarted or a tenant being deleted was set active again.
ResourcesFollowTheRow ==
    \A t \in Tenants \ broken : (\A w \in Workers : worker[w].t # t) =>
        IF status[t] \in Live THEN t \in schemas /\ t \in influx /\ grafana[t] # Nobody
        ELSE /\ t \notin schemas /\ t \notin influx /\ grafana[t] = Nobody
             /\ status[t] \in {"none", "gone"}

\* "A unique id prevents a clash when a tenant of the same name is made again",
\* setup_tenant: no setup meets an organization of its own name.
NamesNeverClash == \A h \in Handlers : ~Clash(h)
=============================================================================
