------------------------------ MODULE TenantProofs -----------------------------
(***************************************************************************)
(* What a tenant or a device leaves behind.  TenantLifecycle for all       *)
(* tenants, names, addresses, handlers and bounds: nothing of a tenant is  *)
(* left behind and nothing of a live one is missing where no step failed,  *)
(* and the daily check deletes nobody it has not warned.  DeviceArchive    *)
(* for all devices, names and handlers and any number of registrations and *)
(* faults: a name whose handlers were never at work at the same time, nor  *)
(* lost a call, shows its device and holds its data.                       *)
(***************************************************************************)
EXTENDS TenantLifecycle, DeviceArchive, FiniteSets, TLAPS
-----------------------------------------------------------------------------
(* The tenants. *)

Stages == {"influx", "schema", "grafana", "finish"}
Teardown == {"dropSchema", "dropRow", "dropInflux", "dropGrafana"}
Warning == {"mail", "note"}
Statuses == {"none", "draft", "active", "suspended", "deleted", "gone"}
Task == [at : {"idle", "check"} \cup Stages \cup Teardown \cup Warning,
         op : {"none", "create", "verify", "delete"}, t : Tenants \cup {Nobody}, email : Emails \cup {Nobody}]
Trial == [due : Nat \cup {Nobody}, warned : BOOLEAN, asked : Nat \cup {Nobody}]
Asked == [slug : Slugs, name : Names, expires : Nat]
LifeTypes ==
    /\ status \in [Tenants -> Statuses] /\ name \in [Tenants -> Names \cup {Nobody}]
    /\ trial \in [Tenants -> Trial] /\ grafana \in [Tenants -> Names \cup {Nobody}]
    /\ pending \in [Emails -> Asked \cup {Nobody}] /\ worker \in [Workers -> Task] /\ day \in Nat
    /\ sweep \in [now : Nat \cup {Nobody}, left : SUBSET Tenants, held : [Tenants -> Trial \cup {Nobody}]]
    /\ \A t \in Tenants : status[t] = "draft" => name[t] \in Names

\* A worker without a request, and the check between two tenants.
LEMMA FreeOk == /\ Free \in Task /\ Free.at = "idle" /\ Free.op = "none" /\ Free.t = Nobody /\ Free.email = Nobody
                /\ [Free EXCEPT !.at = "check"] \in Task
BY DEF Free, Task

\* The end of a request, or the check's next tenant.
Ended(w, r) == r \in Task /\ r.t = Nobody /\ r.at = (IF w = Checker THEN "check" ELSE "idle") /\ r.op = "none"

\* The last step of a request.
LEMMA EndMoves == ASSUME NEW w \in Workers, End(w) PROVE \E r : worker' = [worker EXCEPT ![w] = r] /\ Ended(w, r)
<1>. DEFINE r == IF w = Checker THEN [Free EXCEPT !.at = "check"] ELSE Free
<1>1. r.t = Nobody /\ r.at = (IF w = Checker THEN "check" ELSE "idle") /\ r.op = "none"
  BY DEF Free
<1>2. r \in Task
  BY FreeOk
<1>3. worker' = [worker EXCEPT ![w] = r]
  BY DEF End
<1>. HIDE DEF r
<1>. QED  BY <1>1, <1>2, <1>3 DEF Ended

\* The next step of a request is about the same tenant.
LEMMA GoMoves ==
    ASSUME LifeTypes, NEW w \in Workers, NEW at \in {"check"} \cup Stages \cup Teardown \cup Warning, worker' = Go(w, at)
    PROVE  \E r : /\ worker' = [worker EXCEPT ![w] = r] /\ r \in Task /\ r.at = at /\ r.t = worker[w].t
                  /\ r.op = worker[w].op /\ r.email = worker[w].email
<1>. DEFINE r == [worker[w] EXCEPT !.at = at]
<1>1. worker[w] \in Task /\ worker \in [Workers -> Task]
  BY DEF LifeTypes
<1>2. r \in Task /\ r.at = at /\ r.t = worker[w].t /\ r.op = worker[w].op /\ r.email = worker[w].email
  BY <1>1 DEF Task
<1>3. worker' = [worker EXCEPT ![w] = r]
  BY <1>1 DEF Go
<1>. HIDE DEF r
<1>. QED  BY <1>2, <1>3

\* The shapes hold at the start.
LEMMA LifeTypesInit == LifeInit => LifeTypes
<1>. SUFFICES ASSUME LifeInit PROVE LifeTypes
  OBVIOUS
<1>1. [due |-> Nobody, warned |-> FALSE, asked |-> Nobody] \in Trial
  BY DEF Trial
<1>2. trial \in [Tenants -> Trial]
  BY <1>1 DEF LifeInit
<1>3. worker \in [Workers -> Task]
  BY FreeOk DEF LifeInit
<1>. QED  BY <1>2, <1>3 DEF LifeInit, LifeTypes, Statuses

\* What each worker is at, and the rows that go with it.
TaskOk(w) ==
    LET r == worker[w] IN
    /\ r.at \in {"idle", "check"} <=> r.t = Nobody
    /\ r.at \in Stages => w # Checker /\ status[r.t] = "draft"
    /\ r.at \in Warning \cup {"check"} => w = Checker
    /\ r.at \in Teardown \cup Warning => status[r.t] \notin {"none", "draft"}
InSetup(w, t) == worker[w].at \in Stages /\ worker[w].t = t
WorkInv ==
    /\ \A w \in Workers : TaskOk(w)
    /\ \A v, w \in Workers, t \in Tenants : InSetup(v, t) /\ InSetup(w, t) => v = w
    /\ \A t \in Tenants : status[t] = "draft" => \E w \in Workers : InSetup(w, t)
    /\ \A t \in sweep.left : status[t] \notin {"none", "draft"}

\* Nobody is at work at the start.
LEMMA WorkInvInit == LifeInit => WorkInv
<1>. SUFFICES ASSUME LifeInit PROVE WorkInv
  OBVIOUS
<1>1. \A w \in Workers : worker[w].at = "idle" /\ worker[w].t = Nobody
  BY FreeOk DEF LifeInit
<1>2. \A w \in Workers : TaskOk(w) /\ \A t \in Tenants : ~InSetup(w, t)
  BY <1>1 DEF TaskOk, Stages, Teardown, Warning, InSetup
<1>. QED  BY <1>2 DEF LifeInit, WorkInv

\* How a step of worker w, which goes on to r, may change the row of t.
RowStep(w, r, t) ==
    \/ status'[t] = status[t] /\ (InSetup(w, t) => r.at \in Stages /\ r.t = t)
    \/ status[t] \notin {"none", "draft"} /\ status'[t] \notin {"none", "draft"}
    \/ status[t] = "none" /\ status'[t] = "draft" /\ r.at \in Stages /\ r.t = t
    \/ status[t] = "draft" /\ status'[t] \notin {"none", "draft"} /\ InSetup(w, t) /\ r.at \notin Stages

\* A step of one worker keeps what the workers and the rows say of each other.
LEMMA WorkKept ==
    ASSUME LifeTypes, WorkInv, NEW w \in Workers, NEW r \in Task, worker' = [worker EXCEPT ![w] = r],
           status' \in [Tenants -> Statuses],
           \A t \in Tenants : RowStep(w, r, t),
           r.at \in {"idle", "check"} <=> r.t = Nobody,
           r.at \in Stages => w # Checker /\ status'[r.t] = "draft" /\ (InSetup(w, r.t) \/ status[r.t] = "none"),
           r.at \in Warning \cup {"check"} => w = Checker,
           r.at \in Teardown \cup Warning => status'[r.t] \notin {"none", "draft"},
           \A t \in sweep'.left : t \in Tenants /\ (t \in sweep.left \/ status[t] \notin {"none", "draft"})
    PROVE  WorkInv'
<1>1. worker'[w] = r /\ \A v \in Workers \ {w} : worker'[v] = worker[v]
  BY DEF LifeTypes
<1>2. \A v \in Workers : TaskOk(v) /\ worker[v].t \in Tenants \cup {Nobody}
  BY DEF WorkInv, LifeTypes, Task
<1>3. Nobody \notin Tenants /\ Stages \cap {"idle", "check"} = {} /\ Stages \cap (Teardown \cup Warning) = {}
      /\ Teardown \cap {"idle", "check"} = {} /\ Warning \cap {"idle", "check"} = {}
  BY TenantLifecycleAssumption DEF Stages, Teardown, Warning
<1>4. ASSUME NEW v \in Workers PROVE TaskOk(v)'
  <2>1. CASE v = w
    BY <1>1, <2>1 DEF TaskOk
  <2>2. CASE v # w
    <3>1. CASE worker[v].t = Nobody
      BY <1>1, <1>2, <1>3, <2>2, <3>1 DEF TaskOk
    <3>2. CASE worker[v].t \in Tenants
      <4>1. worker[v].at \in Stages => InSetup(v, worker[v].t) /\ ~InSetup(w, worker[v].t)
        BY <2>2, <3>2 DEF WorkInv, InSetup
      <4>2. RowStep(w, r, worker[v].t)
        BY <3>2
      <4>. QED  BY <1>1, <1>2, <1>3, <2>2, <3>2, <4>1, <4>2 DEF TaskOk, RowStep
    <3>. QED  BY <1>2, <3>1, <3>2
  <2>. QED  BY <2>1, <2>2
<1>5. ASSUME NEW t \in Tenants, NEW u \in Workers, NEW v \in Workers, InSetup(u, t)', InSetup(v, t)'
      PROVE  u = v
  <2>1. ASSUME NEW x \in Workers \ {w}, InSetup(x, t)', InSetup(w, t)' PROVE FALSE
    <3>1. InSetup(x, t) /\ r.at \in Stages /\ r.t = t
      BY <1>1, <2>1 DEF InSetup
    <3>2. status[t] = "draft"
      BY <1>2, <3>1 DEF InSetup, TaskOk
    <3>. QED  BY <3>1, <3>2 DEF WorkInv
  <2>2. u # w /\ v # w => u = v
    BY <1>1, <1>5 DEF InSetup, WorkInv
  <2>. QED  BY <1>5, <2>1, <2>2
<1>6. ASSUME NEW t \in Tenants, status'[t] = "draft" PROVE \E v \in Workers : InSetup(v, t)'
  <2>1. CASE status[t] = "draft"
    <3>1. PICK v \in Workers : InSetup(v, t)
      BY <2>1 DEF WorkInv
    <3>2. InSetup(w, t) => r.at \in Stages /\ r.t = t
      BY <1>6, <2>1 DEF RowStep
    <3>. QED  BY <1>1, <3>1, <3>2 DEF InSetup
  <2>2. CASE status[t] # "draft"
    <3>1. r.at \in Stages /\ r.t = t
      BY <1>6, <2>2 DEF RowStep
    <3>. QED  BY <1>1, <3>1 DEF InSetup
  <2>. QED  BY <2>1, <2>2
<1>7. ASSUME NEW t \in sweep'.left PROVE status'[t] \notin {"none", "draft"}
  <2>1. t \in Tenants /\ status[t] \notin {"none", "draft"}
    BY <1>7 DEF WorkInv
  <2>. QED  BY <2>1 DEF RowStep
<1>. QED  BY <1>4, <1>5, <1>6, <1>7 DEF WorkInv

\* Without a change of what anyone is at.
LEMMA WorkStill ==
    ASSUME LifeTypes, WorkInv,
           \A w \in Workers : worker'[w].at = worker[w].at /\ worker'[w].t = worker[w].t,
           \A t \in Tenants : status'[t] = status[t]
                               \/ (status[t] \notin {"none", "draft"} /\ status'[t] \notin {"none", "draft"}),
           sweep' = sweep
    PROVE  WorkInv'
<1>1. \A v \in Workers : TaskOk(v) /\ worker[v].t \in Tenants \cup {Nobody}
  BY DEF WorkInv, LifeTypes, Task
<1>2. Nobody \notin Tenants /\ Stages \cap {"idle", "check"} = {} /\ sweep.left \subseteq Tenants
      /\ Teardown \cap {"idle", "check"} = {} /\ Warning \cap {"idle", "check"} = {}
  BY TenantLifecycleAssumption DEF Stages, Teardown, Warning, LifeTypes
<1>3. \A w \in Workers, t \in Tenants : InSetup(w, t)' <=> InSetup(w, t)
  BY DEF InSetup
<1>4. \A w \in Workers : TaskOk(w)'
  BY <1>1, <1>2 DEF TaskOk
<1>. QED  BY <1>2, <1>3, <1>4 DEF WorkInv

-----------------------------------------------------------------------------
\* A worker is at one of these steps of t.
SomeAt(t, steps) == \E w \in Workers : worker[w].t = t /\ worker[w].at \in steps
AllThere(t) == t \in schemas /\ t \in influx /\ grafana[t] # Nobody
\* What there is of a tenant for which no step failed.
ResInv(t) ==
    /\ status[t] = "none" => t \notin schemas /\ t \notin influx /\ grafana[t] = Nobody
    /\ \A w \in Workers : worker[w].t = t =>
         /\ worker[w].at \in {"schema", "grafana", "finish"} => t \in influx
         /\ worker[w].at \in {"grafana", "finish"} => t \in schemas
         /\ worker[w].at = "finish" => grafana[t] # Nobody
    /\ status[t] \in Live => AllThere(t) /\ ~SomeAt(t, Teardown)
    /\ status[t] \in {"deleted", "gone"} =>
         /\ t \in schemas => SomeAt(t, {"dropSchema"})
         /\ status[t] = "deleted" => SomeAt(t, {"dropSchema", "dropRow"})
         /\ t \in influx => SomeAt(t, {"dropSchema", "dropRow", "dropInflux"})
         /\ grafana[t] # Nobody => SomeAt(t, Teardown)
ResourceInv == \A t \in Tenants \ broken : ResInv(t)

\* A step that touches neither the tenant, nor who is at work on it, keeps what there is of it.
LEMMA ResKept ==
    ASSUME NEW t \in Tenants, ResInv(t), status'[t] = status[t], t \in schemas' <=> t \in schemas,
           t \in influx' <=> t \in influx, grafana'[t] = grafana[t],
           \A w \in Workers : worker[w].t = t \/ worker'[w].t = t =>
                              worker'[w].at = worker[w].at /\ worker'[w].t = worker[w].t
    PROVE  ResInv(t)'
<1>1. \A steps : SomeAt(t, steps)' <=> SomeAt(t, steps)
  BY DEF SomeAt
<1>. QED  BY <1>1 DEF ResInv, AllThere

LifeInv == LifeTypes /\ WorkInv /\ ResourceInv

Undisturbed(t) == /\ status'[t] = status[t] /\ (t \in schemas' <=> t \in schemas)
                  /\ (t \in influx' <=> t \in influx) /\ grafana'[t] = grafana[t]

\* A step of worker w about tenant s leaves what is said of the others.
LEMMA OneTenant ==
    ASSUME LifeInv, LifeTypes', WorkInv', NEW w \in Workers, NEW r \in Task, worker' = [worker EXCEPT ![w] = r],
           NEW s, worker[w].t = s \/ worker[w].t = Nobody, r.t = s \/ r.t = Nobody, broken \subseteq broken',
           \A t \in Tenants : t # s => Undisturbed(t),
           s \in Tenants /\ s \notin broken' /\ ResInv(s) => ResInv(s)'
    PROVE  LifeInv'
<1>1. ASSUME NEW t \in Tenants \ broken' PROVE ResInv(t)'
  <2>1. ResInv(t) /\ t # Nobody
    BY <1>1, TenantLifecycleAssumption DEF LifeInv, ResourceInv
  <2>2. CASE t = s
    BY <2>1, <2>2, <1>1
  <2>3. CASE t # s
    <3>1. \A v \in Workers : worker[v].t = t \/ worker'[v].t = t =>
                              worker'[v].at = worker[v].at /\ worker'[v].t = worker[v].t
      BY <2>1, <2>3 DEF LifeInv, LifeTypes
    <3>. QED  BY <2>1, <2>3, <3>1, ResKept DEF Undisturbed
  <2>. QED  BY <2>2, <2>3
<1>. QED  BY <1>1 DEF LifeInv, ResourceInv

\* Only its setup is at work on a draft.
LEMMA DraftRes ==
    ASSUME WorkInv', NEW w \in Workers, NEW t \in Tenants, status'[t] = "draft", InSetup(w, t)',
           worker'[w].at \in {"schema", "grafana", "finish"} => t \in influx',
           worker'[w].at \in {"grafana", "finish"} => t \in schemas',
           worker'[w].at = "finish" => grafana'[t] # Nobody
    PROVE  ResInv(t)'
<1>1. ASSUME NEW v \in Workers, worker'[v].t = t, worker'[v].at \in {"schema", "grafana", "finish"} PROVE v = w
  BY <1>1 DEF WorkInv, InSetup, Stages
<1>. QED  BY <1>1 DEF ResInv, Live

\* A setup that fails.
LEMMA GiveUpKeeps ==
    ASSUME LifeInv, NEW h \in Handlers, worker[h].at \in Stages, GiveUp(h),
           UNCHANGED <<trial, pending, sweep, day>>,
           grafana' \in [Tenants -> Names \cup {Nobody}],
           \A t \in Tenants \ {worker[h].t} : /\ t \in schemas' <=> t \in schemas
                                              /\ t \in influx' <=> t \in influx
                                              /\ grafana'[t] = grafana[t]
    PROVE  LifeInv'
<1>0. LifeTypes /\ WorkInv /\ h \in Workers /\ h # Checker
  BY TenantLifecycleAssumption DEF LifeInv, Workers
<1>1. PICK s : s = worker[h].t
  OBVIOUS
<1>2. s \in Tenants /\ status[s] = "draft" /\ InSetup(h, s)
  BY <1>0, <1>1 DEF WorkInv, TaskOk, LifeTypes, Task, Stages, InSetup
<1>3. PICK r : worker' = [worker EXCEPT ![h] = r] /\ Ended(h, r)
  BY <1>0, EndMoves DEF GiveUp
<1>4. /\ status' = [status EXCEPT ![s] = "gone"] /\ name' = [name EXCEPT ![s] = Nobody] /\ broken' = broken \cup {s}
  BY <1>1 DEF GiveUp, Rollback, Broken
<1>5. r \in Task /\ r.t = Nobody /\ r.at = "idle"
  BY <1>0, <1>3 DEF Ended
<1>6. LifeTypes'
  BY <1>0, <1>2, <1>3, <1>4, <1>5 DEF LifeTypes, Statuses
<1>7. WorkInv'
  <2>1. status' \in [Tenants -> Statuses]
    BY <1>6 DEF LifeTypes
  <2>2. \A t \in Tenants : RowStep(h, r, t)
    BY <1>0, <1>1, <1>2, <1>4, <1>5 DEF RowStep, LifeTypes, Stages, InSetup
  <2>3. \A t \in sweep'.left : t \in Tenants /\ t \in sweep.left
    BY <1>0 DEF LifeTypes
  <2>. QED  BY <1>0, <1>3, <1>5, <2>1, <2>2, <2>3, WorkKept DEF Stages, Teardown, Warning
<1>8. \A t \in Tenants : t # s => Undisturbed(t)
  BY <1>0, <1>1, <1>4 DEF Undisturbed, LifeTypes
<1>9. worker[h].t = s /\ (r.t = s \/ r.t = Nobody) /\ broken \subseteq broken' /\ s \in broken'
  BY <1>1, <1>4, <1>5
<1>. QED  BY <1>0, <1>3, <1>5, <1>6, <1>7, <1>8, <1>9, OneTenant

\* A step of a setup that succeeds.
LEMMA SetupGoesOn ==
    ASSUME LifeInv, NEW h \in Handlers, worker[h].at \in Stages, NEW at \in Stages, worker' = Go(h, at),
           UNCHANGED <<rows, trial, pending, sweep, day, broken>>,
           grafana' \in [Tenants -> Names \cup {Nobody}],
           \A t \in Tenants \ {worker[h].t} : /\ t \in schemas' <=> t \in schemas
                                              /\ t \in influx' <=> t \in influx
                                              /\ grafana'[t] = grafana[t],
           ResInv(worker[h].t) => /\ at \in {"schema", "grafana", "finish"} => worker[h].t \in influx'
                                  /\ at \in {"grafana", "finish"} => worker[h].t \in schemas'
                                  /\ at = "finish" => grafana'[worker[h].t] # Nobody
    PROVE  LifeInv'
<1>0. LifeTypes /\ WorkInv /\ h \in Workers /\ h # Checker
  BY TenantLifecycleAssumption DEF LifeInv, Workers
<1>1. PICK s : s = worker[h].t
  OBVIOUS
<1>2. s \in Tenants /\ status[s] = "draft" /\ InSetup(h, s)
  BY <1>0, <1>1 DEF WorkInv, TaskOk, LifeTypes, Task, Stages, InSetup
<1>3. PICK r : worker' = [worker EXCEPT ![h] = r] /\ r \in Task /\ r.at = at /\ r.t = s
  <2>1. at \in {"check"} \cup Stages \cup Teardown \cup Warning
    OBVIOUS
  <2>2. \E r : worker' = [worker EXCEPT ![h] = r] /\ r \in Task /\ r.at = at /\ r.t = worker[h].t
    BY <1>0, <2>1, GoMoves
  <2>. QED  BY <1>1, <2>2
<1>4. UNCHANGED <<status, name, broken, sweep>> /\ worker'[h] = r
  BY <1>0, <1>3 DEF rows, LifeTypes
<1>6. LifeTypes'
  BY <1>0, <1>3, <1>4 DEF LifeTypes
<1>7. WorkInv'
  <2>1. status' \in [Tenants -> Statuses]
    BY <1>6 DEF LifeTypes
  <2>2. \A t \in Tenants : RowStep(h, r, t)
    BY <1>1, <1>3, <1>4 DEF RowStep, InSetup
  <2>3. \A t \in sweep'.left : t \in Tenants /\ t \in sweep.left
    BY <1>0, <1>4 DEF LifeTypes
  <2>4. s # Nobody
    BY <1>2, TenantLifecycleAssumption
  <2>. QED  BY <1>0, <1>2, <1>3, <1>4, <2>1, <2>2, <2>3, <2>4, WorkKept DEF Stages, Teardown, Warning
<1>8. \A t \in Tenants : t # s => Undisturbed(t)
  BY <1>1, <1>4 DEF Undisturbed
<1>9. s \in Tenants /\ s \notin broken' /\ ResInv(s) => ResInv(s)'
  <2>1. InSetup(h, s)' /\ status'[s] = "draft"
    BY <1>2, <1>3, <1>4 DEF InSetup
  <2>. QED  BY <1>0, <1>1, <1>2, <1>3, <1>4, <1>7, <2>1, DraftRes
<1>10. worker[h].t = s /\ (r.t = s \/ r.t = Nobody) /\ broken \subseteq broken'
  BY <1>1, <1>3, <1>4
<1>. QED  BY <1>0, <1>3, <1>6, <1>7, <1>8, <1>9, <1>10, OneTenant

\* A worker in a setup has a draft, whose display name is set.
LEMMA SetupOf ==
    ASSUME LifeInv, NEW h \in Workers, worker[h].at \in Stages
    PROVE  /\ worker[h].t \in Tenants /\ status[worker[h].t] = "draft" /\ name[worker[h].t] \in Names
           /\ LifeTypes /\ WorkInv /\ h # Checker /\ h \in Handlers
<1>1. LifeTypes /\ WorkInv
  BY DEF LifeInv
<1>2. TaskOk(h) /\ worker[h].at \notin {"idle", "check"} /\ worker[h].t \in Tenants \cup {Nobody}
  BY <1>1 DEF WorkInv, Stages, LifeTypes, Task
<1>. QED  BY <1>1, <1>2 DEF TaskOk, LifeTypes, Workers

\* Each step of a setup keeps the invariant, whether it succeeds or fails.
LEMMA SetupInfluxKeeps == ASSUME LifeInv, NEW h \in Handlers, SetupInflux(h) PROVE LifeInv'
<1>1. /\ worker[h].at = "influx" /\ worker[h].at \in Stages /\ h \in Workers
      /\ UNCHANGED <<trial, schemas, grafana, pending, sweep, day>>
  BY DEF SetupInflux, Stages, Workers
<1>2. worker[h].t \in Tenants /\ LifeTypes
  BY <1>1, SetupOf
<1>3. CASE influx' = influx \cup {worker[h].t} /\ worker' = Go(h, "schema") /\ UNCHANGED <<rows, broken>>
  <2>1. "schema" \in Stages /\ "schema" \notin {"grafana", "finish"}
    BY DEF Stages
  <2>2. grafana' \in [Tenants -> Names \cup {Nobody}]
    BY <1>1, <1>2 DEF LifeTypes
  <2>. QED  BY <1>1, <1>2, <1>3, <2>1, <2>2, SetupGoesOn
<1>4. CASE influx' \in {influx, influx \cup {worker[h].t}} /\ GiveUp(h)
  <2>2. grafana' \in [Tenants -> Names \cup {Nobody}]
    BY <1>1, <1>2 DEF LifeTypes
  <2>. QED  BY <1>1, <1>2, <1>4, <2>2, GiveUpKeeps
<1>. QED  BY <1>3, <1>4 DEF SetupInflux

LEMMA SetupSchemaKeeps == ASSUME LifeInv, NEW h \in Handlers, SetupSchema(h) PROVE LifeInv'
<1>1. /\ worker[h].at = "schema" /\ worker[h].at \in Stages /\ h \in Workers
      /\ UNCHANGED <<trial, influx, grafana, pending, sweep, day>>
  BY DEF SetupSchema, Stages, Workers
<1>2. worker[h].t \in Tenants /\ LifeTypes
  BY <1>1, SetupOf
<1>g. grafana' \in [Tenants -> Names \cup {Nobody}]
  BY <1>1, <1>2 DEF LifeTypes
<1>3. CASE schemas' = schemas \cup {worker[h].t} /\ worker' = Go(h, "grafana") /\ UNCHANGED <<rows, broken>>
  <2>1. "grafana" \in Stages /\ "grafana" # "finish"
    BY DEF Stages
  <2>2. ResInv(worker[h].t) => worker[h].t \in influx
    BY <1>1 DEF ResInv
  <2>. QED  BY <1>1, <1>2, <1>3, <1>g, <2>1, <2>2, SetupGoesOn
<1>4. CASE GiveUp(h) /\ UNCHANGED schemas
  BY <1>1, <1>2, <1>4, <1>g, GiveUpKeeps
<1>. QED  BY <1>3, <1>4 DEF SetupSchema

LEMMA SetupGrafanaKeeps == ASSUME LifeInv, NEW h \in Handlers, SetupGrafana(h) PROVE LifeInv'
<1>1. /\ worker[h].at = "grafana" /\ worker[h].at \in Stages /\ h \in Workers
      /\ UNCHANGED <<trial, schemas, influx, pending, sweep, day>>
  BY DEF SetupGrafana, Stages, Workers
<1>2. worker[h].t \in Tenants /\ LifeTypes /\ name[worker[h].t] \in Names
  BY <1>1, SetupOf
<1>3. CASE grafana' = [grafana EXCEPT ![worker[h].t] = name[worker[h].t]]
  <2>1. /\ grafana' \in [Tenants -> Names \cup {Nobody}] /\ grafana'[worker[h].t] # Nobody
        /\ \A t \in Tenants \ {worker[h].t} : grafana'[t] = grafana[t]
    BY <1>2, <1>3, TenantLifecycleAssumption DEF LifeTypes
  <2>2. CASE worker' = Go(h, "finish") /\ UNCHANGED <<rows, broken>>
    <3>1. "finish" \in Stages
      BY DEF Stages
    <3>2. ResInv(worker[h].t) => worker[h].t \in influx /\ worker[h].t \in schemas
      BY <1>1 DEF ResInv
    <3>. QED  BY <1>1, <1>2, <2>1, <2>2, <3>1, <3>2, SetupGoesOn
  <2>3. CASE GiveUp(h)
    BY <1>1, <1>2, <2>1, <2>3, GiveUpKeeps
  <2>. QED  BY <1>1, <2>2, <2>3 DEF SetupGrafana
<1>4. CASE grafana' = grafana /\ GiveUp(h)
  <2>1. grafana' \in [Tenants -> Names \cup {Nobody}]
    BY <1>2, <1>4 DEF LifeTypes
  <2>. QED  BY <1>1, <1>2, <1>4, <2>1, GiveUpKeeps
<1>. QED  BY <1>3, <1>4 DEF SetupGrafana

LEMMA FinishKeeps == ASSUME LifeInv, NEW h \in Handlers, Finish(h) PROVE LifeInv'
<1>1. /\ worker[h].at = "finish" /\ worker[h].at \in Stages /\ h \in Workers
      /\ UNCHANGED <<trial, schemas, influx, grafana, sweep, day>>
  BY DEF Finish, Stages, Workers, outside
<1>2. worker[h].t \in Tenants /\ status[worker[h].t] = "draft" /\ LifeTypes /\ WorkInv /\ h # Checker
  BY <1>1, SetupOf
<1>g. grafana' \in [Tenants -> Names \cup {Nobody}]
  BY <1>1, <1>2 DEF LifeTypes
<1>p. PICK s : s = worker[h].t
  OBVIOUS
<1>3. ASSUME NEW r \in Task, worker' = [worker EXCEPT ![h] = r],
             \/ r.t = Nobody /\ r.at = "idle" /\ status' = [status EXCEPT ![s] = "active"] /\ broken' = broken /\ name' = name
             \/ r.t = s /\ r.at = "dropSchema" /\ status' = [status EXCEPT ![s] = "gone"] /\ broken' = broken
                /\ name' = [name EXCEPT ![s] = Nobody],
             pending' \in [Emails -> Asked \cup {Nobody}]
      PROVE  LifeInv'
  <2>1. LifeTypes'
    <3>1. status' \in [Tenants -> Statuses] /\ \A t \in Tenants : status'[t] = "draft" => t # s /\ status[t] = "draft"
      BY <1>2, <1>p, <1>3 DEF LifeTypes, Statuses
    <3>2. name' \in [Tenants -> Names \cup {Nobody}] /\ \A t \in Tenants : t # s => name'[t] = name[t]
      BY <1>2, <1>p, <1>3 DEF LifeTypes
    <3>3. worker' \in [Workers -> Task]
      BY <1>2, <1>3 DEF LifeTypes
    <3>. QED  BY <1>1, <1>2, <1>3, <3>1, <3>2, <3>3 DEF LifeTypes
  <2>2. \A t \in Tenants : t # s => status'[t] = status[t]
    BY <1>2, <1>p, <1>3 DEF LifeTypes
  <2>3. s \in Tenants /\ s # Nobody /\ InSetup(h, s) /\ r.at \notin Stages /\ status'[s] \notin {"none", "draft"}
        /\ status[s] = "draft"
    BY <1>1, <1>2, <1>p, <1>3, TenantLifecycleAssumption DEF InSetup, Stages, LifeTypes
  <2>4. WorkInv'
    <3>1. status' \in [Tenants -> Statuses]
      BY <2>1 DEF LifeTypes
    <3>2. \A t \in Tenants : RowStep(h, r, t)
      BY <1>p, <2>2, <2>3 DEF RowStep, InSetup
    <3>3. \A t \in sweep'.left : t \in Tenants /\ t \in sweep.left
      BY <1>1, <1>2 DEF LifeTypes
    <3>4. /\ r.at \in {"idle", "check"} <=> r.t = Nobody
          /\ r.at \notin Stages /\ r.at \notin Warning \cup {"check"}
          /\ r.at \in Teardown => status'[r.t] \notin {"none", "draft"}
      BY <1>3, <2>3 DEF Stages, Teardown, Warning
    <3>. QED  BY <1>1, <1>2, <1>3, <3>1, <3>2, <3>3, <3>4, WorkKept
  <2>5. ResInv(s) => ResInv(s)'
    <3>1. CASE r.t = Nobody /\ status' = [status EXCEPT ![s] = "active"]
      <4>1. ResInv(s) => AllThere(s)
        BY <1>1, <1>p DEF ResInv, AllThere
      <4>2. AllThere(s) => AllThere(s)'
        BY <1>1 DEF AllThere
      <4>3. \A v \in Workers : worker'[v].t # s
        <5>1. ASSUME NEW v \in Workers, worker'[v].t = s PROVE FALSE
          <6>1. v # h /\ worker[v].t = s
            BY <1>2, <1>3, <2>3, <3>1, <5>1 DEF LifeTypes
          <6>2. worker[v].at \in Stages
            BY <1>2, <2>3, <6>1 DEF WorkInv, TaskOk, LifeTypes, Task
          <6>3. InSetup(v, s)
            BY <6>1, <6>2 DEF InSetup
          <6>. QED  BY <1>1, <1>2, <2>3, <6>1, <6>3 DEF WorkInv
        <5>. QED  BY <5>1
      <4>4. status'[s] = "active"
        BY <1>2, <2>3, <3>1 DEF LifeTypes
      <4>. QED  BY <4>1, <4>2, <4>3, <4>4 DEF ResInv, SomeAt, Live
    <3>2. CASE r.t = s /\ r.at = "dropSchema" /\ status' = [status EXCEPT ![s] = "gone"]
      <4>1. worker'[h] = r /\ status'[s] = "gone"
        BY <1>1, <1>2, <1>3, <2>3, <3>2 DEF LifeTypes
      <4>2. \A steps : "dropSchema" \in steps => SomeAt(s, steps)'
        BY <1>1, <3>2, <4>1 DEF SomeAt
      <4>3. ASSUME NEW v \in Workers, worker'[v].t = s PROVE worker'[v].at \notin Stages
        BY <2>4, <4>1, <4>3 DEF WorkInv, TaskOk
      <4>. QED  BY <4>1, <4>2, <4>3 DEF ResInv, Live, Stages, Teardown
    <3>. QED  BY <1>3, <3>1, <3>2
  <2>6. \A t \in Tenants : t # s => Undisturbed(t)
    BY <1>1, <2>2 DEF Undisturbed
  <2>7. worker[h].t = s /\ (r.t = s \/ r.t = Nobody) /\ broken \subseteq broken'
    BY <1>p, <1>3
  <2>. QED  BY <1>1, <1>3, <2>1, <2>4, <2>5, <2>6, <2>7, OneTenant
<1>4. CASE /\ status' = [status EXCEPT ![worker[h].t] = "active"]
           /\ pending' = [e \in Emails |-> IF e = worker[h].email THEN Nobody ELSE pending[e]]
           /\ End(h) /\ UNCHANGED <<slug, name, broken>>
  <2>1. PICK r : worker' = [worker EXCEPT ![h] = r] /\ Ended(h, r)
    BY <1>1, <1>4, EndMoves
  <2>2. pending' \in [Emails -> Asked \cup {Nobody}]
    BY <1>2, <1>4 DEF LifeTypes
  <2>3. r \in Task /\ r.t = Nobody /\ r.at = "idle"
    BY <1>2, <2>1 DEF Ended
  <2>. QED  BY <1>3, <1>4, <1>p, <2>1, <2>2, <2>3
<1>5. CASE Rollback(worker[h].t) /\ UNCHANGED <<pending, broken>> /\ Undo(h)
  <2>1. PICK r : r = [worker[h] EXCEPT !.at = "dropSchema", !.email = Nobody]
    OBVIOUS
  <2>2. worker[h] \in Task /\ worker \in [Workers -> Task]
    BY <1>1, <1>2 DEF LifeTypes
  <2>3. worker' = [worker EXCEPT ![h] = r]
    BY <1>5, <2>1, <2>2 DEF Undo
  <2>4. r \in Task /\ r.t = s /\ r.at = "dropSchema"
    BY <1>p, <2>1, <2>2 DEF Task, Teardown
  <2>5. status' = [status EXCEPT ![s] = "gone"] /\ name' = [name EXCEPT ![s] = Nobody] /\ broken' = broken
    BY <1>5, <1>p DEF Rollback
  <2>6. pending' \in [Emails -> Asked \cup {Nobody}]
    BY <1>2, <1>5 DEF LifeTypes
  <2>. QED  BY <1>3, <2>3, <2>4, <2>5, <2>6
<1>6. CASE Rollback(worker[h].t) /\ UNCHANGED pending /\ End(h) /\ Broken(worker[h].t)
  BY <1>1, <1>2, <1>6, <1>g, GiveUpKeeps DEF GiveUp
<1>. QED  BY <1>4, <1>5, <1>6 DEF Finish

\* A step of a teardown: the status stays or the row goes.
LEMMA TeardownStep ==
    ASSUME LifeInv, NEW w \in Workers, worker[w].at \in Teardown, NEW s, s = worker[w].t,
           NEW r \in Task, worker' = [worker EXCEPT ![w] = r],
           \/ r.t = s /\ r.at \in Teardown
           \/ Ended(w, r),
           UNCHANGED <<trial, pending, sweep, day>>, broken \subseteq broken',
           grafana' \in [Tenants -> Names \cup {Nobody}],
           \A t \in Tenants : t # s => /\ t \in schemas' <=> t \in schemas
                                       /\ t \in influx' <=> t \in influx
                                       /\ grafana'[t] = grafana[t],
           UNCHANGED rows \/ Rollback(s),
           s \notin broken' /\ ResInv(s) /\ status[s] \in {"deleted", "gone"} => ResInv(s)'
    PROVE  LifeInv'
<1>0. LifeTypes /\ WorkInv /\ TaskOk(w)
  BY DEF LifeInv, WorkInv
<1>1. s \in Tenants /\ s # Nobody /\ status[s] \notin {"none", "draft"}
  BY <1>0, TenantLifecycleAssumption DEF TaskOk, Teardown, LifeTypes, Task
<1>2. (r.t = s /\ r.at \in Teardown) \/ (r.t = Nobody /\ r.at = IF w = Checker THEN "check" ELSE "idle")
  BY DEF Ended
<1>3. /\ status' \in [Tenants -> Statuses] /\ name' \in [Tenants -> Names \cup {Nobody}]
      /\ status'[s] \notin {"none", "draft"}
      /\ \A t \in Tenants : t # s => status'[t] = status[t] /\ name'[t] = name[t]
  BY <1>0, <1>1 DEF rows, Rollback, LifeTypes, Statuses
<1>4. LifeTypes'
  <2>1. worker' \in [Workers -> Task]
    BY <1>0 DEF LifeTypes
  <2>2. \A t \in Tenants : status'[t] = "draft" => name'[t] \in Names
    BY <1>0, <1>3 DEF LifeTypes
  <2>. QED  BY <1>0, <1>3, <2>1, <2>2 DEF LifeTypes
<1>5. WorkInv'
  <2>1. \A t \in Tenants : RowStep(w, r, t)
    BY <1>1, <1>3 DEF RowStep, InSetup, Stages, Teardown
  <2>2. \A t \in sweep'.left : t \in Tenants /\ t \in sweep.left
    BY <1>0 DEF LifeTypes
  <2>3. /\ r.at \in {"idle", "check"} <=> r.t = Nobody
        /\ r.at \notin Stages /\ (r.at \in Warning \cup {"check"} => w = Checker)
        /\ r.at \in Teardown \cup Warning => status'[r.t] \notin {"none", "draft"}
    BY <1>1, <1>2, <1>3 DEF Stages, Teardown, Warning
  <2>. QED  BY <1>0, <1>3, <2>1, <2>2, <2>3, WorkKept
<1>6. s \in Tenants /\ s \notin broken' /\ ResInv(s) => ResInv(s)'
  <2>1. ResInv(s) => status[s] \in {"deleted", "gone"}
    BY <1>0, <1>1 DEF ResInv, SomeAt, LifeTypes, Statuses, Live
  <2>. QED  BY <2>1
<1>7. \A t \in Tenants : t # s => Undisturbed(t)
  BY <1>3 DEF Undisturbed
<1>8. worker[w].t = s /\ (r.t = s \/ r.t = Nobody)
  BY <1>2
<1>. QED  BY <1>4, <1>5, <1>6, <1>7, <1>8, OneTenant

\* The other workers stay where they are.
LEMMA SomeKept ==
    ASSUME LifeTypes, NEW w \in Workers, NEW r, worker' = [worker EXCEPT ![w] = r], NEW s, NEW steps,
           worker[w].at \notin steps, SomeAt(s, steps)
    PROVE  SomeAt(s, steps)'
<1>1. PICK v \in Workers : worker[v].t = s /\ worker[v].at \in steps
  BY DEF SomeAt
<1>2. v # w /\ worker'[v] = worker[v]
  BY <1>1 DEF LifeTypes
<1>. QED  BY <1>1, <1>2 DEF SomeAt

LEMMA TearGo ==
    ASSUME LifeInv, NEW w \in Workers, worker[w].at \in Teardown, NEW at \in Teardown, worker' = Go(w, at)
    PROVE  \E r \in Task : /\ worker' = [worker EXCEPT ![w] = r] /\ r.t = worker[w].t /\ r.at = at
                           /\ worker'[w] = r /\ LifeTypes
<1>1. LifeTypes /\ at \in {"check"} \cup Stages \cup Teardown \cup Warning
  BY DEF LifeInv
<1>2. PICK r : worker' = [worker EXCEPT ![w] = r] /\ r \in Task /\ r.at = at /\ r.t = worker[w].t
  BY <1>1, GoMoves
<1>3. worker'[w] = r
  BY <1>1, <1>2 DEF LifeTypes
<1>. QED  BY <1>1, <1>2, <1>3

\* What is left of a tenant after a step of its teardown.
LEMMA TornRes ==
    ASSUME LifeTypes, NEW w \in Workers, NEW r, worker' = [worker EXCEPT ![w] = r], NEW s \in Tenants, ResInv(s),
           r.t = s => r.at \notin Stages,
           status[s] \in {"deleted", "gone"}, status'[s] \in {"deleted", "gone"},
           s \in schemas' => SomeAt(s, {"dropSchema"})', status'[s] = "deleted" => SomeAt(s, {"dropSchema", "dropRow"})',
           s \in influx' => SomeAt(s, {"dropSchema", "dropRow", "dropInflux"})',
           grafana'[s] # Nobody => SomeAt(s, Teardown)',
           \A v \in Workers : worker[v].t = s => worker[v].at \notin Stages
    PROVE  ResInv(s)'
<1>1. ASSUME NEW v \in Workers, worker'[v].t = s PROVE worker'[v].at \notin Stages
  BY <1>1 DEF LifeTypes
<1>. QED  BY <1>1 DEF ResInv, Live, Stages

\* Nobody sets up a tenant that is being torn down.
LEMMA NoSetup ==
    ASSUME LifeInv, NEW s, status[s] \in {"deleted", "gone"}
    PROVE  \A v \in Workers : worker[v].t = s => worker[v].at \notin Stages
BY DEF LifeInv, WorkInv, TaskOk

\* Each step of a teardown keeps the invariant, whether it succeeds or fails.
LEMMA DropSchemaKeeps == ASSUME LifeInv, NEW w \in Workers, DropSchema(w) PROVE LifeInv'
<1>1. PICK s : s = worker[w].t
  OBVIOUS
<1>2. /\ worker[w].at = "dropSchema" /\ worker[w].at \in Teardown /\ worker' = Go(w, "dropRow") /\ "dropRow" \in Teardown
      /\ UNCHANGED <<rows, status, trial, influx, grafana, pending, sweep, day>> /\ broken \subseteq broken'
      /\ \A t \in Tenants : t # s => (t \in schemas' <=> t \in schemas)
      /\ s \notin broken' => s \notin schemas'
  BY <1>1 DEF DropSchema, Teardown, Broken, rows
<1>3. PICK r \in Task : /\ worker' = [worker EXCEPT ![w] = r] /\ r.t = s /\ r.at = "dropRow" /\ worker'[w] = r /\ LifeTypes
  BY <1>1, <1>2, TearGo
<1>4. \A steps : "dropRow" \in steps => SomeAt(s, steps)'
  BY <1>3 DEF SomeAt
<1>5. ASSUME s \notin broken', ResInv(s), status[s] \in {"deleted", "gone"} PROVE ResInv(s)'
  <2>1. s \in Tenants
    BY <1>1, <1>2, <1>3, TenantLifecycleAssumption DEF LifeInv, WorkInv, TaskOk, Teardown, LifeTypes, Task
  <2>. QED  BY <1>2, <1>3, <1>4, <1>5, <2>1, NoSetup, TornRes DEF Stages, Teardown
<1>6. grafana' \in [Tenants -> Names \cup {Nobody}]
  BY <1>2, <1>3 DEF LifeTypes
<1>. QED  BY <1>1, <1>2, <1>3, <1>5, <1>6, TeardownStep

LEMMA DropRowKeeps == ASSUME LifeInv, NEW w \in Workers, DropRow(w) PROVE LifeInv'
<1>1. PICK s : s = worker[w].t
  OBVIOUS
<1>2. /\ worker[w].at = "dropRow" /\ worker[w].at \in Teardown /\ worker' = Go(w, "dropInflux") /\ "dropInflux" \in Teardown
      /\ UNCHANGED <<trial, schemas, influx, grafana, pending, sweep, day>> /\ broken \subseteq broken'
      /\ UNCHANGED rows \/ Rollback(s)
      /\ s \notin broken' => status' = [status EXCEPT ![s] = "gone"]
  BY <1>1 DEF DropRow, Teardown, Broken, outside, Rollback
<1>3. PICK r \in Task : /\ worker' = [worker EXCEPT ![w] = r] /\ r.t = s /\ r.at = "dropInflux" /\ worker'[w] = r /\ LifeTypes
  BY <1>1, <1>2, TearGo
<1>4. \A steps : "dropInflux" \in steps => SomeAt(s, steps)'
  BY <1>3 DEF SomeAt
<1>5. ASSUME s \notin broken', ResInv(s), status[s] \in {"deleted", "gone"} PROVE ResInv(s)'
  <2>1. s \in Tenants
    BY <1>1, <1>2, <1>3, TenantLifecycleAssumption DEF LifeInv, WorkInv, TaskOk, Teardown, LifeTypes, Task
  <2>2. status'[s] = "gone"
    BY <1>2, <1>3, <1>5, <2>1 DEF LifeTypes
  <2>3. s \in schemas => SomeAt(s, {"dropSchema"})'
    BY <1>2, <1>3, <1>5, SomeKept DEF ResInv
  <2>4. \A v \in Workers : worker[v].t = s => worker[v].at \notin Stages
    BY <1>5, NoSetup
  <2>5. r.at \notin Stages
    BY <1>3 DEF Stages
  <2>6. SomeAt(s, {"dropSchema", "dropRow", "dropInflux"})' /\ SomeAt(s, Teardown)'
    BY <1>4 DEF Teardown
  <2>. QED  BY <1>2, <1>3, <1>5, <2>1, <2>2, <2>3, <2>4, <2>5, <2>6, TornRes
<1>6. grafana' \in [Tenants -> Names \cup {Nobody}]
  BY <1>2, <1>3 DEF LifeTypes
<1>. QED  BY <1>1, <1>2, <1>3, <1>5, <1>6, TeardownStep

LEMMA DropInfluxKeeps == ASSUME LifeInv, NEW w \in Workers, DropInflux(w) PROVE LifeInv'
<1>1. PICK s : s = worker[w].t
  OBVIOUS
<1>2. /\ worker[w].at = "dropInflux" /\ worker[w].at \in Teardown /\ worker' = Go(w, "dropGrafana") /\ "dropGrafana" \in Teardown
      /\ UNCHANGED <<rows, status, trial, schemas, grafana, pending, sweep, day>> /\ broken \subseteq broken'
      /\ \A t \in Tenants : t # s => (t \in influx' <=> t \in influx)
      /\ s \notin broken' => s \notin influx'
  BY <1>1 DEF DropInflux, Teardown, Broken, rows
<1>3. PICK r \in Task : /\ worker' = [worker EXCEPT ![w] = r] /\ r.t = s /\ r.at = "dropGrafana" /\ worker'[w] = r /\ LifeTypes
  BY <1>1, <1>2, TearGo
<1>4. \A steps : "dropGrafana" \in steps => SomeAt(s, steps)'
  BY <1>3 DEF SomeAt
<1>5. ASSUME s \notin broken', ResInv(s), status[s] \in {"deleted", "gone"} PROVE ResInv(s)'
  <2>1. s \in Tenants
    BY <1>1, <1>2, <1>3, TenantLifecycleAssumption DEF LifeInv, WorkInv, TaskOk, Teardown, LifeTypes, Task
  <2>3. s \in schemas => SomeAt(s, {"dropSchema"})'
    BY <1>2, <1>3, <1>5, SomeKept DEF ResInv
  <2>7. status[s] = "deleted" => SomeAt(s, {"dropSchema", "dropRow"})'
    BY <1>2, <1>3, <1>5, SomeKept DEF ResInv
  <2>4. \A v \in Workers : worker[v].t = s => worker[v].at \notin Stages
    BY <1>5, NoSetup
  <2>5. r.at \notin Stages
    BY <1>3 DEF Stages
  <2>6. SomeAt(s, Teardown)'
    BY <1>4 DEF Teardown
  <2>. QED  BY <1>2, <1>3, <1>5, <2>1, <2>3, <2>4, <2>5, <2>6, <2>7, TornRes
<1>6. grafana' \in [Tenants -> Names \cup {Nobody}]
  BY <1>2, <1>3 DEF LifeTypes
<1>. QED  BY <1>1, <1>2, <1>3, <1>5, <1>6, TeardownStep

LEMMA DropGrafanaKeeps == ASSUME LifeInv, NEW w \in Workers, DropGrafana(w) PROVE LifeInv'
<1>0. LifeTypes
  BY DEF LifeInv
<1>1. PICK s : s = worker[w].t
  OBVIOUS
<1>2. /\ worker[w].at = "dropGrafana" /\ worker[w].at \in Teardown /\ End(w)
      /\ UNCHANGED <<rows, status, trial, schemas, influx, pending, sweep, day>> /\ broken \subseteq broken'
      /\ grafana' = [grafana EXCEPT ![s] = Nobody] \/ (grafana' = grafana /\ s \in broken')
  BY <1>1 DEF DropGrafana, Teardown, Broken, rows
<1>3. PICK r : /\ worker' = [worker EXCEPT ![w] = r] /\ Ended(w, r)
  BY <1>2, EndMoves
<1>r. r \in Task /\ r.t = Nobody /\ r.at \notin Stages
  BY <1>3 DEF Ended, Stages
<1>s. s \in Tenants
  BY <1>0, <1>1, <1>2, TenantLifecycleAssumption DEF LifeInv, WorkInv, TaskOk, Teardown, LifeTypes, Task
<1>6. /\ grafana' \in [Tenants -> Names \cup {Nobody}] /\ \A t \in Tenants : t # s => grafana'[t] = grafana[t]
      /\ s \notin broken' => grafana'[s] = Nobody
  BY <1>0, <1>2, <1>s DEF LifeTypes
<1>5. ASSUME s \notin broken', ResInv(s), status[s] \in {"deleted", "gone"} PROVE ResInv(s)'
  <2>3. s \in schemas => SomeAt(s, {"dropSchema"})'
    BY <1>0, <1>2, <1>3, <1>5, SomeKept DEF ResInv
  <2>7. status[s] = "deleted" => SomeAt(s, {"dropSchema", "dropRow"})'
    BY <1>0, <1>2, <1>3, <1>5, SomeKept DEF ResInv
  <2>8. s \in influx => SomeAt(s, {"dropSchema", "dropRow", "dropInflux"})'
    BY <1>0, <1>2, <1>3, <1>5, SomeKept DEF ResInv
  <2>4. \A v \in Workers : worker[v].t = s => worker[v].at \notin Stages
    BY <1>5, NoSetup
  <2>. QED  BY <1>0, <1>2, <1>3, <1>r, <1>s, <1>5, <1>6, <2>3, <2>4, <2>7, <2>8, TornRes
<1>. QED  BY <1>1, <1>2, <1>3, <1>r, <1>5, <1>6, TeardownStep

\* The check goes on, and nothing is torn down.
LEMMA CheckGoesOn ==
    ASSUME LifeInv, LifeTypes', NEW r \in Task, worker' = [worker EXCEPT ![Checker] = r],
           worker[Checker].at \in {"idle", "check"} \cup Warning, r.at \in {"idle", "check"} \cup Warning,
           r.at \in {"idle", "check"} <=> r.t = Nobody,
           r.at \in Warning => status[r.t] \notin {"none", "draft"},
           UNCHANGED <<status, schemas, influx, grafana, broken>>,
           \A t \in sweep'.left : t \in Tenants /\ (t \in sweep.left \/ status[t] \notin {"none", "draft"})
    PROVE  LifeInv'
<1>0. LifeTypes /\ WorkInv /\ Checker \in Workers
  BY DEF LifeInv, Workers
<1>1. WorkInv'
  <2>1. \A t \in Tenants : RowStep(Checker, r, t)
    BY DEF RowStep, InSetup, Stages, Warning
  <2>2. /\ r.at \notin Stages /\ r.at \notin Teardown
    BY DEF Stages, Warning, Teardown
  <2>3. status' \in [Tenants -> Statuses]
    BY DEF LifeTypes
  <2>. QED  BY <1>0, <2>1, <2>2, <2>3, WorkKept
<1>2. worker'[Checker] = r /\ \A v \in Workers \ {Checker} : worker'[v] = worker[v]
  BY <1>0 DEF LifeTypes
<1>3. ASSUME NEW t \in Tenants \ broken' PROVE ResInv(t)'
  <2>1. ResInv(t) /\ t # Nobody
    BY <1>3, TenantLifecycleAssumption DEF LifeInv, ResourceInv
  <2>2. \A steps \in SUBSET Teardown : SomeAt(t, steps)' <=> SomeAt(t, steps)
    BY <1>0, <1>2 DEF SomeAt, Warning, Teardown
  <2>3. \A v \in Workers : worker'[v].at \in {"schema", "grafana", "finish"} => worker'[v] = worker[v]
    BY <1>2 DEF Warning
  <2>4. {{"dropSchema"}, {"dropSchema", "dropRow"}, {"dropSchema", "dropRow", "dropInflux"}, Teardown} \subseteq SUBSET Teardown
    BY DEF Teardown
  <2>5. /\ SomeAt(t, {"dropSchema"})' <=> SomeAt(t, {"dropSchema"})
        /\ SomeAt(t, {"dropSchema", "dropRow"})' <=> SomeAt(t, {"dropSchema", "dropRow"})
        /\ SomeAt(t, {"dropSchema", "dropRow", "dropInflux"})' <=> SomeAt(t, {"dropSchema", "dropRow", "dropInflux"})
        /\ SomeAt(t, Teardown)' <=> SomeAt(t, Teardown)
    BY <2>2, <2>4
  <2>. QED  BY <2>1, <2>3, <2>5 DEF ResInv, AllThere
<1>. QED  BY <1>1, <1>3 DEF LifeInv, ResourceInv

\* A tenant is marked deleted, and a worker that was free tears it down.
LEMMA CulledKeeps ==
    ASSUME LifeInv, NEW w \in Workers, worker[w].at \in {"idle", "check"}, NEW t \in Tenants,
           status[t] \in {"active", "suspended", "deleted"}, Deleted(t),
           NEW r \in Task, worker' = [worker EXCEPT ![w] = r], r.at = "dropSchema", r.t = t,
           UNCHANGED <<trial, outside, pending, day, broken>>,
           sweep' \in [now : Nat \cup {Nobody}, left : SUBSET Tenants, held : [Tenants -> Trial \cup {Nobody}]],
           sweep'.left \subseteq sweep.left
    PROVE  LifeInv'
<1>0. LifeTypes /\ WorkInv /\ TaskOk(w)
  BY DEF LifeInv, WorkInv
<1>1. worker[w].t = Nobody /\ t # Nobody
  BY <1>0, TenantLifecycleAssumption DEF TaskOk
<1>2. status' = [status EXCEPT ![t] = "deleted"] /\ name' = name
  BY DEF Deleted
<1>3. status'[t] = "deleted" /\ \A u \in Tenants : u # t => status'[u] = status[u]
  BY <1>0, <1>2 DEF LifeTypes
<1>4. LifeTypes'
  <2>1. status' \in [Tenants -> Statuses] /\ worker' \in [Workers -> Task]
    BY <1>0, <1>2 DEF LifeTypes, Statuses
  <2>2. \A u \in Tenants : status'[u] = "draft" => name'[u] \in Names
    BY <1>0, <1>2, <1>3 DEF LifeTypes
  <2>. QED  BY <1>0, <1>2, <2>1, <2>2 DEF LifeTypes, outside
<1>5. WorkInv'
  <2>1. \A u \in Tenants : RowStep(w, r, u)
    BY <1>1, <1>3 DEF RowStep, InSetup, Stages
  <2>2. \A u \in sweep'.left : u \in Tenants /\ u \in sweep.left
    BY <1>0 DEF LifeTypes
  <2>3. r.at \notin Stages /\ r.at \notin Warning \cup {"check"} /\ r.at \notin {"idle", "check"} /\ r.t # Nobody
    BY <1>1 DEF Stages, Warning
  <2>4. status' \in [Tenants -> Statuses]
    BY <1>4 DEF LifeTypes
  <2>. QED  BY <1>0, <1>3, <2>1, <2>2, <2>3, <2>4, WorkKept
<1>6. ResInv(t)'
  <2>1. \A steps : "dropSchema" \in steps => SomeAt(t, steps)'
    BY <1>0 DEF SomeAt, LifeTypes
  <2>2. ASSUME NEW v \in Workers, worker'[v].t = t PROVE worker'[v].at \notin Stages
    BY <1>3, <1>5, <2>2 DEF WorkInv, TaskOk
  <2>. QED  BY <1>3, <2>1, <2>2 DEF ResInv, Live, Stages, Teardown
<1>7. \A u \in Tenants : u # t => Undisturbed(u)
  BY <1>3 DEF Undisturbed, outside
<1>. QED  BY <1>1, <1>4, <1>5, <1>6, <1>7, OneTenant

\* The requests, the trials and the check keep the invariant: one lemma for each action.
LEMMA DeleteTenantKeeps ==
    ASSUME LifeInv, NEW h \in Handlers, NEW t \in Tenants, DeleteTenant(h, t) PROVE LifeInv'
<1>0. LifeTypes /\ h \in Workers
  BY DEF LifeInv, Workers
<1>1. PICK r : r = [Free EXCEPT !.at = "dropSchema", !.op = "delete", !.t = t]
  OBVIOUS
<1>2. r \in Task /\ r.at = "dropSchema" /\ r.t = t
  BY <1>1, FreeOk DEF Free, Task, Teardown
<1>3. /\ worker[h].at = "idle" /\ status[t] \in {"active", "suspended"} /\ Deleted(t)
      /\ worker' = [worker EXCEPT ![h] = r] /\ UNCHANGED <<trial, outside, pending, sweep, day, broken>>
  BY <1>1 DEF DeleteTenant, Busy, Live, history
<1>4. /\ sweep' \in [now : Nat \cup {Nobody}, left : SUBSET Tenants, held : [Tenants -> Trial \cup {Nobody}]]
      /\ sweep'.left \subseteq sweep.left
  BY <1>0, <1>3 DEF LifeTypes
<1>. QED  BY <1>0, <1>2, <1>3, <1>4, CulledKeeps

\* A new row: its setup begins.
LEMMA InsertKeeps ==
    ASSUME LifeInv, NEW h \in Handlers, NEW t \in Tenants, NEW s, NEW n \in Names, NEW due \in Nat \cup {Nobody},
           NEW r \in Task, r.at = "influx", r.t = t, Insert(h, t, s, n, due, r)
    PROVE  LifeInv'
<1>0. LifeTypes /\ WorkInv /\ h \in Workers /\ h # Checker /\ TaskOk(h)
  BY TenantLifecycleAssumption DEF LifeInv, WorkInv, Workers
<1>1. /\ worker[h].at = "idle" /\ status[t] = "none" /\ status' = [status EXCEPT ![t] = "draft"]
      /\ name' = [name EXCEPT ![t] = n] /\ trial' = [trial EXCEPT ![t].due = due]
      /\ worker' = [worker EXCEPT ![h] = r] /\ UNCHANGED <<schemas, influx, grafana, pending, sweep, day, broken>>
  BY DEF Insert, Busy, outside, history
<1>2. worker[h].t = Nobody /\ t # Nobody
  BY <1>0, <1>1, TenantLifecycleAssumption DEF TaskOk
<1>3. status'[t] = "draft" /\ name'[t] = n /\ \A u \in Tenants : u # t => status'[u] = status[u] /\ name'[u] = name[u]
  BY <1>0, <1>1 DEF LifeTypes
<1>4. LifeTypes'
  <2>1. trial' \in [Tenants -> Trial]
    <3>1. trial[t] \in Trial
      BY <1>0 DEF LifeTypes
    <3>2. [trial[t] EXCEPT !.due = due] \in Trial
      BY <3>1 DEF Trial
    <3>3. trial' = [trial EXCEPT ![t] = [trial[t] EXCEPT !.due = due]]
      BY <1>1
    <3>. QED  BY <1>0, <3>2, <3>3 DEF LifeTypes
  <2>2. status' \in [Tenants -> Statuses] /\ worker' \in [Workers -> Task] /\ name' \in [Tenants -> Names \cup {Nobody}]
    BY <1>0, <1>1 DEF LifeTypes, Statuses
  <2>3. \A u \in Tenants : status'[u] = "draft" => name'[u] \in Names
    BY <1>0, <1>3 DEF LifeTypes
  <2>. QED  BY <1>0, <1>1, <2>1, <2>2, <2>3 DEF LifeTypes
<1>5. WorkInv'
  <2>1. \A u \in Tenants : RowStep(h, r, u)
    BY <1>1, <1>2, <1>3 DEF RowStep, InSetup, Stages
  <2>2. \A u \in sweep'.left : u \in Tenants /\ u \in sweep.left
    BY <1>0, <1>1 DEF LifeTypes
  <2>3. r.at \notin Warning \cup {"check"} /\ r.at \notin {"idle", "check"} /\ r.t # Nobody /\ r.at \notin Teardown
    BY <1>2 DEF Teardown, Warning
  <2>4. status' \in [Tenants -> Statuses]
    BY <1>4 DEF LifeTypes
  <2>. QED  BY <1>0, <1>1, <1>3, <2>1, <2>2, <2>3, <2>4, WorkKept
<1>6. ResInv(t)'
  <2>1. worker'[h] = r /\ InSetup(h, t)'
    BY <1>0, <1>1 DEF InSetup, LifeTypes, Stages
  <2>. QED  BY <1>0, <1>3, <1>5, <2>1, DraftRes
<1>7. \A u \in Tenants : u # t => Undisturbed(u)
  BY <1>1, <1>3 DEF Undisturbed
<1>. QED  BY <1>0, <1>1, <1>2, <1>4, <1>5, <1>6, <1>7, OneTenant

LEMMA CreateKeeps ==
    ASSUME LifeInv, NEW h \in Handlers, NEW t \in Tenants, NEW s \in Slugs, NEW n \in Names, Create(h, t, s, n)
    PROVE  LifeInv'
<1>1. PICK r : r = [Free EXCEPT !.at = "influx", !.op = "create", !.t = t]
  OBVIOUS
<1>2. r \in Task /\ r.at = "influx" /\ r.t = t
  BY <1>1, FreeOk DEF Free, Task, Stages
<1>3. Insert(h, t, s, n, Nobody, r)
  BY <1>1 DEF Create
<1>. QED  BY <1>2, <1>3, InsertKeeps

LEMMA VerifyKeeps ==
    ASSUME LifeInv, NEW h \in Handlers, NEW t \in Tenants, NEW e \in Emails, Verify(h, t, e) PROVE LifeInv'
<1>0. LifeTypes
  BY DEF LifeInv
<1>1. pending[e] # Nobody /\ pending[e] \in Asked
  BY <1>0 DEF Verify, LifeTypes
<1>2. CASE pending[e].expires < day
  <2>1. /\ pending' = [pending EXCEPT ![e] = Nobody]
        /\ UNCHANGED <<status, name, trial, schemas, influx, grafana, worker, sweep, day, broken>>
    BY <1>2 DEF Verify, rows, outside, history
  <2>2. LifeTypes'
    BY <1>0, <2>1 DEF LifeTypes
  <2>3. WorkInv'
    BY <1>0, <2>1, WorkStill DEF LifeInv
  <2>4. \A u \in Tenants \ broken' : ResInv(u)'
    BY <2>1, ResKept DEF LifeInv, ResourceInv
  <2>. QED  BY <2>2, <2>3, <2>4 DEF LifeInv, ResourceInv
<1>3. CASE ~(pending[e].expires < day)
  <2>1. PICK r : r = [at |-> "influx", op |-> "verify", t |-> t, email |-> e]
    OBVIOUS
  <2>2. r \in Task /\ r.at = "influx" /\ r.t = t
    BY <2>1 DEF Task, Stages
  <2>3. pending[e].name \in Names /\ day + Period \in Nat
    BY <1>0, <1>1, TenantLifecycleAssumption DEF Asked, LifeTypes
  <2>4. Insert(h, t, pending[e].slug, pending[e].name, day + Period, r)
    BY <1>3, <2>1 DEF Verify
  <2>. QED  BY <2>2, <2>3, <2>4, InsertKeeps
<1>. QED  BY <1>2, <1>3

\* A step in which nobody's work goes on and nothing outside changes.
LEMMA StillKeeps ==
    ASSUME LifeInv, LifeTypes', UNCHANGED <<schemas, influx, grafana, sweep>>, broken \subseteq broken',
           \A w \in Workers : worker'[w].at = worker[w].at /\ worker'[w].t = worker[w].t,
           \A t \in Tenants : \/ status'[t] = status[t]
                              \/ status[t] \in {"active", "suspended"} /\ status'[t] \in {"active", "suspended"}
                              \/ status[t] = "deleted" /\ status'[t] \in {"active", "suspended"} /\ t \in broken'
    PROVE  LifeInv'
<1>0. LifeTypes /\ WorkInv
  BY DEF LifeInv
<1>1. \A t \in Tenants : status'[t] = status[t]
                           \/ (status[t] \notin {"none", "draft"} /\ status'[t] \notin {"none", "draft"})
  OBVIOUS
<1>2. WorkInv'
  BY <1>0, <1>1, WorkStill
<1>3. ASSUME NEW t \in Tenants \ broken' PROVE ResInv(t)'
  <2>1. ResInv(t) /\ t \in Tenants /\ t \notin broken'
    BY <1>3 DEF LifeInv, ResourceInv
  <2>2. CASE status'[t] = status[t]
    <3>1. \A w \in Workers : worker[w].t = t \/ worker'[w].t = t =>
                              worker'[w].at = worker[w].at /\ worker'[w].t = worker[w].t
      OBVIOUS
    <3>. QED  BY <2>1, <2>2, <3>1, ResKept
  <2>3. CASE status[t] \in {"active", "suspended"} /\ status'[t] \in {"active", "suspended"}
    <3>1. SomeAt(t, Teardown)' <=> SomeAt(t, Teardown)
      BY DEF SomeAt
    <3>. QED  BY <2>1, <2>3, <3>1 DEF ResInv, AllThere, Live
  <2>. QED  BY <2>1, <2>2, <2>3
<1>. QED  BY <1>2, <1>3 DEF LifeInv, ResourceInv

LEMMA SignupKeeps ==
    ASSUME LifeInv, NEW e \in Emails, NEW s \in Slugs, NEW n \in Names, Signup(e, s, n) PROVE LifeInv'
<1>0. LifeTypes
  BY DEF LifeInv
<1>1. UNCHANGED <<status, name, trial, schemas, influx, grafana, sweep, day, broken>>
  BY DEF Signup, rows, outside, history
<1>2. /\ pending' = [pending EXCEPT ![e] = [slug |-> s, name |-> n, expires |-> day + 1]]
      /\ worker' = [w \in Workers |-> IF worker[w].email = e THEN [worker[w] EXCEPT !.email = Nobody]
                                      ELSE worker[w]]
  BY DEF Signup
<1>3. \A w \in Workers : worker'[w].at = worker[w].at /\ worker'[w].t = worker[w].t /\ worker'[w] \in Task
  <2>1. ASSUME NEW w \in Workers PROVE worker'[w].at = worker[w].at /\ worker'[w].t = worker[w].t /\ worker'[w] \in Task
    <3>1. PICK r : r = worker[w]
      OBVIOUS
    <3>2. r \in Task
      BY <1>0, <3>1 DEF LifeTypes
    <3>3. [r EXCEPT !.email = Nobody].at = r.at /\ [r EXCEPT !.email = Nobody].t = r.t /\ [r EXCEPT !.email = Nobody] \in Task
      BY <3>2 DEF Task
    <3>4. worker'[w] = r \/ worker'[w] = [r EXCEPT !.email = Nobody]
      BY <1>2, <3>1
    <3>. QED  BY <3>1, <3>2, <3>3, <3>4
  <2>. QED  BY <2>1
<1>4. worker' \in [Workers -> Task]
  BY <1>2, <1>3
<1>5. pending' \in [Emails -> Asked \cup {Nobody}]
  <2>1. [slug |-> s, name |-> n, expires |-> day + 1] \in Asked
    BY <1>0 DEF Asked, LifeTypes
  <2>. QED  BY <1>0, <1>2, <2>1 DEF LifeTypes
<1>6. LifeTypes'
  BY <1>0, <1>1, <1>4, <1>5 DEF LifeTypes
<1>. QED  BY <1>1, <1>3, <1>6, StillKeeps

LEMMA ChangeStatusKeeps ==
    ASSUME LifeInv, NEW t \in Tenants, NEW to \in Live, ChangeStatus(t, to) PROVE LifeInv'
<1>0. LifeTypes /\ to \in {"active", "suspended"}
  BY DEF LifeInv, Live
<1>1. /\ status[t] \in {"active", "suspended", "deleted"} /\ status' = [status EXCEPT ![t] = to]
      /\ broken' = (IF status[t] = "deleted" THEN broken \cup {t} ELSE broken)
      /\ UNCHANGED <<name, trial, schemas, influx, grafana, pending, worker, sweep, day>>
  BY DEF ChangeStatus, Has, outside
<1>2. LifeTypes'
  <2>1. status' \in [Tenants -> Statuses]
    BY <1>0, <1>1 DEF LifeTypes, Statuses
  <2>2. \A u \in Tenants : status'[u] = "draft" => name'[u] \in Names
    BY <1>0, <1>1 DEF LifeTypes
  <2>. QED  BY <1>0, <1>1, <2>1, <2>2 DEF LifeTypes
<1>3. \A u \in Tenants : \/ status'[u] = status[u]
                         \/ status[u] \in {"active", "suspended"} /\ status'[u] \in {"active", "suspended"}
                         \/ status[u] = "deleted" /\ status'[u] \in {"active", "suspended"} /\ u \in broken'
  BY <1>0, <1>1 DEF LifeTypes
<1>. QED  BY <1>1, <1>2, <1>3, StillKeeps

LEMMA RenameKeeps ==
    ASSUME LifeInv, NEW t \in Tenants, NEW n \in Names, Rename(t, n) PROVE LifeInv'
<1>0. LifeTypes
  BY DEF LifeInv
<1>1. name' = [name EXCEPT ![t] = n]
      /\ UNCHANGED <<status, trial, schemas, influx, grafana, pending, worker, sweep, day, broken>>
  BY DEF Rename, outside, history
<1>2. LifeTypes'
  BY <1>0, <1>1 DEF LifeTypes
<1>. QED  BY <1>1, <1>2, StillKeeps

LEMMA AskExtensionKeeps ==
    ASSUME LifeInv, NEW t \in Tenants, AskExtension(t) PROVE LifeInv'
<1>0. LifeTypes
  BY DEF LifeInv
<1>1. trial' = [trial EXCEPT ![t].asked = day]
      /\ UNCHANGED <<status, name, schemas, influx, grafana, pending, worker, sweep, day, broken>>
  BY DEF AskExtension, rows, outside, history
<1>2. [trial[t] EXCEPT !.asked = day] \in Trial
  BY <1>0 DEF LifeTypes, Trial
<1>3. LifeTypes'
  BY <1>0, <1>1, <1>2 DEF LifeTypes
<1>. QED  BY <1>1, <1>3, StillKeeps

LEMMA ApproveKeeps ==
    ASSUME LifeInv, NEW t \in Tenants, Approve(t) PROVE LifeInv'
<1>0. LifeTypes
  BY DEF LifeInv
<1>1. trial' = [trial EXCEPT ![t] = [due |-> day + Period, warned |-> FALSE, asked |-> Nobody]]
      /\ UNCHANGED <<status, name, schemas, influx, grafana, pending, worker, sweep, day, broken>>
  BY DEF Approve, Extended, rows, outside
<1>2. [due |-> day + Period, warned |-> FALSE, asked |-> Nobody] \in Trial
  BY <1>0, TenantLifecycleAssumption DEF LifeTypes, Trial
<1>3. LifeTypes'
  BY <1>0, <1>1, <1>2 DEF LifeTypes
<1>. QED  BY <1>1, <1>3, StillKeeps

LEMMA NextDayKeeps == ASSUME LifeInv, NextDay PROVE LifeInv'
<1>0. LifeTypes
  BY DEF LifeInv
<1>1. day' = day + 1
      /\ UNCHANGED <<status, name, trial, schemas, influx, grafana, pending, worker, sweep, broken>>
  BY DEF NextDay, rows, outside, history
<1>2. LifeTypes'
  BY <1>0, <1>1 DEF LifeTypes
<1>. QED  BY <1>1, <1>2, StillKeeps

LEMMA HeldOk == ASSUME LifeTypes, NEW t \in Tenants PROVE Held(t) \in Trial
<1>1. trial[t] \in Trial
  BY DEF LifeTypes
<1>. QED  BY <1>1 DEF Held, Trial

LEMMA StartCheckKeeps == ASSUME LifeInv, StartCheck PROVE LifeInv'
<1>0. LifeTypes /\ Checker \in Workers
  BY DEF LifeInv, Workers
<1>1. /\ worker[Checker].at = "idle" /\ worker' = Go(Checker, "check")
      /\ sweep' = [now |-> day, left |-> {t \in Tenants : status[t] = "active" /\ trial[t].due # Nobody},
                   held |-> [t \in Tenants |-> Held(t)]]
      /\ UNCHANGED <<status, name, trial, schemas, influx, grafana, pending, day, broken>>
  BY DEF StartCheck, Busy, rows, outside, history
<1>2. PICK r : /\ worker' = [worker EXCEPT ![Checker] = r] /\ r \in Task /\ r.at = "check" /\ r.t = worker[Checker].t
  BY <1>0, <1>1, GoMoves
<1>3. r.t = Nobody
  BY <1>0, <1>1, <1>2 DEF LifeInv, WorkInv, TaskOk
<1>4. LifeTypes'
  <2>1. worker' \in [Workers -> Task]
    BY <1>0, <1>2 DEF LifeTypes
  <2>2. sweep' \in [now : Nat \cup {Nobody}, left : SUBSET Tenants, held : [Tenants -> Trial \cup {Nobody}]]
    BY <1>0, <1>1, HeldOk DEF LifeTypes
  <2>. QED  BY <1>0, <1>1, <2>1, <2>2 DEF LifeTypes
<1>5. \A t \in sweep'.left : t \in Tenants /\ status[t] \notin {"none", "draft"}
  BY <1>1
<1>6. /\ worker[Checker].at \in {"idle", "check"} \cup Warning /\ r.at \in {"idle", "check"} \cup Warning
      /\ r.at \notin Warning
  BY <1>1, <1>2 DEF Warning
<1>. QED  BY <1>1, <1>2, <1>3, <1>4, <1>5, <1>6, CheckGoesOn

\* The end of the check.
LEMMA EndCheckMoves ==
    ASSUME EndCheck
    PROVE  \E r : worker' = [worker EXCEPT ![Checker] = r] /\ r \in Task /\ r.at = "idle" /\ r.t = Nobody
BY FreeOk DEF EndCheck

\* What the check has left when the turn of a tenant is over.
LEMMA WithoutOk ==
    ASSUME LifeTypes, NEW t
    PROVE  /\ Without(t) \in [now : Nat \cup {Nobody}, left : SUBSET Tenants, held : [Tenants -> Trial \cup {Nobody}]]
           /\ Without(t).left \subseteq sweep.left
           /\ [Without(t) EXCEPT !.held = Fresh]
                \in [now : Nat \cup {Nobody}, left : SUBSET Tenants, held : [Tenants -> Trial \cup {Nobody}]]
           /\ [Without(t) EXCEPT !.held = Fresh].left \subseteq sweep.left
           /\ Without(t).held = sweep.held /\ [Without(t) EXCEPT !.held = Fresh].held = Fresh
BY DEF LifeTypes, Without, Fresh

LEMMA FreshOk ==
    ASSUME LifeTypes
    PROVE  /\ [sweep EXCEPT !.held = Fresh]
                \in [now : Nat \cup {Nobody}, left : SUBSET Tenants, held : [Tenants -> Trial \cup {Nobody}]]
           /\ [sweep EXCEPT !.held = Fresh].left = sweep.left
           /\ [sweep EXCEPT !.held = Fresh].held = Fresh
BY DEF LifeTypes, Fresh

\* The row as the check reads it.
Read(t) == IF sweep.held[t] = Nobody THEN Held(t) ELSE sweep.held[t]
\* What the check does with the tenant whose turn it is.
Warns(t) ==
    /\ worker' = [worker EXCEPT ![Checker].at = "mail", ![Checker].t = t]
    /\ sweep' = Without(t) /\ UNCHANGED rows /\ ~Read(t).warned
Stops(t) == EndCheck /\ sweep' = Without(t) /\ UNCHANGED rows
Removes(t) ==
    /\ Has(t) /\ Deleted(t) /\ Read(t).warned
    /\ worker' = [worker EXCEPT ![Checker].at = "dropSchema", ![Checker].t = t]
    /\ sweep' = [Without(t) EXCEPT !.held = Fresh]
Passes(t) == sweep' = Without(t) /\ UNCHANGED <<rows, worker>>
\* The four things the check does with the tenant whose turn it is.
LEMMA CheckTenantCases ==
    ASSUME NEW t \in Tenants, CheckTenant(t)
    PROVE  /\ worker[Checker].at = "check" /\ t \in sweep.left
           /\ Warns(t) \/ Stops(t) \/ Removes(t) \/ Passes(t)
           /\ UNCHANGED <<trial, outside, pending, day, calls, history>>
BY DEF CheckTenant, Warns, Stops, Removes, Passes, Read

LEMMA CheckerMoves ==
    ASSUME LifeTypes, NEW t \in Tenants, NEW at \in {"mail", "dropSchema"},
           worker' = [worker EXCEPT ![Checker].at = at, ![Checker].t = t]
    PROVE  \E r : worker' = [worker EXCEPT ![Checker] = r] /\ r \in Task /\ r.at = at /\ r.t = t
<1>. DEFINE r == [worker[Checker] EXCEPT !.at = at, !.t = t]
<1>1. worker[Checker] \in Task /\ Checker \in Workers /\ worker \in [Workers -> Task]
  BY DEF LifeTypes, Workers
<1>2. r \in Task /\ r.at = at /\ r.t = t
  BY <1>1 DEF Task, Teardown, Warning
<1>3. worker' = [worker EXCEPT ![Checker] = r]
  BY <1>1
<1>. HIDE DEF r
<1>. QED  BY <1>2, <1>3

LEMMA CheckTenantKeeps == ASSUME LifeInv, NEW t \in Tenants, CheckTenant(t) PROVE LifeInv'
<1>0. LifeTypes /\ Checker \in Workers /\ t # Nobody /\ WorkInv
  BY TenantLifecycleAssumption DEF LifeInv, Workers
<1>1. /\ worker[Checker].at = "check" /\ t \in sweep.left
      /\ Warns(t) \/ Stops(t) \/ Removes(t) \/ Passes(t)
      /\ UNCHANGED <<trial, schemas, influx, grafana, pending, day, broken>>
  BY CheckTenantCases DEF outside, history
<1>2. status[t] \notin {"none", "draft"} /\ worker[Checker].t = Nobody
  BY <1>0, <1>1 DEF WorkInv, TaskOk
<1>3. ASSUME Passes(t) \/ Stops(t) \/ Warns(t),
             NEW r \in Task, worker' = [worker EXCEPT ![Checker] = r], r.at \in {"idle", "check", "mail"},
             r.at \in {"idle", "check"} <=> r.t = Nobody, r.at = "mail" => r.t = t
      PROVE  LifeInv'
  <2>1. UNCHANGED <<status, name>> /\ sweep' = Without(t)
    BY <1>3 DEF Passes, Stops, Warns, rows
  <2>2. LifeTypes'
    <3>1. worker' \in [Workers -> Task]
      BY <1>0, <1>3 DEF LifeTypes
    <3>2. sweep' \in [now : Nat \cup {Nobody}, left : SUBSET Tenants, held : [Tenants -> Trial \cup {Nobody}]]
      BY <1>0, <2>1, WithoutOk
    <3>. QED  BY <1>0, <1>1, <2>1, <3>1, <3>2 DEF LifeTypes
  <2>3. \A u \in sweep'.left : u \in Tenants /\ u \in sweep.left
    BY <1>0, <2>1, WithoutOk DEF LifeTypes
  <2>4. /\ worker[Checker].at \in {"idle", "check"} \cup Warning /\ r.at \in {"idle", "check"} \cup Warning
        /\ r.at \in Warning => status[r.t] \notin {"none", "draft"}
    BY <1>1, <1>2, <1>3 DEF Warning
  <2>. QED  BY <1>1, <1>3, <2>1, <2>2, <2>3, <2>4, CheckGoesOn
<1>4. CASE Warns(t)
  <2>1. PICK r : worker' = [worker EXCEPT ![Checker] = r] /\ r \in Task /\ r.at = "mail" /\ r.t = t
    BY <1>0, <1>4, CheckerMoves DEF Warns
  <2>. QED  BY <1>0, <1>3, <1>4, <2>1
<1>5. CASE Stops(t)
  <2>1. PICK r : worker' = [worker EXCEPT ![Checker] = r] /\ r \in Task /\ r.at = "idle" /\ r.t = Nobody
    BY <1>5, EndCheckMoves DEF Stops
  <2>. QED  BY <1>3, <1>5, <2>1
<1>6. CASE Passes(t)
  <2>1. PICK r : r = worker[Checker]
    OBVIOUS
  <2>2. r \in Task /\ r.at = "check" /\ r.t = Nobody /\ worker' = [worker EXCEPT ![Checker] = r]
    BY <1>0, <1>1, <1>2, <1>6, <2>1 DEF LifeTypes, Passes
  <2>. QED  BY <1>3, <1>6, <2>2
<1>7. CASE Removes(t)
  <2>1. PICK r : worker' = [worker EXCEPT ![Checker] = r] /\ r \in Task /\ r.at = "dropSchema" /\ r.t = t
    BY <1>0, <1>7, CheckerMoves DEF Removes
  <2>2. /\ sweep' \in [now : Nat \cup {Nobody}, left : SUBSET Tenants, held : [Tenants -> Trial \cup {Nobody}]]
        /\ sweep'.left \subseteq sweep.left
    BY <1>0, <1>7, WithoutOk DEF Removes
  <2>3. /\ Deleted(t) /\ status[t] \in {"active", "suspended", "deleted"}
        /\ UNCHANGED <<trial, outside, pending, day, broken>> /\ worker[Checker].at \in {"idle", "check"}
    BY <1>1, <1>7 DEF Removes, Has, outside
  <2>. QED  BY <1>0, <2>1, <2>2, <2>3, CulledKeeps
<1>. QED  BY <1>1, <1>4, <1>5, <1>6, <1>7

LEMMA MailWarningKeeps == ASSUME LifeInv, MailWarning PROVE LifeInv'
<1>0. LifeTypes /\ Checker \in Workers /\ WorkInv
  BY DEF LifeInv, Workers
<1>1. /\ worker[Checker].at = "mail"
      /\ EndCheck \/ End(Checker) \/ worker' = Go(Checker, "note")
      /\ UNCHANGED <<status, name, trial, schemas, influx, grafana, pending, sweep, day, broken>>
  BY DEF MailWarning, rows, outside
<1>2. /\ worker[Checker].t # Nobody /\ status[worker[Checker].t] \notin {"none", "draft"}
      /\ worker[Checker].at \in {"idle", "check"} \cup Warning
  BY <1>0, <1>1 DEF WorkInv, TaskOk, Warning
<1>3. PICK r \in Task : /\ worker' = [worker EXCEPT ![Checker] = r]
                        /\ \/ r.at = "note" /\ r.t = worker[Checker].t
                           \/ r.at \in {"idle", "check"} /\ r.t = Nobody
  <2>1. CASE EndCheck
    BY <2>1, EndCheckMoves
  <2>2. CASE End(Checker)
    BY <1>0, <2>2, EndMoves DEF Ended
  <2>3. CASE worker' = Go(Checker, "note")
    <3>1. "note" \in {"check"} \cup Stages \cup Teardown \cup Warning
      BY DEF Warning
    <3>. QED  BY <1>0, <2>3, <3>1, GoMoves
  <2>. QED  BY <1>1, <2>1, <2>2, <2>3
<1>4. LifeTypes'
  BY <1>0, <1>1, <1>3 DEF LifeTypes
<1>5. /\ r.at \in {"idle", "check"} \cup Warning /\ (r.at \in {"idle", "check"} <=> r.t = Nobody)
      /\ r.at \in Warning => status[r.t] \notin {"none", "draft"}
  BY <1>2, <1>3 DEF Warning
<1>6. \A t \in sweep'.left : t \in Tenants /\ t \in sweep.left
  BY <1>0, <1>1 DEF LifeTypes
<1>. QED  BY <1>1, <1>2, <1>3, <1>4, <1>5, <1>6, CheckGoesOn

LEMMA NoteWarningKeeps == ASSUME LifeInv, NoteWarning PROVE LifeInv'
<1>0. LifeTypes /\ Checker \in Workers /\ WorkInv
  BY DEF LifeInv, Workers
<1>1. PICK s : s = worker[Checker].t
  OBVIOUS
<1>2. /\ worker[Checker].at = "note"
      /\ EndCheck \/ End(Checker)
      /\ trial' = trial \/ trial' = [trial EXCEPT ![s].warned = TRUE]
      /\ sweep' = [sweep EXCEPT !.held = Fresh]
      /\ UNCHANGED <<status, name, schemas, influx, grafana, pending, day, broken>>
  BY <1>1 DEF NoteWarning, rows, outside, history
<1>3. s \in Tenants /\ worker[Checker].at \in {"idle", "check"} \cup Warning
  <2>1. worker[Checker] \in Task /\ TaskOk(Checker)
    BY <1>0 DEF WorkInv, LifeTypes
  <2>2. s \in Tenants \cup {Nobody}
    BY <1>1, <2>1 DEF Task
  <2>3. s # Nobody
    BY <1>1, <1>2, <2>1 DEF TaskOk
  <2>. QED  BY <1>2, <2>2, <2>3 DEF Warning
<1>4. PICK r \in Task : worker' = [worker EXCEPT ![Checker] = r] /\ r.at \in {"idle", "check"} /\ r.t = Nobody
  <2>1. CASE EndCheck
    BY <2>1, EndCheckMoves
  <2>2. CASE End(Checker)
    BY <1>0, <2>2, EndMoves DEF Ended
  <2>. QED  BY <1>2, <2>1, <2>2
<1>5. LifeTypes'
  <2>1. [trial[s] EXCEPT !.warned = TRUE] \in Trial
    <3>1. trial[s] \in Trial
      BY <1>0, <1>3 DEF LifeTypes
    <3>. QED  BY <3>1 DEF Trial
  <2>2. trial' \in [Tenants -> Trial]
    BY <1>0, <1>2, <2>1 DEF LifeTypes
  <2>3. sweep' \in [now : Nat \cup {Nobody}, left : SUBSET Tenants, held : [Tenants -> Trial \cup {Nobody}]]
    BY <1>0, <1>2, FreshOk
  <2>4. worker' \in [Workers -> Task]
    BY <1>0, <1>4 DEF LifeTypes
  <2>. QED  BY <1>0, <1>2, <2>2, <2>3, <2>4 DEF LifeTypes
<1>6. \A t \in sweep'.left : t \in Tenants /\ t \in sweep.left
  BY <1>0, <1>2, FreshOk DEF LifeTypes
<1>7. r.at \in {"idle", "check"} \cup Warning /\ r.at \notin Warning
  BY <1>4 DEF Warning
<1>. QED  BY <1>2, <1>3, <1>4, <1>5, <1>6, <1>7, CheckGoesOn

LEMMA CleanUpKeeps == ASSUME LifeInv, CleanUp PROVE LifeInv'
<1>0. LifeTypes /\ Checker \in Workers /\ WorkInv
  BY DEF LifeInv, Workers
<1>1. /\ worker[Checker].at = "check" /\ EndCheck
      /\ pending' = [e \in Emails |-> IF pending[e] # Nobody /\ pending[e].expires < sweep.now
                                      THEN Nobody ELSE pending[e]]
      /\ UNCHANGED <<status, name, trial, schemas, influx, grafana, sweep, day, broken>>
  BY DEF CleanUp, rows, outside, history
<1>2. PICK r : worker' = [worker EXCEPT ![Checker] = r] /\ r \in Task /\ r.at = "idle" /\ r.t = Nobody
  BY <1>1, EndCheckMoves
<1>3. LifeTypes'
  <2>1. pending' \in [Emails -> Asked \cup {Nobody}]
    BY <1>0, <1>1 DEF LifeTypes
  <2>2. worker' \in [Workers -> Task]
    BY <1>0, <1>2 DEF LifeTypes
  <2>. QED  BY <1>0, <1>1, <2>1, <2>2 DEF LifeTypes
<1>4. \A t \in sweep'.left : t \in Tenants /\ t \in sweep.left
  BY <1>0, <1>1 DEF LifeTypes
<1>5. /\ worker[Checker].at \in {"idle", "check"} \cup Warning
      /\ r.at \in {"idle", "check"} \cup Warning /\ r.at \notin Warning
  BY <1>1, <1>2 DEF Warning
<1>. QED  BY <1>1, <1>2, <1>3, <1>4, <1>5, CheckGoesOn

\* A restart: whoever was at work on a tenant has left it broken.
LEMMA CrashKeeps == ASSUME LifeInv, Crash PROVE LifeInv'
<1>0. LifeTypes /\ WorkInv
  BY DEF LifeInv
<1>1. PICK drafts : drafts = {t \in Tenants : status[t] = "draft"}
  OBVIOUS
<1>2. /\ worker' = [w \in Workers |-> Free]
      /\ broken' = broken \cup ({worker[w].t : w \in Workers} \ {Nobody})
      /\ status' = [t \in Tenants |-> IF t \in drafts THEN "gone" ELSE status[t]]
      /\ name' = [t \in Tenants |-> IF t \in drafts THEN Nobody ELSE name[t]]
      /\ UNCHANGED <<trial, schemas, influx, grafana, pending, sweep, day>>
  BY <1>1 DEF Crash, outside
<1>3. \A w \in Workers : worker'[w] \in Task /\ worker'[w].at = "idle" /\ worker'[w].t = Nobody
  BY <1>2, FreeOk
<1>4. \A t \in Tenants : /\ status'[t] # "draft" /\ (status'[t] = status[t] \/ status[t] = "draft")
                         /\ status[t] = "draft" => status'[t] = "gone"
  BY <1>1, <1>2
<1>5. LifeTypes'
  <2>1. worker' \in [Workers -> Task]
    BY <1>2, FreeOk
  <2>2. status' \in [Tenants -> Statuses] /\ name' \in [Tenants -> Names \cup {Nobody}]
    BY <1>0, <1>2 DEF LifeTypes, Statuses
  <2>3. \A u \in Tenants : status'[u] = "draft" => name'[u] \in Names
    BY <1>4
  <2>. QED  BY <1>0, <1>2, <2>1, <2>2, <2>3 DEF LifeTypes
<1>6. WorkInv'
  <2>1. \A w \in Workers : TaskOk(w)' /\ \A t \in Tenants : ~InSetup(w, t)'
    BY <1>3 DEF TaskOk, InSetup, Stages, Teardown, Warning
  <2>2. \A t \in sweep'.left : status'[t] \notin {"none", "draft"}
    <3>1. ASSUME NEW t \in sweep.left PROVE status'[t] \notin {"none", "draft"}
      <4>1. t \in Tenants /\ status[t] \notin {"none", "draft"}
        BY <1>0 DEF WorkInv, LifeTypes
      <4>. QED  BY <1>4, <4>1
    <3>. QED  BY <1>2, <3>1
  <2>. QED  BY <1>4, <2>1, <2>2 DEF WorkInv
<1>7. ASSUME NEW t \in Tenants \ broken' PROVE ResInv(t)'
  <2>1. t \in Tenants /\ t \notin broken /\ t # Nobody
    BY <1>2, <1>7, TenantLifecycleAssumption
  <2>2. \A w \in Workers : worker[w].t # t
    <3>1. ASSUME NEW w \in Workers, worker[w].t = t PROVE FALSE
      <4>1. t \in {worker[v].t : v \in Workers}
        BY <3>1
      <4>. QED  BY <1>2, <1>7, <2>1, <4>1
    <3>. QED  BY <3>1
  <2>3. status[t] # "draft"
    BY <1>0, <2>1, <2>2 DEF WorkInv, InSetup
  <2>4. status'[t] = status[t]
    BY <1>4, <2>1, <2>3
  <2>5. ResInv(t)
    BY <2>1 DEF LifeInv, ResourceInv
  <2>. QED  BY <1>2, <1>3, <2>1, <2>2, <2>4, <2>5, ResKept
<1>. QED  BY <1>5, <1>6, <1>7 DEF LifeInv, ResourceInv

LEMMA LifeStutters == ASSUME LifeInv, UNCHANGED lifeVars PROVE LifeInv'
<1>1. UNCHANGED <<status, name, trial, schemas, influx, grafana, pending, worker, sweep, day, broken>>
  BY DEF lifeVars, rows, outside, history
<1>2. LifeTypes'
  BY <1>1 DEF LifeInv, LifeTypes
<1>. QED  BY <1>1, <1>2, StillKeeps

\* Every step keeps the invariant.
LEMMA LifeKept == LifeInv /\ [LifeNext]_lifeVars => LifeInv'
<1>. SUFFICES ASSUME LifeInv, [LifeNext]_lifeVars PROVE LifeInv'
  OBVIOUS
<1>1. ASSUME NEW h \in Handlers, NEW t \in Tenants, NEW s \in Slugs, NEW n \in Names, Create(h, t, s, n) PROVE LifeInv'
  BY <1>1, CreateKeeps
<1>2. ASSUME NEW h \in Handlers, NEW t \in Tenants, NEW e \in Emails, Verify(h, t, e) PROVE LifeInv'
  BY <1>2, VerifyKeeps
<1>3. ASSUME NEW h \in Handlers, SetupInflux(h) \/ SetupSchema(h) \/ SetupGrafana(h) \/ Finish(h) PROVE LifeInv'
  BY <1>3, SetupInfluxKeeps, SetupSchemaKeeps, SetupGrafanaKeeps, FinishKeeps
<1>4. ASSUME NEW h \in Handlers, NEW t \in Tenants, DeleteTenant(h, t) PROVE LifeInv'
  BY <1>4, DeleteTenantKeeps
<1>5. ASSUME NEW w \in Workers, DropSchema(w) \/ DropRow(w) \/ DropInflux(w) \/ DropGrafana(w) PROVE LifeInv'
  BY <1>5, DropSchemaKeeps, DropRowKeeps, DropInfluxKeeps, DropGrafanaKeeps
<1>6. ASSUME NEW e \in Emails, NEW s \in Slugs, NEW n \in Names, Signup(e, s, n) PROVE LifeInv'
  BY <1>6, SignupKeeps
<1>7. ASSUME NEW t \in Tenants, AskExtension(t) \/ Approve(t) \/ CheckTenant(t) PROVE LifeInv'
  BY <1>7, AskExtensionKeeps, ApproveKeeps, CheckTenantKeeps
<1>8. ASSUME NEW t \in Tenants, NEW to \in Live, ChangeStatus(t, to) PROVE LifeInv'
  BY <1>8, ChangeStatusKeeps
<1>9. ASSUME NEW t \in Tenants, NEW n \in Names, Rename(t, n) PROVE LifeInv'
  BY <1>9, RenameKeeps
<1>10. CASE StartCheck \/ MailWarning \/ NoteWarning \/ CleanUp \/ NextDay \/ Crash
  BY <1>10, StartCheckKeeps, MailWarningKeeps, NoteWarningKeeps, CleanUpKeeps, NextDayKeeps, CrashKeeps
<1>11. CASE UNCHANGED lifeVars
  BY <1>11, LifeStutters
<1>. QED  BY <1>1, <1>2, <1>3, <1>4, <1>5, <1>6, <1>7, <1>8, <1>9, <1>10, <1>11 DEF LifeNext

LEMMA LifeInvInit == LifeInit => LifeInv
<1>. SUFFICES ASSUME LifeInit PROVE LifeInv
  OBVIOUS
<1>1. \A t \in Tenants : status[t] = "none" /\ t \notin schemas /\ t \notin influx /\ grafana[t] = Nobody
  BY DEF LifeInit
<1>2. \A w \in Workers : worker[w].at = "idle" /\ worker[w].t = Nobody
  BY FreeOk DEF LifeInit
<1>3. \A t \in Tenants : ResInv(t)
  BY <1>1, <1>2 DEF ResInv, Live
<1>. QED  BY <1>3, LifeTypesInit, WorkInvInit DEF LifeInv, ResourceInv

\* The rows, the workers and the resources of the tenants agree in every reachable state.
THEOREM LifecycleHolds == LifeSpec => []LifeInv
BY LifeInvInit, LifeKept, PTL DEF LifeSpec

\* The invariant gives the property: nobody is at work, so that nothing is half done.
LEMMA ResourcesFollow == LifeInv => ResourcesFollowTheRow
<1>. SUFFICES ASSUME LifeInv, NEW t \in Tenants \ broken, \A w \in Workers : worker[w].t # t
              PROVE  IF status[t] \in Live THEN t \in schemas /\ t \in influx /\ grafana[t] # Nobody
                     ELSE /\ t \notin schemas /\ t \notin influx /\ grafana[t] = Nobody
                          /\ status[t] \in {"none", "gone"}
  BY DEF ResourcesFollowTheRow
<1>1. ResInv(t) /\ \A steps : ~SomeAt(t, steps)
  BY DEF LifeInv, ResourceInv, SomeAt
<1>2. status[t] # "draft"
  BY DEF LifeInv, WorkInv, InSetup
<1>3. status[t] \in Statuses
  BY DEF LifeInv, LifeTypes
<1>. QED  BY <1>1, <1>2, <1>3 DEF ResInv, AllThere, Statuses, Live

\* A live tenant has its schema and organizations, and any other has nothing, but where a step
\* of create_tenant, verify_signup or teardown_tenant failed or was lost.
THEOREM NothingIsLeftBehind == LifeSpec => []ResourcesFollowTheRow
BY LifecycleHolds, ResourcesFollow, PTL

Told(t) == t \in mailed \/ t \in overtaken
\* Whatever says that the owner of a tenant was warned is true, or overtaken.
WarnInv ==
    /\ \A t \in Tenants : trial[t].warned => Told(t)
    /\ worker[Checker].at = "note" => Told(worker[Checker].t)
    /\ worker[Checker].at # "idle" =>
         \A t \in Tenants : sweep.held[t] # Nobody /\ sweep.held[t].warned => Told(t)
WarnedStep == \A t \in Tenants : Culls(t) => t \in mailed \cup overtaken

\* A step that is not about the warnings.
Quiet ==
    /\ worker'[Checker].at \in {"note", "dropSchema"} =>
          worker'[Checker].at = worker[Checker].at /\ worker'[Checker].t = worker[Checker].t
    /\ worker'[Checker].at # "idle" => worker[Checker].at # "idle"
    /\ \A t \in Tenants : trial'[t].warned => trial[t].warned
    /\ \A t \in Tenants : sweep'.held[t] # Nobody => sweep'.held[t] = sweep.held[t]
    /\ mailed' = mailed /\ overtaken' = overtaken
\* Such a step keeps the invariant, and deletes nobody.
LEMMA QuietSafe == ASSUME WarnInv, Quiet PROVE WarnInv' /\ WarnedStep
<1>1. \A t : Told(t)' <=> Told(t)
  BY DEF Quiet, Told
<1>2. WarnInv'
  BY <1>1 DEF WarnInv, Quiet
<1>3. WarnedStep
  BY DEF Quiet, WarnedStep, Culls
<1>. QED  BY <1>2, <1>3

\* A step of a worker that is not the check, or of the check in a teardown.
LEMMA OtherIsQuiet ==
    ASSUME LifeTypes, NEW w \in Workers, NEW r, worker' = [worker EXCEPT ![w] = r],
           w = Checker => r.at \notin {"note", "dropSchema"} /\ worker[w].at # "idle",
           \A t \in Tenants : trial'[t].warned => trial[t].warned,
           UNCHANGED <<sweep, mailed, overtaken>>
    PROVE  Quiet
<1>1. worker'[w] = r /\ (w # Checker => worker'[Checker] = worker[Checker])
  BY DEF LifeTypes, Workers
<1>. QED  BY <1>1 DEF Quiet

LEMMA HandlersAreOthers == \A h \in Handlers : h \in Workers /\ h # Checker
BY TenantLifecycleAssumption DEF Workers

LEMMA InsertIsQuiet ==
    ASSUME LifeTypes, NEW h \in Handlers, NEW t \in Tenants, NEW s, NEW n, NEW due, NEW r, Insert(h, t, s, n, due, r)
    PROVE  Quiet
<1>1. worker' = [worker EXCEPT ![h] = r] /\ trial' = [trial EXCEPT ![t].due = due] /\ UNCHANGED <<sweep, mailed, overtaken>>
  BY DEF Insert, history
<1>2. \A u \in Tenants : trial'[u].warned = trial[u].warned
  BY <1>1 DEF LifeTypes, Trial
<1>. QED  BY <1>1, <1>2, HandlersAreOthers, OtherIsQuiet

\* What leaves the warnings, the check's rows and every step of the check alone.
LEMMA AsideIsQuiet ==
    ASSUME worker' = worker, \A t \in Tenants : trial'[t].warned => trial[t].warned,
           UNCHANGED <<sweep, mailed, overtaken>>
    PROVE  Quiet
BY DEF Quiet

LEMMA SetupIsQuiet ==
    ASSUME LifeTypes, NEW h \in Handlers, SetupInflux(h) \/ SetupSchema(h) \/ SetupGrafana(h) \/ Finish(h)
    PROVE  Quiet
<1>1. \E r : worker' = [worker EXCEPT ![h] = r]
  <2>1. ASSUME End(h) PROVE \E r : worker' = [worker EXCEPT ![h] = r]
    BY <2>1, HandlersAreOthers, EndMoves
  <2>2. ASSUME NEW at, worker' = Go(h, at) PROVE \E r : worker' = [worker EXCEPT ![h] = r]
    <3>1. worker' = [worker EXCEPT ![h] = [worker[h] EXCEPT !.at = at]]
      BY <2>2 DEF Go
    <3>. QED  BY <3>1
  <2>3. ASSUME Undo(h) PROVE \E r : worker' = [worker EXCEPT ![h] = r]
    <3>1. worker' = [worker EXCEPT ![h] = [worker[h] EXCEPT !.at = "dropSchema", !.email = Nobody]]
      BY <2>3 DEF Undo
    <3>. QED  BY <3>1
  <2>. QED  BY <2>1, <2>2, <2>3 DEF SetupInflux, SetupSchema, SetupGrafana, Finish, GiveUp
<1>2. UNCHANGED <<trial, sweep, mailed, overtaken>>
  BY DEF SetupInflux, SetupSchema, SetupGrafana, Finish
<1>. QED  BY <1>1, <1>2, HandlersAreOthers, OtherIsQuiet

LEMMA TeardownIsQuiet ==
    ASSUME LifeTypes, NEW w \in Workers, DropSchema(w) \/ DropRow(w) \/ DropInflux(w) \/ DropGrafana(w)
    PROVE  Quiet
<1>1. /\ worker[w].at \in Teardown /\ UNCHANGED <<trial, sweep, mailed, overtaken>>
      /\ worker' = Go(w, "dropRow") \/ worker' = Go(w, "dropInflux") \/ worker' = Go(w, "dropGrafana") \/ End(w)
  BY DEF DropSchema, DropRow, DropInflux, DropGrafana, Teardown
<1>2. \E r : worker' = [worker EXCEPT ![w] = r] /\ (w = Checker => r.at \notin {"note", "dropSchema"})
  <2>1. ASSUME NEW at \in {"dropRow", "dropInflux", "dropGrafana"}, worker' = Go(w, at)
        PROVE  \E r : worker' = [worker EXCEPT ![w] = r] /\ (w = Checker => r.at \notin {"note", "dropSchema"})
    <3>1. at \in {"check"} \cup Stages \cup Teardown \cup Warning
      BY DEF Teardown
    <3>2. PICK r : worker' = [worker EXCEPT ![w] = r] /\ r.at = at
      BY <2>1, <3>1, GoMoves
    <3>. QED  BY <3>2
  <2>2. CASE End(w)
    BY <2>2, EndMoves DEF Ended
  <2>. QED  BY <1>1, <2>1, <2>2
<1>3. worker[w].at # "idle"
  BY <1>1 DEF Teardown
<1>. QED  BY <1>1, <1>2, <1>3, OtherIsQuiet

LEMMA VerifyIsQuiet ==
    ASSUME LifeTypes, NEW h \in Handlers, NEW t \in Tenants, NEW e \in Emails, Verify(h, t, e)
    PROVE  Quiet
<1>1. CASE pending[e].expires < day
  <2>1. UNCHANGED <<worker, trial, sweep, mailed, overtaken>>
    BY <1>1 DEF Verify, history
  <2>. QED  BY <2>1, AsideIsQuiet
<1>2. CASE ~(pending[e].expires < day)
  BY <1>2, InsertIsQuiet DEF Verify
<1>. QED  BY <1>1, <1>2

LEMMA RowsAreQuiet ==
    ASSUME LifeTypes, NEW t \in Tenants, NEW to, NEW n, ChangeStatus(t, to) \/ Rename(t, n) \/ AskExtension(t)
    PROVE  Quiet
<1>1. worker' = worker /\ UNCHANGED <<sweep, mailed, overtaken>>
  BY DEF ChangeStatus, Rename, AskExtension, history
<1>2. trial' = trial \/ trial' = [trial EXCEPT ![t].asked = day]
  BY DEF ChangeStatus, Rename, AskExtension
<1>3. \A u \in Tenants : trial'[u].warned = trial[u].warned
  BY <1>2 DEF LifeTypes, Trial
<1>. QED  BY <1>1, <1>3, AsideIsQuiet

LEMMA SignupIsQuiet ==
    ASSUME LifeTypes, NEW e \in Emails, NEW s, NEW n, Signup(e, s, n) PROVE Quiet
<1>1. /\ worker' = [w \in Workers |-> IF worker[w].email = e THEN [worker[w] EXCEPT !.email = Nobody]
                                      ELSE worker[w]]
      /\ UNCHANGED <<trial, sweep, mailed, overtaken>>
  BY DEF Signup, history
<1>2. worker'[Checker].at = worker[Checker].at /\ worker'[Checker].t = worker[Checker].t
  BY <1>1 DEF LifeTypes, Task, Workers
<1>. QED  BY <1>1, <1>2 DEF Quiet

LEMMA EndOfCheckIsQuiet ==
    ASSUME EndCheck \/ Crash, trial' = trial, sweep' = sweep, UNCHANGED <<mailed, overtaken>>, LifeTypes
    PROVE  Quiet
<1>1. worker'[Checker].at = "idle"
  BY FreeOk DEF EndCheck, Crash, LifeTypes, Workers
<1>. QED  BY <1>1 DEF Quiet

\* The rows the check loads say no more than the table does.
LEMMA StartCheckWarns == ASSUME LifeTypes, WarnInv, StartCheck PROVE WarnInv' /\ WarnedStep
<1>1. /\ worker' = Go(Checker, "check") /\ sweep'.held = [t \in Tenants |-> Held(t)]
      /\ UNCHANGED <<trial, mailed, overtaken>>
  BY DEF StartCheck, history
<1>2. worker'[Checker].at = "check"
  BY <1>1 DEF Go, LifeTypes, Workers, Task
<1>3. \A t \in Tenants : sweep'.held[t].warned = trial[t].warned
  <2>1. \A t \in Tenants : trial[t] \in Trial
    BY DEF LifeTypes
  <2>. QED  BY <1>1, <2>1 DEF Held, Trial
<1>4. \A t : Told(t)' <=> Told(t)
  BY <1>1 DEF Told
<1>5. WarnInv'
  BY <1>1, <1>2, <1>3, <1>4 DEF WarnInv
<1>. QED  BY <1>2, <1>5 DEF WarnedStep, Culls

\* The check deletes a tenant whose row, as it read it, was warned.
LEMMA CheckTenantWarns ==
    ASSUME LifeInv, WarnInv, NEW t \in Tenants, CheckTenant(t) PROVE WarnInv' /\ WarnedStep
<1>0. LifeTypes /\ Checker \in Workers /\ t # Nobody
  BY TenantLifecycleAssumption DEF LifeInv, Workers
<1>1. /\ worker[Checker].at = "check"
      /\ Warns(t) \/ Stops(t) \/ Removes(t) \/ Passes(t)
      /\ UNCHANGED <<trial, mailed, overtaken>>
  BY CheckTenantCases DEF history
<1>2. sweep'.held = sweep.held \/ sweep'.held = Fresh
  BY <1>0, <1>1, WithoutOk DEF Warns, Stops, Removes, Passes
<1>3. \A u \in Tenants : sweep'.held[u] # Nobody => sweep'.held[u] = sweep.held[u]
  BY <1>2 DEF Fresh
<1>4. CASE Warns(t) \/ Stops(t) \/ Passes(t)
  <2>1. worker'[Checker].at \in {"mail", "idle", "check"}
    <3>1. CASE Warns(t)
      <4>1. \E r : worker' = [worker EXCEPT ![Checker] = r] /\ r.at = "mail"
        BY <1>0, <3>1, CheckerMoves DEF Warns
      <4>. QED  BY <1>0, <4>1 DEF LifeTypes
    <3>2. CASE Stops(t)
      BY <1>0, <3>2, EndCheckMoves DEF Stops, LifeTypes
    <3>3. CASE Passes(t)
      BY <1>1, <3>3 DEF Passes
    <3>. QED  BY <1>4, <3>1, <3>2, <3>3
  <2>2. Quiet
    BY <1>1, <1>3, <2>1 DEF Quiet
  <2>. QED  BY <2>2, QuietSafe
<1>5. CASE Removes(t)
  <2>1. worker'[Checker].at = "dropSchema" /\ worker'[Checker].t = t
    <3>1. \E r : worker' = [worker EXCEPT ![Checker] = r] /\ r.at = "dropSchema" /\ r.t = t
      BY <1>0, <1>5, CheckerMoves DEF Removes
    <3>. QED  BY <1>0, <3>1 DEF LifeTypes
  <2>2. Told(t)
    <3>1. trial[t] \in Trial /\ Read(t).warned
      BY <1>0, <1>5 DEF LifeTypes, Removes
    <3>2. CASE sweep.held[t] = Nobody
      <4>1. trial[t].warned
        BY <3>1, <3>2 DEF Read, Held, Trial
      <4>. QED  BY <4>1 DEF WarnInv
    <3>3. CASE sweep.held[t] # Nobody
      <4>1. sweep.held[t].warned
        BY <3>1, <3>3 DEF Read
      <4>. QED  BY <1>1, <3>3, <4>1 DEF WarnInv
    <3>. QED  BY <3>2, <3>3
  <2>3. WarnedStep
    BY <2>1, <2>2 DEF WarnedStep, Culls, Told
  <2>4. \A u : Told(u)' <=> Told(u)
    BY <1>1 DEF Told
  <2>5. WarnInv'
    BY <1>1, <1>3, <2>1, <2>4 DEF WarnInv
  <2>. QED  BY <2>3, <2>5
<1>. QED  BY <1>1, <1>4, <1>5

LEMMA MailWarningWarns == ASSUME LifeTypes, WarnInv, MailWarning PROVE WarnInv' /\ WarnedStep
<1>0. Checker \in Workers
  BY DEF Workers
<1>1. /\ worker[Checker].at = "mail"
      /\ UNCHANGED <<trial, sweep, overtaken>>
  BY DEF MailWarning
<1>2. CASE EndCheck /\ UNCHANGED mailed
  BY <1>1, <1>2, EndOfCheckIsQuiet, QuietSafe
<1>3. CASE End(Checker) /\ UNCHANGED mailed
  <2>1. \E r : worker' = [worker EXCEPT ![Checker] = r] /\ r.at = "check"
    BY <1>0, <1>3, EndMoves DEF Ended
  <2>2. Quiet
    BY <1>0, <1>1, <1>3, <2>1, OtherIsQuiet
  <2>. QED  BY <2>2, QuietSafe
<1>4. CASE mailed' = mailed \cup {worker[Checker].t} /\ worker' = Go(Checker, "note")
  <2>1. "note" \in {"check"} \cup Stages \cup Teardown \cup Warning
    BY DEF Warning
  <2>2. PICK r : worker' = [worker EXCEPT ![Checker] = r] /\ r.at = "note" /\ r.t = worker[Checker].t
    BY <1>0, <1>4, <2>1, GoMoves
  <2>3. worker'[Checker].at = "note" /\ worker'[Checker].t = worker[Checker].t
    BY <1>0, <2>2 DEF LifeTypes
  <2>4. \A u : (Told(u) => Told(u)') /\ (u = worker[Checker].t => Told(u)')
    BY <1>1, <1>4 DEF Told
  <2>5. WarnInv'
    <3>1. \A u \in Tenants : trial'[u].warned => Told(u)'
      BY <1>1, <2>4 DEF WarnInv
    <3>2. PICK s : s = worker[Checker].t
      OBVIOUS
    <3>3. worker'[Checker].t = s /\ Told(s)'
      BY <2>3, <2>4, <3>2
    <3>4. \A u \in Tenants : sweep'.held[u] # Nobody /\ sweep'.held[u].warned => Told(u)'
      BY <1>1, <2>4 DEF WarnInv
    <3>. QED  BY <3>1, <3>3, <3>4 DEF WarnInv
  <2>. QED  BY <2>3, <2>5 DEF WarnedStep, Culls
<1>. QED  BY <1>2, <1>3, <1>4 DEF MailWarning

\* The warning is noted for the tenant it was mailed to.
LEMMA NoteWarningWarns == ASSUME LifeTypes, WarnInv, NoteWarning PROVE WarnInv' /\ WarnedStep
<1>0. Checker \in Workers
  BY DEF Workers
<1>1. PICK s : s = worker[Checker].t
  OBVIOUS
<1>2. /\ worker[Checker].at = "note"
      /\ EndCheck \/ End(Checker)
      /\ trial' = trial \/ trial' = [trial EXCEPT ![s].warned = TRUE]
      /\ sweep' = [sweep EXCEPT !.held = Fresh] /\ UNCHANGED <<mailed, overtaken>>
  BY <1>1 DEF NoteWarning, history
<1>3. worker'[Checker].at \in {"idle", "check"}
  <2>1. \E r : worker' = [worker EXCEPT ![Checker] = r] /\ r.at \in {"idle", "check"}
    BY <1>0, <1>2, EndMoves, EndCheckMoves DEF Ended
  <2>. QED  BY <1>0, <2>1 DEF LifeTypes
<1>4. \A u \in Tenants : sweep'.held[u] = Nobody
  BY <1>2, FreshOk DEF Fresh
<1>5. \A u \in Tenants : trial'[u].warned => trial[u].warned \/ u = s
  BY <1>2 DEF LifeTypes
<1>6. Told(s)
  BY <1>1, <1>2 DEF WarnInv
<1>7. \A u : Told(u)' <=> Told(u)
  BY <1>2 DEF Told
<1>8. WarnInv'
  BY <1>3, <1>4, <1>5, <1>6, <1>7 DEF WarnInv
<1>. QED  BY <1>3, <1>8 DEF WarnedStep, Culls

\* A warning is taken back with the extension, but for a check at work.
LEMMA ApproveWarns == ASSUME LifeTypes, WarnInv, NEW t \in Tenants, Approve(t) PROVE WarnInv' /\ WarnedStep
<1>1. /\ trial' = Extended(t) /\ mailed' = mailed \ {t} /\ worker' = worker /\ sweep' = sweep
      /\ overtaken' = IF Busy(Checker) THEN overtaken \cup {t} ELSE overtaken \ {t}
  BY DEF Approve
<1>2. \A u : (u # t => (Told(u)' <=> Told(u))) /\ (worker[Checker].at # "idle" => (Told(u) => Told(u)'))
  BY <1>1 DEF Told, Busy
<1>3. \A u \in Tenants : trial'[u].warned => u # t /\ trial[u].warned
  BY <1>1 DEF Extended, LifeTypes
<1>4. WarnInv'
  BY <1>1, <1>2, <1>3 DEF WarnInv
<1>. QED  BY <1>1, <1>4 DEF WarnedStep, Culls

\* Every step keeps the invariant, and deletes only who was warned.
LEMMA WarnInvKept == LifeInv /\ WarnInv /\ [LifeNext]_lifeVars => WarnInv' /\ WarnedStep
<1>. SUFFICES ASSUME LifeInv, WarnInv, [LifeNext]_lifeVars PROVE WarnInv' /\ WarnedStep
  OBVIOUS
<1>0. LifeTypes
  BY DEF LifeInv
<1>1. ASSUME NEW h \in Handlers, NEW t \in Tenants, NEW s \in Slugs, NEW n \in Names, Create(h, t, s, n)
      PROVE  WarnInv' /\ WarnedStep
  BY <1>0, <1>1, InsertIsQuiet, QuietSafe DEF Create
<1>2. ASSUME NEW h \in Handlers, NEW t \in Tenants, NEW e \in Emails, Verify(h, t, e) PROVE WarnInv' /\ WarnedStep
  BY <1>0, <1>2, VerifyIsQuiet, QuietSafe
<1>3. ASSUME NEW h \in Handlers, SetupInflux(h) \/ SetupSchema(h) \/ SetupGrafana(h) \/ Finish(h)
      PROVE  WarnInv' /\ WarnedStep
  BY <1>0, <1>3, SetupIsQuiet, QuietSafe
<1>4. ASSUME NEW h \in Handlers, NEW t \in Tenants, DeleteTenant(h, t) PROVE WarnInv' /\ WarnedStep
  <2>1. PICK r : worker' = [worker EXCEPT ![h] = r]
    BY <1>4 DEF DeleteTenant
  <2>2. UNCHANGED <<trial, sweep, mailed, overtaken>>
    BY <1>4 DEF DeleteTenant, history
  <2>. QED  BY <1>0, <2>1, <2>2, HandlersAreOthers, OtherIsQuiet, QuietSafe
<1>5. ASSUME NEW w \in Workers, DropSchema(w) \/ DropRow(w) \/ DropInflux(w) \/ DropGrafana(w)
      PROVE  WarnInv' /\ WarnedStep
  BY <1>0, <1>5, TeardownIsQuiet, QuietSafe
<1>6. ASSUME NEW e \in Emails, NEW s \in Slugs, NEW n \in Names, Signup(e, s, n) PROVE WarnInv' /\ WarnedStep
  BY <1>0, <1>6, SignupIsQuiet, QuietSafe
<1>7. ASSUME NEW t \in Tenants, AskExtension(t) \/ Approve(t) \/ CheckTenant(t) PROVE WarnInv' /\ WarnedStep
  <2>1. CASE AskExtension(t)
    BY <1>0, <2>1, RowsAreQuiet, QuietSafe
  <2>. QED  BY <1>0, <1>7, <2>1, ApproveWarns, CheckTenantWarns
<1>8. ASSUME NEW t \in Tenants, NEW to \in Live, ChangeStatus(t, to) PROVE WarnInv' /\ WarnedStep
  BY <1>0, <1>8, RowsAreQuiet, QuietSafe
<1>9. ASSUME NEW t \in Tenants, NEW n \in Names, Rename(t, n) PROVE WarnInv' /\ WarnedStep
  BY <1>0, <1>9, RowsAreQuiet, QuietSafe
<1>10. CASE CleanUp \/ Crash
  <2>1. UNCHANGED <<trial, sweep, mailed, overtaken>>
    BY <1>10 DEF CleanUp, Crash, history
  <2>2. EndCheck \/ Crash
    BY <1>10 DEF CleanUp
  <2>. QED  BY <1>0, <2>1, <2>2, EndOfCheckIsQuiet, QuietSafe
<1>11. CASE NextDay \/ UNCHANGED lifeVars
  <2>1. UNCHANGED <<worker, trial, sweep, mailed, overtaken>>
    BY <1>11 DEF NextDay, lifeVars, history
  <2>. QED  BY <2>1, AsideIsQuiet, QuietSafe
<1>12. CASE StartCheck \/ MailWarning \/ NoteWarning
  BY <1>0, <1>12, StartCheckWarns, MailWarningWarns, NoteWarningWarns
<1>. QED  BY <1>1, <1>2, <1>3, <1>4, <1>5, <1>6, <1>7, <1>8, <1>9, <1>10, <1>11, <1>12 DEF LifeNext

LEMMA WarnInvInit == LifeInit => WarnInv
<1>. SUFFICES ASSUME LifeInit PROVE WarnInv
  OBVIOUS
<1>1. worker[Checker].at = "idle" /\ \A t \in Tenants : ~trial[t].warned
  BY FreeOk DEF LifeInit, Workers
<1>. QED  BY <1>1 DEF WarnInv

\* The check deletes nobody who was not warned of it, unless an extension overtook it.
THEOREM NoSuddenDeletion == LifeSpec => WarnedBeforeDeletion
<1>1. LifeSpec => []WarnInv
  BY LifecycleHolds, WarnInvInit, WarnInvKept, PTL DEF LifeSpec
<1>2. LifeInv /\ WarnInv /\ [LifeNext]_lifeVars => [WarnedStep]_lifeVars
  BY WarnInvKept
<1>3. LifeSpec => [][WarnedStep]_lifeVars
  BY <1>1, <1>2, LifecycleHolds, PTL DEF LifeSpec
<1>. QED  BY <1>3 DEF WarnedBeforeDeletion, WarnedStep

-----------------------------------------------------------------------------
(* The data of the devices. *)

Entry == [name : Labels, reg : Nat]
Job == [call : Calls, name : Labels] \cup {Resting}
ArchiveTypes ==
    /\ registrations \in Nat /\ row \in [Archived -> Entry \cup {Blank}]
    /\ \A d \in Archived : row[d] # Blank => row[d].reg <= registrations
    /\ live \in [Labels -> SUBSET Nat] /\ archive \in [Labels -> SUBSET Nat]
    /\ DOMAIN marker = Labels
    /\ mover \in [Movers -> Job]
    /\ written \subseteq Entry /\ \A p \in written : p.reg <= registrations
    /\ disturbed \subseteq Labels

\* The data of registration r was accepted under name n and not purged.
Kept(n, r) == [name |-> n, reg |-> r] \in written
Owner(n, r) == Registered([name |-> n, reg |-> r])
\* Handler h has call c to make for name n.
At(h, c, n) == mover[h].call = c /\ mover[h].name = n
Bearing(d, n) == row[d] # Blank /\ row[d].name = n
Retiring == {"copy", "delete", "marker", "archived"}
\* The live data is that of the name's device, the archived that of the earlier ones.
Sorted(n) == \A r \in Nat : /\ r \in live[n] <=> Kept(n, r) /\ Owner(n, r)
                            /\ r \in archive[n] <=> Kept(n, r) /\ ~Owner(n, r)
Shown(n) == /\ \A d \in Archived : Bearing(d, n) => marker[n] = "revived"
            /\ (~\E d \in Archived : Bearing(d, n)) /\ archive[n] # {} => marker[n] = "deleted"
\* What a handler at work on the name may rely on.
StageInv(h, n) ==
    /\ At(h, "revive", n) => \E d \in Archived : Bearing(d, n)
    /\ \A c \in Retiring : At(h, c, n) => ~\E d \in Archived : Bearing(d, n)
    /\ At(h, "copy", n) => \A r \in Nat : /\ Kept(n, r) <=> r \in live[n] \cup archive[n]
                                          /\ r \notin live[n] \cap archive[n]
    /\ At(h, "delete", n) => \A r \in Nat : Kept(n, r) <=> r \in archive[n]
    /\ At(h, "archived", n) => marker[n] = "deleted"
NameInv(n) ==
    /\ \A g, h \in Movers, c, e \in Calls : At(g, c, n) /\ At(h, e, n) => g = h
    /\ \A d, e \in Archived : Bearing(d, n) /\ Bearing(e, n) => d = e
    /\ \A h \in Movers : StageInv(h, n)
    /\ (\A h \in Movers : ~At(h, "copy", n) /\ ~At(h, "delete", n)) => Sorted(n)
    /\ ~Moving(n) => Shown(n)
ArchiveInv == ArchiveTypes /\ \A n \in Labels : n \notin disturbed => NameInv(n)

\* The invariant holds before any device is registered.
LEMMA ArchiveInvInit == ArchiveInit => ArchiveInv
<1>. SUFFICES ASSUME ArchiveInit PROVE ArchiveInv
  OBVIOUS
<1>1. ArchiveTypes
  BY DEF ArchiveInit, ArchiveTypes, Job
<1>2. ASSUME NEW n \in Labels PROVE NameInv(n)
  <2>1. \A h \in Movers, c \in Calls : ~At(h, c, n)
    BY DEF ArchiveInit, At, Resting, Calls
  <2>2. \A d \in Archived : ~Bearing(d, n)
    BY DEF ArchiveInit, Bearing
  <2>3. Sorted(n)
    BY DEF ArchiveInit, Sorted, Kept
  <2>4. Shown(n)
    BY <2>2 DEF ArchiveInit, Shown
  <2>5. \A h \in Movers : StageInv(h, n)
    BY <2>1 DEF StageInv, Retiring, Calls
  <2>. QED  BY <2>1, <2>2, <2>3, <2>4, <2>5 DEF NameInv
<1>. QED  BY <1>1, <1>2 DEF ArchiveInv

\* A name is on the move while a handler is at work on it.
LEMMA MovingAt ==
    ASSUME ArchiveTypes, NEW n \in Labels
    PROVE  Moving(n) <=> \E h \in Movers, c \in Calls : At(h, c, n)
<1>1. \A h \in Movers : mover[h].call # "none" => mover[h].call \in Calls
  BY DEF ArchiveTypes, Job, Resting
<1>2. "none" \notin Calls
  BY DEF Calls
<1>. QED  BY <1>1, <1>2 DEF Moving, At

\* Handler h goes on to call c for name n, and only it moves.
LEMMA GotoTurns ==
    ASSUME ArchiveTypes, NEW h \in Movers, NEW n \in Labels, NEW c \in Calls \cup {"none"},
           mover[h] = Resting \/ mover[h].name = n, Goto(h, c, n)
    PROVE  /\ mover' \in [Movers -> Job]
           /\ \A e \in Calls : At(h, e, n)' <=> e = c
           /\ \A g \in Movers \ {h}, e \in Calls : At(g, e, n)' <=> At(g, e, n)
           /\ \A m \in Labels \ {n}, g \in Movers, e \in Calls : At(g, e, m)' <=> At(g, e, m)
<1>. DEFINE j == IF c = "none" THEN Resting ELSE [call |-> c, name |-> n]
<1>1. mover' = [mover EXCEPT ![h] = j] /\ mover \in [Movers -> Job]
  BY DEF Goto, ArchiveTypes
<1>2. j \in Job
  BY DEF Job
<1>3. \A e \in Calls : (j.call = e /\ j.name = n <=> e = c) /\ \A m \in Labels \ {n} : ~(j.call = e /\ j.name = m)
  BY DEF Resting, Calls
<1>. HIDE DEF j
<1>4. mover' \in [Movers -> Job] /\ mover'[h] = j /\ \A g \in Movers \ {h} : mover'[g] = mover[g]
  BY <1>1, <1>2
<1>5. \A m \in Labels \ {n}, e \in Calls : ~At(h, e, m)
  BY DEF At, Resting, Calls
<1>6. \A e \in Calls : At(h, e, n)' <=> e = c
  BY <1>3, <1>4 DEF At
<1>7. \A m \in Labels, g \in Movers \ {h}, e \in Calls : At(g, e, m)' <=> At(g, e, m)
  BY <1>4 DEF At
<1>8. \A m \in Labels \ {n}, e \in Calls : ~At(h, e, m)'
  BY <1>3, <1>4 DEF At
<1>. QED  BY <1>4, <1>5, <1>6, <1>7, <1>8

\* A step that does not touch a name keeps what is said of it.
LEMMA NameKept ==
    ASSUME ArchiveTypes, ArchiveTypes', NEW n \in Labels, NameInv(n),
           live'[n] = live[n], archive'[n] = archive[n], marker'[n] = marker[n],
           \A h \in Movers, c \in Calls : At(h, c, n)' <=> At(h, c, n),
           \A d \in Archived : Bearing(d, n)' <=> Bearing(d, n),
           \A r \in Nat : (Kept(n, r)' <=> Kept(n, r)) /\ (Owner(n, r)' <=> Owner(n, r))
    PROVE  NameInv(n)'
<1>1. Moving(n)' <=> Moving(n)
  <2>1. Moving(n) <=> \E h \in Movers, c \in Calls : At(h, c, n)
    BY MovingAt
  <2>2. Moving(n)' <=> \E h \in Movers, c \in Calls : At(h, c, n)'
    <3>1. \A h \in Movers : mover'[h].call # "none" => mover'[h].call \in Calls
      BY DEF ArchiveTypes, Job, Resting
    <3>2. "none" \notin Calls
      BY DEF Calls
    <3>. QED  BY <3>1, <3>2 DEF Moving, At
  <2>. QED  BY <2>1, <2>2
<1>2. ~Moving(n)' => Shown(n)'
  BY <1>1 DEF NameInv, Shown
<1>3. {"revive", "copy", "delete", "archived"} \subseteq Calls /\ Retiring \subseteq Calls
  BY DEF Calls, Retiring
<1>4. \A h \in Movers : StageInv(h, n)'
  BY <1>3 DEF NameInv, StageInv
<1>5. (\A h \in Movers : ~At(h, "copy", n)' /\ ~At(h, "delete", n)') => Sorted(n)'
  BY <1>3 DEF NameInv, Sorted
<1>6. \A g, h \in Movers, c, e \in Calls : At(g, c, n)' /\ At(h, e, n)' => g = h
  BY DEF NameInv
<1>7. \A d, e \in Archived : Bearing(d, n)' /\ Bearing(e, n)' => d = e
  BY DEF NameInv
<1>. QED  BY <1>2, <1>4, <1>5, <1>6, <1>7 DEF NameInv

\* A name's registrations are those of the devices that bear it.
LEMMA OwnerBears ==
    ASSUME ArchiveTypes, NEW n \in Labels, NEW r \in Nat
    PROVE  Owner(n, r) <=> \E d \in Archived : Bearing(d, n) /\ row[d].reg = r
<1>1. ASSUME Owner(n, r) PROVE \E d \in Archived : Bearing(d, n) /\ row[d].reg = r
  <2>1. PICK d \in Archived : row[d] = [name |-> n, reg |-> r]
    BY <1>1 DEF Owner, Registered
  <2>2. [name |-> n, reg |-> r] # Blank
    BY ArchiveConstants
  <2>. QED  BY <2>1, <2>2 DEF Bearing
<1>2. ASSUME NEW d \in Archived, Bearing(d, n), row[d].reg = r PROVE Owner(n, r)
  <2>1. row[d] \in Entry
    BY <1>2 DEF ArchiveTypes, Bearing
  <2>2. row[d] = [name |-> n, reg |-> r]
    BY <1>2, <2>1 DEF Entry, Bearing
  <2>. QED  BY <2>2 DEF Owner, Registered
<1>. QED  BY <1>1, <1>2

\* A step about one name leaves what is said of the others.
LEMMA OneName ==
    ASSUME ArchiveInv, ArchiveTypes', NEW n \in Labels, disturbed \subseteq disturbed',
           \A m \in Labels \ {n} : /\ live'[m] = live[m] /\ archive'[m] = archive[m] /\ marker'[m] = marker[m]
                                   /\ \A g \in Movers, c \in Calls : At(g, c, m)' <=> At(g, c, m)
                                   /\ \A d \in Archived : Bearing(d, m)' <=> Bearing(d, m)
                                   /\ \A r \in Nat : (Kept(m, r)' <=> Kept(m, r)) /\ (Owner(m, r)' <=> Owner(m, r)),
           n \notin disturbed' /\ NameInv(n) => NameInv(n)'
    PROVE  ArchiveInv'
<1>1. ASSUME NEW m \in Labels, m \notin disturbed' PROVE NameInv(m)'
  <2>1. NameInv(m)
    BY <1>1 DEF ArchiveInv
  <2>2. CASE m = n
    BY <1>1, <2>1, <2>2
  <2>3. CASE m # n
    BY <2>1, <2>3, NameKept DEF ArchiveInv
  <2>. QED  BY <2>2, <2>3
<1>. QED  BY <1>1 DEF ArchiveInv

\* What handler h has to leave behind when it goes on to call c for name n.
Leaves(h, c, n) == /\ StageInv(h, n)' /\ (c = "none" => Shown(n)')
                   /\ (c \notin {"copy", "delete"} => Sorted(n)')

\* A handler's call: the rows and what was written stay.
LEMMA CallMoves ==
    ASSUME ArchiveInv, NEW h \in Movers, NEW n, mover[h].name = n, NEW b \in Calls, mover[h].call = b,
           NEW c \in Calls \cup {"none"}, Goto(h, c, n),
           UNCHANGED <<row, registrations, written, disturbed>>,
           live' \in [Labels -> SUBSET Nat], archive' \in [Labels -> SUBSET Nat], DOMAIN marker' = Labels,
           \A m \in Labels \ {n} : live'[m] = live[m] /\ archive'[m] = archive[m] /\ marker'[m] = marker[m]
    PROVE  /\ n \in Labels /\ ArchiveTypes /\ ArchiveTypes'
           /\ At(h, b, n)
           /\ \A e \in Calls : At(h, e, n)' <=> e = c
           /\ \A g \in Movers \ {h}, e \in Calls : At(g, e, n)' <=> At(g, e, n)
           /\ \A d \in Archived, m \in Labels : Bearing(d, m)' <=> Bearing(d, m)
           /\ \A r \in Nat, m \in Labels : (Kept(m, r)' <=> Kept(m, r)) /\ (Owner(m, r)' <=> Owner(m, r))
           /\ (n \notin disturbed /\ NameInv(n) => Leaves(h, c, n)) => ArchiveInv'
<1>1. ArchiveTypes /\ n \in Labels
  BY DEF ArchiveInv, ArchiveTypes, Job, Resting, Calls
<1>2. /\ mover' \in [Movers -> Job]
      /\ \A e \in Calls : At(h, e, n)' <=> e = c
      /\ \A g \in Movers \ {h}, e \in Calls : At(g, e, n)' <=> At(g, e, n)
      /\ \A m \in Labels \ {n}, g \in Movers, e \in Calls : At(g, e, m)' <=> At(g, e, m)
  BY <1>1, GotoTurns
<1>3. /\ \A d \in Archived, m \in Labels : Bearing(d, m)' <=> Bearing(d, m)
      /\ \A r \in Nat, m \in Labels : (Kept(m, r)' <=> Kept(m, r)) /\ (Owner(m, r)' <=> Owner(m, r))
  BY DEF Bearing, Kept, Owner, Registered
<1>5. ArchiveTypes'
  BY <1>1, <1>2 DEF ArchiveTypes
<1>7. ASSUME NameInv(n), StageInv(h, n)', c = "none" => Shown(n)', c \notin {"copy", "delete"} => Sorted(n)'
      PROVE  NameInv(n)'
  <2>1. \A g \in Movers \ {h}, e \in Calls : ~At(g, e, n)'
    BY <1>2, <1>7 DEF NameInv, At
  <2>2. \A g, k \in Movers, e, f \in Calls : At(g, e, n)' /\ At(k, f, n)' => g = k
    BY <2>1
  <2>3. \A d, e \in Archived : Bearing(d, n)' /\ Bearing(e, n)' => d = e
    BY <1>1, <1>3, <1>7 DEF NameInv
  <2>4. \A g \in Movers : StageInv(g, n)'
    BY <2>1, <1>7 DEF StageInv, Retiring, Calls
  <2>5. (\A g \in Movers : ~At(g, "copy", n)' /\ ~At(g, "delete", n)') => Sorted(n)'
    BY <1>2, <1>7 DEF Calls
  <2>6. ~Moving(n)' => Shown(n)'
    <3>1. c # "none" => At(h, c, n)' /\ c \in Calls
      BY <1>2
    <3>2. At(h, c, n)' /\ c # "none" => Moving(n)'
      BY DEF At, Moving
    <3>. QED  BY <3>1, <3>2, <1>7
  <2>. QED  BY <2>2, <2>3, <2>4, <2>5, <2>6 DEF NameInv
<1>6. \A m \in Labels \ {n} : /\ live'[m] = live[m] /\ archive'[m] = archive[m] /\ marker'[m] = marker[m]
                              /\ \A g \in Movers, e \in Calls : At(g, e, m)' <=> At(g, e, m)
                              /\ \A d \in Archived : Bearing(d, m)' <=> Bearing(d, m)
                              /\ \A r \in Nat : (Kept(m, r)' <=> Kept(m, r)) /\ (Owner(m, r)' <=> Owner(m, r))
  BY <1>2, <1>3
<1>8. (n \notin disturbed /\ NameInv(n) => NameInv(n)') => ArchiveInv'
  BY <1>1, <1>5, <1>6, OneName
<1>9. (n \notin disturbed /\ NameInv(n) => Leaves(h, c, n)) => ArchiveInv'
  BY <1>7, <1>8 DEF Leaves
<1>10. At(h, b, n)
  BY DEF At
<1>. QED  BY <1>1, <1>2, <1>3, <1>5, <1>9, <1>10

\* The new device's name is shown as active.
LEMMA ReviveKeeps == ASSUME ArchiveInv, NEW h \in Movers, Revive(h) PROVE ArchiveInv'
<1>1. PICK n : n = mover[h].name
  OBVIOUS
<1>2. /\ mover[h].call = "revive" /\ marker' = [marker EXCEPT ![n] = "revived"] /\ Goto(h, "none", n)
      /\ UNCHANGED <<row, registrations, live, archive, written, disturbed>>
      /\ {"revive", "copy", "delete", "archived"} \subseteq Calls /\ Retiring \subseteq Calls /\ "none" \notin Calls
  BY <1>1 DEF Revive, Calls, Retiring
<1>3. /\ n \in Labels /\ ArchiveTypes /\ ArchiveTypes' /\ At(h, "revive", n)
      /\ \A e \in Calls : At(h, e, n)' <=> e = "none"
      /\ \A d \in Archived : Bearing(d, n)' <=> Bearing(d, n)
      /\ \A r \in Nat : (Kept(n, r)' <=> Kept(n, r)) /\ (Owner(n, r)' <=> Owner(n, r))
      /\ (n \notin disturbed /\ NameInv(n) => Leaves(h, "none", n)) => ArchiveInv'
  <2>0. ArchiveTypes /\ n \in Labels
    BY <1>1, <1>2 DEF ArchiveInv, ArchiveTypes, Job, Resting, Calls
  <2>1. /\ live' \in [Labels -> SUBSET Nat] /\ archive' \in [Labels -> SUBSET Nat] /\ DOMAIN marker' = Labels
        /\ \A m \in Labels \ {n} : live'[m] = live[m] /\ archive'[m] = archive[m] /\ marker'[m] = marker[m]
    BY <1>2, <2>0 DEF ArchiveTypes
  <2>2. "revive" \in Calls /\ "none" \in Calls \cup {"none"}
    BY DEF Calls
  <2>. QED  BY <1>1, <1>2, <2>1, <2>2, CallMoves
<1>4. ASSUME NameInv(n) PROVE StageInv(h, n)' /\ Shown(n)' /\ Sorted(n)'
  <2>1. (\E d \in Archived : Bearing(d, n)) /\ Sorted(n)
    BY <1>2, <1>3, <1>4 DEF NameInv, StageInv, At
  <2>2. marker'[n] = "revived"
    BY <1>2, <1>3 DEF ArchiveTypes
  <2>3. Shown(n)'
    BY <1>3, <2>1, <2>2 DEF Shown
  <2>4. StageInv(h, n)'
    BY <1>2, <1>3 DEF StageInv
  <2>5. Sorted(n)'
    BY <1>2, <1>3, <2>1 DEF Sorted
  <2>. QED  BY <2>3, <2>4, <2>5
<1>. QED  BY <1>3, <1>4 DEF Leaves

\* What was live is archived too.
LEMMA CopyKeeps == ASSUME ArchiveInv, NEW h \in Movers, Copy(h) PROVE ArchiveInv'
<1>1. PICK n : n = mover[h].name
  OBVIOUS
<1>2. /\ mover[h].call = "copy" /\ archive' = [archive EXCEPT ![n] = @ \cup live[n]] /\ Goto(h, "delete", n)
      /\ UNCHANGED <<row, registrations, live, marker, written, disturbed>>
      /\ {"revive", "copy", "delete", "archived"} \subseteq Calls /\ Retiring \subseteq Calls /\ "none" \notin Calls
  BY <1>1 DEF Copy, Calls, Retiring
<1>3. /\ n \in Labels /\ ArchiveTypes /\ ArchiveTypes' /\ At(h, "copy", n)
      /\ \A e \in Calls : At(h, e, n)' <=> e = "delete"
      /\ \A d \in Archived : Bearing(d, n)' <=> Bearing(d, n)
      /\ \A r \in Nat : (Kept(n, r)' <=> Kept(n, r)) /\ (Owner(n, r)' <=> Owner(n, r))
      /\ (n \notin disturbed /\ NameInv(n) => Leaves(h, "delete", n)) => ArchiveInv'
  <2>0. ArchiveTypes /\ n \in Labels
    BY <1>1, <1>2 DEF ArchiveInv, ArchiveTypes, Job, Resting, Calls
  <2>1. /\ live' \in [Labels -> SUBSET Nat] /\ archive' \in [Labels -> SUBSET Nat] /\ DOMAIN marker' = Labels
        /\ \A m \in Labels \ {n} : live'[m] = live[m] /\ archive'[m] = archive[m] /\ marker'[m] = marker[m]
    BY <1>2, <2>0 DEF ArchiveTypes
  <2>2. "copy" \in Calls /\ "delete" \in Calls \cup {"none"}
    BY DEF Calls
  <2>. QED  BY <1>1, <1>2, <2>1, <2>2, CallMoves
<1>4. ASSUME NameInv(n) PROVE StageInv(h, n)'
  <2>1. /\ ~\E d \in Archived : Bearing(d, n)
        /\ \A r \in Nat : Kept(n, r) <=> r \in live[n] \cup archive[n]
    BY <1>3, <1>4 DEF NameInv, StageInv, Retiring
  <2>2. archive'[n] = live[n] \cup archive[n]
    BY <1>2, <1>3 DEF ArchiveTypes
  <2>. QED  BY <1>2, <1>3, <2>1, <2>2 DEF StageInv
<1>. QED  BY <1>3, <1>4 DEF Leaves

\* The live data is gone, and the archived is all there is.
LEMMA DeleteDataKeeps == ASSUME ArchiveInv, NEW h \in Movers, DeleteData(h) PROVE ArchiveInv'
<1>1. PICK n : n = mover[h].name
  OBVIOUS
<1>2. /\ mover[h].call = "delete" /\ Goto(h, "marker", n)
      /\ live' = [live EXCEPT ![n] = {}] /\ marker' = [marker EXCEPT ![n] = Blank]
      /\ UNCHANGED <<row, registrations, archive, written, disturbed>>
      /\ {"revive", "copy", "delete", "archived", "marker"} \subseteq Calls /\ Retiring \subseteq Calls
  BY <1>1 DEF DeleteData, Calls, Retiring
<1>3. /\ n \in Labels /\ ArchiveTypes /\ ArchiveTypes' /\ At(h, "delete", n)
      /\ \A e \in Calls : At(h, e, n)' <=> e = "marker"
      /\ \A d \in Archived : Bearing(d, n)' <=> Bearing(d, n)
      /\ \A r \in Nat : (Kept(n, r)' <=> Kept(n, r)) /\ (Owner(n, r)' <=> Owner(n, r))
      /\ (n \notin disturbed /\ NameInv(n) => Leaves(h, "marker", n)) => ArchiveInv'
  <2>0. ArchiveTypes /\ n \in Labels
    BY <1>1, <1>2 DEF ArchiveInv, ArchiveTypes, Job, Resting, Calls
  <2>1. /\ live' \in [Labels -> SUBSET Nat] /\ archive' \in [Labels -> SUBSET Nat] /\ DOMAIN marker' = Labels
        /\ \A m \in Labels \ {n} : live'[m] = live[m] /\ archive'[m] = archive[m] /\ marker'[m] = marker[m]
    BY <1>2, <2>0 DEF ArchiveTypes
  <2>2. "delete" \in Calls /\ "marker" \in Calls \cup {"none"}
    BY DEF Calls
  <2>. QED  BY <1>1, <1>2, <2>1, <2>2, CallMoves
<1>4. ASSUME NameInv(n) PROVE StageInv(h, n)' /\ Sorted(n)'
  <2>1. /\ ~\E d \in Archived : Bearing(d, n)
        /\ \A r \in Nat : Kept(n, r) <=> r \in archive[n]
    BY <1>3, <1>4 DEF NameInv, StageInv, Retiring
  <2>2. live'[n] = {}
    BY <1>2, <1>3 DEF ArchiveTypes
  <2>3. \A r \in Nat : ~Owner(n, r)
    BY <1>3, <2>1, OwnerBears
  <2>4. Sorted(n)'
    BY <1>2, <1>3, <2>1, <2>2, <2>3 DEF Sorted
  <2>. QED  BY <1>2, <1>3, <2>1, <2>4 DEF StageInv
<1>. QED  BY <1>3, <1>4 DEF Leaves

\* The marker is set once the data is in the archive.
LEMMA MarkDeletedKeeps == ASSUME ArchiveInv, NEW h \in Movers, MarkDeleted(h) PROVE ArchiveInv'
<1>1. PICK n : n = mover[h].name
  OBVIOUS
<1>2. /\ mover[h].call = "marker" /\ marker' = [marker EXCEPT ![n] = "deleted"] /\ Goto(h, "archived", n)
      /\ UNCHANGED <<row, registrations, live, archive, written, disturbed>>
      /\ {"revive", "copy", "delete", "archived", "marker"} \subseteq Calls /\ Retiring \subseteq Calls
  BY <1>1 DEF MarkDeleted, Calls, Retiring
<1>3. /\ n \in Labels /\ ArchiveTypes /\ ArchiveTypes' /\ At(h, "marker", n)
      /\ \A e \in Calls : At(h, e, n)' <=> e = "archived"
      /\ \A d \in Archived : Bearing(d, n)' <=> Bearing(d, n)
      /\ \A r \in Nat : (Kept(n, r)' <=> Kept(n, r)) /\ (Owner(n, r)' <=> Owner(n, r))
      /\ (n \notin disturbed /\ NameInv(n) => Leaves(h, "archived", n)) => ArchiveInv'
  <2>0. ArchiveTypes /\ n \in Labels
    BY <1>1, <1>2 DEF ArchiveInv, ArchiveTypes, Job, Resting, Calls
  <2>1. /\ live' \in [Labels -> SUBSET Nat] /\ archive' \in [Labels -> SUBSET Nat] /\ DOMAIN marker' = Labels
        /\ \A m \in Labels \ {n} : live'[m] = live[m] /\ archive'[m] = archive[m] /\ marker'[m] = marker[m]
    BY <1>2, <2>0 DEF ArchiveTypes
  <2>2. "marker" \in Calls /\ "archived" \in Calls \cup {"none"}
    BY DEF Calls
  <2>. QED  BY <1>1, <1>2, <2>1, <2>2, CallMoves
<1>4. ASSUME NameInv(n) PROVE StageInv(h, n)' /\ Sorted(n)'
  <2>1. (~\E d \in Archived : Bearing(d, n)) /\ Sorted(n)
    BY <1>2, <1>3, <1>4 DEF NameInv, StageInv, Retiring, At
  <2>2. marker'[n] = "deleted"
    BY <1>2, <1>3 DEF ArchiveTypes
  <2>3. Sorted(n)'
    BY <1>2, <1>3, <2>1 DEF Sorted
  <2>. QED  BY <1>2, <1>3, <2>1, <2>2, <2>3 DEF StageInv
<1>. QED  BY <1>3, <1>4 DEF Leaves

\* The last step of a retirement.
LEMMA MarkArchivedKeeps == ASSUME ArchiveInv, NEW h \in Movers, MarkArchived(h) PROVE ArchiveInv'
<1>1. PICK n : n = mover[h].name
  OBVIOUS
<1>2. /\ mover[h].call = "archived" /\ Goto(h, "none", n)
      /\ UNCHANGED <<row, registrations, live, archive, marker, written, disturbed>>
      /\ {"revive", "copy", "delete", "archived", "marker"} \subseteq Calls /\ Retiring \subseteq Calls /\ "none" \notin Calls
  BY <1>1 DEF MarkArchived, Goto, Calls, Retiring
<1>3. /\ n \in Labels /\ ArchiveTypes /\ ArchiveTypes' /\ At(h, "archived", n)
      /\ \A e \in Calls : At(h, e, n)' <=> e = "none"
      /\ \A d \in Archived : Bearing(d, n)' <=> Bearing(d, n)
      /\ \A r \in Nat : (Kept(n, r)' <=> Kept(n, r)) /\ (Owner(n, r)' <=> Owner(n, r))
      /\ (n \notin disturbed /\ NameInv(n) => Leaves(h, "none", n)) => ArchiveInv'
  <2>0. ArchiveTypes /\ n \in Labels
    BY <1>1, <1>2 DEF ArchiveInv, ArchiveTypes, Job, Resting, Calls
  <2>1. /\ live' \in [Labels -> SUBSET Nat] /\ archive' \in [Labels -> SUBSET Nat] /\ DOMAIN marker' = Labels
        /\ \A m \in Labels \ {n} : live'[m] = live[m] /\ archive'[m] = archive[m] /\ marker'[m] = marker[m]
    BY <1>2, <2>0 DEF ArchiveTypes
  <2>2. "archived" \in Calls /\ "none" \in Calls \cup {"none"}
    BY DEF Calls
  <2>. QED  BY <1>1, <1>2, <2>1, <2>2, CallMoves
<1>4. ASSUME NameInv(n) PROVE StageInv(h, n)' /\ Sorted(n)' /\ Shown(n)'
  <2>1. (~\E d \in Archived : Bearing(d, n)) /\ Sorted(n) /\ marker[n] = "deleted"
    BY <1>2, <1>3, <1>4 DEF NameInv, StageInv, Retiring, At
  <2>2. Sorted(n)'
    BY <1>2, <1>3, <2>1 DEF Sorted
  <2>3. Shown(n)'
    BY <1>2, <1>3, <2>1 DEF Shown
  <2>. QED  BY <1>2, <1>3, <2>2, <2>3 DEF StageInv
<1>. QED  BY <1>3, <1>4 DEF Leaves

\* A call that fails disturbs its name.
LEMMA CallFailsKeeps == ASSUME ArchiveInv, NEW h \in Movers, CallFails(h) PROVE ArchiveInv'
<1>1. PICK n : n = mover[h].name
  OBVIOUS
<1>2. PICK c : c = Following[mover[h].call]
  OBVIOUS
<1>3. /\ ArchiveTypes /\ mover[h] \in Job \ {Resting} /\ Goto(h, c, n) /\ disturbed' = disturbed \cup {n}
      /\ UNCHANGED <<row, registrations, live, archive, marker, written>>
  BY <1>1, <1>2 DEF CallFails, ArchiveInv, ArchiveTypes
<1>4. n \in Labels /\ c \in Calls \cup {"none"}
  <2>1. mover[h].call \in Calls /\ n \in Labels
    BY <1>1, <1>3 DEF Job
  <2>. QED  BY <1>2, <2>1 DEF Calls, Following
<1>5. /\ mover' \in [Movers -> Job]
      /\ \A m \in Labels \ {n}, g \in Movers, e \in Calls : At(g, e, m)' <=> At(g, e, m)
  BY <1>1, <1>3, <1>4, GotoTurns
<1>6. ArchiveTypes'
  BY <1>3, <1>4, <1>5 DEF ArchiveTypes
<1>7. \A m \in Labels \ {n} : /\ live'[m] = live[m] /\ archive'[m] = archive[m] /\ marker'[m] = marker[m]
                              /\ \A g \in Movers, e \in Calls : At(g, e, m)' <=> At(g, e, m)
                              /\ \A d \in Archived : Bearing(d, m)' <=> Bearing(d, m)
                              /\ \A r \in Nat : (Kept(m, r)' <=> Kept(m, r)) /\ (Owner(m, r)' <=> Owner(m, r))
  BY <1>3, <1>5 DEF Bearing, Kept, Owner, Registered
<1>8. n \in disturbed' /\ disturbed \subseteq disturbed'
  BY <1>3
<1>. QED  BY <1>4, <1>6, <1>7, <1>8, OneName

\* A restart disturbs every name at work.
LEMMA RestartMoversKeeps == ASSUME ArchiveInv, RestartMovers PROVE ArchiveInv'
<1>1. /\ ArchiveTypes /\ mover' = [h \in Movers |-> Resting] /\ disturbed' = disturbed \cup {n \in Labels : Moving(n)}
      /\ UNCHANGED <<row, registrations, live, archive, marker, written>>
  BY DEF RestartMovers, ArchiveInv
<1>2. ArchiveTypes'
  BY <1>1 DEF ArchiveTypes, Job
<1>3. ASSUME NEW n \in Labels, n \notin disturbed' PROVE NameInv(n)'
  <2>1. NameInv(n) /\ ~Moving(n)
    BY <1>1, <1>3 DEF ArchiveInv
  <2>2. \A h \in Movers, c \in Calls : ~At(h, c, n)
    BY <1>1, <2>1, MovingAt
  <2>3. \A h \in Movers, c \in Calls : ~At(h, c, n)'
    BY <1>1 DEF At, Calls, Resting
  <2>4. \A d \in Archived : Bearing(d, n)' <=> Bearing(d, n)
    BY <1>1 DEF Bearing
  <2>5. \A r \in Nat : (Kept(n, r)' <=> Kept(n, r)) /\ (Owner(n, r)' <=> Owner(n, r))
    BY <1>1 DEF Kept, Owner, Registered
  <2>6. live'[n] = live[n] /\ archive'[n] = archive[n] /\ marker'[n] = marker[n]
    BY <1>1
  <2>. QED  BY <1>1, <1>2, <2>1, <2>2, <2>3, <2>4, <2>5, <2>6, NameKept
<1>. QED  BY <1>2, <1>3 DEF ArchiveInv

\* A device takes a name that nobody has, and its handler revives it.
LEMMA RegisterDeviceKeeps ==
    ASSUME ArchiveInv, NEW h \in Movers, NEW d \in Archived, NEW n \in Labels, RegisterDevice(h, d, n)
    PROVE  ArchiveInv'
<1>1. PICK k : k = registrations + 1
  OBVIOUS
<1>2. PICK e : e = [name |-> n, reg |-> k]
  OBVIOUS
<1>3. /\ ArchiveTypes /\ row[d] = Blank /\ row' = [row EXCEPT ![d] = e] /\ registrations' = k
      /\ UNCHANGED <<live, archive, marker, written>>
      /\ mover[h] = Resting /\ Goto(h, "revive", n)
      /\ disturbed' = disturbed \cup (IF Moving(n) \/ Bearers(n) # {} THEN {n} ELSE {})
  BY <1>1, <1>2 DEF RegisterDevice, Starts, ArchiveInv
<1>4. k \in Nat /\ e \in Entry /\ e # Blank /\ e.name = n /\ e.reg = k /\ registrations \in Nat
  BY <1>1, <1>2, <1>3, ArchiveConstants DEF ArchiveTypes, Entry
<1>5. row'[d] = e /\ \A f \in Archived \ {d} : row'[f] = row[f]
  BY <1>3 DEF ArchiveTypes
<1>6. /\ mover' \in [Movers -> Job] /\ \A c \in Calls : At(h, c, n)' <=> c = "revive"
      /\ \A g \in Movers \ {h}, c \in Calls : At(g, c, n)' <=> At(g, c, n)
      /\ \A m \in Labels \ {n}, g \in Movers, c \in Calls : At(g, c, m)' <=> At(g, c, m)
  <2>1. "revive" \in Calls \cup {"none"}
    BY DEF Calls
  <2>. QED  BY <1>3, <2>1, GotoTurns
<1>7. ArchiveTypes'
  <2>1. row' \in [Archived -> Entry \cup {Blank}] /\ \A f \in Archived : row'[f] # Blank => row'[f].reg <= k
    <3>1. row' \in [Archived -> Entry \cup {Blank}]
      BY <1>3, <1>4 DEF ArchiveTypes
    <3>2. ASSUME NEW f \in Archived \ {d}, row[f] # Blank PROVE row[f].reg <= k
      <4>1. row[f].reg <= registrations /\ row[f].reg \in Nat
        BY <1>3, <3>2 DEF ArchiveTypes, Entry
      <4>. QED  BY <1>1, <1>4, <4>1
    <3>. QED  BY <1>4, <1>5, <3>1, <3>2
  <2>2. \A p \in written : p.reg <= k
    <3>1. ASSUME NEW p \in written PROVE p.reg <= k
      <4>1. p.reg <= registrations /\ p.reg \in Nat
        BY <1>3 DEF ArchiveTypes, Entry
      <4>. QED  BY <1>1, <1>4, <4>1
    <3>. QED  BY <3>1
  <2>3. disturbed' \subseteq Labels
    BY <1>3 DEF ArchiveTypes
  <2>. QED  BY <1>3, <1>4, <1>6, <2>1, <2>2, <2>3 DEF ArchiveTypes
<1>8. ASSUME NEW m \in Labels \ {n}
      PROVE  /\ live'[m] = live[m] /\ archive'[m] = archive[m] /\ marker'[m] = marker[m]
             /\ \A g \in Movers, c \in Calls : At(g, c, m)' <=> At(g, c, m)
             /\ \A f \in Archived : Bearing(f, m)' <=> Bearing(f, m)
             /\ \A r \in Nat : (Kept(m, r)' <=> Kept(m, r)) /\ (Owner(m, r)' <=> Owner(m, r))
  <2>1. \A f \in Archived : Bearing(f, m)' <=> Bearing(f, m)
    BY <1>3, <1>4, <1>5 DEF Bearing
  <2>2. ASSUME NEW r \in Nat PROVE Owner(m, r)' <=> Owner(m, r)
    <3>1. [name |-> m, reg |-> r] # e /\ [name |-> m, reg |-> r] # Blank
      BY <1>4, ArchiveConstants
    <3>. QED  BY <1>3, <1>5, <3>1 DEF Owner, Registered
  <2>. QED  BY <1>3, <1>6, <2>1, <2>2 DEF Kept
<1>9. ASSUME n \notin disturbed', NameInv(n) PROVE NameInv(n)'
  <2>1. ~Moving(n) /\ \A f \in Archived : ~Bearing(f, n)
    BY <1>3, <1>9 DEF Bearers, Bearing
  <2>2. \A g \in Movers, c \in Calls : ~At(g, c, n)
    BY <1>3, <2>1, MovingAt
  <2>3. \A g \in Movers, c \in Calls : At(g, c, n)' => g = h /\ c = "revive"
    BY <1>6, <2>2
  <2>4. \A f \in Archived : Bearing(f, n)' <=> f = d
    BY <1>4, <1>5, <2>1 DEF Bearing
  <2>5. \A r \in Nat : ~Owner(n, r)
    BY <1>3, <2>1, OwnerBears
  <2>6. \A r \in Nat : Kept(n, r) => ~Owner(n, r)'
    <3>1. ASSUME NEW r \in Nat, Kept(n, r), Owner(n, r)' PROVE FALSE
      <4>1. PICK f \in Archived : row'[f] = [name |-> n, reg |-> r]
        BY <3>1 DEF Owner, Registered
      <4>2. f = d
        BY <2>5, <1>5, <4>1 DEF Owner, Registered
      <4>3. r = k
        BY <1>2, <1>5, <4>1, <4>2
      <4>4. [name |-> n, reg |-> r].reg <= registrations
        BY <1>3, <3>1 DEF ArchiveTypes, Kept
      <4>. QED  BY <1>1, <1>4, <4>3, <4>4
    <3>. QED  BY <3>1
  <2>7. {"copy", "delete", "revive", "archived"} \subseteq Calls /\ Retiring \subseteq Calls \ {"revive"}
    BY DEF Calls, Retiring
  <2>8. Sorted(n)
    BY <2>2, <2>7, <1>9 DEF NameInv
  <2>9. Sorted(n)'
    BY <1>3, <2>5, <2>6, <2>8 DEF Sorted, Kept
  <2>10. \A g \in Movers : StageInv(g, n)'
    BY <2>3, <2>4, <2>7 DEF StageInv
  <2>11. Moving(n)'
    BY <1>6, <2>7 DEF Moving, At
  <2>12. \A f, g \in Archived : Bearing(f, n)' /\ Bearing(g, n)' => f = g
    BY <2>4
  <2>13. \A f, g \in Movers, b, c \in Calls : At(f, b, n)' /\ At(g, c, n)' => f = g
    BY <2>3
  <2>. QED  BY <2>9, <2>10, <2>11, <2>12, <2>13 DEF NameInv
<1>. QED  BY <1>3, <1>7, <1>8, <1>9, OneName

\* A device leaves its name, and its handler retires the data.
LEMMA DeleteDeviceKeeps ==
    ASSUME ArchiveInv, NEW h \in Movers, NEW d \in Archived, DeleteDevice(h, d)
    PROVE  ArchiveInv'
<1>1. PICK n : n = row[d].name
  OBVIOUS
<1>3. /\ ArchiveTypes /\ row[d] # Blank /\ row' = [row EXCEPT ![d] = Blank]
      /\ UNCHANGED <<registrations, live, archive, marker, written>>
      /\ mover[h] = Resting /\ Goto(h, "copy", n)
      /\ disturbed' = disturbed \cup (IF Moving(n) THEN {n} ELSE {})
  BY <1>1 DEF DeleteDevice, Starts, ArchiveInv
<1>4. n \in Labels /\ row[d] \in Entry /\ Bearing(d, n)
  BY <1>1, <1>3 DEF ArchiveTypes, Entry, Bearing
<1>5. row'[d] = Blank /\ \A f \in Archived \ {d} : row'[f] = row[f]
  BY <1>3 DEF ArchiveTypes
<1>6. /\ mover' \in [Movers -> Job] /\ \A c \in Calls : At(h, c, n)' <=> c = "copy"
      /\ \A g \in Movers \ {h}, c \in Calls : At(g, c, n)' <=> At(g, c, n)
      /\ \A m \in Labels \ {n}, g \in Movers, c \in Calls : At(g, c, m)' <=> At(g, c, m)
  <2>1. "copy" \in Calls \cup {"none"}
    BY DEF Calls
  <2>. QED  BY <1>3, <1>4, <2>1, GotoTurns
<1>7. ArchiveTypes'
  BY <1>3, <1>4, <1>5, <1>6 DEF ArchiveTypes
<1>8. ASSUME NEW m \in Labels \ {n}
      PROVE  /\ live'[m] = live[m] /\ archive'[m] = archive[m] /\ marker'[m] = marker[m]
             /\ \A g \in Movers, c \in Calls : At(g, c, m)' <=> At(g, c, m)
             /\ \A f \in Archived : Bearing(f, m)' <=> Bearing(f, m)
             /\ \A r \in Nat : (Kept(m, r)' <=> Kept(m, r)) /\ (Owner(m, r)' <=> Owner(m, r))
  <2>1. \A f \in Archived : Bearing(f, m)' <=> Bearing(f, m)
    BY <1>1, <1>3, <1>4, <1>5 DEF Bearing
  <2>2. ASSUME NEW r \in Nat PROVE Owner(m, r)' <=> Owner(m, r)
    <3>1. [name |-> m, reg |-> r] # row[d] /\ [name |-> m, reg |-> r] # Blank
      BY <1>1, ArchiveConstants
    <3>. QED  BY <1>3, <1>5, <3>1 DEF Owner, Registered
  <2>. QED  BY <1>3, <1>6, <2>1, <2>2 DEF Kept
<1>9. ASSUME n \notin disturbed', NameInv(n) PROVE NameInv(n)'
  <2>1. ~Moving(n)
    BY <1>3, <1>9
  <2>2. \A g \in Movers, c \in Calls : ~At(g, c, n)
    BY <1>3, <1>4, <2>1, MovingAt
  <2>3. \A g \in Movers, c \in Calls : At(g, c, n)' => g = h /\ c = "copy"
    BY <1>6, <2>2
  <2>4. \A f \in Archived : ~Bearing(f, n)'
    BY <1>3, <1>4, <1>5, <1>9 DEF Bearing, NameInv
  <2>7. {"copy", "delete", "revive", "archived"} \subseteq Calls /\ Retiring \subseteq Calls \ {"revive"}
    BY DEF Calls, Retiring
  <2>8. Sorted(n)
    BY <2>2, <2>7, <1>9 DEF NameInv
  <2>9. \A r \in Nat : /\ Kept(n, r)' <=> r \in live'[n] \cup archive'[n]
                       /\ r \notin live'[n] \cap archive'[n]
    BY <1>3, <2>8 DEF Sorted, Kept
  <2>10. \A g \in Movers : StageInv(g, n)'
    BY <2>3, <2>4, <2>7, <2>9 DEF StageInv
  <2>11. Moving(n)' /\ ~\A g \in Movers : ~At(g, "copy", n)' /\ ~At(g, "delete", n)'
    BY <1>6, <2>7 DEF Moving, At
  <2>13. \A f, g \in Movers, b, c \in Calls : At(f, b, n)' /\ At(g, c, n)' => f = g
    BY <2>3
  <2>. QED  BY <2>4, <2>10, <2>11, <2>13 DEF NameInv
<1>10. disturbed \subseteq disturbed'
  BY <1>3
<1>. QED  BY <1>3, <1>4, <1>7, <1>8, <1>9, <1>10, OneName

\* Data is written under the device's name, or the name it goes astray to is disturbed.
LEMMA ReportKeeps == ASSUME ArchiveInv, NEW d \in Archived, Report(d) PROVE ArchiveInv'
<1>0. PICK k : k = (IF row[d] = Blank THEN 0 ELSE row[d].reg)
  OBVIOUS
<1>1. PICK n \in Labels :
        /\ k = (IF row[d] = Blank THEN 0 ELSE row[d].reg)
        /\ live' = [live EXCEPT ![n] = live[n] \cup {k}] /\ written' = written \cup {[name |-> n, reg |-> k]}
        /\ disturbed' = disturbed \cup (IF row[d] # Blank /\ row[d].name = n THEN {} ELSE {n})
  BY <1>0 DEF Report
<1>2. PICK e : e = [name |-> n, reg |-> k]
  OBVIOUS
<1>3. /\ ArchiveTypes /\ live' = [live EXCEPT ![n] = live[n] \cup {k}]
      /\ written' = written \cup {e} /\ UNCHANGED <<row, registrations, archive, marker, mover>>
      /\ disturbed \subseteq disturbed' /\ disturbed' \subseteq disturbed \cup {n}
      /\ n \notin disturbed' => Bearing(d, n)
  BY <1>1, <1>2 DEF Report, ArchiveInv, Bearing
<1>4. k \in Nat /\ k <= registrations /\ e \in Entry /\ e.reg = k /\ (Bearing(d, n) => row[d] = e)
  <2>1. CASE row[d] = Blank
    BY <1>1, <1>2, <1>3, <2>1 DEF ArchiveTypes, Entry, Bearing
  <2>2. CASE row[d] # Blank
    BY <1>1, <1>2, <1>3, <2>2 DEF ArchiveTypes, Entry, Bearing
  <2>. QED  BY <2>1, <2>2
<1>5. live' \in [Labels -> SUBSET Nat] /\ live'[n] = live[n] \cup {k} /\ \A m \in Labels \ {n} : live'[m] = live[m]
  BY <1>3, <1>4 DEF ArchiveTypes
<1>7. ArchiveTypes'
  BY <1>3, <1>4, <1>5 DEF ArchiveTypes
<1>8. ASSUME NEW m \in Labels
      PROVE  /\ \A g \in Movers, c \in Calls : At(g, c, m)' <=> At(g, c, m)
             /\ \A f \in Archived : Bearing(f, m)' <=> Bearing(f, m)
             /\ \A r \in Nat : (Kept(m, r)' <=> Kept(m, r) \/ (m = n /\ r = k)) /\ (Owner(m, r)' <=> Owner(m, r))
  BY <1>2, <1>3 DEF At, Bearing, Kept, Owner, Registered
<1>9. ASSUME NameInv(n), Bearing(d, n) PROVE NameInv(n)'
  <2>1. \A g \in Movers, c \in Retiring : ~At(g, c, n)
    BY <1>4, <1>9 DEF NameInv, StageInv
  <2>2. {"copy", "delete", "revive", "archived"} \subseteq Calls /\ {"copy", "delete", "archived"} \subseteq Retiring
        /\ Retiring \subseteq Calls
    BY DEF Calls, Retiring
  <2>3. Sorted(n) /\ Owner(n, k)
    BY <1>2, <1>4, <1>9, <2>1, <2>2 DEF NameInv, Owner, Registered
  <2>4. Sorted(n)'
    BY <1>3, <1>4, <1>5, <1>8, <2>3 DEF Sorted
  <2>5. \A g \in Movers : StageInv(g, n)'
    BY <1>4, <1>8, <1>9, <2>1, <2>2 DEF StageInv, NameInv
  <2>6. Moving(n)' <=> Moving(n)
    BY <1>3 DEF Moving
  <2>7. Shown(n)' <=> Shown(n)
    BY <1>3, <1>4, <1>8 DEF Shown
  <2>. QED  BY <1>4, <1>8, <1>9, <2>4, <2>5, <2>6, <2>7 DEF NameInv
<1>10. \A m \in Labels \ {n} : /\ live'[m] = live[m] /\ archive'[m] = archive[m] /\ marker'[m] = marker[m]
                               /\ \A g \in Movers, c \in Calls : At(g, c, m)' <=> At(g, c, m)
                               /\ \A f \in Archived : Bearing(f, m)' <=> Bearing(f, m)
                               /\ \A r \in Nat : (Kept(m, r)' <=> Kept(m, r)) /\ (Owner(m, r)' <=> Owner(m, r))
  BY <1>3, <1>5, <1>8
<1>11. n \notin disturbed' /\ NameInv(n) => NameInv(n)'
  BY <1>3, <1>9
<1>. QED  BY <1>3, <1>7, <1>10, <1>11, OneName

\* The archived data of a name goes.
LEMMA PurgeKeeps == ASSUME ArchiveInv, NEW n \in Labels, Purge(n) PROVE ArchiveInv'
<1>3. /\ ArchiveTypes /\ archive' = [archive EXCEPT ![n] = {}]
      /\ written' = {p \in written : p.name # n \/ p.reg \notin archive[n]}
      /\ UNCHANGED <<row, registrations, live, marker, mover, disturbed>>
  BY DEF Purge, ArchiveInv
<1>5. archive' \in [Labels -> SUBSET Nat] /\ archive'[n] = {} /\ \A m \in Labels \ {n} : archive'[m] = archive[m]
  BY <1>3 DEF ArchiveTypes
<1>7. ArchiveTypes'
  BY <1>3, <1>5 DEF ArchiveTypes
<1>8. ASSUME NEW m \in Labels
      PROVE  /\ \A g \in Movers, c \in Calls : At(g, c, m)' <=> At(g, c, m)
             /\ \A f \in Archived : Bearing(f, m)' <=> Bearing(f, m)
             /\ \A r \in Nat : Owner(m, r)' <=> Owner(m, r)
             /\ \A r \in Nat : Kept(m, r)' <=> Kept(m, r) /\ (m # n \/ r \notin archive[n])
  BY <1>3 DEF At, Bearing, Kept, Owner, Registered
<1>9. ASSUME NameInv(n) PROVE NameInv(n)'
  <2>2. {"copy", "delete", "revive", "archived"} \subseteq Calls /\ Retiring \subseteq Calls
    BY DEF Calls, Retiring
  <2>4. Sorted(n) => Sorted(n)'
    BY <1>3, <1>5, <1>8 DEF Sorted
  <2>5. ASSUME NEW g \in Movers PROVE StageInv(g, n)'
    <3>1. StageInv(g, n)
      BY <1>9 DEF NameInv
    <3>. QED  BY <1>3, <1>5, <1>8, <2>2, <3>1 DEF StageInv
  <2>6. Moving(n)' <=> Moving(n)
    BY <1>3 DEF Moving
  <2>7. Shown(n) => Shown(n)'
    BY <1>3, <1>5, <1>8 DEF Shown
  <2>. QED  BY <1>8, <1>9, <2>2, <2>4, <2>5, <2>6, <2>7 DEF NameInv
<1>10. \A m \in Labels \ {n} : /\ live'[m] = live[m] /\ archive'[m] = archive[m] /\ marker'[m] = marker[m]
                               /\ \A g \in Movers, c \in Calls : At(g, c, m)' <=> At(g, c, m)
                               /\ \A f \in Archived : Bearing(f, m)' <=> Bearing(f, m)
                               /\ \A r \in Nat : (Kept(m, r)' <=> Kept(m, r)) /\ (Owner(m, r)' <=> Owner(m, r))
  BY <1>3, <1>5, <1>8
<1>. QED  BY <1>3, <1>7, <1>9, <1>10, OneName

\* Every step keeps the invariant.
LEMMA ArchiveKept == ArchiveInv /\ [ArchiveNext]_archiveVars => ArchiveInv'
<1>. SUFFICES ASSUME ArchiveInv, [ArchiveNext]_archiveVars PROVE ArchiveInv'
  OBVIOUS
<1>1. CASE UNCHANGED archiveVars
  BY <1>1 DEF archiveVars, ArchiveInv, ArchiveTypes, NameInv, StageInv, At, Bearing, Sorted, Shown, Kept, Owner,
              Registered, Moving
<1>2. CASE \E h \in Movers, d \in Archived : DeleteDevice(h, d) \/ \E n \in Labels : RegisterDevice(h, d, n)
  BY <1>2, DeleteDeviceKeeps, RegisterDeviceKeeps
<1>3. CASE \E h \in Movers : \/ Revive(h) \/ Copy(h) \/ DeleteData(h) \/ MarkDeleted(h) \/ MarkArchived(h)
                             \/ CallFails(h)
  BY <1>3, ReviveKeeps, CopyKeeps, DeleteDataKeeps, MarkDeletedKeeps, MarkArchivedKeeps, CallFailsKeeps
<1>4. CASE (\E d \in Archived : Report(d)) \/ (\E n \in Labels : Purge(n)) \/ RestartMovers
  BY <1>4, ReportKeeps, PurgeKeeps, RestartMoversKeeps
<1>5. CASE \E d \in Archived : ForgetName(d)
  BY <1>5 DEF ForgetName, ArchiveInv, ArchiveTypes, NameInv, StageInv, At, Bearing, Sorted, Shown, Kept, Owner,
              Registered, Moving
<1>. QED  BY <1>1, <1>2, <1>3, <1>4, <1>5 DEF ArchiveNext

\* The data, the markers and the handlers at work agree in every reachable state.
THEOREM ArchiveHolds == ArchiveSpec => []ArchiveInv
BY ArchiveInvInit, ArchiveKept, PTL DEF ArchiveSpec

\* The invariant gives the property of the marker.
LEMMA ShownFollows == ArchiveInv => MarkerFollows
<1>. SUFFICES ASSUME ArchiveInv, NEW n \in Labels, Settled(n)
              PROVE  /\ Bearers(n) # {} => marker[n] = "revived"
                     /\ Bearers(n) = {} /\ archive[n] # {} => marker[n] = "deleted"
  BY DEF MarkerFollows
<1>1. Shown(n)
  BY DEF ArchiveInv, NameInv, Settled
<1>. QED  BY <1>1 DEF Shown, Bearers, Bearing

\* A name whose handlers ran one after the other shows the state of its device.
THEOREM MarkerIsRight == ArchiveSpec => []MarkerFollows
BY ArchiveHolds, ShownFollows, PTL

\* The invariant gives the property of the data.
LEMMA SortedFollows == ArchiveInv => DataFollows
<1>. SUFFICES ASSUME ArchiveInv, NEW n \in Labels, Settled(n)
              PROVE  /\ live[n] = {p.reg : p \in {q \in written : q.name = n /\ Registered(q)}}
                     /\ archive[n] = {p.reg : p \in {q \in written : q.name = n /\ ~Registered(q)}}
  BY DEF DataFollows
<1>0. ArchiveTypes /\ NameInv(n) /\ ~Moving(n)
  BY DEF ArchiveInv, Settled
<1>1. Sorted(n)
  <2>1. \A h \in Movers : ~At(h, "copy", n) /\ ~At(h, "delete", n)
    BY <1>0, MovingAt DEF Calls
  <2>. QED  BY <1>0, <2>1 DEF NameInv
<1>2. live[n] \subseteq Nat /\ archive[n] \subseteq Nat
  BY <1>0 DEF ArchiveTypes
<1>3. ASSUME NEW p \in written, p.name = n PROVE p = [name |-> n, reg |-> p.reg] /\ p.reg \in Nat
  BY <1>0, <1>3 DEF ArchiveTypes, Entry
<1>4. \A r : r \in live[n] => r \in {p.reg : p \in {q \in written : q.name = n /\ Registered(q)}}
  <2>1. ASSUME NEW r \in live[n] PROVE \E p \in written : p.name = n /\ Registered(p) /\ p.reg = r
    <3>1. [name |-> n, reg |-> r] \in written /\ Registered([name |-> n, reg |-> r])
      BY <1>1, <1>2 DEF Sorted, Kept, Owner
    <3>. QED  BY <3>1
  <2>. QED  BY <2>1
<1>5. \A r : r \in archive[n] => r \in {p.reg : p \in {q \in written : q.name = n /\ ~Registered(q)}}
  <2>1. ASSUME NEW r \in archive[n] PROVE \E p \in written : p.name = n /\ ~Registered(p) /\ p.reg = r
    <3>1. [name |-> n, reg |-> r] \in written /\ ~Registered([name |-> n, reg |-> r])
      BY <1>1, <1>2 DEF Sorted, Kept, Owner
    <3>. QED  BY <3>1
  <2>. QED  BY <2>1
<1>6. ASSUME NEW p \in written, p.name = n
      PROVE  (Registered(p) => p.reg \in live[n]) /\ (~Registered(p) => p.reg \in archive[n])
  BY <1>1, <1>3, <1>6 DEF Sorted, Kept, Owner
<1>. QED  BY <1>4, <1>5, <1>6

\* ... and holds the data of its device, that of the earlier ones being archived.
THEOREM DataIsRight == ArchiveSpec => []DataFollows
BY ArchiveHolds, SortedFollows, PTL
================================================================================
