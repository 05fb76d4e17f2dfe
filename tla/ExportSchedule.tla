----------------------------- MODULE ExportSchedule -----------------------------
(* The periodic CSV export of one tenant: services/export_scheduler.py, with the *)
(* schedule and job rows that the portal may change and delete meanwhile.        *)
(* Each commit of the scheduler thread is a step; generation itself, modelled in *)
(* ExportJobs, is one step that succeeds or fails.                               *)
EXTENDS Integers

CONSTANTS
    Intervals,  \* lengths of the frequencies, in polls
    MaxClock,   \* bound on the clock
    MaxCuts,    \* bound on restarts of core-api
    Never       \* NULL; also no row

ASSUME ScheduleConstants ==
    /\ Intervals \subseteq Nat \ {0} /\ Intervals # {}
    /\ MaxClock \in Nat /\ MaxCuts \in Nat /\ Never \notin Int

VARIABLES
    clock,
    schedule,   \* export_schedules: interval, enabled, last_run_at
    periodic,   \* export_jobs of kind periodic: status, period, and whether it has a file
    poller,     \* the scheduler thread
    now,        \* now of run_due_periodic_exports
    start,      \* period_start of this attempt
    had,        \* the job row existed when this attempt read it
    fileEnd,    \* history: end of the last file generated
    skipped,    \* history: a period was given up after that file
    cuts

scheduleVars == <<clock, schedule, periodic, poller, now, start, had, fileEnd, skipped, cuts>>

ScheduleInit ==
    /\ clock = 0 /\ poller = "idle" /\ now = 0 /\ cuts = 0
    /\ start = 0 /\ had = FALSE
    /\ schedule \in [interval: Intervals, enabled: {TRUE}, last: {Never}]
    /\ periodic = Never /\ fileEnd = Never /\ skipped = FALSE

Due == schedule.last # Never => clock - schedule.last >= schedule.interval

HasFile == periodic # Never /\ periodic.file
Attempt(s) == [status |-> s, start |-> start, end |-> now, file |-> HasFile]
Failed == Attempt(IF HasFile THEN "done" ELSE "failed")

\* The schedule and the job row are read; the first period reaches one interval back.
Poll ==
    /\ poller = "idle" /\ schedule.enabled /\ Due
    /\ now' = clock /\ had' = (periodic # Never) /\ poller' = "estimating"
    /\ start' = IF schedule.last = Never THEN clock - schedule.interval ELSE schedule.last
    /\ UNCHANGED <<clock, schedule, periodic, fileEnd, skipped, cuts>>

\* The row that was read has been deleted: the commit or the refresh raises, and
\* the poll ends with nothing more written.
RowDeleted ==
    /\ poller = "queued" \/ (poller = "estimating" /\ had)
    /\ periodic = Never /\ poller' = "idle"
    /\ UNCHANGED <<clock, schedule, periodic, now, start, had, fileEnd, skipped, cuts>>

Writable == poller = "estimating" /\ (had => periodic # Never)

\* Slip for the mutation runs: an unavailable InfluxDB uses up the period.
EstimateUnavailableAdvances ==
    /\ Writable
    /\ periodic' = Failed /\ poller' = "idle"
    /\ schedule' = [schedule EXCEPT !.last = now]
    /\ UNCHANGED <<clock, now, start, had, fileEnd, skipped, cuts>>

\* InfluxUnavailableError: recorded, and tried again at the next poll.
EstimateUnavailable ==
    /\ Writable
    /\ periodic' = Failed /\ poller' = "idle"
    /\ UNCHANGED <<clock, schedule, now, start, had, fileEnd, skipped, cuts>>

\* Too large, or the group is gone: recorded, and the period is given up.
EstimateRefused ==
    /\ Writable
    /\ periodic' = Failed /\ poller' = "idle"
    /\ schedule' = [schedule EXCEPT !.last = now]
    /\ skipped' = TRUE
    /\ UNCHANGED <<clock, now, start, had, fileEnd, cuts>>

QueueJob ==
    /\ Writable
    /\ periodic' = Attempt("queued") /\ poller' = "queued"
    /\ UNCHANGED <<clock, schedule, now, start, had, fileEnd, skipped, cuts>>

\* A commit of its own, after the job's and before the job runs.
AdvanceLastRun ==
    /\ poller = "queued"
    /\ schedule' = [schedule EXCEPT !.last = now] /\ poller' = "run"
    /\ UNCHANGED <<clock, periodic, now, start, had, fileEnd, skipped, cuts>>

\* run_export_job of a row that is still there.
PeriodicSucceeds ==
    /\ poller = "run" /\ periodic # Never
    /\ periodic' = [periodic EXCEPT !.status = "done", !.file = TRUE]
    /\ fileEnd' = periodic.end /\ skipped' = FALSE /\ poller' = "idle"
    /\ UNCHANGED <<clock, schedule, now, start, had, cuts>>

PeriodicFails ==
    /\ poller = "run"
    /\ periodic' = IF periodic = Never THEN Never
                 ELSE [periodic EXCEPT !.status = IF HasFile THEN "done" ELSE "failed"]
    /\ skipped' = TRUE /\ poller' = "idle"
    /\ UNCHANGED <<clock, schedule, now, start, had, fileEnd, cuts>>

\* PUT /me/export-schedule
Configure(i, e) ==
    /\ schedule' = [schedule EXCEPT !.interval = i, !.enabled = e]
    /\ schedule' # schedule
    /\ UNCHANGED <<clock, periodic, poller, now, start, had, fileEnd, skipped, cuts>>

\* DELETE /me/exports/periodic
DeleteJob ==
    /\ periodic # Never
    /\ periodic' = Never
    /\ UNCHANGED <<clock, schedule, poller, now, start, had, fileEnd, skipped, cuts>>

\* A restart, or an exception over another tenant's row, which ends the poll and
\* loses the list of jobs still to run.
Cut ==
    /\ poller # "idle" /\ cuts < MaxCuts
    /\ cuts' = cuts + 1 /\ poller' = "idle"
    /\ skipped' = (skipped \/ poller = "run")
    /\ UNCHANGED <<clock, schedule, periodic, now, start, had, fileEnd>>

Tick == /\ clock < MaxClock /\ clock' = clock + 1
        /\ UNCHANGED <<schedule, periodic, poller, now, start, had, fileEnd, skipped, cuts>>

ScheduleNext == \/ Poll \/ RowDeleted \/ EstimateUnavailable \/ EstimateRefused \/ QueueJob
        \/ AdvanceLastRun \/ PeriodicSucceeds \/ PeriodicFails
        \/ \E i \in Intervals, e \in BOOLEAN : Configure(i, e)
        \/ DeleteJob \/ Cut \/ Tick

ScheduleSpec == ScheduleInit /\ [][ScheduleNext]_scheduleVars

-----------------------------------------------------------------------------
(* Properties *)

\* Two consecutive files join exactly, without gap or overlap, through retries,
\* restarts between the commits and changes of the schedule, unless a period was
\* given up in between: refused, failed to generate, or cut off while running.
FilesJoin ==
    [][(PeriodicSucceeds /\ fileEnd # Never /\ ~skipped) => periodic.start = fileEnd]_scheduleVars

\* export_scheduler.py: consecutive periodic files leave no gap.
NoGap ==
    [][(PeriodicSucceeds /\ fileEnd # Never) => periodic.start <= fileEnd]_scheduleVars
=============================================================================
