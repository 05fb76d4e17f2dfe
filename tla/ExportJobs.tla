------------------------------- MODULE ExportJobs -------------------------------
(* The ad-hoc CSV export of one tenant: services/export_jobs.py with its worker *)
(* threads, the delete handler of routers/tenant_portal.py, the export_jobs row *)
(* and the MinIO bucket.  Every database transaction is a step of its own: two  *)
(* requests, the worker of an expired job and a delete interleave freely.       *)
(* A request and the thread it starts are one process, and the file that the    *)
(* thread uploads is named after it (the real key holds a fresh uuid).          *)
EXTENDS Integers, FiniteSets

CONSTANTS
    Workers,        \* requests, with the thread and the file of each
    MaxDeletes,     \* bound on delete requests
    MaxCrashes,     \* bound on restarts of core-api
    MaxMinioFaults, \* bound on failing removals of objects
    None            \* NULL; also no row

ASSUME ExportConstants ==
    /\ None \notin Workers
    /\ MaxDeletes \in Nat /\ MaxCrashes \in Nat /\ MaxMinioFaults \in Nat

VARIABLES
    row,        \* the export_jobs row of kind adhoc, or None
    pc,         \* [worker -> its next step]
    job,        \* [worker -> id of the row its thread works on]
    seen,       \* [worker -> attributes of the row as its session loaded them]
    del,        \* the delete handler: next step, id and minio_key it read
    blobs,      \* objects in the export bucket
    deletes, crashes, minioFaults

counts == <<deletes, crashes, minioFaults>>
vars == <<row, pc, job, seen, del, blobs, counts>>

Statuses == {"queued", "processing", "done", "failed"}
Busy == {"queued", "processing"}

\* stale: started_at, or else requested_at, is more than 600 seconds ago.
Row == [id: Workers, status: Statuses, stale: BOOLEAN, key: Workers \cup {None}]

Exists(i) == row # None /\ row.id = i
Go(w, p) == pc' = [pc EXCEPT ![w] = p]
Sees(w, r) == seen' = [seen EXCEPT ![w] = r]

\* SQLAlchemy writes an attribute only if it differs from the loaded value.
Assign(loaded, value) == IF loaded.status = value THEN row.status ELSE value

Init == /\ row = None
        /\ pc = [w \in Workers |-> "idle"]
        /\ job = [w \in Workers |-> None]
        /\ seen = [w \in Workers |-> None]
        /\ del = [pc |-> "idle", id |-> None, key |-> None]
        /\ blobs = {}
        /\ deletes = 0 /\ crashes = 0 /\ minioFaults = 0

-----------------------------------------------------------------------------
(* request_adhoc_export *)

\* Slip for the mutation runs: a lock without a timeout.
LockedForever == row # None /\ row.status \in Busy

Locked == row # None /\ row.status \in Busy /\ ~row.stale

\* Only a free row, or one whose lock has timed out, lets a request through.
Check(w) ==
    /\ pc[w] = "idle"
    /\ ~Locked
    /\ Sees(w, row) /\ Go(w, "gates")
    /\ UNCHANGED <<row, job, del, blobs, counts>>

\* Unknown device or group, too large, InfluxDB unavailable: nothing changes.
Reject(w) ==
    /\ pc[w] = "gates" /\ Go(w, "rejected")
    /\ UNCHANGED <<row, job, seen, del, blobs, counts>>

\* INSERT, unless another request inserted first (unique constraint, 500).
Insert(w) ==
    /\ pc[w] = "gates" /\ seen[w] = None
    /\ \/ /\ row = None
          /\ row' = [id |-> w, status |-> "queued", stale |-> FALSE, key |-> None]
          /\ job' = [job EXCEPT ![w] = w]
          /\ Go(w, "spawned")
       \/ /\ row # None /\ Go(w, "rejected") /\ UNCHANGED <<row, job>>
    /\ UNCHANGED <<seen, del, blobs, counts>>

\* Slip for the mutation runs: the file is forgotten on request.
RequeueDropsFile(w) ==
    /\ pc[w] = "gates" /\ seen[w] # None
    /\ Exists(seen[w].id)
    /\ row' = [id |-> row.id, status |-> "queued", stale |-> FALSE, key |-> None]
    /\ job' = [job EXCEPT ![w] = row.id] /\ Go(w, "spawned")
    /\ UNCHANGED <<seen, del, blobs, counts>>

\* UPDATE of the row that Check read; its file is left alone.
Requeue(w) ==
    /\ pc[w] = "gates" /\ seen[w] # None
    /\ \/ /\ Exists(seen[w].id)
          /\ row' = [id |-> row.id, status |-> Assign(seen[w], "queued"),
                     stale |-> FALSE, key |-> row.key]
          /\ job' = [job EXCEPT ![w] = row.id]
          /\ Go(w, "spawned")
       \/ /\ ~Exists(seen[w].id) /\ Go(w, "rejected") /\ UNCHANGED <<row, job>>
    /\ UNCHANGED <<seen, del, blobs, counts>>

-----------------------------------------------------------------------------
(* run_export_job *)

\* A row deleted meanwhile ends the thread, whatever it has done so far:
\* nothing found, or StaleDataError and nothing found after the rollback.
Gone(w) ==
    /\ pc[w] \in {"spawned", "loaded", "begun", "uploaded", "failing", "recording"}
    /\ ~Exists(job[w]) /\ Go(w, "gone")
    /\ UNCHANGED <<row, job, seen, del, blobs, counts>>

Load(w) ==
    /\ pc[w] = "spawned" /\ Exists(job[w])
    /\ Sees(w, row) /\ Go(w, "loaded")
    /\ UNCHANGED <<row, job, del, blobs, counts>>

Begin(w) ==
    /\ pc[w] = "loaded" /\ Exists(job[w])
    /\ row' = [row EXCEPT !.status = Assign(seen[w], "processing"), !.stale = FALSE]
    /\ Go(w, "begun")
    /\ UNCHANGED <<job, seen, del, blobs, counts>>

\* The commit expired the attributes; the next access reads them again, and
\* minio_key stays the old key that this read returned.
Refresh(w) ==
    /\ pc[w] = "begun" /\ Exists(job[w])
    /\ Sees(w, row) /\ Go(w, "generating")
    /\ UNCHANGED <<row, job, del, blobs, counts>>

GenerateFails(w) ==
    /\ pc[w] = "generating" /\ Go(w, "failing")
    /\ UNCHANGED <<row, job, seen, del, blobs, counts>>

Upload(w) ==
    /\ pc[w] = "generating"
    /\ blobs' = blobs \cup {w} /\ Go(w, "uploaded")
    /\ UNCHANGED <<row, job, seen, del, counts>>

Finished(w) == row' = [row EXCEPT !.status = Assign(seen[w], "done"), !.key = w]

Commit(w) ==
    /\ pc[w] = "uploaded" /\ Exists(job[w])
    /\ Finished(w) /\ Go(w, "committed")
    /\ UNCHANGED <<job, seen, del, blobs, counts>>

\* The commit raises: rolled back, or done with its acknowledgement lost.
CommitFails(w) ==
    /\ pc[w] = "uploaded" /\ Exists(job[w])
    /\ Finished(w) \/ UNCHANGED row
    /\ Go(w, "failing")
    /\ UNCHANGED <<job, seen, del, blobs, counts>>

\* A removal that fails is printed or passed over.
Remove(k) == \/ blobs' = blobs \ {k} /\ UNCHANGED counts
             \/ /\ minioFaults < MaxMinioFaults
                /\ minioFaults' = minioFaults + 1
                /\ UNCHANGED <<blobs, deletes, crashes>>

DeleteOld(w) ==
    /\ pc[w] = "committed"
    /\ Remove(seen[w].key)
    /\ Go(w, "finished")
    /\ UNCHANGED <<row, job, seen, del>>

\* Slip for the mutation runs: the new file is removed without looking.
FailLoadAlways(w) ==
    /\ pc[w] = "failing" /\ Exists(job[w])
    /\ Sees(w, row) /\ Remove(w) /\ Go(w, "recording")
    /\ UNCHANGED <<row, job, del>>

\* The except path: roll back, read the row, remove an unreferenced new file.
FailLoad(w) ==
    /\ pc[w] = "failing" /\ Exists(job[w])
    /\ Sees(w, row) /\ Go(w, "recording")
    /\ IF row.key # w THEN Remove(w) ELSE UNCHANGED <<blobs, counts>>
    /\ UNCHANGED <<row, job, del>>

\* record_failed_attempt and its commit.
Outcome(s) == IF s.key # None THEN "done" ELSE "failed"

FailRecord(w) ==
    /\ pc[w] = "recording" /\ Exists(job[w])
    /\ row' = [row EXCEPT !.status = Assign(seen[w], Outcome(seen[w]))]
    /\ Go(w, "finished")
    /\ UNCHANGED <<job, seen, del, blobs, counts>>

-----------------------------------------------------------------------------
(* delete_export_portal, the lock timeout and restarts *)

DeleteRead ==
    /\ del.pc = "idle" /\ row # None /\ deletes < MaxDeletes
    /\ del' = [pc |-> "read", id |-> row.id, key |-> row.key]
    /\ deletes' = deletes + 1
    /\ UNCHANGED <<row, pc, job, seen, blobs, crashes, minioFaults>>

DeleteRow ==
    /\ del.pc = "read"
    /\ row' = IF Exists(del.id) THEN None ELSE row
    /\ del' = [del EXCEPT !.pc = "deleted"]
    /\ UNCHANGED <<pc, job, seen, blobs, counts>>

DeleteFile ==
    /\ del.pc = "deleted"
    /\ Remove(del.key)
    /\ del' = [pc |-> "idle", id |-> None, key |-> None]
    /\ UNCHANGED <<row, pc, job, seen>>

\* _LOCK_TIMEOUT_SECONDS passes for a busy row, its thread dead or only slow.
Expire ==
    /\ row # None /\ row.status \in Busy /\ ~row.stale
    /\ row' = [row EXCEPT !.stale = TRUE]
    /\ UNCHANGED <<pc, job, seen, del, blobs, counts>>

Resting == {"idle", "rejected", "gone", "finished", "dead"}
Live == {w \in Workers : pc[w] \notin Resting /\ pc[w] # "gates"}

\* core-api restarts: daemon threads and handlers are gone, nothing is resumed.
Crash ==
    /\ crashes < MaxCrashes /\ crashes' = crashes + 1
    /\ pc' = [w \in Workers |-> IF pc[w] \in Resting THEN pc[w] ELSE "dead"]
    /\ del' = [pc |-> "idle", id |-> None, key |-> None]
    /\ UNCHANGED <<row, job, seen, blobs, deletes, minioFaults>>

Request(w) == Check(w) \/ Reject(w) \/ Insert(w) \/ Requeue(w)
Thread(w) == \/ Gone(w) \/ Load(w) \/ Begin(w) \/ Refresh(w)
             \/ GenerateFails(w) \/ Upload(w) \/ Commit(w) \/ CommitFails(w)
             \/ DeleteOld(w) \/ FailLoad(w) \/ FailRecord(w)
Delete == DeleteRead \/ DeleteRow \/ DeleteFile

Next == \/ \E w \in Workers : Request(w) \/ Thread(w)
        \/ Delete \/ Expire \/ Crash

Spec == Init /\ [][Next]_vars

\* Threads are scheduled, and the clock of the lock timeout runs.
FairSpec == /\ Spec /\ WF_vars(Expire)
            /\ \A w \in Workers : WF_vars(Thread(w))

-----------------------------------------------------------------------------
(* Properties *)

PCs == Resting \cup {"gates", "spawned", "loaded", "begun", "generating",
                     "uploaded", "committed", "failing", "recording"}

\* State shapes; a thread that works has a row to work on.
TypeOK ==
    /\ row \in Row \cup {None}
    /\ pc \in [Workers -> PCs]
    /\ job \in [Workers -> Workers \cup {None}]
    /\ seen \in [Workers -> Row \cup {None}]
    /\ del \in [pc: {"idle", "read", "deleted"}, id: Workers \cup {None},
                key: Workers \cup {None}]
    /\ blobs \subseteq Workers
    /\ deletes \in 0..MaxDeletes /\ crashes \in 0..MaxCrashes
    /\ minioFaults \in 0..MaxMinioFaults
    /\ \A w \in Live : job[w] # None

\* The download link always works: the file the row names is in the bucket, no
\* matter how two threads of one row, failures, deletes and restarts interleave.
RowFileExists == (row # None /\ row.key # None) => row.key \in blobs

\* "done" means there is a file to download.
DoneHasFile == (row # None /\ row.status = "done") => row.key # None

\* The module's docstring: accepting a request, generating and failing keep the
\* previous file; a row's file is only ever replaced by another file.
KeepsPreviousFile ==
    [][(row # None /\ row.key # None /\ row' # None /\ row'.id = row.id)
          => row'.key # None]_vars

\* The lock never wedges: after any crash the tenant can request again.
LockIsFreed == []<>~Locked
=============================================================================
