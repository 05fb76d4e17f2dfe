---------------------------- MODULE RequestProofs -----------------------------
(***************************************************************************)
(* ExportJobs for any set of requests and any bounds, ExportSchedule for   *)
(* any intervals and bounds, and Provisioning for any tokens, groups and   *)
(* requests, any finite set of devices and any bounds: threads that work   *)
(* on a row in several transactions.                                       *)
(***************************************************************************)
EXTENDS ExportJobs, ExportSchedule, Provisioning, FiniteSetTheorems, TLAPS
-----------------------------------------------------------------------------
(* The export on request. *)

\* A thread that has not passed its commit: no row can name its file yet.
NotYet == {"idle", "gates", "spawned", "loaded", "begun", "generating", "uploaded"}
Before == {"idle", "gates"}
Past(k) == pc[k] \notin NotYet

\* Row ids are those of requests that went through.
IdInv == /\ row # None => pc[row.id] \notin Before
         /\ \A w \in Workers : seen[w] # None => pc[seen[w].id] \notin Before

\* Sessions hold the row they work on.
SeenInv == \A w \in Workers :
    /\ pc[w] \in {"generating", "uploaded", "committed", "recording"} => seen[w] # None
    /\ pc[w] = "recording" => seen[w].id = job[w]

\* The file of the row is stored, was committed by a thread of this row, and is
\* neither an old file some thread is about to remove nor the delete handler's.
FileInv ==
    /\ row # None /\ row.key # None =>
          row.key \in blobs /\ Past(row.key) /\ job[row.key] = row.id
    /\ \A w \in Workers : seen[w] # None /\ seen[w].key # None => Past(seen[w].key)
    /\ \A w \in Workers : pc[w] = "uploaded" => w \in blobs
    /\ \A w \in Workers : pc[w] = "committed" /\ row # None /\ row.key # None =>
          row.key # seen[w].key
    /\ del.key # None => Past(del.key) /\ job[del.key] = del.id
    /\ del.pc = "deleted" /\ row # None /\ row.key # None => row.key # del.key

\* A file once seen on a row is still on it, or was replaced.
KeepInv == \A w \in Workers :
    seen[w] # None /\ seen[w].key # None /\ Exists(seen[w].id) => row.key # None

ExportInv == TypeOK /\ IdInv /\ SeenInv /\ FileInv /\ KeepInv /\ DoneHasFile

-----------------------------------------------------------------------------

\* No row, no file, no thread.
LEMMA InitExport == Init => ExportInv
<1> SUFFICES ASSUME Init PROVE ExportInv
  OBVIOUS
<1>1. TypeOK
  <2>1. /\ pc \in [Workers -> PCs] /\ job \in [Workers -> Workers \cup {None}]
        /\ seen \in [Workers -> Row \cup {None}] /\ Live = {}
    BY DEF Init, PCs, Resting, Live
  <2>2. /\ deletes \in 0..MaxDeletes /\ crashes \in 0..MaxCrashes
        /\ minioFaults \in 0..MaxMinioFaults
    BY ExportConstants DEF Init
  <2>3. blobs \subseteq Workers
    BY DEF Init
  <2>4. /\ row \in Row \cup {None}
        /\ del \in [pc: {"idle", "read", "deleted"}, id: Workers \cup {None},
                    key: Workers \cup {None}]
    BY DEF Init
  <2> QED BY <2>1, <2>2, <2>3, <2>4 DEF TypeOK
<1>2. IdInv /\ SeenInv /\ FileInv /\ KeepInv /\ DoneHasFile
  BY DEF Init, IdInv, SeenInv, FileInv, KeepInv, DoneHasFile
<1> QED BY <1>1, <1>2 DEF ExportInv

\* A request that checks, is rejected, inserts or requeues keeps the invariant.
LEMMA RequestKeeps ==
    ASSUME ExportInv, NEW w \in Workers,
           Check(w) \/ Reject(w) \/ Insert(w) \/ Requeue(w)
    PROVE  ExportInv'
<1> USE ExportConstants
<1>a. TypeOK /\ IdInv /\ SeenInv /\ FileInv /\ KeepInv /\ DoneHasFile
  BY DEF ExportInv
<1>1. CASE Check(w)
  <2>1. TypeOK'
    BY <1>1, <1>a DEF Check, Go, Sees, Exists, TypeOK, Row, PCs, Resting, Live, Statuses,
       Busy, Locked, counts
  <2>2. IdInv' /\ SeenInv'
    BY <1>1, <1>a DEF Check, Go, Sees, Exists, TypeOK, Row, IdInv, SeenInv, Before,
       counts
  <2>3. FileInv'
    BY <1>1, <1>a DEF Check, Go, Sees, Exists, TypeOK, Row, SeenInv, FileInv, Past,
       NotYet, counts
  <2>4. KeepInv' /\ DoneHasFile'
    BY <1>1, <1>a DEF Check, Go, Sees, Exists, TypeOK, Row, IdInv, SeenInv, KeepInv,
       DoneHasFile, Before, counts
  <2> QED BY <2>1, <2>2, <2>3, <2>4 DEF ExportInv
<1>2. CASE Reject(w)
  <2>1. TypeOK'
    BY <1>2, <1>a DEF Reject, Go, Exists, TypeOK, Row, PCs, Resting, Live, Statuses,
       Busy, Locked, counts
  <2>2. IdInv' /\ SeenInv'
    BY <1>2, <1>a DEF Reject, Go, Exists, TypeOK, Row, IdInv, SeenInv, Before,
       counts
  <2>3. FileInv'
    BY <1>2, <1>a DEF Reject, Go, Exists, TypeOK, Row, SeenInv, FileInv, Past,
       NotYet, counts
  <2>4. KeepInv' /\ DoneHasFile'
    BY <1>2, <1>a DEF Reject, Go, Exists, TypeOK, Row, IdInv, SeenInv, KeepInv,
       DoneHasFile, Before, counts
  <2> QED BY <2>1, <2>2, <2>3, <2>4 DEF ExportInv
<1>3. CASE Insert(w)
  <2>1. TypeOK'
    <3>a. row' \in Row \cup {None}
      <4>1. CASE UNCHANGED row
        BY <4>1, <1>a DEF TypeOK
      <4>2. CASE row' # row
        <5> DEFINE r == row'
        <5>1. /\ r = [id |-> r.id, status |-> r.status, stale |-> r.stale, key |-> r.key]
              /\ r.id \in Workers /\ r.status \in Statuses /\ r.stale = FALSE
              /\ r.key \in Workers \cup {None}
          BY <4>2, <1>3, <1>a DEF Insert, Go, Exists, TypeOK, Row, Statuses
        <5> HIDE DEF r
        <5>2. r \in Row
          BY <5>1 DEF Row
        <5> QED BY <5>2 DEF r
      <4> QED BY <4>1, <4>2
    <3>1. row' \in Row \cup {None} /\ job' \in [Workers -> Workers \cup {None}]
      BY <3>a, <1>3, <1>a DEF Insert, Go, Exists, TypeOK, Row
    <3>2. pc' \in [Workers -> PCs]
      BY <1>3, <1>a DEF Insert, Go, TypeOK, PCs, Resting
    <3>3. \A v \in Live' : job'[v] # None
      BY <1>3, <1>a DEF Insert, Go, Exists, TypeOK, Row, Live, Resting
    <3>4. UNCHANGED <<seen, del, blobs, counts>>
      BY <1>3 DEF Insert, Go
    <3> QED BY <1>a, <3>1, <3>2, <3>3, <3>4 DEF TypeOK, counts
  <2>2. IdInv' /\ SeenInv'
    BY <1>3, <1>a DEF Insert, Go, Exists, TypeOK, Row, IdInv, SeenInv, Before,
       counts
  <2>3. FileInv'
    BY <1>3, <1>a DEF Insert, Go, Exists, TypeOK, Row, SeenInv, FileInv, Past,
       NotYet, counts
  <2>4. KeepInv' /\ DoneHasFile'
    BY <1>3, <1>a DEF Insert, Go, Exists, TypeOK, Row, IdInv, SeenInv, KeepInv,
       DoneHasFile, Before, counts
  <2> QED BY <2>1, <2>2, <2>3, <2>4 DEF ExportInv
<1>4. CASE Requeue(w)
  <2>1. TypeOK'
    <3>a. row' \in Row \cup {None}
      <4>1. CASE UNCHANGED row
        BY <4>1, <1>a DEF TypeOK
      <4>2. CASE row' # row
        <5> DEFINE r == row'
        <5>1. /\ r = [id |-> r.id, status |-> r.status, stale |-> r.stale, key |-> r.key]
              /\ r.id \in Workers /\ r.status \in Statuses /\ r.stale = FALSE
              /\ r.key \in Workers \cup {None}
          BY <4>2, <1>4, <1>a DEF Requeue, Go, Assign, Exists, TypeOK, Row, Statuses
        <5> HIDE DEF r
        <5>2. r \in Row
          BY <5>1 DEF Row
        <5> QED BY <5>2 DEF r
      <4> QED BY <4>1, <4>2
    <3>1. row' \in Row \cup {None} /\ job' \in [Workers -> Workers \cup {None}]
      BY <3>a, <1>4, <1>a DEF Requeue, Go, Assign, Exists, TypeOK, Row
    <3>2. pc' \in [Workers -> PCs]
      BY <1>4, <1>a DEF Requeue, Go, Assign, TypeOK, PCs, Resting
    <3>3. \A v \in Live' : job'[v] # None
      BY <1>4, <1>a DEF Requeue, Go, Assign, Exists, TypeOK, Row, Live, Resting
    <3>4. UNCHANGED <<seen, del, blobs, counts>>
      BY <1>4 DEF Requeue, Go, Assign
    <3> QED BY <1>a, <3>1, <3>2, <3>3, <3>4 DEF TypeOK, counts
  <2>2. IdInv' /\ SeenInv'
    BY <1>4, <1>a DEF Requeue, Go, Assign, Exists, TypeOK, Row, IdInv, SeenInv, Before,
       counts
  <2>3. FileInv'
    BY <1>4, <1>a DEF Requeue, Go, Assign, Exists, TypeOK, Row, SeenInv, FileInv, Past,
       NotYet, counts
  <2>4. KeepInv' /\ DoneHasFile'
    BY <1>4, <1>a DEF Requeue, Go, Assign, Exists, TypeOK, Row, IdInv, SeenInv, KeepInv,
       DoneHasFile, Before, counts
  <2> QED BY <2>1, <2>2, <2>3, <2>4 DEF ExportInv
<1> QED BY <1>1, <1>2, <1>3, <1>4

\* A thread up to the upload of its file keeps the invariant.
LEMMA WorkingKeeps ==
    ASSUME ExportInv, NEW w \in Workers,
           Gone(w) \/ Load(w) \/ Begin(w) \/ Refresh(w) \/ GenerateFails(w) \/ Upload(w)
    PROVE  ExportInv'
<1> USE ExportConstants
<1>a. TypeOK /\ IdInv /\ SeenInv /\ FileInv /\ KeepInv /\ DoneHasFile
  BY DEF ExportInv
<1>1. CASE Gone(w)
  <2>1. TypeOK'
    BY <1>1, <1>a DEF Gone, Go, Exists, TypeOK, Row, PCs, Resting, Live, Statuses,
       Busy, Locked, counts
  <2>2. IdInv' /\ SeenInv'
    BY <1>1, <1>a DEF Gone, Go, Exists, TypeOK, Row, IdInv, SeenInv, Before,
       counts
  <2>3. FileInv'
    BY <1>1, <1>a DEF Gone, Go, Exists, TypeOK, Row, SeenInv, FileInv, Past,
       NotYet, counts
  <2>4. KeepInv' /\ DoneHasFile'
    BY <1>1, <1>a DEF Gone, Go, Exists, TypeOK, Row, IdInv, SeenInv, KeepInv,
       DoneHasFile, Before, counts
  <2> QED BY <2>1, <2>2, <2>3, <2>4 DEF ExportInv
<1>2. CASE Load(w)
  <2>1. TypeOK'
    BY <1>2, <1>a DEF Load, Go, Sees, Exists, TypeOK, Row, PCs, Resting, Live, Statuses,
       Busy, Locked, counts
  <2>2. IdInv' /\ SeenInv'
    BY <1>2, <1>a DEF Load, Go, Sees, Exists, TypeOK, Row, IdInv, SeenInv, Before,
       counts
  <2>3. FileInv'
    BY <1>2, <1>a DEF Load, Go, Sees, Exists, TypeOK, Row, SeenInv, FileInv, Past,
       NotYet, counts
  <2>4. KeepInv' /\ DoneHasFile'
    BY <1>2, <1>a DEF Load, Go, Sees, Exists, TypeOK, Row, IdInv, SeenInv, KeepInv,
       DoneHasFile, Before, counts
  <2> QED BY <2>1, <2>2, <2>3, <2>4 DEF ExportInv
<1>3. CASE Begin(w)
  <2>1. TypeOK'
    BY <1>3, <1>a DEF Begin, Go, Assign, Exists, TypeOK, Row, PCs, Resting, Live, Statuses,
       Busy, Locked, counts
  <2>2. IdInv' /\ SeenInv'
    BY <1>3, <1>a DEF Begin, Go, Assign, Exists, TypeOK, Row, IdInv, SeenInv, Before,
       counts
  <2>3. FileInv'
    BY <1>3, <1>a DEF Begin, Go, Assign, Exists, TypeOK, Row, SeenInv, FileInv, Past,
       NotYet, counts
  <2>4. KeepInv' /\ DoneHasFile'
    BY <1>3, <1>a DEF Begin, Go, Assign, Exists, TypeOK, Row, IdInv, SeenInv, KeepInv,
       DoneHasFile, Before, counts
  <2> QED BY <2>1, <2>2, <2>3, <2>4 DEF ExportInv
<1>4. CASE Refresh(w)
  <2>1. TypeOK'
    BY <1>4, <1>a DEF Refresh, Go, Sees, Exists, TypeOK, Row, PCs, Resting, Live, Statuses,
       Busy, Locked, counts
  <2>2. IdInv' /\ SeenInv'
    BY <1>4, <1>a DEF Refresh, Go, Sees, Exists, TypeOK, Row, IdInv, SeenInv, Before,
       counts
  <2>3. FileInv'
    BY <1>4, <1>a DEF Refresh, Go, Sees, Exists, TypeOK, Row, SeenInv, FileInv, Past,
       NotYet, counts
  <2>4. KeepInv' /\ DoneHasFile'
    BY <1>4, <1>a DEF Refresh, Go, Sees, Exists, TypeOK, Row, IdInv, SeenInv, KeepInv,
       DoneHasFile, Before, counts
  <2> QED BY <2>1, <2>2, <2>3, <2>4 DEF ExportInv
<1>5. CASE GenerateFails(w)
  <2>1. TypeOK'
    BY <1>5, <1>a DEF GenerateFails, Go, Exists, TypeOK, Row, PCs, Resting, Live, Statuses,
       Busy, Locked, counts
  <2>2. IdInv' /\ SeenInv'
    BY <1>5, <1>a DEF GenerateFails, Go, Exists, TypeOK, Row, IdInv, SeenInv, Before,
       counts
  <2>3. FileInv'
    BY <1>5, <1>a DEF GenerateFails, Go, Exists, TypeOK, Row, SeenInv, FileInv, Past,
       NotYet, counts
  <2>4. KeepInv' /\ DoneHasFile'
    BY <1>5, <1>a DEF GenerateFails, Go, Exists, TypeOK, Row, IdInv, SeenInv, KeepInv,
       DoneHasFile, Before, counts
  <2> QED BY <2>1, <2>2, <2>3, <2>4 DEF ExportInv
<1>6. CASE Upload(w)
  <2>1. TypeOK'
    BY <1>6, <1>a DEF Upload, Go, Exists, TypeOK, Row, PCs, Resting, Live, Statuses,
       Busy, Locked, counts
  <2>2. IdInv' /\ SeenInv'
    BY <1>6, <1>a DEF Upload, Go, Exists, TypeOK, Row, IdInv, SeenInv, Before,
       counts
  <2>3. FileInv'
    BY <1>6, <1>a DEF Upload, Go, Exists, TypeOK, Row, SeenInv, FileInv, Past,
       NotYet, counts
  <2>4. KeepInv' /\ DoneHasFile'
    BY <1>6, <1>a DEF Upload, Go, Exists, TypeOK, Row, IdInv, SeenInv, KeepInv,
       DoneHasFile, Before, counts
  <2> QED BY <2>1, <2>2, <2>3, <2>4 DEF ExportInv
<1> QED BY <1>1, <1>2, <1>3, <1>4, <1>5, <1>6

\* A thread from its commit, or its failure, to its end keeps the invariant.
LEMMA ClosingKeeps ==
    ASSUME ExportInv, NEW w \in Workers,
           Commit(w) \/ CommitFails(w) \/ DeleteOld(w) \/ FailLoad(w) \/ FailRecord(w)
    PROVE  ExportInv'
<1> USE ExportConstants
<1>a. TypeOK /\ IdInv /\ SeenInv /\ FileInv /\ KeepInv /\ DoneHasFile
  BY DEF ExportInv
<1>1. CASE Commit(w)
  <2>1. TypeOK'
    BY <1>1, <1>a DEF Commit, Go, Finished, Assign, Exists, TypeOK, Row, PCs, Resting, Live, Statuses,
       Busy, Locked, counts
  <2>2. IdInv' /\ SeenInv'
    BY <1>1, <1>a DEF Commit, Go, Finished, Assign, Exists, TypeOK, Row, IdInv, SeenInv, Before,
       counts
  <2>3. FileInv'
    BY <1>1, <1>a DEF Commit, Go, Finished, Assign, Exists, TypeOK, Row, SeenInv, FileInv, Past,
       NotYet, counts
  <2>4. KeepInv' /\ DoneHasFile'
    BY <1>1, <1>a DEF Commit, Go, Finished, Assign, Exists, TypeOK, Row, IdInv, SeenInv, KeepInv,
       DoneHasFile, Before, counts
  <2> QED BY <2>1, <2>2, <2>3, <2>4 DEF ExportInv
<1>2. CASE CommitFails(w)
  <2>1. TypeOK'
    BY <1>2, <1>a DEF CommitFails, Go, Finished, Assign, Exists, TypeOK, Row, PCs, Resting, Live, Statuses,
       Busy, Locked, counts
  <2>2. IdInv' /\ SeenInv'
    BY <1>2, <1>a DEF CommitFails, Go, Finished, Assign, Exists, TypeOK, Row, IdInv, SeenInv, Before,
       counts
  <2>3. FileInv'
    <3>1. CASE UNCHANGED row
      BY <3>1, <1>2, <1>a DEF CommitFails, Go, TypeOK, FileInv, Past, NotYet, counts
    <3>2. CASE Finished(w)
      BY <3>2, <1>2, <1>a DEF CommitFails, Go, Finished, Assign, Exists, TypeOK, Row, SeenInv, FileInv,
         Past, NotYet, counts
    <3> QED BY <3>1, <3>2, <1>2 DEF CommitFails
  <2>4. KeepInv' /\ DoneHasFile'
    BY <1>2, <1>a DEF CommitFails, Go, Finished, Assign, Exists, TypeOK, Row, IdInv, SeenInv, KeepInv,
       DoneHasFile, Before, counts
  <2> QED BY <2>1, <2>2, <2>3, <2>4 DEF ExportInv
<1>3. CASE DeleteOld(w)
  <2>1. TypeOK'
    BY <1>3, <1>a DEF DeleteOld, Go, Remove, Exists, TypeOK, Row, PCs, Resting, Live, Statuses,
       Busy, Locked, counts
  <2>2. IdInv' /\ SeenInv'
    BY <1>3, <1>a DEF DeleteOld, Go, Remove, Exists, TypeOK, Row, IdInv, SeenInv, Before,
       counts
  <2>3. FileInv'
    BY <1>3, <1>a DEF DeleteOld, Go, Remove, Exists, TypeOK, Row, SeenInv, FileInv, Past,
       NotYet, counts
  <2>4. KeepInv' /\ DoneHasFile'
    BY <1>3, <1>a DEF DeleteOld, Go, Remove, Exists, TypeOK, Row, IdInv, SeenInv, KeepInv,
       DoneHasFile, Before, counts
  <2> QED BY <2>1, <2>2, <2>3, <2>4 DEF ExportInv
<1>4. CASE FailLoad(w)
  <2>1. TypeOK'
    BY <1>4, <1>a DEF FailLoad, Go, Sees, Remove, Exists, TypeOK, Row, PCs, Resting, Live, Statuses,
       Busy, Locked, counts
  <2>2. IdInv' /\ SeenInv'
    BY <1>4, <1>a DEF FailLoad, Go, Sees, Remove, Exists, TypeOK, Row, IdInv, SeenInv, Before,
       counts
  <2>3. FileInv'
    BY <1>4, <1>a DEF FailLoad, Go, Sees, Remove, Exists, TypeOK, Row, SeenInv, FileInv, Past,
       NotYet, counts
  <2>4. KeepInv' /\ DoneHasFile'
    BY <1>4, <1>a DEF FailLoad, Go, Sees, Remove, Exists, TypeOK, Row, IdInv, SeenInv, KeepInv,
       DoneHasFile, Before, counts
  <2> QED BY <2>1, <2>2, <2>3, <2>4 DEF ExportInv
<1>5. CASE FailRecord(w)
  <2>1. TypeOK'
    BY <1>5, <1>a DEF FailRecord, Go, Assign, Outcome, Exists, TypeOK, Row, PCs, Resting, Live, Statuses,
       Busy, Locked, counts
  <2>2. IdInv' /\ SeenInv'
    BY <1>5, <1>a DEF FailRecord, Go, Assign, Outcome, Exists, TypeOK, Row, IdInv, SeenInv, Before,
       counts
  <2>3. FileInv'
    BY <1>5, <1>a DEF FailRecord, Go, Assign, Outcome, Exists, TypeOK, Row, SeenInv, FileInv, Past,
       NotYet, counts
  <2>4. KeepInv' /\ DoneHasFile'
    BY <1>5, <1>a DEF FailRecord, Go, Assign, Outcome, Exists, TypeOK, Row, IdInv, SeenInv, KeepInv,
       DoneHasFile, Before, counts
  <2> QED BY <2>1, <2>2, <2>3, <2>4 DEF ExportInv
<1> QED BY <1>1, <1>2, <1>3, <1>4, <1>5

\* The delete handler, the lock timeout and restarts keep the invariant.
LEMMA SurroundingsKeep ==
    ASSUME ExportInv, Delete \/ Expire \/ Crash
    PROVE  ExportInv'
<1> USE ExportConstants
<1>a. TypeOK /\ IdInv /\ SeenInv /\ FileInv /\ KeepInv /\ DoneHasFile
  BY DEF ExportInv
<1>1. CASE DeleteRead
  <2>1. TypeOK'
    BY <1>1, <1>a DEF DeleteRead, Exists, TypeOK, Row, PCs, Resting, Live, Statuses,
       Busy, Locked, counts
  <2>2. IdInv' /\ SeenInv'
    BY <1>1, <1>a DEF DeleteRead, Exists, TypeOK, Row, IdInv, SeenInv, Before,
       counts
  <2>3. FileInv'
    BY <1>1, <1>a DEF DeleteRead, Exists, TypeOK, Row, SeenInv, FileInv, Past,
       NotYet, counts
  <2>4. KeepInv' /\ DoneHasFile'
    BY <1>1, <1>a DEF DeleteRead, Exists, TypeOK, Row, IdInv, SeenInv, KeepInv,
       DoneHasFile, Before, counts
  <2> QED BY <2>1, <2>2, <2>3, <2>4 DEF ExportInv
<1>2. CASE DeleteRow
  <2>1. TypeOK'
    BY <1>2, <1>a DEF DeleteRow, Exists, TypeOK, Row, PCs, Resting, Live, Statuses,
       Busy, Locked, counts
  <2>2. IdInv' /\ SeenInv'
    BY <1>2, <1>a DEF DeleteRow, Exists, TypeOK, Row, IdInv, SeenInv, Before,
       counts
  <2>3. FileInv'
    BY <1>2, <1>a DEF DeleteRow, Exists, TypeOK, Row, SeenInv, FileInv, Past,
       NotYet, counts
  <2>4. KeepInv' /\ DoneHasFile'
    BY <1>2, <1>a DEF DeleteRow, Exists, TypeOK, Row, IdInv, SeenInv, KeepInv,
       DoneHasFile, Before, counts
  <2> QED BY <2>1, <2>2, <2>3, <2>4 DEF ExportInv
<1>3. CASE DeleteFile
  <2>1. TypeOK'
    BY <1>3, <1>a DEF DeleteFile, Remove, Exists, TypeOK, Row, PCs, Resting, Live, Statuses,
       Busy, Locked, counts
  <2>2. IdInv' /\ SeenInv'
    BY <1>3, <1>a DEF DeleteFile, Remove, Exists, TypeOK, Row, IdInv, SeenInv, Before,
       counts
  <2>3. FileInv'
    BY <1>3, <1>a DEF DeleteFile, Remove, Exists, TypeOK, Row, SeenInv, FileInv, Past,
       NotYet, counts
  <2>4. KeepInv' /\ DoneHasFile'
    BY <1>3, <1>a DEF DeleteFile, Remove, Exists, TypeOK, Row, IdInv, SeenInv, KeepInv,
       DoneHasFile, Before, counts
  <2> QED BY <2>1, <2>2, <2>3, <2>4 DEF ExportInv
<1>4. CASE Expire
  <2>1. TypeOK'
    BY <1>4, <1>a DEF Expire, Exists, TypeOK, Row, PCs, Resting, Live, Statuses,
       Busy, Locked, counts
  <2>2. IdInv' /\ SeenInv'
    BY <1>4, <1>a DEF Expire, Exists, TypeOK, Row, IdInv, SeenInv, Before,
       counts
  <2>3. FileInv'
    BY <1>4, <1>a DEF Expire, Exists, TypeOK, Row, SeenInv, FileInv, Past,
       NotYet, counts
  <2>4. KeepInv' /\ DoneHasFile'
    BY <1>4, <1>a DEF Expire, Exists, TypeOK, Row, IdInv, SeenInv, KeepInv,
       DoneHasFile, Before, counts
  <2> QED BY <2>1, <2>2, <2>3, <2>4 DEF ExportInv
<1>5. CASE Crash
  <2>1. TypeOK'
    BY <1>5, <1>a DEF Crash, Resting, Exists, TypeOK, Row, PCs, Live, Statuses,
       Busy, Locked, counts
  <2>2. IdInv' /\ SeenInv'
    BY <1>5, <1>a DEF Crash, Resting, Exists, TypeOK, Row, IdInv, SeenInv, Before,
       counts
  <2>3. FileInv'
    BY <1>5, <1>a DEF Crash, Resting, Exists, TypeOK, Row, SeenInv, FileInv, Past,
       NotYet, counts
  <2>4. KeepInv' /\ DoneHasFile'
    BY <1>5, <1>a DEF Crash, Resting, Exists, TypeOK, Row, IdInv, SeenInv, KeepInv,
       DoneHasFile, Before, counts
  <2> QED BY <2>1, <2>2, <2>3, <2>4 DEF ExportInv
<1> QED BY <1>1, <1>2, <1>3, <1>4, <1>5 DEF Delete

\* The invariant holds in every reachable state.
THEOREM ExportInvariant == Spec => []ExportInv
<1>1. ASSUME ExportInv, [Next]_vars PROVE ExportInv'
  <2>1. CASE UNCHANGED vars
    BY <2>1, <1>1 DEF vars, counts, ExportInv, TypeOK, IdInv, SeenInv, FileInv,
       Past, KeepInv, DoneHasFile, Exists, Live
  <2>2. ASSUME NEW w \in Workers, Request(w) \/ Thread(w) PROVE ExportInv'
    BY <2>2, <1>1, RequestKeeps, WorkingKeeps, ClosingKeeps DEF Request, Thread
  <2>3. CASE Delete \/ Expire \/ Crash
    BY <2>3, <1>1, SurroundingsKeep
  <2> QED BY <2>1, <2>2, <2>3, <1>1 DEF Next
<1> QED BY InitExport, <1>1, PTL DEF Spec

\* The shapes of the row, the threads and the delete handler.
THEOREM ExportTyped == Spec => []TypeOK
BY ExportInvariant, PTL DEF ExportInv

\* Whatever run_export_job threads and delete_export_portal do concurrently, the
\* minio_key in the row names an object that is in the bucket.
THEOREM ExportFileExists == Spec => []RowFileExists
<1>1. ExportInv => RowFileExists BY DEF ExportInv, FileInv, RowFileExists
<1> QED BY ExportInvariant, <1>1, PTL

\* A row whose status is done has a minio_key.
THEOREM ExportDoneHasFile == Spec => []DoneHasFile
BY ExportInvariant, PTL DEF ExportInv

\* No request, thread or failure takes the previous file from a row.
THEOREM ExportKeepsPreviousFile == Spec => KeepsPreviousFile
<1> DEFINE Keep == (row # None /\ row.key # None /\ row' # None /\ row'.id = row.id)
                      => row'.key # None
<1>1. ASSUME TypeOK, [Next]_vars PROVE [Keep]_vars
  <2> USE ExportConstants
  <2>1. ASSUME NEW w \in Workers, Request(w) PROVE Keep
    BY <2>1, <1>1 DEF Request, Check, Reject, Insert, Requeue, TypeOK, Row
  <2>2. ASSUME NEW w \in Workers, Thread(w) PROVE Keep
    BY <2>2, <1>1 DEF Thread, Gone, Load, Begin, Refresh, GenerateFails, Upload, Commit,
       CommitFails, DeleteOld, FailLoad, FailRecord, Finished, Exists, TypeOK, Row
  <2>3. CASE Delete \/ Expire \/ Crash
    BY <2>3, <1>1 DEF Delete, DeleteRead, DeleteRow, DeleteFile, Expire, Crash, TypeOK,
       Row
  <2> QED BY <2>1, <2>2, <2>3, <1>1 DEF Next
<1> QED BY ExportTyped, <1>1, PTL DEF Spec, KeepsPreviousFile

-----------------------------------------------------------------------------
(* The periodic export. *)

\* last_run_at is the end of the last file until the next period is counted, the period that
\* is worked on begins there, and the job that is queued is the one of this period.
LastFile ==
    fileEnd # Never /\ ~skipped =>
        /\ poller # "run" => schedule.last = fileEnd
        /\ poller # "idle" => start = fileEnd
ThisPeriod ==
    /\ poller \in {"queued", "run"} /\ periodic # Never => periodic.start = start /\ periodic.end = now
    /\ poller = "run" => schedule.last = now
JoinInv == "last" \in DOMAIN schedule /\ LastFile /\ ThisPeriod

\* No file has been made at the start.
LEMMA JoinInit == ScheduleInit => JoinInv
BY DEF ScheduleInit, JoinInv, LastFile, ThisPeriod

\* Steps of the scheduler thread up to the commit of last_run_at.
LEMMA PollsKeep ==
    ASSUME JoinInv, Poll \/ RowDeleted \/ EstimateUnavailable \/ EstimateRefused \/ QueueJob
    PROVE  JoinInv'
<1>1. CASE Poll \/ RowDeleted \/ EstimateUnavailable
  BY <1>1 DEF JoinInv, LastFile, ThisPeriod, Poll, RowDeleted, EstimateUnavailable, Writable
<1>2. CASE EstimateRefused
  BY <1>2 DEF JoinInv, LastFile, ThisPeriod, EstimateRefused
<1>3. CASE QueueJob
  <2>1. periodic'.start = start /\ periodic'.end = now
    BY <1>3 DEF QueueJob, Attempt
  <2>. QED  BY <1>3, <2>1 DEF JoinInv, LastFile, ThisPeriod, QueueJob, Writable
<1>. QED  BY <1>1, <1>2, <1>3

\* The commit of last_run_at, the run of the job, and its end.
LEMMA RunsKeep ==
    ASSUME JoinInv, AdvanceLastRun \/ PeriodicSucceeds \/ PeriodicFails \/ Cut
    PROVE  JoinInv'
<1>1. CASE AdvanceLastRun
  BY <1>1 DEF JoinInv, LastFile, ThisPeriod, AdvanceLastRun
<1>2. CASE PeriodicSucceeds
  BY <1>2 DEF JoinInv, LastFile, ThisPeriod, PeriodicSucceeds
<1>3. CASE PeriodicFails \/ Cut
  BY <1>3 DEF JoinInv, LastFile, ThisPeriod, PeriodicFails, Cut
<1>. QED  BY <1>1, <1>2, <1>3

\* What the portal does meanwhile.
LEMMA PortalKeeps ==
    ASSUME JoinInv, (\E i \in Intervals, e \in BOOLEAN : Configure(i, e)) \/ DeleteJob \/ Tick \/ UNCHANGED scheduleVars
    PROVE  JoinInv'
<1>1. CASE \E i \in Intervals, e \in BOOLEAN : Configure(i, e)
  <2>1. schedule'.last = schedule.last /\ DOMAIN schedule' = DOMAIN schedule
    BY <1>1 DEF Configure, JoinInv
  <2>2. UNCHANGED <<periodic, poller, now, start, fileEnd, skipped>>
    BY <1>1 DEF Configure
  <2>. QED  BY <2>1, <2>2 DEF JoinInv, LastFile, ThisPeriod
<1>2. CASE DeleteJob \/ Tick \/ UNCHANGED scheduleVars
  BY <1>2 DEF JoinInv, LastFile, ThisPeriod, DeleteJob, Tick, scheduleVars
<1>. QED  BY <1>1, <1>2

\* Two consecutive files of the periodic export join, for any intervals and any number of
\* polls, restarts and changes of the schedule, unless a period was given up in between.
THEOREM FilesAlwaysJoin == ScheduleSpec => FilesJoin
<1>1. JoinInv /\ [ScheduleNext]_scheduleVars => JoinInv'
  BY PollsKeep, RunsKeep, PortalKeeps DEF ScheduleNext
<1>2. JoinInv => [(PeriodicSucceeds /\ fileEnd # Never /\ ~skipped) => periodic.start = fileEnd]_scheduleVars
  BY DEF JoinInv, LastFile, ThisPeriod, PeriodicSucceeds
<1>. QED  BY JoinInit, <1>1, <1>2, PTL DEF ScheduleSpec, FilesJoin

-----------------------------------------------------------------------------
(* POST /provision. *)

\* At most one request holds a token's row.
LockInv == \A r, s \in Requests :
    Holding(r) /\ Holding(s) /\ req[r].token = req[s].token => r = s

\* The row it holds still has the place it counted on.
RoomInv == \A r \in Requests : Holding(r) => HasRoom(req[r].token)

ProvInv == ProvTypeOK /\ LockInv /\ RoomInv /\ LimitKept /\ GroupsExist

-----------------------------------------------------------------------------

LEMMA InitProv == ProvInit => ProvInv
<1> SUFFICES ASSUME ProvInit PROVE ProvInv
  OBVIOUS
<1> USE DEF ProvInit
<1>1. ProvTypeOK
  <2>1. token \in [Tokens -> Token]
    <3>1. ASSUME NEW x \in [active: {TRUE}, max: 1..MaxLimit, count: {0}] PROVE x \in Token
      <4>1. x.active \in BOOLEAN
        OBVIOUS
      <4>2. x.count \in Nat
        OBVIOUS
      <4> QED BY <4>1, <4>2 DEF Token
    <3> QED BY <3>1
  <2>2. device \in [Devices -> DeviceRow \cup {Null}] /\ stage \in [Requests -> Stages]
    BY DEF Stages
  <2>3. deletions \in 0..MaxDeletions /\ restarts \in 0..MaxRestarts
    BY ProvisioningConstants
  <2> QED BY <2>1, <2>2, <2>3 DEF ProvTypeOK
<1>2. LockInv /\ RoomInv
  BY DEF LockInv, RoomInv, Holding
<1>3. LimitKept
  <2> SUFFICES ASSUME NEW t \in Tokens
               PROVE  token[t].count <= token[t].max /\ Cardinality(Registered(t)) <= token[t].count
    BY DEF LimitKept
  <2>1. Registered(t) = {}
    BY DEF Registered
  <2>2. token[t].count = 0 /\ token[t].max \in 1..MaxLimit
    OBVIOUS
  <2>3. Cardinality(Registered(t)) = 0
    BY <2>1, FS_EmptySet
  <2> QED BY ONLY <2>2, <2>3, ProvisioningConstants
<1>4. GroupsExist
  BY DEF GroupsExist
<1> QED BY <1>1, <1>2, <1>3, <1>4 DEF ProvInv

\* A step that touches neither the tokens nor the devices, and of the requests one
\* that ends or goes on within what it held, keeps everything.
LEMMA QuietKeeps ==
    ASSUME ProvInv, ProvTypeOK', UNCHANGED <<token, device, groups, req>>,
           \A r \in Requests : Holding(r)' => Holding(r)
    PROVE  ProvInv'
<1>1. LockInv' /\ RoomInv'
  BY DEF ProvInv, LockInv, RoomInv, HasRoom
<1>2. LimitKept' /\ GroupsExist'
  BY DEF ProvInv, LimitKept, Registered, GroupsExist
<1> QED BY <1>1, <1>2 DEF ProvInv

\* What To does.
LEMMA ToFacts ==
    ASSUME ProvTypeOK, NEW r \in Requests, NEW p \in Stages, To(r, p)
    PROVE  /\ stage' \in [Requests -> Stages] /\ stage'[r] = p
           /\ \A s \in Requests : s # r => stage'[s] = stage[s]
           /\ UNCHANGED <<expired, groups, req, deletions, restarts>>
BY DEF To, ProvTypeOK

\* A request's steps before the insert, and every way it fails.
LEMMA ProvRequestKeeps ==
    ASSUME ProvInv, NEW r \in Requests,
           \/ Validate(r) \/ Count(r) \/ Screen(r) \/ Issue(r) \/ IssueFails(r) \/ InsertFails(r)
    PROVE  ProvInv'
<1>a. ProvTypeOK
  BY DEF ProvInv
<1>p. "done" \in Stages /\ "validated" \in Stages /\ "counted" \in Stages /\ "screened" \in Stages /\ "issued" \in Stages
  BY DEF Stages
<1>1. CASE Count(r) /\ HasRoom(req[r].token)
  <2>1. To(r, "counted") /\ UNCHANGED <<token, device>> /\ ~TokenLocked(req[r].token)
    BY <1>1 DEF Count
  <2>2. /\ stage' \in [Requests -> Stages] /\ \A s \in Requests : s # r => stage'[s] = stage[s]
        /\ UNCHANGED <<expired, groups, req, deletions, restarts>>
    BY <1>a, <1>p, <2>1, ToFacts
  <2>3. ProvTypeOK'
    BY <1>a, <2>1, <2>2 DEF ProvTypeOK
  <2>4. \A s \in Requests : s # r => (Holding(s)' <=> Holding(s))
    BY <2>2 DEF Holding
  <2>5. LockInv'
    BY <2>1, <2>2, <2>4 DEF ProvInv, LockInv, TokenLocked
  <2>6. RoomInv'
    BY <1>1, <2>1, <2>2, <2>4 DEF ProvInv, RoomInv, HasRoom
  <2>7. LimitKept' /\ GroupsExist'
    BY <2>1, <2>2 DEF ProvInv, LimitKept, Registered, GroupsExist
  <2> QED BY <2>3, <2>5, <2>6, <2>7 DEF ProvInv
<1>2. CASE ~(Count(r) /\ HasRoom(req[r].token))
  <2>1. UNCHANGED <<token, device>>
    BY DEF Validate, Count, Screen, Issue, IssueFails, InsertFails, Rollback
  <2>2. PICK p \in {"validated", "done", "screened", "issued"} :
            To(r, p) /\ (p \in {"screened", "issued"} => Holding(r))
    BY <1>2 DEF Validate, Count, Screen, Issue, IssueFails, InsertFails, Rollback, Holding
  <2>3. /\ stage' \in [Requests -> Stages] /\ stage'[r] = p /\ \A s \in Requests : s # r => stage'[s] = stage[s]
        /\ UNCHANGED <<expired, groups, req, deletions, restarts>>
    BY <1>a, <1>p, <2>2, ToFacts
  <2>4. ProvTypeOK'
    BY <1>a, <2>1, <2>3 DEF ProvTypeOK
  <2>5. \A s \in Requests : Holding(s)' => Holding(s)
    BY <2>2, <2>3 DEF Holding
  <2> QED BY <2>1, <2>3, <2>4, <2>5, QuietKeeps
<1> QED BY <1>1, <1>2

\* The number of devices under a token follows the device table.
LEMMA RegisteredFinite ==
    ASSUME NEW t \in Tokens
    PROVE  IsFiniteSet(Registered(t)) /\ Cardinality(Registered(t)) \in Nat
<1>1. Registered(t) \subseteq Devices
  BY DEF Registered
<1> QED BY <1>1, ProvisioningConstants, FS_Subset, FS_CardinalityType

\* The insert uses the place that was counted.
LEMMA InsertKeeps ==
    ASSUME ProvInv, NEW r \in Requests, InsertCommit(r) PROVE ProvInv'
<1> DEFINE q == req[r]
           t == q.token
           added == [token |-> t, group |-> q.group]
<1>1. /\ stage[r] = "issued" /\ To(r, "done") /\ device[q.dev] = Null /\ q.group \in groups \cup {Null}
      /\ device' = [device EXCEPT ![q.dev] = added]
      /\ token' = [token EXCEPT ![t].count = @ + 1]
  BY DEF InsertCommit, Insertable
<1>2. /\ q \in Req /\ t \in Tokens /\ q.dev \in Devices /\ added \in DeviceRow /\ added.token = t /\ added.group = q.group
      /\ token \in [Tokens -> Token] /\ device \in [Devices -> DeviceRow \cup {Null}]
  BY DEF ProvInv, ProvTypeOK, Req, DeviceRow
<1>3. /\ stage' \in [Requests -> Stages] /\ stage'[r] = "done" /\ \A s \in Requests : s # r => stage'[s] = stage[s]
      /\ UNCHANGED <<expired, groups, req, deletions, restarts>>
  BY <1>1, ToFacts DEF ProvInv, Stages
<1>4. HasRoom(t) /\ Holding(r)
  BY <1>1 DEF ProvInv, RoomInv, Holding
<1>5. /\ \A u \in Tokens : u # t => token'[u] = token[u]
      /\ token'[t] \in Token /\ token'[t].count = token[t].count + 1 /\ token'[t].max = token[t].max
      /\ token'[t].active = token[t].active
      /\ token[t].count \in Nat /\ token[t].max \in Nat
  BY <1>1, <1>2, ProvisioningConstants DEF Token
<1> HIDE DEF added
<1>6. ProvTypeOK'
  <2>1. token' \in [Tokens -> Token]
    BY <1>1, <1>2, <1>5
  <2>2. device' \in [Devices -> DeviceRow \cup {Null}]
    BY <1>1, <1>2
  <2> QED BY <1>3, <2>1, <2>2 DEF ProvInv, ProvTypeOK
<1>7. LockInv' /\ RoomInv'
  <2>1. \A s \in Requests : Holding(s)' => Holding(s) /\ s # r
    BY <1>3 DEF Holding
  <2>2. \A s \in Requests : Holding(s)' => req[s].token # t
    BY <1>4, <2>1 DEF ProvInv, LockInv
  <2>3. \A s \in Requests : req[s].token \in Tokens
    BY DEF ProvInv, ProvTypeOK, Req
  <2> QED BY <1>3, <1>5, <2>1, <2>2, <2>3 DEF ProvInv, LockInv, RoomInv, HasRoom
<1>8. LimitKept'
  <2> SUFFICES ASSUME NEW u \in Tokens
               PROVE  /\ token'[u].count <= token'[u].max
                      /\ Cardinality(Registered(u)') <= token'[u].count
    BY DEF LimitKept
  <2>0. token[u].count <= token[u].max /\ Cardinality(Registered(u)) <= token[u].count
    BY DEF ProvInv, LimitKept
  <2>n. added # Null
    BY <1>2, ProvisioningConstants
  <2>1. CASE u = t
    <3>1. Registered(u)' = Registered(u) \cup {q.dev} /\ q.dev \notin Registered(u)
      <4>1. device'[q.dev] = added /\ \A e \in Devices : e # q.dev => device'[e] = device[e]
        BY <1>1, <1>2
      <4> HIDE DEF q, t
      <4> QED BY <1>1, <1>2, <2>1, <2>n, <4>1 DEF Registered
    <3>2. Cardinality(Registered(u)') = Cardinality(Registered(u)) + 1
      BY <1>2, <3>1, RegisteredFinite, FS_AddElement
    <3>3. token[u].count < token[u].max
      BY <1>4, <2>1 DEF HasRoom
    <3>4. token'[u].count <= token'[u].max
      BY <1>5, <2>1, <3>3
    <3>5. Cardinality(Registered(u)) \in Nat
      BY RegisteredFinite
    <3>6. Cardinality(Registered(u)') <= token'[u].count
      BY <1>5, <2>0, <2>1, <3>2, <3>5
    <3> QED BY <3>4, <3>6
  <2>2. CASE u # t
    <3>1. Registered(u)' = Registered(u)
      BY <1>1, <1>2, <2>2 DEF Registered
    <3> QED BY <1>5, <2>0, <2>2, <3>1
  <2> QED BY <2>1, <2>2
<1>9. GroupsExist'
  BY <1>1, <1>2, <1>3 DEF ProvInv, GroupsExist
<1> QED BY <1>6, <1>7, <1>8, <1>9 DEF ProvInv

\* A revoked token counts on no one: no request holds its row.
LEMMA RevokeKeeps ==
    ASSUME ProvInv, NEW t \in Tokens, Revoke(t) \/ ExpireToken(t) PROVE ProvInv'
<1>1. CASE Revoke(t)
  <2>1. /\ ~TokenLocked(t) /\ token' = [token EXCEPT ![t].active = FALSE]
        /\ UNCHANGED <<expired, device, groups, stage, req, deletions, restarts>>
    BY <1>1 DEF Revoke
  <2>2. /\ \A u \in Tokens : u # t => token'[u] = token[u]
        /\ \A u \in Tokens : token'[u].count = token[u].count /\ token'[u].max = token[u].max
        /\ token' \in [Tokens -> Token]
    BY <2>1 DEF ProvInv, ProvTypeOK, Token
  <2>3. ProvTypeOK'
    BY <2>1, <2>2 DEF ProvInv, ProvTypeOK
  <2>4. \A r \in Requests : req[r].token \in Tokens /\ (Holding(r)' <=> Holding(r))
    BY <2>1 DEF ProvInv, ProvTypeOK, Req, Holding
  <2>5. LockInv' /\ RoomInv'
    BY <2>1, <2>2, <2>4 DEF ProvInv, LockInv, RoomInv, HasRoom, TokenLocked
  <2>6. LimitKept' /\ GroupsExist'
    BY <2>1, <2>2 DEF ProvInv, LimitKept, Registered, GroupsExist
  <2> QED BY <2>3, <2>5, <2>6 DEF ProvInv
<1>2. CASE ExpireToken(t)
  <2>1. ProvTypeOK'
    BY <1>2 DEF ExpireToken, ProvInv, ProvTypeOK
  <2>2. \A r \in Requests : Holding(r)' => Holding(r)
    BY <1>2 DEF ExpireToken, Holding
  <2> QED BY <1>2, <2>1, <2>2, QuietKeeps DEF ExpireToken
<1> QED BY <1>1, <1>2

\* A device row only goes away, or changes its group.
LEMMA DeviceKeeps ==
    ASSUME ProvInv, UNCHANGED <<token, expired, stage, req, restarts>>,
           groups' \subseteq groups, deletions' \in 0..MaxDeletions,
           device' \in [Devices -> DeviceRow \cup {Null}], GroupsExist',
           \A d \in Devices : device'[d] # Null =>
               device[d] # Null /\ device'[d].token = device[d].token
    PROVE  ProvInv'
<1>1. ProvTypeOK'
  BY DEF ProvInv, ProvTypeOK
<1>2. LockInv' /\ RoomInv'
  BY DEF ProvInv, LockInv, RoomInv, HasRoom, Holding
<1>3. LimitKept'
  <2> SUFFICES ASSUME NEW t \in Tokens
               PROVE  /\ token[t].count <= token[t].max
                      /\ Cardinality(Registered(t)') <= token[t].count
    BY DEF LimitKept
  <2>1. Registered(t)' \subseteq Registered(t)
    BY DEF Registered
  <2>2. /\ Cardinality(Registered(t)') <= Cardinality(Registered(t))
        /\ Cardinality(Registered(t)) \in Nat /\ Cardinality(Registered(t)') \in Nat
    BY <2>1, RegisteredFinite, FS_Subset, FS_CardinalityType
  <2>3. token[t].count \in Nat
    BY DEF ProvInv, ProvTypeOK, Token
  <2>4. token[t].count <= token[t].max /\ Cardinality(Registered(t)) <= token[t].count
    BY DEF ProvInv, LimitKept
  <2> QED BY <2>2, <2>3, <2>4
<1> QED BY <1>1, <1>2, <1>3 DEF ProvInv

\* The handlers for devices and groups.
LEMMA TablesKeep ==
    ASSUME ProvInv,
           \/ \E d \in Devices : DeleteDevice(d)
           \/ \E g \in Groups : DeleteGroup(g)
           \/ \E d \in Devices, g \in Groups \cup {Null} : AssignGroup(d, g)
    PROVE  ProvInv'
<1>a. /\ device \in [Devices -> DeviceRow \cup {Null}] /\ deletions \in 0..MaxDeletions /\ groups \subseteq Groups
      /\ GroupsExist
  BY DEF ProvInv, ProvTypeOK
<1>1. ASSUME NEW d \in Devices, DeleteDevice(d) PROVE ProvInv'
  <2>1. /\ UNCHANGED <<token, expired, stage, req, restarts, groups>>
        /\ device' = [device EXCEPT ![d] = Null] /\ deletions' \in 0..MaxDeletions
    BY <1>1, <1>a, ProvisioningConstants DEF DeleteDevice
  <2>2. device' \in [Devices -> DeviceRow \cup {Null}] /\ GroupsExist'
    BY <1>a, <2>1 DEF GroupsExist
  <2> QED BY <1>a, <2>1, <2>2, DeviceKeeps
<1>2. ASSUME NEW g \in Groups, DeleteGroup(g) PROVE ProvInv'
  <2>1. UNCHANGED <<token, expired, stage, req, restarts, deletions>> /\ groups' = groups \ {g}
    BY <1>2 DEF DeleteGroup
  <2>2. ASSUME NEW d \in Devices
        PROVE  /\ device'[d] \in DeviceRow \cup {Null}
               /\ device'[d] # Null => /\ device[d] # Null /\ device'[d].token = device[d].token
                                       /\ device'[d].group \in groups' \cup {Null}
    <3>1. device'[d] = IF device[d] # Null /\ device[d].group = g
                       THEN [device[d] EXCEPT !.group = Null] ELSE device[d]
      BY <1>2 DEF DeleteGroup, Ungroup
    <3>2. CASE device[d] # Null /\ device[d].group = g
      <4>1. device[d] \in DeviceRow
        BY <1>a, <3>2
      <4>2. [device[d] EXCEPT !.group = Null] \in DeviceRow
        BY <4>1 DEF DeviceRow
      <4>3. [device[d] EXCEPT !.group = Null].token = device[d].token
        BY <4>1 DEF DeviceRow
      <4>4. [device[d] EXCEPT !.group = Null].group = Null
        BY <4>1 DEF DeviceRow
      <4> QED BY <3>1, <3>2, <4>2, <4>3, <4>4
    <3>3. CASE ~(device[d] # Null /\ device[d].group = g)
      <4>1. device'[d] = device[d]
        BY <3>1, <3>3
      <4>2. device[d] # Null => device[d].group \in groups \cup {Null} /\ device[d].group # g
        BY <1>a, <3>3 DEF GroupsExist
      <4> QED BY <1>a, <2>1, <4>1, <4>2
    <3> QED BY <3>2, <3>3
  <2>3. device' \in [Devices -> DeviceRow \cup {Null}]
    BY <1>2, <2>2 DEF DeleteGroup, Ungroup
  <2>4. GroupsExist'
    BY <2>2 DEF GroupsExist
  <2> QED BY <1>a, <2>1, <2>2, <2>3, <2>4, DeviceKeeps
<1>3. ASSUME NEW d \in Devices, NEW g \in Groups \cup {Null}, AssignGroup(d, g) PROVE ProvInv'
  <2>1. /\ UNCHANGED <<token, expired, stage, req, restarts, groups, deletions>>
        /\ device' = [device EXCEPT ![d].group = g]
        /\ device[d] # Null /\ g \in groups \cup {Null}
    BY <1>3 DEF AssignGroup
  <2>2. /\ device'[d] \in DeviceRow /\ device'[d].token = device[d].token /\ device'[d].group = g
        /\ \A e \in Devices : e # d => device'[e] = device[e]
    BY <1>a, <2>1 DEF DeviceRow
  <2>3. device' \in [Devices -> DeviceRow \cup {Null}]
    BY <1>a, <2>1, <2>2
  <2>4. GroupsExist'
    BY <1>a, <2>1, <2>2 DEF GroupsExist
  <2> QED BY <1>a, <2>1, <2>2, <2>3, <2>4, DeviceKeeps
<1> QED BY <1>1, <1>2, <1>3

LEMMA NextProv == ProvInv /\ [ProvNext]_provVars => ProvInv'
<1> SUFFICES ASSUME ProvInv, [ProvNext]_provVars PROVE ProvInv'
  OBVIOUS
<1>1. CASE UNCHANGED provVars
  <2>1. ProvTypeOK'
    BY <1>1 DEF provVars, ProvInv, ProvTypeOK
  <2> QED BY <1>1, <2>1, QuietKeeps DEF provVars, Holding
<1>2. CASE RestartCore
  <2>1. ProvTypeOK'
    BY <1>2, ProvisioningConstants DEF RestartCore, ProvInv, ProvTypeOK, Stages
  <2>2. \A r \in Requests : Holding(r)' => Holding(r)
    BY <1>2 DEF RestartCore, Holding
  <2> QED BY <1>2, <2>1, <2>2, QuietKeeps DEF RestartCore
<1>3. CASE ProvNext /\ ~RestartCore
  BY <1>3, ProvRequestKeeps, InsertKeeps, RevokeKeeps, TablesKeep DEF ProvNext, Step
<1> QED BY <1>1, <1>2, <1>3

\* In every reachable state the inductive invariant holds.
THEOREM ProvInvariant == ProvSpec => []ProvInv
<1> QED BY InitProv, NextProv, PTL DEF ProvSpec

\* Tokens, devices, groups and requests keep their shapes.
THEOREM ProvTyped == ProvSpec => []ProvTypeOK
<1>1. ProvInv => ProvTypeOK
  BY DEF ProvInv
<1> QED BY <1>1, ProvInvariant, PTL

\* A token registers at most max_devices devices over its life, however many
\* requests race for its last place.
THEOREM ProvLimitKept == ProvSpec => []LimitKept
<1>1. ProvInv => LimitKept
  BY DEF ProvInv
<1> QED BY <1>1, ProvInvariant, PTL

\* No device is in a group that is gone.
THEOREM ProvGroupsExist == ProvSpec => []GroupsExist
<1>1. ProvInv => GroupsExist
  BY DEF ProvInv
<1> QED BY <1>1, ProvInvariant, PTL

\* A device row appears only while its token is active.
THEOREM ProvNoneAfterRevoke == ProvSpec => NoneAfterRevoke
<1> DEFINE Appears == \A d \in Devices :
               device[d] = Null /\ device'[d] # Null => token[device'[d].token].active
<1>1. ProvInv /\ [ProvNext]_provVars => [Appears]_provVars
  <2> SUFFICES ASSUME ProvInv, ProvNext, NEW d \in Devices, device[d] = Null, device'[d] # Null
               PROVE  token[device'[d].token].active
    BY DEF provVars
  <2>a. device \in [Devices -> DeviceRow \cup {Null}] /\ req \in [Requests -> Req]
    BY DEF ProvInv, ProvTypeOK
  <2>1. CASE \E r \in Requests : InsertCommit(r)
    <3>1. PICK r \in Requests : InsertCommit(r)
      BY <2>1
    <3>2. req[r].dev \in Devices
      BY <2>a DEF Req
    <3>3. d = req[r].dev /\ device'[d].token = req[r].token
      BY <2>a, <3>1, <3>2 DEF InsertCommit
    <3>4. HasRoom(req[r].token)
      BY <3>1 DEF ProvInv, RoomInv, Holding, InsertCommit
    <3> QED BY <3>3, <3>4 DEF HasRoom
  <2>2. CASE ~\E r \in Requests : InsertCommit(r)
    <3>1. device' = device \/ \E e \in Devices : DeleteDevice(e) \/ (\E g \in Groups : DeleteGroup(g))
              \/ (\E g \in Groups \cup {Null} : AssignGroup(e, g))
      BY <2>2 DEF ProvNext, Step, Validate, Count, Screen, Issue, IssueFails, InsertFails, Rollback,
         Revoke, ExpireToken, RestartCore
    <3>2. device'[d] = Null
      BY <2>a, <3>1 DEF DeleteDevice, DeleteGroup, Ungroup, AssignGroup
    <3> QED BY <3>2
  <2> QED BY <2>1, <2>2
<1>2. [][Appears]_provVars => NoneAfterRevoke
  BY PTL DEF NoneAfterRevoke
<1> QED BY <1>1, <1>2, ProvInvariant, PTL DEF ProvSpec
=============================================================================
