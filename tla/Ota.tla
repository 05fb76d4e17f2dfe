-------------------------------- MODULE Ota --------------------------------
(***************************************************************************)
(* Firmware over the air: the upload of a release, the handlers that send  *)
(* it to a device or to a group, and what becomes of the command on a      *)
(* device of each kind: the simulator, whose window starts a download      *)
(* thread behind a dialog, and programs on the C and Python SDKs, which    *)
(* download in the callback.  A firmware file is two chunks long.  MinIO,  *)
(* EMQX and the network are as the code uses them.                         *)
(***************************************************************************)
EXTENDS Integers, Sequences
CONSTANTS Devices,     \* the devices of a group, by what they run
          Versions,    \* releases; each has its own version and object
          MaxCalls, MaxQueue, MaxThreads, MaxDialogClicks, MaxOtaFaults
ASSUME OtaAssumption ==
    /\ Devices \subseteq {"simulator", "c", "python"} /\ "simulator" \in Devices
    /\ MaxCalls \in Nat /\ MaxQueue \in Nat /\ MaxThreads \in Nat /\ MaxDialogClicks \in Nat /\ MaxOtaFaults \in Nat
    /\ Versions \cap {"none", "bad", "default"} = {}
VARIABLES releases,   \* the object and the row of a release
          call,       \* the dispatch handler that runs
          sent, recorded,  \* commands the broker took; rows of ota_events: [n, dev, v]
          queue,      \* per device, commands and events not yet handled, in order
          file,       \* per device, the chunks of the firmware file
          app,        \* the simulator's worker: runs, fw_version, the saved one, its dialog is in _ota_dialogs
          threads,    \* the simulator's downloads that run
          used,
          loose       \* history: a dialog was closed before its download was over, or a device removed
catalog == <<releases, call, sent, recorded>>
field == <<queue, file, app, threads, loose>>
otaVars == <<catalog, field, used>>

Empty == [c \in {1, 2} |-> "none"]
NoCall == [at |-> "none", n |-> 0, dev |-> "none", v |-> "none", group |-> FALSE, todo |-> {}, rows |-> {}, told |-> {}]

OtaInit ==
    /\ releases = [v \in Versions |-> "none"]
    /\ call = NoCall /\ sent = {} /\ recorded = {}
    /\ queue = [d \in Devices |-> <<>>] /\ file = [d \in Devices |-> Empty]
    /\ app = [on |-> TRUE, version |-> "default", saved |-> "default", dialog |-> FALSE]
    /\ threads = <<>> /\ used = [calls |-> 0, clicks |-> 0, faults |-> 0] /\ loose = FALSE

Use(what, max) == used[what] < max /\ used' = [used EXCEPT ![what] = @ + 1]

-----------------------------------------------------------------------------
(* upload_firmware_release, deactivate_firmware: the object first, the row after it *)

StoreObject(v) ==
    /\ releases[v] = "none" /\ releases' = [releases EXCEPT ![v] = "object"]
    /\ UNCHANGED <<call, sent, recorded, field, used>>
InsertRelease(v) ==
    /\ releases[v] = "object"
    /\ \/ releases' = [releases EXCEPT ![v] = "active"] /\ UNCHANGED used
       \/ releases' = [releases EXCEPT ![v] = "orphan"] /\ Use("faults", MaxOtaFaults)
    /\ UNCHANGED <<call, sent, recorded, field>>
Deactivate(v) ==
    /\ releases[v] = "active" /\ releases' = [releases EXCEPT ![v] = "inactive"]
    /\ UNCHANGED <<call, sent, recorded, field, used>>

-----------------------------------------------------------------------------
(* dispatch_ota_command, dispatch_ota_to_group: platform's and portal's *)

Ask(v, ds, group) ==
    /\ call.at \in {"none", "answered"} /\ releases[v] = "active" /\ Use("calls", MaxCalls)
    /\ call' = [NoCall EXCEPT !.at = "send", !.n = used.calls + 1, !.v = v, !.group = group, !.todo = ds]
    /\ UNCHANGED <<releases, sent, recorded, field>>
Dispatch(v, d) == Ask(v, {d}, FALSE)
DispatchToGroup(v) == Ask(v, Devices, TRUE)

Row(d) == [n |-> call.n, dev |-> d, v |-> call.v]
\* A command reaches a device with a session; it is not retained.
Deliver(d) ==
    \/ UNCHANGED queue
    \/ (d # "simulator" \/ app.on) /\ Len(queue[d]) < MaxQueue
       /\ queue' = [queue EXCEPT ![d] = Append(@, [kind |-> "start", v |-> call.v])]
\* Slip for the mutation runs: the row is made although publishing failed.
GoesOnAnyway(d) == [call EXCEPT !.at = "record", !.dev = d]
\* The exception ends the call of one device, and is noted for a device of a group.
GivesUp(d) == IF call.group THEN [call EXCEPT !.at = "send", !.dev = "none", !.todo = @ \ {d}] ELSE NoCall

\* publish_ota_command logs in when it has no token or the broker refuses it, and tries
\* once more. The answer may be late: the broker has the command, the handler an exception.
Publish(d) ==
    /\ call.at = "send" /\ d \in call.todo
    /\ \/ /\ call' = [call EXCEPT !.at = "record", !.dev = d]
          /\ sent' = sent \cup {Row(d)} /\ Deliver(d) /\ UNCHANGED used
       \/ /\ Use("faults", MaxOtaFaults) /\ call' = GivesUp(d)
          /\ \/ sent' = sent \cup {Row(d)} /\ Deliver(d)
             \/ UNCHANGED <<sent, queue>>
    /\ UNCHANGED <<releases, recorded, file, app, threads, loose>>

\* The row and the audit entry; in a group a savepoint of their own.
Record(d) ==
    /\ call.at = "record" /\ call.dev = d
    /\ \/ /\ call' = [call EXCEPT !.at = "send", !.dev = "none", !.todo = @ \ {d},
                                  !.rows = @ \cup {Row(d)}, !.told = @ \cup {d}]
          /\ UNCHANGED used
       \/ call' = GivesUp(d) /\ Use("faults", MaxOtaFaults)
    /\ UNCHANGED <<releases, sent, recorded, field>>
Commit ==
    /\ call.at = "send" /\ call.todo = {}
    /\ \/ recorded' = recorded \cup call.rows /\ call' = [call EXCEPT !.at = "answered"] /\ UNCHANGED used
       \/ call' = NoCall /\ Use("faults", MaxOtaFaults) /\ UNCHANGED recorded
    /\ UNCHANGED <<releases, sent, field>>

Crash ==
    /\ call.at \in {"send", "record"} /\ Use("faults", MaxOtaFaults)
    /\ call' = NoCall /\ UNCHANGED <<releases, sent, recorded, field>>

-----------------------------------------------------------------------------
(* The devices: _process_queue, _run_ota, OtaHandler, iot_ota_download *)

Without(t) == SubSeq(threads, 1, t - 1) \o SubSeq(threads, t + 1, Len(threads))
\* mine: the worker still has the thread's number; held: its dialog is open; linked: the
\* file it writes is still in the directory.
NewThread(v) == [v |-> v, at |-> "get", done |-> 0, good |-> TRUE, mine |-> TRUE, held |-> TRUE, linked |-> TRUE]
Took(d) == queue[d] # <<>> /\ Head(queue[d]).kind = "start" /\ queue' = [queue EXCEPT ![d] = Tail(@)]

\* What a download that fails leaves: what was there if it failed before the file was
\* opened. Later the C SDK removes the file; Python's stays, cut short or with wrong data.
Spoiled(d, v) ==
    LET part == [Empty EXCEPT ![1] = v]
    IN  {file[d]} \cup IF d = "c" THEN {Empty} ELSE {Empty, part, [part EXCEPT ![2] = "bad"]}
\* OtaHandler and iot_ota_download run in the callback and hold up the next command.
SdkDownload(d) ==
    /\ d # "simulator" /\ Took(d)
    /\ LET v == Head(queue[d]).v
       IN  \/ file' = [file EXCEPT ![d] = [c \in {1, 2} |-> v]] /\ UNCHANGED used
           \/ /\ Use("faults", MaxOtaFaults)
              /\ \E f \in Spoiled(d, v) : file' = [file EXCEPT ![d] = f]
    /\ UNCHANGED <<catalog, app, threads, loose>>

\* Slip for the mutation runs: nothing is skipped.
NeverSkips == FALSE
Skips == app.dialog
\* ota_start
TakeCommand ==
    /\ Took("simulator")
    /\ IF Skips
       THEN UNCHANGED <<threads, app>>
       ELSE /\ Len(threads) < MaxThreads
            /\ threads' = Append(threads, NewThread(Head(queue["simulator"]).v))
            /\ app' = [app EXCEPT !.dialog = TRUE]
    /\ UNCHANGED <<catalog, file, used, loose>>

\* A thread posts its outcome under the worker's number.
Post(t, kind) ==
    /\ threads' = Without(t)
    /\ queue' = IF threads[t].mine
                THEN [queue EXCEPT !["simulator"] = Append(@, [kind |-> kind, v |-> threads[t].v])]
                ELSE queue
\* download_firmware answers, and the file is opened and emptied.
Open(t) ==
    /\ threads[t].at = "get"
    /\ threads' = [threads EXCEPT ![t].at = "write", ![t].linked = TRUE]
    /\ file' = [file EXCEPT !["simulator"] = Empty] /\ UNCHANGED <<catalog, queue, app, used, loose>>
\* The next chunk, at the thread's own place in the file; the data may be wrong.
Write(t) ==
    LET h == threads[t] IN
    /\ h.at = "write" /\ h.done < 2
    /\ \E good \in BOOLEAN :
         /\ IF good THEN UNCHANGED used ELSE Use("faults", MaxOtaFaults)
         /\ threads' = [threads EXCEPT ![t].done = @ + 1, ![t].good = @ /\ good]
         /\ file' = IF h.linked THEN [file EXCEPT !["simulator"][h.done + 1] = IF good THEN h.v ELSE "bad"] ELSE file
    /\ UNCHANGED <<catalog, queue, app, loose>>
\* The checksum of what was received decides.
Check(t) ==
    /\ threads[t].at = "write" /\ threads[t].done = 2
    /\ Post(t, IF threads[t].good THEN "done" ELSE "failed")
    /\ UNCHANGED <<catalog, file, app, used, loose>>
\* The token is out of date, the object is gone, or the transfer breaks.
Break(t) ==
    /\ Use("faults", MaxOtaFaults) /\ Post(t, "failed")
    /\ UNCHANGED <<catalog, file, app, loose>>

\* ota_done and ota_failed; save_fw_version may fail unseen.
Finish ==
    /\ queue["simulator"] # <<>> /\ Head(queue["simulator"]).kind \in {"done", "failed"}
    /\ queue' = [queue EXCEPT !["simulator"] = Tail(@)]
    /\ LET e == Head(queue["simulator"])
           version == IF e.kind = "done" THEN e.v ELSE app.version
       IN  \/ app' = [app EXCEPT !.dialog = FALSE, !.version = version,
                                 !.saved = IF e.kind = "done" THEN e.v ELSE @] /\ UNCHANGED used
           \/ e.kind = "done" /\ Use("faults", MaxOtaFaults) /\ app' = [app EXCEPT !.dialog = FALSE, !.version = version]
    /\ UNCHANGED <<catalog, file, threads, loose>>

\* _on_ota_close: the thread goes on.
CloseDialog ==
    /\ app.dialog /\ Use("clicks", MaxDialogClicks)
    /\ app' = [app EXCEPT !.dialog = FALSE]
    /\ threads' = [t \in DOMAIN threads |-> [threads[t] EXCEPT !.held = FALSE]] /\ loose' = TRUE
    /\ UNCHANGED <<catalog, queue, file>>
\* _remove_device: the directory goes, and so do the dialog and the worker. What waits in the
\* window's queue is left over.
RemoveDevice ==
    /\ app.on /\ Use("clicks", MaxDialogClicks)
    /\ app' = [on |-> FALSE, version |-> "default", saved |-> "default", dialog |-> FALSE]
    /\ file' = [file EXCEPT !["simulator"] = Empty]
    /\ LET q == queue["simulator"]
       IN  queue' = [queue EXCEPT !["simulator"] = [i \in 1..Len(q) |-> [kind |-> "left", v |-> q[i].v]]]
    /\ threads' = [t \in DOMAIN threads |-> [threads[t] EXCEPT !.held = FALSE, !.mine = FALSE, !.linked = FALSE]]
    /\ loose' = (loose \/ threads # <<>>)
    /\ UNCHANGED catalog
\* ota_start, ota_done and ota_failed under the number of a removed worker: a download it
\* starts writes in the directory "unknown", and its outcome finds no worker.
TakeLeftover ==
    /\ queue["simulator"] # <<>> /\ Head(queue["simulator"]).kind = "left"
    /\ queue' = [queue EXCEPT !["simulator"] = Tail(@)]
    /\ UNCHANGED <<catalog, file, app, threads, used, loose>>
\* The window is closed, and its threads end with it.
Exit ==
    /\ app.on /\ Use("clicks", MaxDialogClicks)
    /\ app' = [app EXCEPT !.on = FALSE, !.dialog = FALSE] /\ queue' = [queue EXCEPT !["simulator"] = <<>>]
    /\ threads' = <<>> /\ UNCHANGED <<catalog, file, loose>>
\* _add_device, _load_fw_version
AddDevice ==
    /\ ~app.on /\ app' = [app EXCEPT !.on = TRUE, !.version = app.saved]
    /\ UNCHANGED <<catalog, queue, file, threads, used, loose>>

OtaNext ==
    \/ \E v \in Versions :
         \/ StoreObject(v) \/ InsertRelease(v) \/ Deactivate(v) \/ DispatchToGroup(v)
         \/ \E d \in Devices : Dispatch(v, d)
    \/ \E d \in Devices : Publish(d) \/ Record(d) \/ SdkDownload(d)
    \/ Commit \/ Crash \/ TakeCommand
    \/ \E t \in DOMAIN threads : Open(t) \/ Write(t) \/ Check(t) \/ Break(t)
    \/ Finish \/ CloseDialog \/ RemoveDevice \/ TakeLeftover \/ Exit \/ AddDevice
OtaSpec == OtaInit /\ [][OtaNext]_otaVars

-----------------------------------------------------------------------------
(* Properties *)

\* The ledger is true: a row of ota_events stands for a command the broker has taken, and
\* an answered call has a row for exactly the devices its answer calls dispatched.
LedgerIsTrue ==
    /\ recorded \subseteq sent
    /\ call.at = "answered" => {e \in recorded : e.n = call.n} = {Row(d) : d \in call.told}

\* The simulator's device takes a version only with that version's whole file on the disk,
\* unless a thread was left behind.
VersionHasItsFile ==
    [][\A v \in Versions :
         app.on /\ app'.on /\ app.version # v /\ app'.version = v =>
             loose \/ file'["simulator"] = [c \in {1, 2} |-> v]]_otaVars

\* "Thread continues but puts no more events": a download whose dialog was closed posts
\* nothing, docs/superpowers/specs/2026-08-12-simulator-ota-verification-design.md:144.
ClosedDialogIsSilent ==
    [][\A t \in DOMAIN threads :
         ~threads[t].held /\ Len(threads') < Len(threads) =>
             Len(queue'["simulator"]) <= Len(queue["simulator"])]_otaVars
=============================================================================
