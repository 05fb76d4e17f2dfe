----------------------------- MODULE DeviceArchive -----------------------------
(* What registering, deleting and purging a device does to its data in InfluxDB: *)
(* revive_device_in_influxdb, retire_device_in_influxdb and                       *)
(* purge_archived_device_from_influxdb of services/grafana.py, run by request     *)
(* handlers after their commit. Data is kept under the device's name; retiring    *)
(* moves it to the name with the prefix Del_. Every call may fail, and the next   *)
(* one is made all the same. ingestion-service takes a device's name from a cache *)
(* that no registration invalidates.                                              *)
EXTENDS Integers

CONSTANTS
    Archived,    \* devices
    Labels,      \* device names
    Movers,      \* request threads
    MaxRows,     \* bound on registrations
    MaxFaults,   \* bound on failing InfluxDB calls
    Blank        \* no row; no marker

ASSUME ArchiveConstants ==
    /\ MaxRows \in Nat /\ MaxFaults \in Nat
    /\ Blank \notin [name : Labels, reg : Nat]

VARIABLES
    row,      \* devices: name and number of the registration, or Blank
    registrations, \* registrations so far
    live,     \* name -> registrations whose data is under it
    archive,  \* name -> registrations whose data is under Del_name
    marker,   \* name -> last device_deleted value: "deleted", "revived" or Blank
    mover,    \* the handlers past their commit: their next call and their name
    cached,   \* _device_name_cache: the name ingestion-service knows a device by, or Blank
    faults,
    written,  \* history: name and registration of the data accepted and not purged
    disturbed \* history: names on which a call failed or two handlers overlapped, or which
              \* got data of a device that does not bear them

archiveVars == <<row, registrations, live, archive, marker, mover, cached, faults, written, disturbed>>

Calls == {"revive", "copy", "delete", "marker", "archived"}
Resting == [call |-> "none", name |-> Blank]

ArchiveInit ==
    /\ row = [d \in Archived |-> Blank] /\ registrations = 0 /\ faults = 0
    /\ live = [n \in Labels |-> {}] /\ archive = [n \in Labels |-> {}]
    /\ marker = [n \in Labels |-> Blank]
    /\ mover = [h \in Movers |-> Resting] /\ cached = [d \in Archived |-> Blank]
    /\ written = {} /\ disturbed = {}

Moving(n) == \E h \in Movers : mover[h].call # "none" /\ mover[h].name = n
Bearers(n) == {d \in Archived : row[d] # Blank /\ row[d].name = n}

\* Handler h goes on to a call for name n.
Goto(h, c, n) == mover' = [mover EXCEPT ![h] = IF c = "none" THEN Resting ELSE [call |-> c, name |-> n]]
\* A handler that starts while another works on the name, or the name is shared.
Starts(h, c, n, shared) ==
    /\ mover[h] = Resting /\ Goto(h, c, n)
    /\ disturbed' = disturbed \cup (IF Moving(n) \/ shared THEN {n} ELSE {})

-----------------------------------------------------------------------------

\* POST /provision has committed.
RegisterDevice(h, d, n) ==
    /\ row[d] = Blank /\ registrations < MaxRows
    /\ row' = [row EXCEPT ![d] = [name |-> n, reg |-> registrations + 1]] /\ registrations' = registrations + 1
    /\ Starts(h, "revive", n, Bearers(n) # {})
    /\ UNCHANGED <<live, archive, marker, faults, written, cached>>

\* Either delete endpoint has committed.
DeleteDevice(h, d) ==
    /\ row[d] # Blank
    /\ row' = [row EXCEPT ![d] = Blank]
    /\ Starts(h, "copy", row[d].name, FALSE)
    /\ UNCHANGED <<registrations, live, archive, marker, faults, written, cached>>

\* Telemetry of a device, also of one that is deleted while its messages are on the way or
\* its session lives on: ingest does not ask. get_device_name answers from its cache or reads
\* the row; when the database fails it takes the device's id for a name. 0 stands for no
\* registration.
Known(d) == IF cached[d] # Blank THEN cached[d] ELSE row[d].name
Report(d) ==
    /\ row[d] # Blank \/ cached[d] # Blank
    /\ \E n \in Labels :
         LET reg == IF row[d] = Blank THEN 0 ELSE row[d].reg
             bears == row[d] # Blank /\ row[d].name = n
         IN  /\ \/ n = Known(d) /\ UNCHANGED faults
                \/ cached[d] = Blank /\ faults < MaxFaults /\ faults' = faults + 1
             /\ cached' = [cached EXCEPT ![d] = n]
             /\ live' = [live EXCEPT ![n] = @ \cup {reg}]
             /\ written' = written \cup {[name |-> n, reg |-> reg]}
             /\ disturbed' = disturbed \cup (IF bears THEN {} ELSE {n})
    /\ UNCHANGED <<row, registrations, archive, marker, mover>>
\* 300 s are over, or ingestion-service restarts.
ForgetName(d) ==
    /\ cached[d] # Blank /\ cached' = [cached EXCEPT ![d] = Blank]
    /\ UNCHANGED <<row, registrations, live, archive, marker, mover, faults, written, disturbed>>

Revive(h) ==
    LET n == mover[h].name IN
    /\ mover[h].call = "revive"
    /\ marker' = [marker EXCEPT ![n] = "revived"]
    /\ Goto(h, "none", n)
    /\ UNCHANGED <<row, registrations, live, archive, faults, written, disturbed, cached>>

Copy(h) ==
    LET n == mover[h].name IN
    /\ mover[h].call = "copy"
    /\ archive' = [archive EXCEPT ![n] = @ \cup live[n]]
    /\ Goto(h, "delete", n)
    /\ UNCHANGED <<row, registrations, live, marker, faults, written, disturbed, cached>>

\* Slip for the mutation runs: the marker is written before the data is deleted,
\* as before the fix that the comment tells of, and deleted with it.
DeleteDataLast(h) ==
    LET n == mover[h].name IN
    /\ mover[h].call = "delete"
    /\ live' = [live EXCEPT ![n] = {}] /\ marker' = [marker EXCEPT ![n] = Blank]
    /\ Goto(h, "archived", n)
    /\ UNCHANGED <<row, registrations, archive, faults, written, disturbed, cached>>

\* Every measurement under the name goes, the markers too.
DeleteData(h) ==
    LET n == mover[h].name IN
    /\ mover[h].call = "delete"
    /\ live' = [live EXCEPT ![n] = {}] /\ marker' = [marker EXCEPT ![n] = Blank]
    /\ Goto(h, "marker", n)
    /\ UNCHANGED <<row, registrations, archive, faults, written, disturbed, cached>>

MarkDeleted(h) ==
    LET n == mover[h].name IN
    /\ mover[h].call = "marker"
    /\ marker' = [marker EXCEPT ![n] = "deleted"]
    /\ Goto(h, "archived", n)
    /\ UNCHANGED <<row, registrations, live, archive, faults, written, disturbed, cached>>

\* The archived name's own marker and offline state, which no property reads.
MarkArchived(h) ==
    /\ mover[h].call = "archived"
    /\ Goto(h, "none", Blank)
    /\ UNCHANGED <<row, registrations, live, archive, marker, faults, written, disturbed, cached>>

Following == [revive |-> "none", copy |-> "delete", delete |-> "marker",
              marker |-> "archived", archived |-> "none"]

\* The failure is printed and the next call is made.
CallFails(h) ==
    /\ mover[h] # Resting /\ faults < MaxFaults
    /\ faults' = faults + 1
    /\ Goto(h, Following[mover[h].call], mover[h].name)
    /\ disturbed' = disturbed \cup {mover[h].name}
    /\ UNCHANGED <<row, registrations, live, archive, marker, written, cached>>

\* Slip for the mutation runs: the purge matches the name without its prefix.
PurgeBoth(n) ==
    /\ archive[n] # {}
    /\ archive' = [archive EXCEPT ![n] = {}] /\ live' = [live EXCEPT ![n] = {}]
    /\ written' = {p \in written : p.name # n \/ p.reg \notin archive[n]}
    /\ UNCHANGED <<row, registrations, marker, mover, faults, disturbed, cached>>

\* The archived data of a name is deleted on the tenant's request.
Purge(n) ==
    /\ archive[n] # {}
    /\ archive' = [archive EXCEPT ![n] = {}]
    /\ written' = {p \in written : p.name # n \/ p.reg \notin archive[n]}
    /\ UNCHANGED <<row, registrations, live, marker, mover, faults, disturbed, cached>>

\* core-api restarts: the calls still to be made are forgotten.
RestartMovers ==
    /\ faults < MaxFaults /\ faults' = faults + 1
    /\ \E h \in Movers : mover[h] # Resting
    /\ disturbed' = disturbed \cup {n \in Labels : Moving(n)}
    /\ mover' = [h \in Movers |-> Resting]
    /\ UNCHANGED <<row, registrations, live, archive, marker, written, cached>>

ArchiveNext ==
    \/ \E h \in Movers, d \in Archived : DeleteDevice(h, d) \/ \E n \in Labels : RegisterDevice(h, d, n)
    \/ \E d \in Archived : Report(d) \/ ForgetName(d)
    \/ \E h \in Movers : \/ Revive(h) \/ Copy(h) \/ DeleteData(h) \/ MarkDeleted(h)
                           \/ MarkArchived(h) \/ CallFails(h)
    \/ \E n \in Labels : Purge(n)
    \/ RestartMovers

ArchiveSpec == ArchiveInit /\ [][ArchiveNext]_archiveVars

-----------------------------------------------------------------------------
(* Properties *)

Registered(p) == \E d \in Archived : row[d] = p
Settled(n) == ~Moving(n) /\ n \notin disturbed

\* Through any number of deletions and new registrations, a name whose handlers
\* ran one after the other is shown as active while a device has it, and as deleted
\* while only archived data is left.
MarkerFollows ==
    \A n \in Labels : Settled(n) =>
        /\ Bearers(n) # {} => marker[n] = "revived"
        /\ Bearers(n) = {} /\ archive[n] # {} => marker[n] = "deleted"

\* ... and holds exactly the data of its registered device, that of the earlier
\* ones being archived.
DataFollows ==
    \A n \in Labels : Settled(n) =>
        /\ live[n] = {p.reg : p \in {q \in written : q.name = n /\ Registered(q)}}
        /\ archive[n] = {p.reg : p \in {q \in written : q.name = n /\ ~Registered(q)}}

\* retire_device_in_influxdb: all data is renamed before the original is deleted.
NothingLost == \A p \in written : p.reg \in live[p.name] \cup archive[p.name]
=============================================================================
