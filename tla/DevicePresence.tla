--------------------------- MODULE DevicePresence ---------------------------
(***************************************************************************)
(* Whether a device is shown as connected.  A device is the simulator's    *)
(* DeviceWorker on the Python SDK, or a program on the C SDK; its session  *)
(* with the broker makes events, and its own messages make reports.  The   *)
(* broker's rules pass them on to core-api and to ingestion-service, whose *)
(* handlers take them in any order and write the database first and        *)
(* InfluxDB second.  A start of core-api deletes the rules and bridges,    *)
(* makes them again, and then reads the list of connected clients.  The    *)
(* broker and the network stand for paho and EMQX as the code uses them.   *)
(***************************************************************************)
EXTENDS Integers, Sequences, FiniteSets
CONSTANTS MaxReports, MaxClicks, MaxFaults,
          MaxCuts    \* lost connections and failing steps of a setup, together
ASSUME PresenceAssumption ==
    MaxReports \in Nat /\ MaxCuts \in Nat /\ MaxClicks \in Nat /\ MaxFaults \in Nat
VARIABLES kind,      \* what the device runs: the simulator or a program in C
          files,     \* the credential files: none, the first of the five or more (some), all
          worker,    \* the thread that connects, the one that leaves, _connected_flag, the button
          client,    \* the MQTT client: its network thread runs, it holds a connection, CONNACK was seen
          sending,   \* the send loop runs
          session,   \* the broker's session of the device: dead once the network has lost it
          reports,   \* what the rules have passed on, in the order it was made
          rules,     \* the rules that exist: events, ingest
          bridges,   \* the bridges that exist, named for their rules
          setup,     \* the next step of ensure_emqx_rules, or how it ended
          store,     \* connection_status in the database (shown) and in InfluxDB (plotted)
          spent,
          crossed    \* history: a thread that leaves and one that connects have overlapped
device == <<kind, files, worker, client, sending, session>>
platform == <<reports, rules, bridges, setup, store>>
presenceVars == <<device, platform, spent, crossed>>

Stores == {"shown", "plotted"}
Events == {"connected", "disconnected"}
Both == {"events", "ingest"}
Says(k) == IF k \in {"connected", "listed", "online", "telemetry"} THEN "online" ELSE "offline"
\* handle_device_event and the status branch of ingest write both; telemetry leaves the plot.
Writes(k) == IF k = "telemetry" THEN <<"shown">> ELSE <<"shown", "plotted">>
RuleOf(k) == IF k \in Events THEN "events" ELSE "ingest"
Fresh(k) == [kind |-> k, todo |-> Writes(k), stale |-> {}]
NoClient == [loop |-> FALSE, open |-> FALSE, acked |-> FALSE]

Init ==
    /\ kind \in {"simulator", "c"} /\ files = "none"
    /\ worker = [at |-> "off", leaver |-> "idle", flag |-> FALSE, button |-> FALSE, initial |-> FALSE]
    /\ client = NoClient /\ sending = FALSE /\ session = "none"
    /\ reports = <<>> /\ rules = Both /\ bridges = Both /\ setup = "done"
    /\ store = [s \in Stores |-> [status |-> "unknown", doubt |-> FALSE]]
    /\ spent = [cuts |-> 0, clicks |-> 0, faults |-> 0]
    /\ crossed = FALSE

Spend(what, max) == spent[what] < max /\ spent' = [spent EXCEPT ![what] = @ + 1]

\* Older reports are out of date for the stores ss once a later one was written or lost.
Older(i, ss) == [j \in DOMAIN reports |-> IF j < i THEN [reports[j] EXCEPT !.stale = @ \cup ss] ELSE reports[j]]
SeqOf(q, n) == SubSeq(q, 1, n - 1) \o SubSeq(q, n + 1, Len(q))
\* The places K of a sequence in their order: there is one way to run through them.
Picks(K) == {e \in [1..Cardinality(K) -> K] :
               K = {e[n] : n \in DOMAIN e} /\ \A m, n \in DOMAIN e : m < n => e[m] < e[n]}
\* Without its rule a report is lost; that matters for good if it says offline.
Emit(ks) ==
    LET passed == {n \in DOMAIN ks : RuleOf(ks[n]) \in rules}
        missed == \E n \in DOMAIN ks \ passed : Says(ks[n]) = "offline"
        before == IF missed THEN Older(Len(reports) + 1, Stores) ELSE reports
    IN  \E e \in Picks(passed) :
        /\ Len(reports) + Len(e) <= MaxReports
        /\ reports' = before \o [n \in DOMAIN e |-> Fresh(ks[e[n]])]
        /\ store' = [s \in Stores |-> [store[s] EXCEPT !.doubt = @ \/ missed]]
        /\ UNCHANGED <<rules, bridges, setup>>

-----------------------------------------------------------------------------
(* Provisioning and the start: provision, load_credentials, run *)

\* The certificate decides whether the credentials are used again; the C program also
\* needs the last two files.
Start ==
    /\ worker.at = "off" /\ Spend("clicks", MaxClicks)
    /\ worker' = [worker EXCEPT !.at = CASE files = "none" -> "provision" [] files = "some" -> "error" [] files = "all" -> "connect"]
    /\ UNCHANGED <<kind, files, client, sending, session, platform, crossed>>
\* _write, _write_file: certificate, key, CA, tenant and device, one after the other.
WriteFile ==
    /\ worker.at = "provision"
    /\ \/ files = "none" /\ files' = "some" /\ UNCHANGED worker
       \/ files = "some" /\ files' = "all" /\ worker' = [worker EXCEPT !.at = "connect"]
    /\ UNCHANGED <<kind, client, sending, session, platform, spent, crossed>>
ProvisionFails ==
    /\ worker.at = "provision" /\ files = "none"
    /\ worker' = [worker EXCEPT !.at = "error"]
    /\ UNCHANGED <<kind, files, client, sending, session, platform, spent, crossed>>

-----------------------------------------------------------------------------
(* IotClient and DeviceWorker *)

\* connect and force_connect make a new client and start its network thread, or fail. The
\* connection of the client before, if there is one, is left to the broker.
Connect ==
    /\ kind = "simulator" /\ worker.at = "connect"
    /\ \/ client' = [NoClient EXCEPT !.loop = TRUE] /\ worker' = [worker EXCEPT !.at = "wait"]
       \/ client' = NoClient /\ worker' = [worker EXCEPT !.at = "error", !.button = FALSE]
    /\ UNCHANGED <<kind, files, sending, session, platform, spent, crossed>>

\* The network thread connects, the first time or again, as long as nobody has asked it to
\* stop. The broker ends a session it still has. on_connect subscribes and, but for the
\* first time, reports online.
Online == IF worker.initial THEN <<"online">> ELSE <<>>
Link ==
    /\ client.loop /\ ~client.open
    /\ session' = "live" /\ client' = [client EXCEPT !.open = TRUE, !.acked = TRUE]
    /\ Emit((IF session = "none" THEN <<"connected">> ELSE <<"disconnected", "connected">>) \o Online)
    /\ UNCHANGED <<kind, files, worker, sending, spent, crossed>>

\* _connected.wait is over; connect reports online, and so does the worker once the flag is set.
Joined ==
    /\ worker.at = "wait" /\ client.acked
    /\ worker' = [worker EXCEPT !.at = "idle", !.flag = TRUE, !.button = TRUE, !.initial = TRUE]
    /\ IF client.open /\ session = "live" THEN Emit(<<"online">>) ELSE UNCHANGED platform
    /\ UNCHANGED <<kind, files, client, sending, session, spent, crossed>>
\* After the time limit connect stops the network thread, and force_connect does not.
TimesOut ==
    /\ worker.at = "wait" /\ ~client.acked
    /\ worker' = [worker EXCEPT !.at = "error", !.button = FALSE]
    /\ client' = [client EXCEPT !.loop = worker.initial]
    /\ UNCHANGED <<kind, files, sending, session, platform, spent, crossed>>

\* _toggle_connection: the button is off until the state is connected or disconnected.
Toggle ==
    /\ worker.button /\ Spend("clicks", MaxClicks)
    /\ worker' = [worker EXCEPT !.button = FALSE,
                                !.at = IF worker.flag THEN @ ELSE "connect",
                                !.leaver = IF worker.flag THEN "clear" ELSE @]
    /\ crossed' = (crossed \/ (~worker.flag /\ worker.leaver # "idle"))
    /\ UNCHANGED <<kind, files, client, sending, session, platform>>

\* Slip for the mutation runs: the flag stays set.
StillSet == [worker EXCEPT !.leaver = "leave"]
Cleared == [worker EXCEPT !.leaver = "leave", !.flag = FALSE]
\* force_disconnect of the worker, and of the client that is there by then. Its network
\* thread ends.
Clear ==
    /\ worker.leaver = "clear" /\ worker' = Cleared
    /\ UNCHANGED <<kind, files, client, sending, session, platform, spent, crossed>>
Leaves == IF client.open /\ session = "live" THEN <<"offline", "disconnected">> ELSE <<>>
Leave ==
    /\ worker.leaver = "leave"
    /\ worker' = [worker EXCEPT !.leaver = "idle", !.button = TRUE]
    /\ client' = [client EXCEPT !.loop = FALSE, !.open = FALSE]
    /\ session' = (IF Leaves = <<>> THEN session ELSE "none") /\ Emit(Leaves)
    /\ UNCHANGED <<kind, files, sending, spent, crossed>>

\* stop, with the window closed or the device removed, which takes its files; a thread of
\* the worker that still connects or leaves is not followed.
Quit ==
    /\ worker.at # "off" /\ Spend("clicks", MaxClicks)
    /\ session' = (IF Leaves = <<>> THEN session ELSE "none") /\ Emit(Leaves)
    /\ worker' = [at |-> "off", leaver |-> "idle", flag |-> FALSE, button |-> FALSE, initial |-> FALSE]
    /\ client' = NoClient /\ sending' = FALSE
    /\ files' \in (IF kind = "simulator" THEN {files, "none"} ELSE {files})
    /\ UNCHANGED <<kind, crossed>>
\* The process is killed.
Kill ==
    /\ worker.at # "off" /\ Spend("clicks", MaxClicks)
    /\ session' = (IF session = "live" THEN "dead" ELSE session)
    /\ worker' = [at |-> "off", leaver |-> "idle", flag |-> FALSE, button |-> FALSE, initial |-> FALSE]
    /\ client' = NoClient /\ sending' = FALSE
    /\ UNCHANGED <<kind, files, platform, crossed>>

\* start_sending and stop_sending; _send_loop sends while the flag is set.
Switch ==
    /\ worker.at = "idle" /\ Spend("clicks", MaxClicks) /\ sending' = ~sending
    /\ UNCHANGED <<kind, files, worker, client, session, platform, crossed>>
Sends == (worker.flag \/ kind = "c") /\ sending /\ client.open /\ session = "live"
Telemetry ==
    /\ Sends /\ \A i \in DOMAIN reports : reports[i].kind # "telemetry"
    /\ Emit(<<"telemetry">>)
    /\ UNCHANGED <<device, spent, crossed>>

\* The network loses the connection; either side notices in its own time.
Cut ==
    /\ client.open /\ session = "live" /\ Spend("cuts", MaxCuts) /\ session' = "dead"
    /\ UNCHANGED <<kind, files, worker, client, sending, platform, crossed>>
\* _on_disconnect and _on_unexpected_disconnect
Notice ==
    /\ client.open /\ session # "live" /\ (client.loop \/ kind = "c")
    /\ client' = [client EXCEPT !.open = FALSE]
    /\ worker' = IF worker.flag THEN [worker EXCEPT !.flag = FALSE, !.button = TRUE] ELSE worker
    /\ UNCHANGED <<kind, files, sending, session, platform, spent, crossed>>
BrokerNotices ==
    /\ session = "dead" /\ session' = "none" /\ Emit(<<"disconnected">>)
    /\ UNCHANGED <<kind, files, worker, client, sending, spent, crossed>>

\* iot_connect and iot_disconnect: the program calls them, and nothing connects again.
IotConnect ==
    /\ kind = "c" /\ worker.at = "connect" /\ Spend("clicks", MaxClicks)
    /\ \/ /\ session' = "live" /\ client' = [client EXCEPT !.open = TRUE]
          /\ worker' = [worker EXCEPT !.at = "idle"]
          /\ Emit((IF session = "none" THEN <<"connected">> ELSE <<"disconnected", "connected">>) \o <<"online">>)
       \/ worker' = [worker EXCEPT !.at = "error"] /\ UNCHANGED <<client, session, platform>>
    /\ UNCHANGED <<kind, files, sending, crossed>>
IotDisconnect ==
    /\ kind = "c" /\ worker.at = "idle" /\ Spend("clicks", MaxClicks)
    /\ session' = (IF Leaves = <<>> THEN session ELSE "none") /\ Emit(Leaves)
    /\ worker' = [worker EXCEPT !.at = "connect"] /\ client' = NoClient
    /\ UNCHANGED <<kind, files, sending, crossed>>

-----------------------------------------------------------------------------
(* handle_device_event, ingest *)

\* The next store of the i-th report.
Handle(i) ==
    LET r == reports[i]  s == Head(r.todo)  rest == Tail(r.todo) IN
    /\ store' = [store EXCEPT ![s] = [status |-> Says(r.kind), doubt |-> s \in r.stale]]
    /\ reports' = IF rest = <<>> THEN SeqOf(Older(i, {s}), i)
                  ELSE [Older(i, {s}) EXCEPT ![i].todo = rest]
    /\ UNCHANGED <<device, rules, bridges, setup, spent, crossed>>

\* The n next stores of the i-th report are not written and will not be.
Lost(i, n) ==
    LET r == reports[i]  ss == {r.todo[m] : m \in 1..n} IN
    /\ store' = [s \in Stores |-> [store[s] EXCEPT !.doubt = @ \/ (s \in ss \ r.stale)]]
    /\ reports' = IF n = Len(r.todo) THEN SeqOf(Older(i, ss), i)
                  ELSE [Older(i, ss) EXCEPT ![i].todo = SubSeq(r.todo, n + 1, Len(r.todo))]
\* The event handler swallows an error of the database and goes on with InfluxDB if it
\* knows the tenant by then; ingestion-service answers with an error, and the broker tries
\* again or gives up.
Fails(i) ==
    /\ Spend("faults", MaxFaults)
    /\ \/ Lost(i, Len(reports[i].todo))
       \/ reports[i].kind \in Events \cup {"listed"} /\ Lost(i, 1)
       \/ /\ reports[i].kind \notin Events \cup {"listed"} /\ Len(reports[i].todo) < Len(Writes(reports[i].kind))
          /\ reports' = [reports EXCEPT ![i].todo = Writes(reports[i].kind)] /\ UNCHANGED store
    /\ UNCHANGED <<device, rules, bridges, setup, crossed>>

\* The dead-device check: a device that has been silent is marked in the database only.
DeadCheck ==
    /\ reports = <<>> /\ ~Sends /\ store["shown"].status # "offline"
    /\ store' = [store EXCEPT !["shown"] = [status |-> "offline", doubt |-> TRUE]]
    /\ UNCHANGED <<device, reports, rules, bridges, setup, spent, crossed>>

-----------------------------------------------------------------------------
(* ensure_emqx_rules *)

Restart ==
    /\ Spend("faults", MaxFaults) /\ setup' = "unrule"
    /\ UNCHANGED <<device, reports, rules, bridges, store, crossed>>
\* A step of the setup fails.
Slips == Spend("cuts", MaxCuts)
\* No login in 20 attempts: everything stays as it is.
Unreachable ==
    /\ setup = "unrule" /\ setup' = "failed" /\ Slips
    /\ UNCHANGED <<device, reports, rules, bridges, store, crossed>>
\* A rule that is not found or not deleted stays, and the setup goes on.
DeleteRule(step, r, next) ==
    /\ setup = step /\ setup' = next
    /\ \/ rules' = rules \ {r} /\ UNCHANGED spent
       \/ UNCHANGED rules /\ Slips
    /\ UNCHANGED <<device, reports, bridges, store, crossed>>
\* A bridge takes what it has buffered along. It stays while its rule is there, or when its
\* deletion fails.
DeleteBridge(step, r, next) ==
    LET kept == {i \in DOMAIN reports : LET m == reports[i] IN
                    m.kind = "listed" \/ RuleOf(m.kind) # r \/ m.todo # Writes(m.kind)}
        missed == {i \in DOMAIN reports \ kept : Says(reports[i].kind) = "offline"}
        older == Older(IF missed = {} THEN 0 ELSE CHOOSE i \in missed : \A j \in missed : j <= i, Stores)
        Doubt(s) == \E i \in missed : s \notin reports[i].stale
    IN  /\ setup = step /\ setup' = next
        /\ \/ /\ r \notin rules /\ bridges' = bridges \ {r} /\ UNCHANGED spent
              /\ \E e \in Picks(kept) : reports' = [n \in DOMAIN e |-> older[e[n]]]
              /\ store' = [s \in Stores |-> [store[s] EXCEPT !.doubt = @ \/ Doubt(s)]]
           \/ r \in rules /\ UNCHANGED <<bridges, reports, store, spent>>
           \/ Slips /\ UNCHANGED <<bridges, reports, store>>
        /\ UNCHANGED <<device, rules, crossed>>
\* Both are asked for, and the broker refuses a name it has. Unless both are made the setup
\* ends here, and no rule is made.
CreateBridges ==
    /\ setup = "bridge"
    /\ \/ /\ bridges' = Both /\ setup' = (IF bridges = {} THEN "rule" ELSE "failed") /\ UNCHANGED spent
       \/ bridges' \in SUBSET Both /\ bridges \subseteq bridges' /\ setup' = "failed" /\ Slips
    /\ UNCHANGED <<device, reports, rules, store, crossed>>
\* A rule that is not made is only logged.
CreateRule(step, r, next) ==
    /\ setup = step /\ setup' = next
    /\ \/ rules' = rules \cup {r} /\ UNCHANGED spent
       \/ UNCHANGED rules /\ Slips
    /\ UNCHANGED <<device, reports, bridges, store, crossed>>
\* _sync_connected_clients reads the first 1000 clients; it may miss the device, or fail
\* unseen, and the setup has ended all the same.
List(step, next) ==
    /\ setup = step /\ Len(reports) < MaxReports
    /\ \/ /\ setup' = next /\ UNCHANGED spent
          /\ reports' = (IF session = "none" THEN reports ELSE Append(reports, Fresh("listed")))
       \/ setup' = "unlisted" /\ Slips /\ UNCHANGED reports
    /\ UNCHANGED <<device, rules, bridges, store, crossed>>

\* Slip for the mutation runs: the clients are listed before the rules are there.
ListFirst ==
    \/ DeleteBridge("unbridgeEvents", "events", "list")
    \/ List("list", "bridge")
    \/ CreateRule("rule", "ingest", "ruleEvents")
    \/ CreateRule("ruleEvents", "events", "done")
InOrder ==
    \/ DeleteBridge("unbridgeEvents", "events", "bridge")
    \/ CreateRule("rule", "ingest", "ruleEvents")
    \/ CreateRule("ruleEvents", "events", "list")
    \/ List("list", "done")
Setup ==
    \/ DeleteRule("unrule", "ingest", "unruleEvents")
    \/ DeleteRule("unruleEvents", "events", "unbridge")
    \/ DeleteBridge("unbridge", "ingest", "unbridgeEvents")
    \/ Unreachable \/ CreateBridges \/ InOrder

Next ==
    \/ Start \/ WriteFile \/ ProvisionFails
    \/ Connect \/ Link \/ Joined \/ TimesOut \/ Toggle \/ Clear \/ Leave \/ Quit \/ Kill \/ Switch \/ Telemetry
    \/ Cut \/ Notice \/ BrokerNotices \/ IotConnect \/ IotDisconnect
    \/ \E i \in DOMAIN reports : Handle(i) \/ Fails(i)
    \/ DeadCheck \/ Restart \/ Setup
Spec == Init /\ [][Next]_presenceVars

-----------------------------------------------------------------------------
(* Properties *)

\* Once every report is handled, with the rule for the broker's events in place and its
\* clients listed by the last setup, the database and InfluxDB agree with the broker on
\* whether the device is connected, unless the last word was handled out of order, was lost
\* while it said offline, failed to be written, or was the dead-device check's. A connection
\* that no rule reported while a setup ran is made up for by the list.
StoresFollowTheSession ==
    reports = <<>> /\ setup = "done" /\ "events" \in rules /\ session # "dead" =>
        \A s \in Stores : store[s].doubt \/ (store[s].status = "online" <=> session = "live")

\* A worker whose flag says it is connected has a network thread, which holds the
\* connection or brings it back, unless a thread that leaves met one that connects.
FlagHasLoop == worker.flag /\ worker.leaver = "idle" => client.loop \/ crossed
=============================================================================
