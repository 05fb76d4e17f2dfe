----------------------------- MODULE FleetProofs ------------------------------
(***************************************************************************)
(* DevicePresence for any number of reports, cuts, clicks and faults: a    *)
(* worker that says it is connected has a network thread, and the stores   *)
(* end up saying what the broker knows.  Ota for all devices, versions and *)
(* numbers of calls, faults and clicks: the ledger of firmware commands is *)
(* true, and the simulator takes a version only with its whole file.       *)
(***************************************************************************)
EXTENDS DevicePresence, Ota, FiniteSetTheorems, SequenceTheorems, WellFoundedInduction, TLAPS
-----------------------------------------------------------------------------
(* The session of a device. *)

WorkerFields == {"at", "leaver", "flag", "button", "initial"}
ClientFields == {"loop", "open", "acked"}

\* The shape of the state that the argument needs.
Shape ==
    /\ DOMAIN worker = WorkerFields /\ DOMAIN client = ClientFields
    /\ kind \in {"simulator", "c"} /\ worker.leaver \in {"idle", "clear", "leave"}
    /\ worker.flag \in BOOLEAN /\ crossed \in BOOLEAN
    /\ files \in {"none", "some", "all"}

\* Threads of the worker: the flag is set by the one that connects when it is through, and
\* only a worker with the flag is left, so that the two meet only after a second click.
FlagMeansIdle == worker.flag => worker.at = "idle" /\ kind = "simulator"
NoLeaverYet == worker.at \in {"off", "provision"} \/ kind = "c" => worker.leaver = "idle"
MeetingIsNoted == worker.at \in {"connect", "wait"} /\ worker.leaver # "idle" => crossed
WaitHasLoop == worker.at = "wait" => kind = "simulator" /\ (client.loop \/ crossed)
LeaverClears == worker.leaver = "leave" /\ worker.flag => crossed

FlagInv ==
    Shape /\ FlagMeansIdle /\ NoLeaverYet /\ MeetingIsNoted /\ WaitHasLoop /\ LeaverClears /\ FlagHasLoop

USE DEF FlagInv, FlagMeansIdle, NoLeaverYet, MeetingIsNoted, WaitHasLoop, LeaverClears, FlagHasLoop

LEMMA FlagInit == Init => FlagInv
<1>. SUFFICES ASSUME Init PROVE FlagInv
    OBVIOUS
<1>1. /\ worker.at = "off" /\ worker.leaver = "idle" /\ worker.flag = FALSE /\ crossed = FALSE
      /\ client.loop = FALSE /\ DOMAIN worker = WorkerFields /\ DOMAIN client = ClientFields
    BY DEF Init, NoClient, WorkerFields, ClientFields
<1>. QED  BY <1>1 DEF Init, Shape

\* Steps of the network, the platform and the load do not touch the worker.
LEMMA FlagFrame ==
    ASSUME FlagInv, UNCHANGED <<kind, files, worker, crossed>>,
           DOMAIN client' = ClientFields, client'.loop = client.loop
    PROVE  FlagInv'
BY DEF Shape

LEMMA FlagPlatform ==
    ASSUME FlagInv, UNCHANGED <<kind, files, worker, client, crossed>>
    PROVE  FlagInv'
BY DEF Shape

\* A step of the worker before it has a flag.
LEMMA FlagMoves ==
    ASSUME FlagInv, NEW a \in {"provision", "error", "connect"}, worker.at \in {"off", "provision"},
           worker' = [worker EXCEPT !.at = a], UNCHANGED <<kind, client, crossed>>,
           files' \in {"none", "some", "all"}
    PROVE  FlagInv'
<1>1. /\ DOMAIN worker' = WorkerFields /\ worker'.at = a
      /\ worker'.leaver = worker.leaver /\ worker'.flag = worker.flag
    BY DEF Shape, WorkerFields
<1>. QED  BY <1>1 DEF Shape

LEMMA FlagStarting ==
    ASSUME FlagInv, Start \/ WriteFile \/ ProvisionFails
    PROVE  FlagInv'
<1>1. CASE Start
  <2>1. worker.at = "off" /\ UNCHANGED <<kind, files, client, crossed>>
      BY <1>1 DEF Start
  <2>2. CASE files = "none"
      BY <1>1, <2>1, <2>2, FlagMoves DEF Start
  <2>3. CASE files = "some"
      BY <1>1, <2>1, <2>3, FlagMoves DEF Start
  <2>4. CASE files = "all"
      BY <1>1, <2>1, <2>4, FlagMoves DEF Start
  <2>. QED  BY <2>2, <2>3, <2>4 DEF Shape
<1>2. CASE WriteFile
  <2>1. CASE UNCHANGED worker
      BY <1>2, <2>1 DEF WriteFile, Shape
  <2>2. CASE worker' = [worker EXCEPT !.at = "connect"]
      BY <1>2, <2>2, FlagMoves DEF WriteFile, Shape
  <2>. QED  BY <1>2, <2>1, <2>2 DEF WriteFile
<1>3. CASE ProvisionFails
    BY <1>3, FlagMoves DEF ProvisionFails, Shape
<1>. QED  BY <1>1, <1>2, <1>3

LEMMA FlagConnect ==
    ASSUME FlagInv, Connect
    PROVE  FlagInv'
<1>1. kind = "simulator" /\ worker.at = "connect" /\ UNCHANGED <<kind, files, crossed>> /\ worker.flag = FALSE
    BY DEF Connect, Shape
<1>2. CASE client' = [NoClient EXCEPT !.loop = TRUE] /\ worker' = [worker EXCEPT !.at = "wait"]
  <2>1. /\ DOMAIN client' = ClientFields /\ client'.loop = TRUE
        /\ DOMAIN worker' = WorkerFields /\ worker'.at = "wait" /\ worker'.leaver = worker.leaver /\ worker'.flag = FALSE
      BY <1>1, <1>2 DEF Shape, NoClient, WorkerFields, ClientFields
  <2>. QED  BY <1>1, <2>1 DEF Shape
<1>3. CASE client' = NoClient /\ worker' = [worker EXCEPT !.at = "error", !.button = FALSE]
  <2>1. /\ DOMAIN client' = ClientFields /\ client'.loop = FALSE
        /\ DOMAIN worker' = WorkerFields /\ worker'.at = "error" /\ worker'.leaver = worker.leaver /\ worker'.flag = FALSE
      BY <1>1, <1>3 DEF Shape, NoClient, WorkerFields, ClientFields
  <2>. QED  BY <1>1, <2>1 DEF Shape
<1>. QED  BY <1>2, <1>3 DEF Connect

LEMMA FlagJoined ==
    ASSUME FlagInv, Joined
    PROVE  FlagInv'
<1>1. worker.at = "wait" /\ UNCHANGED <<kind, files, client, crossed>>
    BY DEF Joined
<1>2. /\ DOMAIN worker' = WorkerFields /\ worker'.at = "idle" /\ worker'.flag = TRUE
      /\ worker'.leaver = worker.leaver
    BY DEF Joined, Shape, WorkerFields
<1>. QED  BY <1>1, <1>2 DEF Shape

LEMMA FlagTimesOut ==
    ASSUME FlagInv, TimesOut
    PROVE  FlagInv'
<1>1. worker.at = "wait" /\ worker.flag = FALSE /\ UNCHANGED <<kind, files, crossed>>
    BY DEF TimesOut, Shape
<1>2. /\ DOMAIN worker' = WorkerFields /\ worker'.at = "error" /\ worker'.flag = FALSE
      /\ worker'.leaver = worker.leaver /\ DOMAIN client' = ClientFields
    BY <1>1 DEF TimesOut, Shape, WorkerFields, ClientFields
<1>. QED  BY <1>1, <1>2 DEF Shape

LEMMA FlagToggle ==
    ASSUME FlagInv, Toggle
    PROVE  FlagInv'
<1>1. UNCHANGED <<kind, files, client>> /\ crossed' = (crossed \/ (~worker.flag /\ worker.leaver # "idle"))
    BY DEF Toggle
<1>2. CASE worker.flag
  <2>1. /\ DOMAIN worker' = WorkerFields /\ worker'.at = worker.at /\ worker'.leaver = "clear"
        /\ worker'.flag = worker.flag
      BY <1>2 DEF Toggle, Shape, WorkerFields
  <2>. QED  BY <1>1, <1>2, <2>1 DEF Shape
<1>3. CASE ~worker.flag
  <2>1. /\ DOMAIN worker' = WorkerFields /\ worker'.at = "connect" /\ worker'.leaver = worker.leaver
        /\ worker'.flag = FALSE
      BY <1>3 DEF Toggle, Shape, WorkerFields
  <2>. QED  BY <1>1, <1>3, <2>1 DEF Shape
<1>. QED  BY <1>2, <1>3

LEMMA FlagClear ==
    ASSUME FlagInv, Clear
    PROVE  FlagInv'
<1>1. worker.leaver = "clear" /\ UNCHANGED <<kind, files, client, crossed>>
    BY DEF Clear
<1>2. /\ DOMAIN worker' = WorkerFields /\ worker'.at = worker.at /\ worker'.leaver = "leave"
      /\ worker'.flag = FALSE
    BY DEF Clear, Cleared, Shape, WorkerFields
<1>. QED  BY <1>1, <1>2 DEF Shape

LEMMA FlagLeave ==
    ASSUME FlagInv, Leave
    PROVE  FlagInv'
<1>1. worker.leaver = "leave" /\ UNCHANGED <<kind, files, crossed>>
    BY DEF Leave
<1>2. /\ DOMAIN worker' = WorkerFields /\ worker'.at = worker.at /\ worker'.leaver = "idle"
      /\ worker'.flag = worker.flag /\ DOMAIN client' = ClientFields
    BY DEF Leave, Shape, WorkerFields, ClientFields
<1>. QED  BY <1>1, <1>2 DEF Shape

LEMMA FlagEnds ==
    ASSUME FlagInv, Quit \/ Kill
    PROVE  FlagInv'
<1>1. UNCHANGED <<kind, crossed>> /\ client' = NoClient /\ (UNCHANGED files \/ files' = "none")
      /\ worker' = [at |-> "off", leaver |-> "idle", flag |-> FALSE, button |-> FALSE, initial |-> FALSE]
    BY DEF Quit, Kill
<1>2. /\ DOMAIN worker' = WorkerFields /\ worker'.at = "off" /\ worker'.leaver = "idle"
      /\ worker'.flag = FALSE /\ DOMAIN client' = ClientFields
    BY <1>1 DEF NoClient, WorkerFields, ClientFields
<1>. QED  BY <1>1, <1>2 DEF Shape

LEMMA FlagNotice ==
    ASSUME FlagInv, Notice
    PROVE  FlagInv'
<1>1. /\ UNCHANGED <<kind, files, crossed>> /\ DOMAIN client' = ClientFields
      /\ client'.loop = client.loop
    BY DEF Notice, Shape, ClientFields
<1>2. CASE worker.flag
  <2>1. /\ DOMAIN worker' = WorkerFields /\ worker'.at = worker.at /\ worker'.leaver = worker.leaver
        /\ worker'.flag = FALSE
      BY <1>2 DEF Notice, Shape, WorkerFields
  <2>. QED  BY <1>1, <2>1 DEF Shape
<1>3. CASE ~worker.flag
    BY <1>1, <1>3, FlagFrame DEF Notice
<1>. QED  BY <1>2, <1>3

\* The C program has no flag and no thread that leaves.
LEMMA FlagIot ==
    ASSUME FlagInv, IotConnect \/ IotDisconnect
    PROVE  FlagInv'
<1>1. /\ kind = "c" /\ worker.flag = FALSE /\ worker.leaver = "idle" /\ UNCHANGED <<kind, files, crossed>>
      /\ worker.at \in {"connect", "idle"}
    BY DEF IotConnect, IotDisconnect, Shape
<1>2. DOMAIN client' = ClientFields
    BY DEF IotConnect, IotDisconnect, Shape, NoClient, ClientFields
<1>3. \E a \in {"idle", "error", "connect"} : worker' = [worker EXCEPT !.at = a]
    BY DEF IotConnect, IotDisconnect
<1>4. PICK a \in {"idle", "error", "connect"} : worker' = [worker EXCEPT !.at = a]
    BY <1>3
<1>5. /\ DOMAIN worker' = WorkerFields /\ worker'.at = a /\ worker'.leaver = "idle"
      /\ worker'.flag = FALSE
    BY <1>1, <1>4 DEF Shape, WorkerFields
<1>. QED  BY <1>1, <1>2, <1>5 DEF Shape

LEMMA FlagNext == FlagInv /\ [Next]_presenceVars => FlagInv'
<1>. SUFFICES ASSUME FlagInv, [Next]_presenceVars PROVE FlagInv'
    OBVIOUS
<1>. USE DEF device, platform
<1>1. CASE Link
  <2>1. UNCHANGED <<kind, files, worker, crossed>> /\ client' = [client EXCEPT !.open = TRUE, !.acked = TRUE]
      BY <1>1 DEF Link
  <2>2. DOMAIN client' = ClientFields /\ client'.loop = client.loop
      BY <2>1 DEF Shape, ClientFields
  <2>. QED  BY <2>1, <2>2, FlagFrame
<1>2. CASE Switch \/ Telemetry \/ Cut \/ BrokerNotices \/ DeadCheck \/ Restart
    BY <1>2, FlagPlatform DEF Switch, Telemetry, Cut, BrokerNotices, DeadCheck, Restart
<1>3. ASSUME NEW i \in DOMAIN reports, Handle(i) \/ Fails(i) PROVE FlagInv'
    BY <1>3, FlagPlatform DEF Handle, Fails
<1>4. CASE Setup
    BY <1>4, FlagPlatform DEF Setup, Unreachable, DeleteRule, DeleteBridge, CreateBridges, InOrder, CreateRule, List
<1>5. CASE UNCHANGED presenceVars
    BY <1>5, FlagPlatform DEF presenceVars
<1>. QED
    BY <1>1, <1>2, <1>3, <1>4, <1>5, FlagStarting, FlagConnect, FlagJoined, FlagTimesOut, FlagToggle,
       FlagClear, FlagLeave, FlagEnds, FlagNotice, FlagIot DEF Next

\* A worker that says it is connected has a network thread that holds the connection or
\* brings it back, whatever the button, an outage and the SDK's own reconnection do, unless a
\* thread that leaves met one that connects (DeviceWorker, IotClient).
THEOREM FlagAlwaysHasLoop == Spec => []FlagHasLoop
<1>1. FlagInv => FlagHasLoop
    OBVIOUS
<1>. QED  BY FlagInit, FlagNext, <1>1, PTL DEF Spec

-----------------------------------------------------------------------------
(* What is shown of a device. *)

\* A report is about a store, has still to be written there, and is as new as any written.
Concerns(r, s) == r.kind = "telemetry" => s = "shown"
Owes(r, s) == \E m \in DOMAIN r.todo : r.todo[m] = s
Newest(q, i, s) == Concerns(q[i], s) /\ s \notin q[i].stale
LastWord(q, i, s) == Newest(q, i, s) /\ \A j \in DOMAIN q : Newest(q, j, s) => j <= i
Settled(q, s) == \A i \in DOMAIN q : Newest(q, i, s) => ~Owes(q[i], s)
\* What a report wrote, and what was written after it, has overtaken all before it.
InOrderOf(q, s) ==
    \A i \in DOMAIN q : s \in q[i].stale \/ (Concerns(q[i], s) /\ ~Owes(q[i], s)) =>
        \A j \in DOMAIN q : j < i => s \in q[j].stale
\* The last word of the reports is right, and so is the store that has heard it.
Right(q, st, s, on) ==
    /\ \A i \in DOMAIN q : LastWord(q, i, s) => (Says(q[i].kind) = "online" <=> on)
    /\ Settled(q, s) => st.doubt \/ (st.status = "online" <=> on)

Kinds == {"connected", "disconnected", "listed", "online", "offline", "telemetry"}
Todos == {<<"shown", "plotted">>, <<"plotted">>, <<"shown">>}
Report == {r \in [kind : Kinds, todo : Todos, stale : SUBSET Stores] : r.kind = "telemetry" => r.todo = <<"shown">>}
StoreShape ==
    /\ reports \in Seq(Report) /\ store \in [Stores -> [status : {"unknown", "online", "offline"}, doubt : BOOLEAN]]
    /\ session \in {"none", "live", "dead"}
On == session # "none"
\* A setup that is not over has a live session still to list; without the rule for events,
\* nothing tells of one.
Behind == (setup # "done" \/ "events" \notin rules) /\ On
StoreInv ==
    /\ StoreShape
    /\ \A s \in Stores : InOrderOf(reports, s) /\ (Behind \/ Right(reports, store[s], s, On))

\* Sequence q1 is q, where the reports before the i-th were overtaken in store s, or what
\* the i-th still has to write there has changed.
Marked(q, q1, s, i) ==
    /\ DOMAIN q1 = DOMAIN q /\ DOMAIN q \subseteq Nat /\ i \in Nat
    /\ \A j \in DOMAIN q : /\ q1[j].kind = q[j].kind
                           /\ s \in q1[j].stale <=> j < i \/ s \in q[j].stale
                           /\ j # i => (Owes(q1[j], s) <=> Owes(q[j], s))

LEMMA MarkedInOrder ==
    ASSUME NEW q, NEW q1, NEW s, NEW i, Marked(q, q1, s, i), InOrderOf(q, s)
    PROVE  InOrderOf(q1, s)
<1>. SUFFICES ASSUME NEW k \in DOMAIN q1, s \in q1[k].stale \/ (Concerns(q1[k], s) /\ ~Owes(q1[k], s)),
                     NEW j \in DOMAIN q1, j < k
              PROVE  s \in q1[j].stale
  BY DEF InOrderOf
<1>1. k \in DOMAIN q /\ j \in DOMAIN q /\ k \in Nat /\ j \in Nat /\ i \in Nat
  BY DEF Marked
<1>2. CASE j < i
  BY <1>1, <1>2 DEF Marked
<1>3. CASE ~(j < i)
  <2>1. k # i /\ ~(k < i)
    BY <1>1, <1>3
  <2>2. s \in q[k].stale \/ (Concerns(q[k], s) /\ ~Owes(q[k], s))
    BY <1>1, <2>1 DEF Marked, Concerns
  <2>3. s \in q[j].stale
    BY <1>1, <2>2 DEF InOrderOf
  <2>. QED  BY <1>1, <2>3 DEF Marked
<1>. QED  BY <1>2, <1>3

\* The i-th report is written.
LEMMA WrittenRight ==
    ASSUME NEW q, NEW q1, NEW s, NEW i \in DOMAIN q, NEW on \in BOOLEAN, NEW st, NEW st1,
           Marked(q, q1, s, i), InOrderOf(q, s), Right(q, st, s, on), Concerns(q[i], s), Owes(q[i], s),
           ~Owes(q1[i], s), st1.status = Says(q[i].kind), st1.doubt <=> s \in q[i].stale
    PROVE  Right(q1, st1, s, on)
<1>1. \A j \in DOMAIN q : j \in Nat /\ (Concerns(q1[j], s) <=> Concerns(q[j], s))
  BY DEF Marked, Concerns
<1>2. CASE s \in q[i].stale
  <2>1. \A j \in DOMAIN q : j < i => s \in q[j].stale
    BY <1>2 DEF InOrderOf
  <2>2. \A j \in DOMAIN q : Newest(q1, j, s) <=> Newest(q, j, s)
    BY <1>1, <2>1 DEF Newest, Marked
  <2>3. \A j \in DOMAIN q : LastWord(q1, j, s) => LastWord(q, j, s)
    BY <2>2 DEF LastWord, Marked
  <2>. QED  BY <1>2, <2>3 DEF Right, Marked
<1>3. CASE s \notin q[i].stale
  <2>1. \A j \in DOMAIN q : Newest(q1, j, s) <=> Newest(q, j, s) /\ ~(j < i)
    BY <1>1 DEF Newest, Marked
  <2>2. \A j \in DOMAIN q : LastWord(q1, j, s) => LastWord(q, j, s)
    <3>. SUFFICES ASSUME NEW j \in DOMAIN q, LastWord(q1, j, s) PROVE LastWord(q, j, s)
      OBVIOUS
    <3>1. Newest(q, j, s) /\ ~(j < i)
      BY <2>1 DEF LastWord
    <3>2. ASSUME NEW k \in DOMAIN q, Newest(q, k, s) PROVE k <= j
      <4>1. CASE k < i
        BY <1>1, <3>1, <4>1
      <4>2. CASE ~(k < i)
        BY <2>1, <3>2, <4>2 DEF LastWord, Marked
      <4>. QED  BY <4>1, <4>2
    <3>. QED  BY <3>1, <3>2 DEF LastWord
  <2>3. ASSUME Settled(q1, s) PROVE LastWord(q, i, s)
    <3>1. Newest(q, i, s)
      BY <1>3 DEF Newest
    <3>2. ASSUME NEW j \in DOMAIN q, Newest(q, j, s), ~(j <= i) PROVE FALSE
      <4>1. Newest(q1, j, s) /\ j # i /\ i < j
        BY <1>1, <2>1, <3>2
      <4>2. ~Owes(q[j], s) /\ Concerns(q[j], s)
        BY <2>3, <4>1 DEF Settled, Marked, Newest, Concerns
      <4>. QED  BY <1>3, <4>1, <4>2 DEF InOrderOf
    <3>. QED  BY <3>1, <3>2 DEF LastWord
  <2>4. Settled(q1, s) => (st1.status = "online" <=> on)
    BY <2>3 DEF Right
  <2>. QED  BY <2>2, <2>4 DEF Right, Marked
<1>. QED  BY <1>2, <1>3

\* What the i-th report says of the store is lost.
LEMMA LostRight ==
    ASSUME NEW q, NEW q1, NEW s, NEW i \in DOMAIN q, NEW on \in BOOLEAN, NEW st, NEW st1,
           Marked(q, q1, s, i), InOrderOf(q, s), Right(q, st, s, on), Concerns(q[i], s),
           st1.status = st.status, st1.doubt <=> st.doubt \/ s \notin q[i].stale
    PROVE  Right(q1, st1, s, on)
<1>1. \A j \in DOMAIN q : j \in Nat /\ (Concerns(q1[j], s) <=> Concerns(q[j], s))
  BY DEF Marked, Concerns
<1>2. CASE s \in q[i].stale
  <2>1. \A j \in DOMAIN q : j < i => s \in q[j].stale
    BY <1>2 DEF InOrderOf
  <2>2. \A j \in DOMAIN q : Newest(q1, j, s) <=> Newest(q, j, s)
    BY <1>1, <2>1 DEF Newest, Marked
  <2>3. \A j \in DOMAIN q : LastWord(q1, j, s) => LastWord(q, j, s)
    BY <2>2 DEF LastWord, Marked
  <2>4. Settled(q1, s) => Settled(q, s)
    BY <1>2, <2>2 DEF Settled, Marked, Newest
  <2>. QED  BY <1>2, <2>3, <2>4 DEF Right, Marked
<1>3. CASE s \notin q[i].stale
  <2>1. \A j \in DOMAIN q : Newest(q1, j, s) <=> Newest(q, j, s) /\ ~(j < i)
    BY <1>1 DEF Newest, Marked
  <2>2. \A j \in DOMAIN q : LastWord(q1, j, s) => LastWord(q, j, s)
    <3>. SUFFICES ASSUME NEW j \in DOMAIN q, LastWord(q1, j, s) PROVE LastWord(q, j, s)
      OBVIOUS
    <3>1. Newest(q, j, s) /\ ~(j < i)
      BY <2>1 DEF LastWord
    <3>2. ASSUME NEW k \in DOMAIN q, Newest(q, k, s) PROVE k <= j
      <4>1. CASE k < i
        BY <1>1, <3>1, <4>1
      <4>2. CASE ~(k < i)
        BY <2>1, <3>2, <4>2 DEF LastWord, Marked
      <4>. QED  BY <4>1, <4>2
    <3>. QED  BY <3>1, <3>2 DEF LastWord
  <2>. QED  BY <1>3, <2>2 DEF Right, Marked
<1>. QED  BY <1>2, <1>3

\* Nothing of store s changes, but that a report may be written there again.
LEMMA KeptRight ==
    ASSUME NEW q, NEW q1, NEW s, NEW on \in BOOLEAN, NEW st, NEW st1, DOMAIN q1 = DOMAIN q,
           st1.status = st.status, st1.doubt <=> st.doubt,
           \A j \in DOMAIN q : /\ q1[j].kind = q[j].kind /\ (s \in q1[j].stale <=> s \in q[j].stale)
                               /\ Owes(q[j], s) => Owes(q1[j], s)
    PROVE  (InOrderOf(q, s) => InOrderOf(q1, s)) /\ (Right(q, st, s, on) => Right(q1, st1, s, on))
<1>1. \A j \in DOMAIN q : (Newest(q1, j, s) <=> Newest(q, j, s)) /\ (Concerns(q1[j], s) <=> Concerns(q[j], s))
  BY DEF Newest, Concerns
<1>2. \A j \in DOMAIN q : LastWord(q1, j, s) => LastWord(q, j, s)
  BY <1>1 DEF LastWord
<1>3. Settled(q1, s) => Settled(q, s)
  BY <1>1 DEF Settled
<1>4. InOrderOf(q, s) => InOrderOf(q1, s)
  BY <1>1 DEF InOrderOf
<1>. QED  BY <1>2, <1>3, <1>4 DEF Right

\* Sequence q2 holds reports of q1 in their order.
Part(q1, q2, e) ==
    /\ DOMAIN q1 \subseteq Nat /\ DOMAIN q2 \subseteq Nat
    /\ \A n \in DOMAIN q2 : e[n] \in DOMAIN q1 /\ q2[n] = q1[e[n]]
    /\ \A m, n \in DOMAIN q2 : m < n => e[m] < e[n]

LEMMA PartInOrder ==
    ASSUME NEW q1, NEW q2, NEW e, NEW s, Part(q1, q2, e), InOrderOf(q1, s) PROVE InOrderOf(q2, s)
BY DEF Part, InOrderOf

\* A report that has nothing left to write is dropped.
LEMMA PartRight ==
    ASSUME NEW q1, NEW q2, NEW e, NEW s, NEW i \in DOMAIN q1, NEW on \in BOOLEAN, NEW st, Part(q1, q2, e),
           \A k \in DOMAIN q1 : k = i \/ \E n \in DOMAIN q2 : e[n] = k,
           InOrderOf(q1, s), Right(q1, st, s, on), ~Owes(q1[i], s)
    PROVE  Right(q2, st, s, on)
<1>1. \A n \in DOMAIN q2 : Newest(q2, n, s) <=> Newest(q1, e[n], s)
  BY DEF Newest, Part
<1>2. ASSUME NEW n \in DOMAIN q2, LastWord(q2, n, s) PROVE LastWord(q1, e[n], s)
  <2>. SUFFICES ASSUME NEW k \in DOMAIN q1, Newest(q1, k, s) PROVE k <= e[n]
    BY <1>1, <1>2 DEF LastWord
  <2>0. k \in Nat /\ e[n] \in Nat /\ i \in Nat /\ e[n] \in DOMAIN q1
    BY <1>2 DEF Part
  <2>1. CASE k = i
    <3>1. Newest(q1, e[n], s)
      BY <1>1, <1>2 DEF LastWord
    <3>2. ~(e[n] < i)
      BY <2>0, <2>1, <3>1 DEF InOrderOf, Newest
    <3>. QED  BY <2>0, <2>1, <3>2
  <2>2. CASE k # i
    <3>1. PICK m \in DOMAIN q2 : e[m] = k
      BY <2>2
    <3>2. m <= n
      BY <1>1, <1>2, <3>1 DEF LastWord
    <3>3. m \in Nat /\ n \in Nat
      BY <3>1 DEF Part
    <3>4. m = n \/ m < n
      BY <3>2, <3>3
    <3>. QED  BY <2>0, <3>1, <3>4 DEF Part
  <2>. QED  BY <2>1, <2>2
<1>3. Settled(q2, s) => Settled(q1, s)
  BY <1>1 DEF Settled, Part
<1>. QED  BY <1>2, <1>3 DEF Right, Part

\* The reports as they are once some are out of date.
LEMMA OlderIs ==
    ASSUME NEW q \in Seq(Report), reports = q, NEW i \in Int, NEW ss \in SUBSET Stores
    PROVE  /\ Older(i, ss) \in Seq(Report) /\ DOMAIN Older(i, ss) = DOMAIN q /\ Len(Older(i, ss)) = Len(q)
           /\ \A j \in DOMAIN q : /\ Older(i, ss)[j].kind = q[j].kind /\ Older(i, ss)[j].todo = q[j].todo
                                  /\ j < i => Older(i, ss)[j].stale = q[j].stale \cup ss
                                  /\ ~(j < i) => Older(i, ss)[j] = q[j]
<1>. DEFINE o == Older(i, ss)
<1>1. /\ DOMAIN o = DOMAIN q
      /\ \A j \in DOMAIN q : o[j] = IF j < i THEN [q[j] EXCEPT !.stale = q[j].stale \cup ss] ELSE q[j]
  BY DEF Older
<1>2. DOMAIN q = 1..Len(q) /\ Len(q) \in Nat /\ \A j \in DOMAIN q : q[j] \in Report
  OBVIOUS
<1>3. ASSUME NEW j \in DOMAIN q PROVE o[j] \in Report /\ o[j].kind = q[j].kind /\ o[j].todo = q[j].todo
  BY <1>1, <1>2 DEF Report
<1>4. ASSUME NEW j \in DOMAIN q, j < i PROVE o[j].stale = q[j].stale \cup ss
  BY <1>1, <1>2, <1>4 DEF Report
<1>5. o \in [1..Len(q) -> Report]
  <2>1. o = [j \in DOMAIN o |-> o[j]]
    BY DEF Older
  <2>. QED  BY <1>1, <1>2, <1>3, <2>1
<1>6. o \in Seq(Report) /\ Len(o) = Len(q)
  <2>. HIDE DEF o
  <2>. QED  BY <1>1, <1>2, <1>5
<1>. QED  BY <1>1, <1>3, <1>4, <1>6

LEMMA SeqOfIs ==
    ASSUME NEW S, NEW q \in Seq(S), NEW n \in DOMAIN q
    PROVE  /\ SeqOf(q, n) \in Seq(S) /\ Len(SeqOf(q, n)) = Len(q) - 1
           /\ \A j \in 1..(Len(q) - 1) : SeqOf(q, n)[j] = q[IF j < n THEN j ELSE j + 1]
<1>. DEFINE a == SubSeq(q, 1, n - 1)  b == SubSeq(q, n + 1, Len(q))
<1>1. n \in 1..Len(q) /\ Len(q) \in Nat
  OBVIOUS
<1>2. a \in Seq(S) /\ Len(a) = n - 1 /\ \A j \in 1..(n - 1) : a[j] = q[j]
  BY <1>1
<1>3. b \in Seq(S) /\ Len(b) = Len(q) - n /\ \A j \in 1..(Len(q) - n) : b[j] = q[n + j]
  BY <1>1
<1>. HIDE DEF a, b
<1>4. a \o b \in Seq(S) /\ Len(a \o b) = Len(a) + Len(b)
  BY <1>2, <1>3, ConcatProperties
<1>5. \A j \in 1..(Len(a) + Len(b)) : (a \o b)[j] = IF j <= Len(a) THEN a[j] ELSE b[j - Len(a)]
  BY <1>2, <1>3, ConcatProperties
<1>6. ASSUME NEW j \in 1..(Len(q) - 1) PROVE (a \o b)[j] = q[IF j < n THEN j ELSE j + 1]
  <2>1. CASE j < n
    BY <1>1, <1>2, <1>3, <1>5, <2>1
  <2>2. CASE ~(j < n)
    <3>1. (a \o b)[j] = b[j - (n - 1)]
      <4>1. Len(a) = n - 1 /\ j \in 1..(Len(a) + Len(b)) /\ ~(j <= Len(a))
        BY <1>1, <1>2, <1>3, <2>2
      <4>. QED  BY <1>5, <4>1
    <3>2. b[j - (n - 1)] = q[n + (j - (n - 1))] /\ n + (j - (n - 1)) = j + 1
      BY <1>1, <1>3, <2>2
    <3>. QED  BY <2>2, <3>1, <3>2
  <2>. QED  BY <2>1, <2>2
<1>7. Len(a) + Len(b) = Len(q) - 1
  BY <1>1, <1>2, <1>3
<1>. QED  BY <1>4, <1>6, <1>7 DEF SeqOf, a, b

\* The reports without the i-th are a part of them.
LEMMA SeqOfPart ==
    ASSUME NEW q \in Seq(Report), NEW i \in DOMAIN q, NEW q2, q2 = SeqOf(q, i),
           NEW e, \A n \in 1..(Len(q) - 1) : e[n] = IF n < i THEN n ELSE n + 1
    PROVE  /\ q2 \in Seq(Report) /\ Part(q, q2, e)
           /\ \A k \in DOMAIN q : k = i \/ \E n \in DOMAIN q2 : e[n] = k
<1>1. /\ q2 \in Seq(Report) /\ Len(q2) = Len(q) - 1
      /\ \A n \in 1..(Len(q) - 1) : q2[n] = q[IF n < i THEN n ELSE n + 1]
  BY SeqOfIs
<1>2. DOMAIN q = 1..Len(q) /\ Len(q) \in Nat /\ i \in 1..Len(q) /\ DOMAIN q2 = 1..(Len(q) - 1)
  BY <1>1
<1>3. \A n \in DOMAIN q2 : e[n] = IF n < i THEN n ELSE n + 1
  BY <1>2
<1>4. \A n \in DOMAIN q2 : e[n] \in DOMAIN q /\ q2[n] = q[e[n]]
  BY <1>1, <1>2, <1>3
<1>5. \A m, n \in DOMAIN q2 : m < n => e[m] < e[n]
  BY <1>2, <1>3
<1>6. ASSUME NEW k \in DOMAIN q, k # i PROVE \E n \in DOMAIN q2 : e[n] = k
  <2>1. CASE k < i
    <3>1. k \in DOMAIN q2 /\ e[k] = k
      BY <1>2, <1>3, <2>1
    <3>. QED  BY <3>1
  <2>2. CASE k > i
    <3>1. k - 1 \in DOMAIN q2 /\ e[k - 1] = k
      BY <1>2, <1>3, <2>2
    <3>. QED  BY <3>1
  <2>. QED  BY <1>2, <1>6, <2>1, <2>2
<1>7. DOMAIN q \subseteq Nat /\ DOMAIN q2 \subseteq Nat
  BY <1>2
<1>. QED  BY <1>1, <1>4, <1>5, <1>6, <1>7 DEF Part

RightIn(s) == Behind \/ Right(reports, store[s], s, On)

\* The i-th report is through with the stores ss, and has others left.
LEMMA Progress ==
    ASSUME StoreInv, StoreShape', NEW i \in DOMAIN reports, NEW ss \in SUBSET Stores, NEW left,
           reports' = IF left = <<>> THEN SeqOf(Older(i, ss), i) ELSE [Older(i, ss) EXCEPT ![i].todo = left],
           \A s \in ss : Concerns(reports[i], s) /\ Owes(reports[i], s) /\ ~\E m \in DOMAIN left : left[m] = s,
           \A s \in Stores \ ss : /\ Owes(reports[i], s) => \E m \in DOMAIN left : left[m] = s
                                  /\ store'[s].status = store[s].status /\ (store'[s].doubt <=> store[s].doubt),
           \A s \in ss : \/ store'[s].status = Says(reports[i].kind) /\ (store'[s].doubt <=> s \in reports[i].stale)
                         \/ /\ store'[s].status = store[s].status
                            /\ store'[s].doubt <=> store[s].doubt \/ s \notin reports[i].stale,
           UNCHANGED <<session, setup, rules>>
    PROVE  StoreInv'
<1>1. PICK q, o, q1, on : q = reports /\ o = Older(i, ss) /\ q1 = [o EXCEPT ![i].todo = left] /\ on = On
  OBVIOUS
<1>2. /\ q \in Seq(Report) /\ DOMAIN q = 1..Len(q) /\ Len(q) \in Nat /\ i \in DOMAIN q /\ i \in Nat
      /\ \A j \in DOMAIN q : q[j] \in Report
  <2>1. q \in Seq(Report)
    BY <1>1 DEF StoreInv, StoreShape
  <2>. QED  BY <1>1, <2>1
<1>3. /\ o \in Seq(Report) /\ DOMAIN o = DOMAIN q /\ Len(o) = Len(q)
      /\ \A j \in DOMAIN q : /\ o[j].kind = q[j].kind /\ o[j].todo = q[j].todo
                             /\ j < i => o[j].stale = q[j].stale \cup ss
                             /\ ~(j < i) => o[j] = q[j]
  BY <1>1, <1>2, OlderIs
<1>4. /\ DOMAIN q1 = DOMAIN q /\ \A j \in DOMAIN q \ {i} : q1[j] = o[j]
      /\ q1[i].todo = left /\ q1[i].kind = q[i].kind /\ q1[i].stale = q[i].stale
  <2>1. o[i] \in Report /\ ~(i < i)
    BY <1>2, <1>3
  <2>2. q1[i] = [o[i] EXCEPT !.todo = left]
    BY <1>1, <1>2, <1>3
  <2>3. q1[i].todo = left /\ q1[i].kind = o[i].kind /\ q1[i].stale = o[i].stale
    BY <2>1, <2>2 DEF Report
  <2>. QED  BY <1>1, <1>2, <1>3, <2>1, <2>3
<1>5. ASSUME NEW s \in ss PROVE Marked(q, q1, s, i) /\ ~Owes(q1[i], s)
  BY <1>1, <1>2, <1>3, <1>4 DEF Marked, Owes
<1>6. ASSUME NEW s \in Stores \ ss
      PROVE  \A j \in DOMAIN q : /\ q1[j].kind = q[j].kind /\ (s \in q1[j].stale <=> s \in q[j].stale)
                                 /\ Owes(q[j], s) => Owes(q1[j], s)
  BY <1>1, <1>2, <1>3, <1>4 DEF Owes
<1>7. on \in BOOLEAN /\ \A s \in Stores : InOrderOf(q, s) /\ (Behind \/ Right(q, store[s], s, on))
  BY <1>1 DEF StoreInv, On
<1>8. \A s \in Stores : InOrderOf(q1, s) /\ (Behind \/ Right(q1, store'[s], s, on))
  <2>1. ASSUME NEW s \in ss PROVE InOrderOf(q1, s) /\ (Behind \/ Right(q1, store'[s], s, on))
    <3>1. Concerns(q[i], s) /\ Owes(q[i], s) /\ s \in Stores
      BY <1>1, <2>1
    <3>2. InOrderOf(q1, s) /\ InOrderOf(q, s) /\ Marked(q, q1, s, i) /\ ~Owes(q1[i], s)
      BY <1>5, <1>7, <2>1, <3>1, MarkedInOrder
    <3>3. Behind \/ Right(q, store[s], s, on)
      BY <1>7, <3>1
    <3>4. CASE store'[s].status = Says(reports[i].kind) /\ (store'[s].doubt <=> s \in reports[i].stale)
      <4>1. store'[s].status = Says(q[i].kind) /\ (store'[s].doubt <=> s \in q[i].stale)
        BY <1>1, <3>4
      <4>2. i \in DOMAIN q /\ on \in BOOLEAN
        BY <1>2, <1>7
      <4>3. Right(q, store[s], s, on) => Right(q1, store'[s], s, on)
        BY <3>1, <3>2, <4>1, <4>2, WrittenRight
      <4>. QED  BY <3>2, <3>3, <4>3
    <3>5. CASE store'[s].status = store[s].status /\ (store'[s].doubt <=> store[s].doubt \/ s \notin reports[i].stale)
      <4>1. store'[s].status = store[s].status /\ (store'[s].doubt <=> store[s].doubt \/ s \notin q[i].stale)
        BY <1>1, <3>5
      <4>2. i \in DOMAIN q /\ on \in BOOLEAN
        BY <1>2, <1>7
      <4>3. Right(q, store[s], s, on) => Right(q1, store'[s], s, on)
        BY <3>1, <3>2, <4>1, <4>2, LostRight
      <4>. QED  BY <3>2, <3>3, <4>3
    <3>. QED  BY <2>1, <3>4, <3>5
  <2>2. ASSUME NEW s \in Stores \ ss PROVE InOrderOf(q1, s) /\ (Behind \/ Right(q1, store'[s], s, on))
    BY <1>4, <1>6, <1>7, <2>2, KeptRight
  <2>. QED  BY <2>1, <2>2
<1>9. Behind' = Behind /\ On' = on
  BY <1>1 DEF Behind, On, StoreInv
<1>10. CASE left # <<>>
  <2>1. reports' = q1
    BY <1>1, <1>10
  <2>. QED  BY <1>8, <1>9, <2>1 DEF StoreInv
<1>11. CASE left = <<>>
  <2>0. PICK e : e = [n \in 1..(Len(o) - 1) |-> IF n < i THEN n ELSE n + 1]
    OBVIOUS
  <2>1. PICK q2 : q2 = SeqOf(o, i) /\ \A n \in 1..(Len(o) - 1) : e[n] = IF n < i THEN n ELSE n + 1
    BY <2>0
  <2>2. Part(o, q2, e) /\ \A k \in DOMAIN o : k = i \/ \E n \in DOMAIN q2 : e[n] = k
    <3>1. o \in Seq(Report) /\ i \in DOMAIN o
      BY <1>2, <1>3
    <3>. QED  BY <2>1, <3>1, SeqOfPart
  <2>3. \A n \in DOMAIN q2 : e[n] # i
    <3>1. Len(q2) = Len(o) - 1 /\ q2 \in Seq(Report)
      <4>1. o \in Seq(Report) /\ i \in DOMAIN o
        BY <1>2, <1>3
      <4>. QED  BY <2>1, <4>1, SeqOfIs
    <3>. QED  BY <1>2, <1>3, <2>1, <3>1
  <2>4. Part(q1, q2, e) /\ \A k \in DOMAIN q1 : k = i \/ \E n \in DOMAIN q2 : e[n] = k
    BY <1>3, <1>4, <2>2, <2>3 DEF Part
  <2>5. \A s \in Stores : ~Owes(q1[i], s)
    BY <1>4, <1>11 DEF Owes
  <2>6. \A s \in Stores : InOrderOf(q2, s) /\ (Behind \/ Right(q2, store'[s], s, on))
    <3>. TAKE s \in Stores
    <3>1. InOrderOf(q1, s) /\ ~Owes(q1[i], s) /\ i \in DOMAIN q1 /\ on \in BOOLEAN
      BY <1>2, <1>4, <1>7, <1>8, <2>5
    <3>2. InOrderOf(q2, s)
      BY <2>4, <3>1, PartInOrder
    <3>3. Right(q1, store'[s], s, on) => Right(q2, store'[s], s, on)
      BY <2>4, <3>1, PartRight
    <3>. QED  BY <1>8, <3>2, <3>3
  <2>7. reports' = q2
    BY <1>1, <1>11, <2>1
  <2>. QED  BY <1>9, <2>6, <2>7 DEF StoreInv
<1>. QED  BY <1>10, <1>11

Stored == [Stores -> [status : {"unknown", "online", "offline"}, doubt : BOOLEAN]]

LEMMA ProgressShape ==
    ASSUME StoreShape, NEW i \in DOMAIN reports, NEW ss \in SUBSET Stores, NEW left,
           reports' = IF left = <<>> THEN SeqOf(Older(i, ss), i) ELSE [Older(i, ss) EXCEPT ![i].todo = left],
           left # <<>> => left \in Todos /\ reports[i].kind # "telemetry", store' \in Stored, UNCHANGED session
    PROVE  StoreShape'
<1>1. PICK q, o : q = reports /\ o = Older(i, ss)
  OBVIOUS
<1>2. q \in Seq(Report) /\ i \in DOMAIN q /\ i \in Int
  <2>1. q \in Seq(Report)
    BY <1>1 DEF StoreShape
  <2>. QED  BY <1>1, <2>1
<1>3. o \in Seq(Report) /\ DOMAIN o = DOMAIN q /\ o[i].kind = q[i].kind
  BY <1>1, <1>2, OlderIs
<1>4. reports' \in Seq(Report)
  <2>1. CASE left = <<>>
    <3>1. SeqOf(o, i) \in Seq(Report)
      BY <1>2, <1>3, SeqOfIs
    <3>. QED  BY <1>1, <2>1, <3>1
  <2>2. CASE left # <<>>
    <3>1. o[i] \in Report
      BY <1>2, <1>3
    <3>2. PICK r : r = [o[i] EXCEPT !.todo = left]
      OBVIOUS
    <3>3. r \in Report
      BY <1>1, <1>3, <2>2, <3>1, <3>2 DEF Report
    <3>4. reports' = [o EXCEPT ![i] = r]
      BY <1>1, <1>2, <1>3, <2>2, <3>2
    <3>5. i \in DOMAIN o /\ o \in Seq(Report)
      BY <1>2, <1>3
    <3>6. [o EXCEPT ![i] = r] \in Seq(Report)
      BY <3>3, <3>5
    <3>. QED  BY <3>4, <3>6
  <2>. QED  BY <2>1, <2>2
<1>. QED  BY <1>4 DEF StoreShape, Stored

\* What a report can be.
LEMMA ReportIs ==
    ASSUME StoreShape, NEW i \in DOMAIN reports
    PROVE  /\ reports[i].kind \in Kinds /\ reports[i].todo \in Todos /\ reports[i].stale \in SUBSET Stores
           /\ reports[i].kind = "telemetry" => reports[i].todo = <<"shown">>
<1>1. reports[i] \in Report
  BY DEF StoreShape
<1>. QED  BY <1>1 DEF Report

LEMMA HandleKeeps ==
    ASSUME StoreInv, NEW i \in DOMAIN reports, Handle(i) PROVE StoreInv'
<1>1. PICK td, k, sl : td = reports[i].todo /\ k = reports[i].kind /\ sl = reports[i].stale
  OBVIOUS
<1>2. td \in Todos /\ k \in Kinds /\ (k = "telemetry" => td = <<"shown">>) /\ StoreShape
  BY <1>1, ReportIs DEF StoreInv
<1>3. PICK ss, left : ss = {Head(td)} /\ left = Tail(td)
  OBVIOUS
<1>4. /\ td = <<"shown", "plotted">> => ss = {"shown"} /\ left = <<"plotted">>
      /\ td = <<"plotted">> => ss = {"plotted"} /\ left = <<>>
      /\ td = <<"shown">> => ss = {"shown"} /\ left = <<>>
  <2>1. td = <<"shown", "plotted">> => Head(td) = "shown" /\ Tail(td) = <<"plotted">>
    OBVIOUS
  <2>2. td = <<"plotted">> => Head(td) = "plotted" /\ Tail(td) = <<>>
    OBVIOUS
  <2>3. td = <<"shown">> => Head(td) = "shown" /\ Tail(td) = <<>>
    OBVIOUS
  <2>. QED  BY <1>3, <2>1, <2>2, <2>3
<1>5. ss \in SUBSET Stores /\ (left # <<>> => left \in Todos /\ k # "telemetry")
  BY <1>2, <1>4 DEF Todos, Stores
<1>6. reports' = IF left = <<>> THEN SeqOf(Older(i, ss), i) ELSE [Older(i, ss) EXCEPT ![i].todo = left]
  BY <1>1, <1>3 DEF Handle
<1>7. store' = [store EXCEPT ![Head(td)] = [status |-> Says(k), doubt |-> Head(td) \in sl]] /\ Head(td) \in Stores
  <2>1. Head(td) \in Stores
    BY <1>2 DEF Todos, Stores
  <2>. QED  BY <1>1, <2>1 DEF Handle
<1>8. store \in Stored /\ Says(k) \in {"unknown", "online", "offline"}
  BY <1>2 DEF StoreShape, Stored, Says
<1>9. /\ store' \in Stored /\ \A s \in Stores \ ss : store'[s] = store[s]
      /\ \A s \in ss : store'[s].status = Says(k) /\ (store'[s].doubt <=> s \in sl)
  <2>1. PICK d : d = Head(td) /\ d \in Stores /\ ss = {d}
    BY <1>3, <1>7
  <2>2. PICK w : w = [status |-> Says(k), doubt |-> d \in sl]
    OBVIOUS
  <2>3. w \in [status : {"unknown", "online", "offline"}, doubt : BOOLEAN]
    BY <1>8, <2>2
  <2>4. store' = [store EXCEPT ![d] = w]
    BY <1>7, <2>1, <2>2
  <2>. QED  BY <1>8, <2>1, <2>2, <2>3, <2>4 DEF Stored
<1>10. UNCHANGED <<session, setup, rules>>
  BY DEF Handle, device
<1>11. StoreShape'
  <2>1. left # <<>> => left \in Todos /\ reports[i].kind # "telemetry"
    BY <1>1, <1>5
  <2>. QED  BY <1>2, <1>5, <1>6, <1>9, <1>10, <2>1, ProgressShape
<1>12. \A s \in ss : Concerns(reports[i], s) /\ Owes(reports[i], s) /\ ~\E m \in DOMAIN left : left[m] = s
  BY <1>1, <1>2, <1>4 DEF Concerns, Owes, Todos
<1>13. \A s \in Stores \ ss : Owes(reports[i], s) => \E m \in DOMAIN left : left[m] = s
  BY <1>1, <1>2, <1>4 DEF Owes, Todos
<1>14. \A s \in Stores \ ss : /\ Owes(reports[i], s) => \E m \in DOMAIN left : left[m] = s
                              /\ store'[s].status = store[s].status /\ (store'[s].doubt <=> store[s].doubt)
  BY <1>9, <1>13
<1>15. \A s \in ss : \/ store'[s].status = Says(reports[i].kind) /\ (store'[s].doubt <=> s \in reports[i].stale)
                     \/ /\ store'[s].status = store[s].status
                        /\ store'[s].doubt <=> store[s].doubt \/ s \notin reports[i].stale
  BY <1>1, <1>9
<1>. QED  BY <1>5, <1>6, <1>10, <1>11, <1>12, <1>14, <1>15, Progress

LEMMA LostKeeps ==
    ASSUME StoreInv, NEW i \in DOMAIN reports, NEW n \in {1, Len(reports[i].todo)}, Lost(i, n),
           UNCHANGED <<session, setup, rules>>
    PROVE  StoreInv'
<1>1. PICK td, k, sl : td = reports[i].todo /\ k = reports[i].kind /\ sl = reports[i].stale
  OBVIOUS
<1>2. td \in Todos /\ k \in Kinds /\ (k = "telemetry" => td = <<"shown">>) /\ StoreShape
  BY <1>1, ReportIs DEF StoreInv
<1>3. PICK ss, left : ss = {td[m] : m \in 1..n} /\ left = IF n = Len(td) THEN <<>> ELSE SubSeq(td, n + 1, Len(td))
  OBVIOUS
<1>4. \/ n = Len(td) /\ left = <<>> /\ ss = {td[m] : m \in 1..Len(td)}
      \/ n # Len(td) /\ n = 1 /\ td = <<"shown", "plotted">> /\ left = <<"plotted">> /\ ss = {"shown"}
  <2>1. CASE n = Len(td)
    BY <1>3, <2>1
  <2>2. CASE n # Len(td)
    <3>1. n = 1 /\ td = <<"shown", "plotted">> /\ Len(td) = 2
      BY <1>1, <1>2, <2>2 DEF Todos
    <3>2. SubSeq(<<"shown", "plotted">>, 2, 2) = <<"plotted">>
      <4>1. PICK u, v : u = <<"shown", "plotted">> /\ v = SubSeq(u, 2, 2)
        OBVIOUS
      <4>2. u \in Seq(Stores) /\ Len(u) = 2 /\ u[2] = "plotted"
        BY <4>1 DEF Stores
      <4>3. v \in Seq(Stores) /\ Len(v) = 1 /\ v[1] = "plotted"
        BY <4>1, <4>2
      <4>4. v = <<"plotted">>
        BY <4>3
      <4>. QED  BY <4>1, <4>4
    <3>3. td[1] = "shown" /\ 1..1 = {1}
      BY <3>1
    <3>4. left = <<"plotted">>
      BY <1>3, <2>2, <3>1, <3>2
    <3>5. ss = {"shown"}
      BY <1>3, <3>1, <3>3
    <3>. QED  BY <2>2, <3>1, <3>4, <3>5
  <2>. QED  BY <2>1, <2>2
<1>5. ss \in SUBSET Stores /\ (left # <<>> => left \in Todos /\ k # "telemetry")
  <2>1. {td[m] : m \in 1..Len(td)} \in SUBSET Stores
    BY <1>2 DEF Todos, Stores
  <2>. QED  BY <1>2, <1>4, <2>1 DEF Todos, Stores
<1>6. reports' = IF left = <<>> THEN SeqOf(Older(i, ss), i) ELSE [Older(i, ss) EXCEPT ![i].todo = left]
  <2>1. reports' = IF n = Len(td) THEN SeqOf(Older(i, ss), i) ELSE [Older(i, ss) EXCEPT ![i].todo = SubSeq(td, n + 1, Len(td))]
    BY <1>1, <1>3 DEF Lost
  <2>2. n = Len(td) <=> left = <<>>
    BY <1>4
  <2>. QED  BY <1>3, <2>1, <2>2
<1>7. store' = [s \in Stores |-> [store[s] EXCEPT !.doubt = @ \/ (s \in ss \ sl)]]
  BY <1>1, <1>3 DEF Lost
<1>8. store \in Stored
  BY <1>2 DEF StoreShape, Stored
<1>9. /\ store' \in Stored
      /\ \A s \in Stores : store'[s].status = store[s].status /\ (store'[s].doubt <=> store[s].doubt \/ s \in ss \ sl)
  BY <1>7, <1>8 DEF Stored
<1>11. StoreShape'
  <2>1. left # <<>> => left \in Todos /\ reports[i].kind # "telemetry"
    BY <1>1, <1>5
  <2>. QED  BY <1>2, <1>5, <1>6, <1>9, <2>1, ProgressShape
<1>12. \A s \in ss : Concerns(reports[i], s) /\ Owes(reports[i], s) /\ ~\E m \in DOMAIN left : left[m] = s
  <2>1. CASE left = <<>>
    <3>1. ss = {td[m] : m \in DOMAIN td}
      BY <1>2, <1>4, <2>1 DEF Todos
    <3>2. \A s \in ss : k = "telemetry" => s = "shown"
      BY <1>2, <3>1
    <3>3. ~\E m \in DOMAIN left : TRUE
      BY <2>1
    <3>4. \A s \in ss : Owes(reports[i], s)
      BY <1>1, <3>1 DEF Owes
    <3>. QED  BY <1>1, <3>2, <3>3, <3>4 DEF Concerns
  <2>2. CASE left # <<>>
    <3>1. td = <<"shown", "plotted">> /\ left = <<"plotted">> /\ ss = {"shown"} /\ k # "telemetry"
      BY <1>4, <1>5, <2>2
    <3>. QED  BY <1>1, <3>1 DEF Concerns, Owes
  <2>. QED  BY <2>1, <2>2
<1>13. \A s \in Stores \ ss : Owes(reports[i], s) => \E m \in DOMAIN left : left[m] = s
  <2>1. CASE left = <<>>
    <3>1. ss = {td[m] : m \in DOMAIN td}
      BY <1>2, <1>4, <2>1 DEF Todos
    <3>. QED  BY <1>1, <2>1, <3>1 DEF Owes
  <2>2. CASE left # <<>>
    <3>1. td = <<"shown", "plotted">> /\ left = <<"plotted">> /\ ss = {"shown"}
      BY <1>4, <2>2
    <3>. QED  BY <1>1, <3>1 DEF Owes
  <2>. QED  BY <2>1, <2>2
<1>14. \A s \in Stores \ ss : /\ Owes(reports[i], s) => \E m \in DOMAIN left : left[m] = s
                              /\ store'[s].status = store[s].status /\ (store'[s].doubt <=> store[s].doubt)
  BY <1>9, <1>13
<1>15. \A s \in ss : \/ store'[s].status = Says(reports[i].kind) /\ (store'[s].doubt <=> s \in reports[i].stale)
                     \/ /\ store'[s].status = store[s].status
                        /\ store'[s].doubt <=> store[s].doubt \/ s \notin reports[i].stale
  BY <1>1, <1>5, <1>9
<1>. QED  BY <1>5, <1>6, <1>11, <1>12, <1>14, <1>15, Progress

LEMMA FailsKeeps ==
    ASSUME StoreInv, NEW i \in DOMAIN reports, Fails(i) PROVE StoreInv'
<1>1. UNCHANGED <<session, setup, rules>>
  BY DEF Fails, device
<1>2. CASE Lost(i, Len(reports[i].todo))
  BY <1>1, <1>2, LostKeeps
<1>3. CASE Lost(i, 1)
  BY <1>1, <1>3, LostKeeps
<1>4. CASE /\ Len(reports[i].todo) < Len(Writes(reports[i].kind))
           /\ reports' = [reports EXCEPT ![i].todo = Writes(reports[i].kind)] /\ UNCHANGED store
  <2>1. PICK q, q1, on : q = reports /\ q1 = reports' /\ on = On
    OBVIOUS
  <2>2. /\ q[i].kind \in Kinds /\ q[i].todo \in Todos /\ (q[i].kind = "telemetry" => q[i].todo = <<"shown">>)
        /\ StoreShape
    BY <2>1, ReportIs DEF StoreInv
  <2>3. q \in Seq(Report) /\ q[i] \in Report /\ i \in DOMAIN q
    BY <2>1, <2>2 DEF StoreShape
  <2>4. q[i].kind # "telemetry" /\ Writes(q[i].kind) = <<"shown", "plotted">>
    BY <1>4, <2>1, <2>2 DEF Writes
  <2>5. PICK r : r = [q[i] EXCEPT !.todo = <<"shown", "plotted">>]
    OBVIOUS
  <2>6. r \in Report /\ r.kind = q[i].kind /\ r.stale = q[i].stale /\ r.todo = <<"shown", "plotted">>
    BY <2>3, <2>4, <2>5 DEF Report, Todos
  <2>7. q1 = [q EXCEPT ![i] = r]
    BY <1>4, <2>1, <2>3, <2>4, <2>5
  <2>8. q1 \in Seq(Report)
    BY <2>3, <2>6, <2>7
  <2>9. \A j \in DOMAIN q : q1[j] = IF j = i THEN r ELSE q[j]
    BY <2>7
  <2>10. DOMAIN q1 = DOMAIN q
    BY <2>7
  <2>11. \A s \in Stores : Owes(r, s)
    <3>1. DOMAIN r.todo = 1..2 /\ r.todo[1] = "shown" /\ r.todo[2] = "plotted"
      BY <2>6
    <3>. QED  BY <3>1 DEF Owes, Stores
  <2>12. \A s \in Stores, j \in DOMAIN q : /\ q1[j].kind = q[j].kind /\ (s \in q1[j].stale <=> s \in q[j].stale)
                                           /\ Owes(q[j], s) => Owes(q1[j], s)
    BY <2>6, <2>9, <2>11
  <2>13. on \in BOOLEAN /\ \A s \in Stores : InOrderOf(q, s) /\ (Behind \/ Right(q, store[s], s, on))
    BY <2>1 DEF StoreInv, On
  <2>14. \A s \in Stores : InOrderOf(q1, s) /\ (Behind \/ Right(q1, store'[s], s, on))
    BY <1>4, <2>10, <2>12, <2>13, KeptRight
  <2>15. Behind' = Behind /\ On' = on /\ StoreShape'
    BY <1>1, <1>4, <2>1, <2>2, <2>8 DEF Behind, On, StoreInv, StoreShape
  <2>. QED  BY <2>1, <2>14, <2>15 DEF StoreInv
<1>. QED  BY <1>2, <1>3, <1>4 DEF Fails

\* What the dead-device check marks is in doubt.
LEMMA DeadCheckKeeps ==
    ASSUME StoreInv, DeadCheck PROVE StoreInv'
<1>1. UNCHANGED <<reports, session, setup, rules>>
  BY DEF DeadCheck, device
<1>2. store \in Stored /\ store' = [store EXCEPT !["shown"] = [status |-> "offline", doubt |-> TRUE]]
  BY DEF DeadCheck, StoreInv, StoreShape, Stored
<1>3. store' \in Stored /\ \A s \in Stores : store'[s] = store[s] \/ store'[s].doubt
  BY <1>2 DEF Stored, Stores
<1>4. StoreShape' /\ Behind' = Behind /\ On' = On
  BY <1>1, <1>3 DEF StoreInv, StoreShape, Behind, On, Stored
<1>5. PICK q, on : q = reports /\ on = On
  OBVIOUS
<1>6. \A s \in Stores : InOrderOf(q, s) /\ (Behind \/ Right(q, store[s], s, on))
  BY <1>5 DEF StoreInv
<1>7. \A s \in Stores : Right(q, store[s], s, on) => Right(q, store'[s], s, on)
  BY <1>3 DEF Right
<1>8. q = reports' /\ on = On'
  BY <1>1, <1>4, <1>5
<1>. QED  BY <1>4, <1>6, <1>7, <1>8 DEF StoreInv

\* Nothing the stores depend on changes.
LEMMA Untouched ==
    ASSUME StoreInv, UNCHANGED <<reports, store>>, session' \in {"none", "live", "dead"}, On' = On,
           Behind => Behind'
    PROVE  StoreInv'
<1>1. StoreShape'
  BY DEF StoreInv, StoreShape
<1>2. PICK q, on : q = reports /\ on = On
  OBVIOUS
<1>3. \A s \in Stores : InOrderOf(q, s) /\ (Behind' \/ Right(q, store[s], s, on))
  BY <1>2 DEF StoreInv
<1>. QED  BY <1>1, <1>2, <1>3 DEF StoreInv

\* The steps of a start that leave the reports alone.
LEMMA SetupKeeps ==
    ASSUME StoreInv,
           \/ Restart \/ Unreachable \/ CreateBridges
           \/ DeleteRule("unrule", "ingest", "unruleEvents") \/ DeleteRule("unruleEvents", "events", "unbridge")
           \/ CreateRule("rule", "ingest", "ruleEvents") \/ CreateRule("ruleEvents", "events", "list")
    PROVE  StoreInv'
<1>1. UNCHANGED <<reports, store, session>> /\ setup' # "done"
  BY DEF Restart, Unreachable, CreateBridges, DeleteRule, CreateRule, device
<1>2. session' \in {"none", "live", "dead"} /\ On' = On /\ (Behind => Behind')
  BY <1>1 DEF StoreInv, StoreShape, On, Behind
<1>. QED  BY <1>1, <1>2, Untouched

\* A sequence of reports that goes on with fresh ones.
GoesOn(q, q2, new) ==
    /\ DOMAIN q2 = 1..(Len(q) + Len(new))
    /\ \A i \in 1..Len(q) : q2[i] = q[i]
    /\ \A n \in 1..Len(new) : q2[Len(q) + n] = new[n]

\* A fresh report has every store it concerns still to write.
LEMMA FreshIs ==
    ASSUME NEW k \in Kinds
    PROVE  /\ Fresh(k) \in Report /\ Fresh(k).kind = k /\ Fresh(k).stale = {}
           /\ \A s \in Stores : Concerns(Fresh(k), s) <=> Owes(Fresh(k), s)
<1>1. PICK r : r = Fresh(k)
  OBVIOUS
<1>2. r.kind = k /\ r.todo = Writes(k) /\ r.stale = {} /\ r = [kind |-> k, todo |-> Writes(k), stale |-> {}]
  BY <1>1 DEF Fresh
<1>3. Writes(k) \in Todos /\ (k = "telemetry" => Writes(k) = <<"shown">>)
  BY DEF Writes, Todos
<1>4. r \in Report
  BY <1>2, <1>3 DEF Report, Stores
<1>5. ASSUME NEW s \in Stores PROVE Concerns(r, s) <=> Owes(r, s)
  <2>1. CASE k = "telemetry"
    <3>1. DOMAIN r.todo = 1..1 /\ r.todo[1] = "shown"
      BY <1>2, <2>1 DEF Writes
    <3>. QED  BY <1>2, <2>1, <3>1 DEF Concerns, Owes
  <2>2. CASE k # "telemetry"
    <3>1. DOMAIN r.todo = 1..2 /\ r.todo[1] = "shown" /\ r.todo[2] = "plotted"
      BY <1>2, <2>2 DEF Writes
    <3>. QED  BY <1>2, <2>2, <3>1 DEF Concerns, Owes, Stores
  <2>. QED  BY <2>1, <2>2
<1>. QED  BY <1>1, <1>2, <1>4, <1>5

LEMMA GoesOnInOrder ==
    ASSUME NEW q, NEW q2, NEW new, NEW s \in Stores, GoesOn(q, q2, new), Len(q) \in Nat, Len(new) \in Nat,
           DOMAIN q = 1..Len(q), InOrderOf(q, s), \A n \in 1..Len(new) : \E k \in Kinds : new[n] = Fresh(k)
    PROVE  InOrderOf(q2, s)
<1>. SUFFICES ASSUME NEW i \in DOMAIN q2, s \in q2[i].stale \/ (Concerns(q2[i], s) /\ ~Owes(q2[i], s)),
                     NEW j \in DOMAIN q2, j < i
              PROVE  s \in q2[j].stale
  BY DEF InOrderOf
<1>1. i \in 1..Len(q) \/ \E n \in 1..Len(new) : i = Len(q) + n
  <2>1. i \in 1..(Len(q) + Len(new))
    BY DEF GoesOn
  <2>2. CASE i > Len(q)
    <3>1. i - Len(q) \in 1..Len(new) /\ i = Len(q) + (i - Len(q))
      BY <2>1, <2>2
    <3>. QED  BY <3>1
  <2>. QED  BY <2>1, <2>2
<1>2. CASE i \in 1..Len(q)
  <2>1. j \in 1..Len(q)
    BY <1>2 DEF GoesOn
  <2>2. q2[i] = q[i] /\ q2[j] = q[j]
    BY <1>2, <2>1 DEF GoesOn
  <2>. QED  BY <1>2, <2>1, <2>2 DEF InOrderOf
<1>3. ASSUME NEW n \in 1..Len(new), i = Len(q) + n PROVE FALSE
  <2>1. q2[i] = new[n]
    BY <1>3 DEF GoesOn
  <2>2. PICK k \in Kinds : new[n] = Fresh(k)
    OBVIOUS
  <2>. QED  BY <2>1, <2>2, FreshIs
<1>. QED  BY <1>1, <1>2, <1>3

\* The last fresh report about the store is its last word.
LEMMA FreshRight ==
    ASSUME NEW q, NEW q2, NEW new, NEW s \in Stores, NEW on, NEW st, GoesOn(q, q2, new), Len(q) \in Nat, Len(new) \in Nat,
           \A n \in 1..Len(new) : \E k \in Kinds : new[n] = Fresh(k),
           NEW m \in 1..Len(new), Concerns(new[m], s),
           \A n \in 1..Len(new) : Concerns(new[n], s) /\ (\A l \in 1..Len(new) : Concerns(new[l], s) => l <= n)
                                      => (Says(new[n].kind) = "online" <=> on)
    PROVE  Right(q2, st, s, on)
<1>1. \A n \in 1..Len(new) : new[n].stale = {} /\ (Concerns(new[n], s) <=> Owes(new[n], s))
  BY FreshIs
<1>2. \A n \in 1..Len(new) : Newest(q2, Len(q) + n, s) <=> Concerns(new[n], s)
  BY <1>1 DEF Newest, GoesOn
<1>3. ASSUME NEW i \in DOMAIN q2, LastWord(q2, i, s) PROVE Says(q2[i].kind) = "online" <=> on
  <2>0. i \in 1..(Len(q) + Len(new))
    BY DEF GoesOn
  <2>1. Len(q) + m \in DOMAIN q2 /\ Len(q) + m <= i
    <3>1. Len(q) + m \in DOMAIN q2
      BY DEF GoesOn
    <3>. QED  BY <1>2, <1>3, <3>1 DEF LastWord
  <2>2. PICK n \in 1..Len(new) : i = Len(q) + n
    <3>1. i - Len(q) \in 1..Len(new) /\ i = Len(q) + (i - Len(q))
      BY <2>0, <2>1
    <3>. QED  BY <3>1
  <2>3. Concerns(new[n], s) /\ q2[i] = new[n]
    BY <1>2, <1>3, <2>2 DEF LastWord, GoesOn
  <2>4. ASSUME NEW l \in 1..Len(new), Concerns(new[l], s) PROVE l <= n
    <3>1. Len(q) + l \in DOMAIN q2 /\ Newest(q2, Len(q) + l, s)
      BY <1>2, <2>4 DEF GoesOn
    <3>2. Len(q) + l <= Len(q) + n
      BY <1>3, <2>2, <3>1 DEF LastWord
    <3>. QED  BY <3>2
  <2>. QED  BY <2>3, <2>4
<1>4. ~Settled(q2, s)
  <2>1. Len(q) + m \in DOMAIN q2 /\ q2[Len(q) + m] = new[m]
    BY DEF GoesOn
  <2>. QED  BY <1>1, <1>2, <2>1 DEF Settled
<1>. QED  BY <1>3, <1>4 DEF Right

LEMMA ListKeeps ==
    ASSUME StoreInv, List("list", "done") PROVE StoreInv'
<1>1. UNCHANGED <<store, session, rules>> /\ setup = "list"
  BY DEF List, device
<1>2. CASE UNCHANGED reports /\ (setup' = "unlisted" \/ session = "none")
  <2>1. On' = On /\ session' \in {"none", "live", "dead"} /\ (Behind => Behind')
    BY <1>1, <1>2 DEF Behind, On, StoreInv, StoreShape
  <2>. QED  BY <1>1, <1>2, <2>1, Untouched
<1>3. CASE session # "none" /\ reports' = Append(reports, Fresh("listed"))
  <2>1. PICK q, q2, f, new : q = reports /\ q2 = reports' /\ f = Fresh("listed") /\ new = <<f>>
    OBVIOUS
  <2>2. f \in Report /\ f.kind = "listed"
    BY <2>1, FreshIs DEF Kinds
  <2>3. q \in Seq(Report) /\ q2 = Append(q, f)
    BY <1>3, <2>1 DEF StoreInv, StoreShape, List
  <2>4. q2 \in Seq(Report) /\ Len(q2) = Len(q) + 1 /\ DOMAIN q = 1..Len(q) /\ Len(q) \in Nat
    BY <2>2, <2>3, AppendProperties
  <2>5. \A i \in 1..Len(q) : q2[i] = q[i]
    BY <2>2, <2>3, AppendProperties
  <2>6. q2[Len(q) + 1] = f
    BY <2>2, <2>3, AppendProperties
  <2>7. Len(new) = 1 /\ new[1] = f
    BY <2>1
  <2>8. GoesOn(q, q2, new)
    BY <2>4, <2>5, <2>6, <2>7 DEF GoesOn
  <2>9. \A n \in 1..Len(new) : new[n] = Fresh("listed") /\ "listed" \in Kinds
    BY <2>1, <2>7 DEF Kinds
  <2>10. \A s \in Stores : InOrderOf(q2, s)
    <3>1. \A s \in Stores : InOrderOf(q, s)
      BY <2>1 DEF StoreInv
    <3>. QED  BY <2>4, <2>7, <2>8, <2>9, <3>1, GoesOnInOrder
  <2>11. \A s \in Stores : Right(q2, store[s], s, TRUE)
    <3>1. \A n \in 1..Len(new) : Says(new[n].kind) = "online"
      BY <2>2, <2>7 DEF Says
    <3>2. \A s \in Stores : Concerns(new[1], s)
      BY <2>2, <2>7 DEF Concerns
    <3>. TAKE s \in Stores
    <3>3. PICK m \in 1..Len(new) : Concerns(new[m], s)
      BY <2>7, <3>2
    <3>4. \A n \in 1..Len(new) : \E k \in Kinds : new[n] = Fresh(k)
      BY <2>9
    <3>5. Len(q) \in Nat /\ Len(new) \in Nat
      BY <2>4, <2>7
    <3>. QED  BY <2>8, <3>1, <3>3, <3>4, <3>5, FreshRight
  <2>12. On' = TRUE /\ StoreShape'
    BY <1>1, <1>3, <2>1, <2>4 DEF On, StoreInv, StoreShape
  <2>. QED  BY <1>1, <2>1, <2>10, <2>11, <2>12 DEF StoreInv
<1>. QED  BY <1>2, <1>3 DEF List

\* What the rules pass on of the reports ks, and what of it is about store s.
Passed(ks) == {n \in DOMAIN ks : RuleOf(ks[n]) \in rules}
About(ks, s) == {n \in Passed(ks) : ks[n] = "telemetry" => s = "shown"}
Missed(ks) == \E n \in DOMAIN ks \ Passed(ks) : Says(ks[n]) = "offline"
\* The last of the reports that is passed on says how the session is; where none is, one that
\* said offline was missed, or nothing has changed.
Tells(ks, s, on, same) ==
    /\ \A n \in About(ks, s) : (\A m \in About(ks, s) : m <= n) => (Says(ks[n]) = "online" <=> on)
    /\ About(ks, s) = {} => same \/ Missed(ks)

\* What a pick of the reports is.
LEMMA PicksAre ==
    ASSUME NEW ks \in Seq(Kinds), NEW K \in SUBSET DOMAIN ks, NEW e \in Picks(K)
    PROVE  /\ Len(e) \in Nat /\ DOMAIN e = 1..Len(e) /\ K = {e[n] : n \in 1..Len(e)}
           /\ \A m, n \in 1..Len(e) : m < n => e[m] < e[n]
<1>1. IsFiniteSet(1..Len(ks)) /\ DOMAIN ks = 1..Len(ks)
  BY FS_Interval
<1>2. Cardinality(K) \in Nat
  BY <1>1, FS_Subset, FS_CardinalityType
<1>3. e \in [1..Cardinality(K) -> K] /\ K = {e[n] : n \in DOMAIN e} /\ \A m, n \in DOMAIN e : m < n => e[m] < e[n]
  BY DEF Picks
<1>4. DOMAIN e = 1..Cardinality(K) /\ Len(e) = Cardinality(K)
  BY <1>2, <1>3
<1>. QED  BY <1>2, <1>3, <1>4

LEMMA EmitKeeps ==
    ASSUME StoreInv, NEW ks \in Seq(Kinds), Emit(ks), session' \in {"none", "live", "dead"},
           \A s \in Stores : Behind' \/ Tells(ks, s, On', On' = On)
    PROVE  StoreInv'
<1>1. PICK K, before : /\ K = Passed(ks)
                       /\ before = IF Missed(ks) THEN Older(Len(reports) + 1, Stores) ELSE reports
  OBVIOUS
<1>2. PICK e \in Picks(K) : reports' = before \o [n \in DOMAIN e |-> Fresh(ks[e[n]])]
  BY <1>1 DEF Emit, Passed, Missed
<1>3. /\ store' = [s \in Stores |-> [store[s] EXCEPT !.doubt = @ \/ Missed(ks)]] /\ UNCHANGED <<rules, setup>>
  BY DEF Emit, Passed, Missed
<1>4. PICK new : new = [n \in DOMAIN e |-> Fresh(ks[e[n]])]
  OBVIOUS
<1>5. /\ Len(e) \in Nat /\ DOMAIN e = 1..Len(e) /\ K = {e[n] : n \in 1..Len(e)} /\ K \subseteq DOMAIN ks
      /\ \A m, n \in 1..Len(e) : m < n => e[m] < e[n]
  <2>1. K \in SUBSET DOMAIN ks
    BY <1>1 DEF Passed
  <2>. QED  BY <2>1, PicksAre
<1>6. \A n \in 1..Len(e) : e[n] \in K /\ ks[e[n]] \in Kinds
  BY <1>5
<1>7. DOMAIN new = 1..Len(e) /\ Len(new) = Len(e) /\ new \in Seq(Report) /\ \A n \in 1..Len(new) : new[n] = Fresh(ks[e[n]])
  <2>1. DOMAIN new = 1..Len(e) /\ \A n \in 1..Len(e) : new[n] = Fresh(ks[e[n]]) /\ new[n] \in Report
    BY <1>4, <1>5, <1>6, FreshIs
  <2>2. new = [n \in 1..Len(e) |-> new[n]]
    BY <1>4, <1>5
  <2>3. new \in [1..Len(e) -> Report]
    BY <2>1, <2>2
  <2>. QED  BY <1>5, <2>1, <2>3
<1>8. PICK q, q2, on : q = reports /\ q2 = reports' /\ on = On
  OBVIOUS
<1>9. q \in Seq(Report) /\ DOMAIN q = 1..Len(q) /\ Len(q) \in Nat /\ on \in BOOLEAN
  <2>1. q \in Seq(Report)
    BY <1>8 DEF StoreInv, StoreShape
  <2>. QED  BY <1>8, <2>1 DEF On
<1>10. /\ before \in Seq(Report) /\ Len(before) = Len(q) /\ DOMAIN before = 1..Len(q)
       /\ Missed(ks) => \A j \in 1..Len(q), s \in Stores : s \in before[j].stale
       /\ ~Missed(ks) => before = q
  <2>1. CASE ~Missed(ks)
    BY <1>1, <1>8, <1>9, <2>1
  <2>2. CASE Missed(ks)
    <3>1. PICK o : o = Older(Len(q) + 1, Stores)
      OBVIOUS
    <3>2. o \in Seq(Report) /\ Len(o) = Len(q) /\ DOMAIN o = 1..Len(q)
      BY <1>8, <1>9, <3>1, OlderIs
    <3>3. \A j \in DOMAIN q : j < Len(q) + 1 => o[j].stale = q[j].stale \cup Stores
      BY <1>8, <1>9, <3>1, OlderIs
    <3>4. \A j \in 1..Len(q), s \in Stores : s \in o[j].stale
      BY <1>9, <3>3
    <3>5. before = o
      BY <1>1, <1>8, <2>2, <3>1
    <3>. QED  BY <2>2, <3>2, <3>4, <3>5
  <2>. QED  BY <2>1, <2>2
<1>11. q2 \in Seq(Report) /\ GoesOn(before, q2, new)
  <2>1. q2 = before \o new
    BY <1>2, <1>4, <1>8
  <2>2. /\ q2 \in Seq(Report) /\ Len(q2) = Len(before) + Len(new)
        /\ \A i \in 1..(Len(before) + Len(new)) : q2[i] = IF i <= Len(before) THEN before[i] ELSE new[i - Len(before)]
    <3>1. before \in Seq(Report) /\ new \in Seq(Report)
      BY <1>7, <1>10
    <3>2. /\ before \o new \in Seq(Report) /\ Len(before \o new) = Len(before) + Len(new)
          /\ \A i \in 1..(Len(before) + Len(new)) :
                (before \o new)[i] = IF i <= Len(before) THEN before[i] ELSE new[i - Len(before)]
      BY <3>1, ConcatProperties
    <3>. QED  BY <2>1, <3>2
  <2>3. DOMAIN q2 = 1..(Len(before) + Len(new))
    BY <2>2
  <2>4. \A i \in 1..Len(before) : q2[i] = before[i]
    BY <1>5, <1>7, <1>9, <1>10, <2>2
  <2>5. ASSUME NEW n \in 1..Len(new) PROVE q2[Len(before) + n] = new[n]
    <3>1. Len(before) + n \in 1..(Len(before) + Len(new)) /\ ~(Len(before) + n <= Len(before)) /\ (Len(before) + n) - Len(before) = n
      BY <1>5, <1>7, <1>9, <1>10
    <3>. QED  BY <2>2, <3>1
  <2>. QED  BY <2>2, <2>3, <2>4, <2>5 DEF GoesOn
<1>12. \A n \in 1..Len(new) : \E k \in Kinds : new[n] = Fresh(k)
  BY <1>6, <1>7
<1>13. \A s \in Stores : InOrderOf(before, s) /\ (~Missed(ks) => Behind \/ Right(before, store[s], s, on))
  <2>1. \A s \in Stores : InOrderOf(q, s) /\ (Behind \/ Right(q, store[s], s, on))
    BY <1>8 DEF StoreInv
  <2>2. CASE Missed(ks)
    BY <1>10, <2>2 DEF InOrderOf
  <2>. QED  BY <1>10, <2>1, <2>2
<1>14. \A s \in Stores : InOrderOf(q2, s)
  BY <1>5, <1>7, <1>9, <1>10, <1>11, <1>12, <1>13, GoesOnInOrder
<1>15. /\ store' \in Stored
       /\ \A s \in Stores : store'[s].status = store[s].status /\ (store'[s].doubt <=> store[s].doubt \/ Missed(ks))
  <2>1. store \in Stored /\ Missed(ks) \in BOOLEAN
    BY DEF StoreInv, StoreShape, Stored, Missed
  <2>. QED  BY <1>3, <2>1 DEF Stored
<1>16. \A s \in Stores : Behind' \/ Right(q2, store'[s], s, On')
  <2>. SUFFICES ASSUME NEW s \in Stores, ~Behind' PROVE Right(q2, store'[s], s, On')
    OBVIOUS
  <2>1. Tells(ks, s, On', On' = On)
    OBVIOUS
  <2>2. \A n \in 1..Len(new) : Concerns(new[n], s) <=> e[n] \in About(ks, s)
    <3>. TAKE n \in 1..Len(new)
    <3>1. new[n].kind = ks[e[n]] /\ e[n] \in Passed(ks)
      BY <1>1, <1>6, <1>7, FreshIs
    <3>. QED  BY <3>1 DEF About, Concerns
  <2>3. ASSUME NEW x \in About(ks, s) PROVE \E n \in 1..Len(new) : x = e[n] /\ Concerns(new[n], s)
    <3>1. x \in K
      BY <1>1 DEF About
    <3>2. PICK n \in 1..Len(e) : x = e[n]
      BY <1>5, <3>1
    <3>. QED  BY <1>7, <2>2, <3>2
  <2>4. CASE About(ks, s) # {}
    <3>1. PICK m \in 1..Len(new) : Concerns(new[m], s)
      BY <2>3, <2>4
    <3>2. ASSUME NEW n \in 1..Len(new), Concerns(new[n], s), \A l \in 1..Len(new) : Concerns(new[l], s) => l <= n
          PROVE  Says(new[n].kind) = "online" <=> On'
      <4>1. e[n] \in About(ks, s) /\ new[n].kind = ks[e[n]]
        BY <1>6, <1>7, <2>2, <3>2, FreshIs
      <4>2. ASSUME NEW x \in About(ks, s) PROVE x <= e[n]
        <5>1. PICK l \in 1..Len(new) : x = e[l] /\ Concerns(new[l], s)
          BY <2>3
        <5>2. l <= n
          BY <3>2, <5>1
        <5>3. l = n \/ l < n
          BY <5>2
        <5>4. e[l] \in Int /\ e[n] \in Int
          <6>1. DOMAIN ks \subseteq Int
            OBVIOUS
          <6>. QED  BY <1>5, <1>6, <1>7, <6>1
        <5>. QED  BY <1>5, <1>7, <5>1, <5>3, <5>4
      <4>. QED  BY <2>1, <4>1, <4>2 DEF Tells
    <3>3. Len(before) \in Nat /\ Len(new) \in Nat
      BY <1>5, <1>7, <1>9, <1>10
    <3>. QED  BY <1>11, <1>12, <3>1, <3>2, <3>3, FreshRight
  <2>5. CASE About(ks, s) = {}
    <3>1. \A n \in 1..Len(new) : ~Concerns(new[n], s)
      BY <2>2, <2>5
    <3>2. Len(before) \in Nat /\ Len(new) \in Nat /\ DOMAIN before = 1..Len(before)
      BY <1>5, <1>7, <1>9, <1>10
    <3>3. ASSUME NEW i \in DOMAIN q2, Newest(q2, i, s) PROVE i \in DOMAIN before /\ q2[i] = before[i] /\ Newest(before, i, s)
      <4>1. i \in 1..(Len(before) + Len(new))
        BY <1>11 DEF GoesOn
      <4>2. CASE i > Len(before)
        <5>1. i - Len(before) \in 1..Len(new) /\ i = Len(before) + (i - Len(before))
          BY <3>2, <4>1, <4>2
        <5>2. q2[i] = new[i - Len(before)]
          BY <1>11, <5>1 DEF GoesOn
        <5>. QED  BY <3>1, <3>3, <5>1, <5>2 DEF Newest
      <4>3. CASE ~(i > Len(before))
        <5>1. i \in 1..Len(before)
          BY <3>2, <4>1, <4>3
        <5>2. q2[i] = before[i]
          BY <1>11, <5>1 DEF GoesOn
        <5>. QED  BY <3>2, <3>3, <5>1, <5>2 DEF Newest
      <4>. QED  BY <4>2, <4>3
    <3>4. CASE Missed(ks)
      <4>1. \A i \in DOMAIN q2 : ~Newest(q2, i, s)
        BY <1>10, <3>3, <3>4 DEF Newest
      <4>2. store'[s].doubt
        BY <1>15, <3>4
      <4>. QED  BY <4>1, <4>2 DEF Right, LastWord
    <3>5. CASE ~Missed(ks)
      <4>1. On' = on /\ Right(before, store[s], s, on)
        <5>1. On' = On
          BY <2>1, <2>5, <3>5 DEF Tells
        <5>2. Behind' = Behind
          BY <1>3, <5>1 DEF Behind
        <5>. QED  BY <1>8, <1>13, <3>5, <5>1, <5>2
      <4>2. \A i \in DOMAIN before : i \in DOMAIN q2 /\ q2[i] = before[i] /\ (Newest(q2, i, s) <=> Newest(before, i, s))
        BY <1>11, <3>2 DEF GoesOn, Newest
      <4>3. ASSUME NEW i \in DOMAIN q2, LastWord(q2, i, s) PROVE Says(q2[i].kind) = "online" <=> on
        <5>1. i \in DOMAIN before /\ q2[i] = before[i] /\ Newest(before, i, s)
          BY <3>3, <4>3 DEF LastWord
        <5>2. LastWord(before, i, s)
          BY <4>2, <4>3, <5>1 DEF LastWord
        <5>. QED  BY <4>1, <5>1, <5>2 DEF Right
      <4>4. Settled(q2, s) => Settled(before, s)
        BY <4>2 DEF Settled
      <4>5. store'[s].status = store[s].status /\ (store'[s].doubt <=> store[s].doubt)
        BY <1>15, <3>5
      <4>. QED  BY <4>1, <4>3, <4>4, <4>5 DEF Right
    <3>. QED  BY <3>4, <3>5
  <2>. QED  BY <2>4, <2>5
<1>17. StoreShape'
  BY <1>8, <1>11, <1>15 DEF StoreShape, Stored
<1>. QED  BY <1>8, <1>14, <1>16, <1>17 DEF StoreInv

\* The end of the session.
LEMMA EndKeeps ==
    ASSUME StoreInv, session' = (IF Leaves = <<>> THEN session ELSE "none"), Emit(Leaves) PROVE StoreInv'
<1>1. PICK ks : ks = Leaves
  OBVIOUS
<1>2. Leaves = <<>> \/ Leaves = <<"offline", "disconnected">>
  BY DEF Leaves
<1>3. session \in {"none", "live", "dead"}
  BY DEF StoreInv, StoreShape
<1>4. CASE ks = <<>>
  <2>1. On' = On /\ session' \in {"none", "live", "dead"}
    BY <1>1, <1>3, <1>4 DEF On
  <2>2. DOMAIN ks = {} /\ ks \in Seq(Kinds)
    BY <1>4
  <2>3. \A s \in Stores : Tells(ks, s, On', On' = On)
    BY <2>1, <2>2 DEF Tells, About, Passed
  <2>. QED  BY <1>1, <2>1, <2>2, <2>3, EmitKeeps
<1>5. CASE ks = <<"offline", "disconnected">>
  <2>1. On' = FALSE /\ session' \in {"none", "live", "dead"}
    BY <1>1, <1>5 DEF On
  <2>2. DOMAIN ks = 1..2 /\ ks[1] = "offline" /\ ks[2] = "disconnected" /\ ks \in Seq(Kinds)
    BY <1>5 DEF Kinds
  <2>3. \A n \in DOMAIN ks : Says(ks[n]) = "offline" /\ ks[n] # "telemetry"
    BY <2>2 DEF Says
  <2>4. \A s \in Stores : Tells(ks, s, On', On' = On)
    <3>. TAKE s \in Stores
    <3>1. \A n \in About(ks, s) : ~(Says(ks[n]) = "online")
      BY <2>3 DEF About, Passed
    <3>2. About(ks, s) = {} => Missed(ks)
      BY <2>2, <2>3 DEF About, Passed, Missed
    <3>. QED  BY <2>1, <3>1, <3>2 DEF Tells
  <2>. QED  BY <1>1, <2>1, <2>2, <2>4, EmitKeeps
<1>. QED  BY <1>1, <1>2, <1>4, <1>5

LEMMA BrokerNoticesKeeps == ASSUME StoreInv, BrokerNotices PROVE StoreInv'
<1>1. PICK ks : ks = <<"disconnected">>
  OBVIOUS
<1>2. Emit(ks) /\ On' = FALSE /\ session' \in {"none", "live", "dead"}
  BY <1>1 DEF BrokerNotices, On
<1>3. DOMAIN ks = 1..1 /\ ks[1] = "disconnected" /\ ks \in Seq(Kinds)
  BY <1>1 DEF Kinds
<1>4. \A n \in DOMAIN ks : Says(ks[n]) = "offline" /\ ks[n] # "telemetry"
  BY <1>3 DEF Says
<1>5. \A s \in Stores : Tells(ks, s, On', On' = On)
  <2>. TAKE s \in Stores
  <2>1. \A n \in About(ks, s) : ~(Says(ks[n]) = "online")
    BY <1>4 DEF About, Passed
  <2>2. About(ks, s) = {} => Missed(ks)
    BY <1>3, <1>4 DEF About, Passed, Missed
  <2>. QED  BY <1>2, <2>1, <2>2 DEF Tells
<1>. QED  BY <1>2, <1>3, <1>5, EmitKeeps

\* A connection: where the events are passed on, the last that is says online.
LEMMA OnlineKeeps ==
    ASSUME StoreInv, NEW ks \in Seq(Kinds \ {"telemetry"}), Emit(ks), session' = "live",
           \A n \in DOMAIN ks : Says(ks[n]) # "online" => \E m \in DOMAIN ks : m > n /\ ks[m] = "connected",
           On \/ \E m \in DOMAIN ks : ks[m] = "connected"
    PROVE  StoreInv'
<1>1. On' = TRUE /\ session' \in {"none", "live", "dead"} /\ UNCHANGED <<setup, rules>>
  BY DEF On, Emit
<1>2. ks \in Seq(Kinds) /\ DOMAIN ks \subseteq Int /\ \A n \in DOMAIN ks : ks[n] # "telemetry"
  OBVIOUS
<1>3. ASSUME NEW s \in Stores, ~Behind' PROVE Tells(ks, s, On', On' = On)
  <2>1. "events" \in rules
    BY <1>1, <1>3 DEF Behind
  <2>2. \A m \in DOMAIN ks : ks[m] = "connected" => m \in About(ks, s)
    BY <2>1 DEF About, Passed, RuleOf, Events
  <2>3. About(ks, s) \subseteq DOMAIN ks
    BY DEF About, Passed
  <2>4. ASSUME NEW n \in About(ks, s), \A m \in About(ks, s) : m <= n PROVE Says(ks[n]) = "online"
    BY <1>2, <2>2, <2>3, <2>4
  <2>5. About(ks, s) = {} => On
    BY <2>2
  <2>6. About(ks, s) = {} => On' = On
    BY <1>1, <2>5 DEF On
  <2>. QED  BY <1>1, <2>4, <2>6 DEF Tells
<1>. QED  BY <1>1, <1>2, <1>3, EmitKeeps

\* The events of a connection, and what follows them.
LEMMA ConnectKeeps ==
    ASSUME StoreInv, NEW b \in {<<>>, <<"online">>}, session' = "live",
           Emit((IF session = "none" THEN <<"connected">> ELSE <<"disconnected", "connected">>) \o b)
    PROVE  StoreInv'
<1>1. PICK a, K : /\ a = IF session = "none" THEN <<"connected">> ELSE <<"disconnected", "connected">>
                  /\ K = Kinds \ {"telemetry"}
  OBVIOUS
<1>2. a \in Seq(K) /\ Len(a) > 0 /\ Len(a) \in Nat /\ a[Len(a)] = "connected"
  <2>1. CASE a = <<"connected">>
    BY <1>1, <2>1 DEF Kinds
  <2>2. CASE a = <<"disconnected", "connected">>
    <3>1. Len(a) = 2 /\ a[2] = "connected"
      BY <2>2
    <3>2. "disconnected" \in K /\ "connected" \in K
      BY <1>1 DEF Kinds
    <3>3. a \in Seq(K)
      BY <2>2, <3>2
    <3>. QED  BY <3>1, <3>3
  <2>. QED  BY <1>1, <2>1, <2>2
<1>3. b \in Seq(K) /\ Len(b) \in Nat /\ \A n \in 1..Len(b) : Says(b[n]) = "online"
  <2>1. CASE b = <<>>
    BY <2>1
  <2>2. CASE b = <<"online">>
    BY <1>1, <2>2 DEF Kinds, Says
  <2>. QED  BY <2>1, <2>2
<1>4. PICK ks : ks = a \o b
  OBVIOUS
<1>5. /\ ks \in Seq(K) /\ Len(ks) = Len(a) + Len(b)
      /\ \A i \in 1..(Len(a) + Len(b)) : ks[i] = IF i <= Len(a) THEN a[i] ELSE b[i - Len(a)]
  <2>1. /\ a \o b \in Seq(K) /\ Len(a \o b) = Len(a) + Len(b)
        /\ \A i \in 1..(Len(a) + Len(b)) : (a \o b)[i] = IF i <= Len(a) THEN a[i] ELSE b[i - Len(a)]
    BY <1>2, <1>3, ConcatProperties
  <2>. QED  BY <1>4, <2>1
<1>6. PICK c : c = Len(a)
  OBVIOUS
<1>7. DOMAIN ks = 1..(Len(a) + Len(b)) /\ c \in DOMAIN ks /\ ks[c] = "connected"
  BY <1>2, <1>3, <1>5, <1>6
<1>8. ASSUME NEW n \in DOMAIN ks, Says(ks[n]) # "online" PROVE c > n
  <2>1. CASE n > c
    <3>1. n - c \in 1..Len(b) /\ ks[n] = b[n - c]
      BY <1>2, <1>3, <1>5, <1>6, <1>7, <2>1
    <3>. QED  BY <1>3, <1>8, <3>1
  <2>2. CASE n = c
    BY <1>7, <1>8, <2>2 DEF Says
  <2>. QED  BY <1>2, <1>6, <1>7, <2>1, <2>2
<1>9. Emit(ks) /\ ks \in Seq(Kinds \ {"telemetry"})
  BY <1>1, <1>4, <1>5
<1>10. /\ \A n \in DOMAIN ks : Says(ks[n]) # "online" => \E m \in DOMAIN ks : m > n /\ ks[m] = "connected"
       /\ \E m \in DOMAIN ks : ks[m] = "connected"
  BY <1>7, <1>8
<1>. QED  BY <1>9, <1>10, OnlineKeeps

LEMMA JoinedKeeps == ASSUME StoreInv, Joined PROVE StoreInv'
<1>1. CASE client.open /\ session = "live"
  <2>1. PICK ks : ks = <<"online">>
    OBVIOUS
  <2>2. ks \in Seq(Kinds \ {"telemetry"}) /\ \A n \in DOMAIN ks : Says(ks[n]) = "online"
    BY <2>1 DEF Kinds, Says
  <2>3. Emit(ks) /\ session' = "live" /\ On
    BY <1>1, <2>1 DEF Joined, On
  <2>. QED  BY <2>2, <2>3, OnlineKeeps
<1>2. CASE ~(client.open /\ session = "live")
  <2>1. UNCHANGED <<reports, store, rules, setup, session>>
    BY <1>2 DEF Joined, platform
  <2>2. On' = On /\ Behind' = Behind /\ session' \in {"none", "live", "dead"}
    BY <2>1 DEF On, Behind, StoreInv, StoreShape
  <2>. QED  BY <2>1, <2>2, Untouched
<1>. QED  BY <1>1, <1>2

LEMMA TelemetryKeeps == ASSUME StoreInv, Telemetry PROVE StoreInv'
<1>1. PICK ks : ks = <<"telemetry">>
  OBVIOUS
<1>2. Emit(ks) /\ On' = TRUE /\ On = TRUE /\ session' \in {"none", "live", "dead"}
  BY <1>1 DEF Telemetry, Sends, On, device
<1>3. DOMAIN ks = 1..1 /\ ks[1] = "telemetry" /\ ks \in Seq(Kinds)
  BY <1>1 DEF Kinds
<1>4. \A n \in DOMAIN ks : Says(ks[n]) = "online"
  BY <1>3 DEF Says
<1>5. \A s \in Stores : Tells(ks, s, On', On' = On)
  BY <1>2, <1>4 DEF Tells, About, Passed
<1>. QED  BY <1>2, <1>3, <1>5, EmitKeeps

\* The greatest of some numbers up to n.
LEMMA Greatest ==
    ASSUME NEW n \in Nat, NEW S \in SUBSET (1..n), S # {}
    PROVE  \E m \in S : \A k \in S : k <= m
<1>. DEFINE T == {j \in 0..n : n - j \in S}
<1>0. PICK x \in S : x \in 1..n
  OBVIOUS
<1>1. n - x \in 0..n /\ n - (n - x) = x
  BY <1>0
<1>2. n - x \in T /\ \A j \in T : j \in Nat /\ n - j \in S
  BY <1>0, <1>1
<1>3. \A k \in S : n - k \in T /\ k \in Int
  <2>. TAKE k \in S
  <2>1. k \in 1..n /\ n - k \in 0..n /\ n - (n - k) = k
    OBVIOUS
  <2>. QED  BY <2>1
<1>. HIDE DEF T
<1>4. T \in SUBSET Nat /\ T # {}
  BY <1>2
<1>5. IsWellFoundedOn(OpToRel(<, Nat), Nat)
  BY NatLessThanWellFounded
<1>6. PICK d \in T : \A j \in T : <<j, d>> \notin OpToRel(<, Nat)
  BY <1>4, <1>5, WFMin, Zenon
<1>7. \A j \in T : j \in Nat /\ ~(j < d)
  BY <1>4, <1>6 DEF OpToRel
<1>8. n - d \in S /\ d \in Nat
  BY <1>2
<1>9. ASSUME NEW k \in S PROVE k <= n - d
  <2>1. n - k \in T /\ k \in Int /\ ~(n - k < d)
    BY <1>3, <1>7
  <2>. QED  BY <1>8, <2>1
<1>. QED  BY <1>8, <1>9

LEMMA BridgeGoes ==
    ASSUME StoreInv, NEW step, NEW r, NEW next \in {"unbridgeEvents", "bridge"}, DeleteBridge(step, r, next),
           ~(reports' = reports /\ store' = store)
    PROVE  StoreInv'
<1>1. PICK q, on : q = reports /\ on = On
  OBVIOUS
<1>2. PICK kept : kept = {i \in DOMAIN reports : LET m == reports[i] IN
                             m.kind = "listed" \/ RuleOf(m.kind) # r \/ m.todo # Writes(m.kind)}
  OBVIOUS
<1>3. PICK missed : missed = {i \in DOMAIN reports \ kept : Says(reports[i].kind) = "offline"}
  OBVIOUS
<1>4. PICK top : top = IF missed = {} THEN 0 ELSE CHOOSE i \in missed : \A j \in missed : j <= i
  OBVIOUS
<1>5. PICK o : o = Older(top, Stores)
  OBVIOUS
<1>21. /\ \E e \in Picks(kept) : reports' = [n \in DOMAIN e |-> o[e[n]]]
       /\ store' = [s \in Stores |-> [store[s] EXCEPT !.doubt = @ \/ \E i \in missed : s \notin reports[i].stale]]
       /\ setup' = next /\ UNCHANGED <<session, rules>>
  <2>. DEFINE K == {i \in DOMAIN reports : LET m == reports[i] IN
                      m.kind = "listed" \/ RuleOf(m.kind) # r \/ m.todo # Writes(m.kind)}
              M == {i \in DOMAIN reports \ K : Says(reports[i].kind) = "offline"}
              O == Older(IF M = {} THEN 0 ELSE CHOOSE i \in M : \A j \in M : j <= i, Stores)
  <2>1. \E e \in Picks(K) : reports' = [n \in DOMAIN e |-> O[e[n]]]
    BY Zenon DEF DeleteBridge
  <2>2. store' = [s \in Stores |-> [store[s] EXCEPT !.doubt = @ \/ \E i \in M : s \notin reports[i].stale]]
    BY Zenon DEF DeleteBridge
  <2>3. setup' = next /\ UNCHANGED <<session, rules>>
    BY DEF DeleteBridge, device
  <2>4. kept = K
    BY <1>2
  <2>5. missed = M
    BY <1>3, <2>4
  <2>. HIDE DEF K
  <2>6. o = O
    BY <1>4, <1>5, <2>5
  <2>. HIDE DEF M, O
  <2>. QED  BY <2>1, <2>2, <2>3, <2>4, <2>5, <2>6
<1>6. q \in Seq(Report) /\ DOMAIN q = 1..Len(q) /\ Len(q) \in Nat /\ on \in BOOLEAN
  <2>1. q \in Seq(Report)
    BY <1>1 DEF StoreInv, StoreShape
  <2>. QED  BY <1>1, <2>1 DEF On
<1>7. kept \subseteq 1..Len(q) /\ missed \subseteq 1..Len(q) /\ kept \cap missed = {}
  BY <1>1, <1>2, <1>3, <1>6
<1>8. top \in Nat /\ (missed # {} => top \in missed) /\ \A j \in missed : j <= top
  <2>1. CASE missed = {}
    BY <1>4, <2>1
  <2>2. CASE missed # {}
    <3>1. \E i \in missed : \A j \in missed : j <= i
      BY <1>6, <1>7, <2>2, Greatest
    <3>2. top \in missed /\ \A j \in missed : j <= top
      BY <1>4, <2>2, <3>1
    <3>. QED  BY <1>7, <3>2
  <2>. QED  BY <2>1, <2>2
<1>9. /\ o \in Seq(Report) /\ DOMAIN o = 1..Len(q)
      /\ \A j \in 1..Len(q) : /\ o[j].kind = q[j].kind /\ o[j].todo = q[j].todo
                              /\ j < top => o[j].stale = q[j].stale \cup Stores
                              /\ ~(j < top) => o[j] = q[j]
  <2>1. top \in Int /\ Stores \in SUBSET Stores
    BY <1>8
  <2>. QED  BY <1>1, <1>5, <1>6, <2>1, OlderIs
<1>10. \A s \in Stores : InOrderOf(q, s) /\ (Behind \/ Right(q, store[s], s, on))
  BY <1>1 DEF StoreInv
<1>11. \A s \in Stores : InOrderOf(o, s)
  <2>. TAKE s \in Stores
  <2>1. Marked(q, o, s, top)
    BY <1>6, <1>8, <1>9 DEF Marked, Owes
  <2>. QED  BY <1>10, <2>1, MarkedInOrder
<1>12. PICK e \in Picks(kept) : reports' = [n \in DOMAIN e |-> o[e[n]]]
  BY <1>21
<1>13. /\ Len(e) \in Nat /\ DOMAIN e = 1..Len(e) /\ kept = {e[n] : n \in 1..Len(e)}
       /\ \A m, n \in 1..Len(e) : m < n => e[m] < e[n]
  <2>1. IsFiniteSet(1..Len(q))
    BY <1>6, FS_Interval
  <2>2. Cardinality(kept) \in Nat
    BY <1>7, <2>1, FS_Subset, FS_CardinalityType
  <2>3. e \in [1..Cardinality(kept) -> kept] /\ kept = {e[n] : n \in DOMAIN e} /\ \A m, n \in DOMAIN e : m < n => e[m] < e[n]
    BY DEF Picks
  <2>4. DOMAIN e = 1..Cardinality(kept) /\ Len(e) = Cardinality(kept)
    BY <2>2, <2>3
  <2>. QED  BY <2>2, <2>3, <2>4
<1>14. PICK q2 : q2 = reports'
  OBVIOUS
<1>15. /\ DOMAIN q2 = 1..Len(e) /\ q2 \in Seq(Report)
       /\ \A n \in 1..Len(e) : e[n] \in kept /\ e[n] \in 1..Len(q) /\ q2[n] = o[e[n]]
  <2>1. DOMAIN q2 = 1..Len(e) /\ \A n \in 1..Len(e) : e[n] \in kept /\ e[n] \in 1..Len(q) /\ q2[n] = o[e[n]] /\ q2[n] \in Report
    BY <1>7, <1>9, <1>12, <1>13, <1>14
  <2>2. q2 = [n \in 1..Len(e) |-> q2[n]]
    BY <1>12, <1>13, <1>14
  <2>3. q2 \in [1..Len(e) -> Report]
    BY <2>1, <2>2
  <2>. QED  BY <1>13, <2>1, <2>3
<1>16. Part(o, q2, e)
  BY <1>9, <1>13, <1>15 DEF Part
<1>17. \A s \in Stores : InOrderOf(q2, s)
  BY <1>11, <1>16, PartInOrder
<1>18. /\ store' \in Stored
       /\ \A s \in Stores : /\ store'[s].status = store[s].status
                            /\ store'[s].doubt <=> store[s].doubt \/ \E i \in missed : s \notin q[i].stale
  <2>1. store \in Stored
    BY DEF StoreInv, StoreShape, Stored
  <2>2. PICK doubts : doubts = [s \in Stores |-> \E i \in missed : s \notin reports[i].stale]
    OBVIOUS
  <2>3. \A s \in Stores : doubts[s] \in BOOLEAN /\ (doubts[s] <=> \E i \in missed : s \notin q[i].stale)
    BY <1>1, <2>2
  <2>4. store' = [s \in Stores |-> [store[s] EXCEPT !.doubt = @ \/ doubts[s]]]
    BY <1>21, <2>2
  <2>. QED  BY <2>1, <2>3, <2>4 DEF Stored
<1>19. On' = on /\ StoreShape'
  <2>1. On' = On
    BY <1>21 DEF On
  <2>. QED  BY <1>1, <1>21, <1>14, <1>15, <1>18, <2>1 DEF StoreShape, Stored, StoreInv
<1>20. ASSUME NEW s \in Stores PROVE Behind' \/ Right(q2, store'[s], s, on)
  <2>1. CASE on
    BY <1>1, <1>21, <1>19, <2>1 DEF Behind
  <2>2. CASE ~on
    <3>1. Right(q, store[s], s, on)
      BY <1>1, <1>10, <2>2 DEF Behind
    <3>2. ASSUME NEW i \in missed, s \notin q[i].stale PROVE FALSE \/ store'[s].doubt
      BY <1>18, <3>2
    <3>3. ASSUME NEW n \in DOMAIN q2, LastWord(q2, n, s) PROVE ~(Says(q2[n].kind) = "online")
      <4>1. PICK k : k = e[n] /\ k \in kept /\ k \in 1..Len(q) /\ q2[n] = o[k] /\ n \in 1..Len(e)
        BY <1>15
      <4>2. Newest(o, k, s)
        BY <3>3, <4>1 DEF LastWord, Newest
      <4>3. ~(k < top) /\ o[k] = q[k]
        <5>1. s \notin o[k].stale
          BY <4>2 DEF Newest
        <5>. QED  BY <1>9, <4>1, <5>1
      <4>4. Newest(q, k, s)
        BY <4>2, <4>3 DEF Newest
      <4>5. PICK news : news = {j \in DOMAIN q : Newest(q, j, s)}
        OBVIOUS
      <4>6. news \in SUBSET (1..Len(q)) /\ k \in news
        BY <1>6, <4>1, <4>4, <4>5
      <4>7. PICK l \in news : \A j \in news : j <= l
        BY <1>6, <4>6, Greatest
      <4>8. LastWord(q, l, s) /\ l \in DOMAIN q
        BY <4>5, <4>7 DEF LastWord
      <4>9. Says(q[l].kind) = "offline"
        <5>1. ~(Says(q[l].kind) = "online")
          BY <2>2, <3>1, <4>8 DEF Right
        <5>. QED  BY <5>1 DEF Says
      <4>10. k <= l /\ l \in 1..Len(q)
        BY <1>6, <4>6, <4>7, <4>8
      <4>11. l \in kept
        <5>1. CASE l \notin kept
          <6>1. l \in missed
            BY <1>1, <1>3, <4>8, <4>9, <5>1
          <6>2. l <= top /\ l = k
            BY <1>8, <4>1, <4>3, <4>10, <6>1
          <6>. QED  BY <4>1, <5>1, <6>2
        <5>. QED  BY <5>1
      <4>12. l = k
        <5>1. PICK m \in 1..Len(e) : l = e[m]
          BY <1>13, <4>11
        <5>2. o[l] = q[l]
          BY <1>8, <1>9, <4>1, <4>3, <4>10
        <5>3. Newest(q2, m, s)
          BY <1>15, <4>8, <5>1, <5>2 DEF Newest, LastWord
        <5>4. m <= n
          BY <1>15, <3>3, <5>1, <5>3 DEF LastWord
        <5>5. m = n \/ m < n
          BY <4>1, <5>4
        <5>6. e[m] <= e[n]
          BY <1>13, <4>1, <4>10, <5>1, <5>5
        <5>. QED  BY <4>1, <4>10, <5>1, <5>6
      <4>. QED  BY <4>1, <4>3, <4>9, <4>12
    <3>4. ASSUME Settled(q2, s), ~store'[s].doubt PROVE ~(store'[s].status = "online")
      <4>1. ~store[s].doubt /\ store'[s].status = store[s].status /\ \A i \in missed : s \in q[i].stale
        BY <1>18, <3>4
      <4>2. ASSUME NEW i \in DOMAIN q, Newest(q, i, s), Owes(q[i], s) PROVE FALSE
        <5>1. PICK news : news = {j \in DOMAIN q : Newest(q, j, s)}
          OBVIOUS
        <5>2. news \in SUBSET (1..Len(q)) /\ i \in news /\ i \in 1..Len(q)
          BY <1>6, <4>2, <5>1
        <5>3. PICK l \in news : \A j \in news : j <= l
          BY <1>6, <5>2, Greatest
        <5>4. LastWord(q, l, s) /\ l \in 1..Len(q) /\ i <= l
          BY <1>6, <5>1, <5>2, <5>3 DEF LastWord
        <5>5. Newest(q, l, s) /\ s \notin q[l].stale
          BY <5>4 DEF LastWord, Newest
        <5>6. ~(Says(q[l].kind) = "online")
          BY <1>6, <2>2, <3>1, <5>4 DEF Right
        <5>7. l \in kept
          BY <1>1, <1>3, <1>6, <4>1, <5>4, <5>5, <5>6 DEF Says
        <5>8. ~(l < top)
          <6>1. CASE missed = {}
            BY <1>4, <5>4, <6>1
          <6>2. CASE missed # {}
            <7>1. top \in DOMAIN q /\ s \in q[top].stale
              BY <1>6, <1>7, <1>8, <4>1, <6>2
            <7>. QED  BY <1>6, <1>10, <5>4, <5>5, <7>1 DEF InOrderOf
          <6>. QED  BY <6>1, <6>2
        <5>9. PICK m \in 1..Len(e) : l = e[m]
          BY <1>13, <5>7
        <5>10. q2[m] = q[l] /\ Newest(q2, m, s)
          BY <1>9, <1>15, <5>4, <5>5, <5>8, <5>9 DEF Newest
        <5>11. ~Owes(q[l], s) /\ Concerns(q[l], s)
          BY <1>15, <3>4, <5>10 DEF Settled, Newest
        <5>12. i # l /\ i < l
          BY <4>2, <5>2, <5>4, <5>11
        <5>. QED  BY <1>6, <1>10, <4>2, <5>2, <5>4, <5>11, <5>12 DEF InOrderOf, Newest
      <4>3. Settled(q, s)
        BY <4>2 DEF Settled
      <4>. QED  BY <2>2, <3>1, <4>1, <4>3 DEF Right
    <3>. QED  BY <2>2, <3>3, <3>4 DEF Right
  <2>. QED  BY <2>1, <2>2
<1>. QED  BY <1>14, <1>17, <1>19, <1>20 DEF StoreInv

LEMMA DeleteBridgeKeeps ==
    ASSUME StoreInv, NEW step, NEW r, NEW next \in {"unbridgeEvents", "bridge"}, DeleteBridge(step, r, next)
    PROVE  StoreInv'
<1>1. CASE UNCHANGED <<reports, store>>
  <2>1. UNCHANGED session /\ setup' # "done"
    BY DEF DeleteBridge, device
  <2>2. session' \in {"none", "live", "dead"} /\ On' = On /\ (Behind => Behind')
    BY <2>1 DEF StoreInv, StoreShape, On, Behind
  <2>. QED  BY <1>1, <2>2, Untouched
<1>. QED  BY <1>1, BridgeGoes

LEMMA StoreInit == Init => StoreInv
<1>. SUFFICES ASSUME Init PROVE StoreInv
  OBVIOUS
<1>1. StoreShape
  BY DEF Init, StoreShape
<1>2. On = FALSE /\ reports = <<>> /\ \A s \in Stores : store[s].status = "unknown"
  BY DEF Init, On
<1>3. \A s \in Stores : InOrderOf(reports, s) /\ Right(reports, store[s], s, On)
  BY <1>2 DEF InOrderOf, Right
<1>. QED  BY <1>1, <1>3 DEF StoreInv

\* The device's own steps that report nothing.
LEMMA QuietKeeps ==
    ASSUME StoreInv, UNCHANGED platform, session' \in {"none", "live", "dead"}, On' = On PROVE StoreInv'
<1>1. UNCHANGED <<reports, store, rules, setup>>
  BY DEF platform
<1>2. Behind' = Behind
  BY <1>1 DEF Behind
<1>. QED  BY <1>1, <1>2, Untouched

LEMMA StoreNext == StoreInv /\ [Next]_presenceVars => StoreInv'
<1>. SUFFICES ASSUME StoreInv, [Next]_presenceVars PROVE StoreInv'
  OBVIOUS
<1>1. session \in {"none", "live", "dead"}
  BY DEF StoreInv, StoreShape
<1>2. CASE UNCHANGED <<session, platform>>
  BY <1>1, <1>2, QuietKeeps DEF On
<1>3. CASE Kill \/ Cut
  <2>1. UNCHANGED platform /\ session' \in {"none", "live", "dead"} /\ (session' = session \/ (session = "live" /\ session' = "dead"))
    BY <1>1, <1>3 DEF Kill, Cut
  <2>. QED  BY <2>1, QuietKeeps DEF On
<1>4. CASE Start \/ WriteFile \/ ProvisionFails \/ Connect \/ TimesOut \/ Toggle \/ Clear \/ Switch \/ Notice
  <2>1. UNCHANGED <<session, platform>>
    BY <1>4 DEF Start, WriteFile, ProvisionFails, Connect, TimesOut, Toggle, Clear, Switch, Notice
  <2>. QED  BY <1>2, <2>1
<1>5. CASE Link
  <2>1. Online \in {<<>>, <<"online">>}
    BY DEF Online
  <2>2. session' = "live" /\ Emit((IF session = "none" THEN <<"connected">> ELSE <<"disconnected", "connected">>) \o Online)
    BY <1>5 DEF Link
  <2>3. PICK b \in {<<>>, <<"online">>} : b = Online
    BY <2>1
  <2>4. Emit((IF session = "none" THEN <<"connected">> ELSE <<"disconnected", "connected">>) \o b)
    BY <2>2, <2>3
  <2>. QED  BY <2>2, <2>4, ConnectKeeps
<1>6. CASE Leave \/ Quit \/ IotDisconnect
  BY <1>6, EndKeeps DEF Leave, Quit, IotDisconnect
<1>7. CASE IotConnect
  <2>1. CASE UNCHANGED <<session, platform>>
    BY <1>2, <2>1
  <2>2. CASE session' = "live" /\ Emit((IF session = "none" THEN <<"connected">> ELSE <<"disconnected", "connected">>) \o <<"online">>)
    <3>1. <<"online">> \in {<<>>, <<"online">>}
      OBVIOUS
    <3>. QED  BY <2>2, <3>1, ConnectKeeps
  <2>. QED  BY <1>7, <2>1, <2>2 DEF IotConnect
<1>8. CASE Setup
  <2>1. CASE List("list", "done")
    BY <2>1, ListKeeps
  <2>2. CASE DeleteBridge("unbridge", "ingest", "unbridgeEvents")
    BY <2>2, DeleteBridgeKeeps
  <2>3. CASE DeleteBridge("unbridgeEvents", "events", "bridge")
    BY <2>3, DeleteBridgeKeeps
  <2>. QED  BY <1>8, <2>1, <2>2, <2>3, SetupKeeps DEF Setup, InOrder
<1>9. ASSUME NEW i \in DOMAIN reports, Handle(i) \/ Fails(i) PROVE StoreInv'
  BY <1>9, HandleKeeps, FailsKeeps
<1>10. CASE UNCHANGED presenceVars
  BY <1>2, <1>10 DEF presenceVars, device
<1>11. Restart => StoreInv'
  BY SetupKeeps
<1>. QED
  BY <1>3, <1>4, <1>5, <1>6, <1>7, <1>8, <1>9, <1>10, <1>11, JoinedKeeps, TelemetryKeeps, BrokerNoticesKeeps, DeadCheckKeeps DEF Next

\* Once every report is handled and the rule for the broker's events is there, with the
\* connected clients listed by the last setup, the database and
\* InfluxDB agree with the broker on whether the device is connected, unless the last word is
\* known to be in doubt (handle_device_event, ingest, ensure_emqx_rules).
THEOREM StoresAlwaysFollow == Spec => []StoresFollowTheSession
<1>1. ASSUME StoreInv PROVE StoresFollowTheSession
  <2>. SUFFICES ASSUME reports = <<>>, setup = "done", "events" \in rules, session # "dead", NEW s \in Stores
                PROVE  store[s].doubt \/ (store[s].status = "online" <=> session = "live")
    BY DEF StoresFollowTheSession
  <2>1. Right(reports, store[s], s, On) /\ Settled(reports, s)
    <3>1. ~Behind /\ DOMAIN reports = {}
      BY DEF Behind
    <3>. QED  BY <1>1, <3>1 DEF StoreInv, Settled
  <2>2. On <=> session = "live"
    BY <1>1 DEF On, StoreInv, StoreShape
  <2>. QED  BY <2>1, <2>2 DEF Right
<1>. QED  BY StoreInit, StoreNext, <1>1, PTL DEF Spec

-----------------------------------------------------------------------------
(* The ledger of firmware commands. *)

Budgets == {"calls", "clicks", "faults"}
CallFields == {"at", "n", "dev", "v", "group", "todo", "rows", "told"}

\* The shape of the state that the argument needs.
OtaShape ==
    /\ DOMAIN used = Budgets /\ used["calls"] \in Nat
    /\ DOMAIN call = CallFields /\ call.n \in Nat
    /\ call.at \in {"none", "send", "record", "answered"}

\* Calls are numbered in the order they come, and a row carries the number of its call.
Numbered ==
    /\ call.at # "none" => call.n = used["calls"]
    /\ \A e \in recorded : e.n \in Nat /\ e.n <= used["calls"]
    /\ call.at \in {"send", "record"} => \A e \in recorded : e.n < call.n

\* The rows of the transaction are those of the devices noted as dispatched, and the broker
\* has the command of each, as it has the one about to be noted.
Pending ==
    /\ call.at \in {"send", "record"} => call.rows = {Row(d) : d \in call.told} /\ call.rows \subseteq sent
    /\ call.at = "record" => Row(call.dev) \in sent

LedgerInv == OtaShape /\ Numbered /\ Pending /\ LedgerIsTrue

\* A use of a budget other than that of the calls leaves their number.
LEMMA UseKeepsCalls ==
    ASSUME OtaShape, NEW what \in {"clicks", "faults"}, NEW max, Use(what, max)
    PROVE  DOMAIN used' = Budgets /\ used'["calls"] = used["calls"]
BY DEF Use, OtaShape, Budgets

\* Steps of devices, releases and clicks are none of the ledger's business.
LEMMA Frame ==
    ASSUME LedgerInv, UNCHANGED <<call, sent, recorded>>,
           DOMAIN used' = Budgets, used'["calls"] = used["calls"]
    PROVE  LedgerInv'
BY DEF LedgerInv, OtaShape, Numbered, Pending, LedgerIsTrue, Row

\* A call that ends without an answer.
LEMMA CallEnds ==
    ASSUME LedgerInv, call' = NoCall, recorded' = recorded, sent \subseteq sent',
           DOMAIN used' = Budgets, used'["calls"] = used["calls"]
    PROVE  LedgerInv'
<1>1. /\ call'.at = "none" /\ call'.n = 0 /\ DOMAIN call' = CallFields
    BY DEF NoCall, CallFields
<1>. QED  BY <1>1 DEF LedgerInv, OtaShape, Numbered, Pending, LedgerIsTrue

\* A call that goes on with what it has, perhaps after the broker took one more command.
LEMMA CallGoesOn ==
    ASSUME LedgerInv, call.at \in {"send", "record"}, recorded' = recorded, sent \subseteq sent',
           DOMAIN used' = Budgets, used'["calls"] = used["calls"],
           DOMAIN call' = CallFields, call'.at \in {"send", "record"},
           call'.n = call.n, call'.v = call.v, call'.rows = call.rows, call'.told = call.told,
           call'.at = "record" => Row(call'.dev) \in sent'
    PROVE  LedgerInv'
<1>1. \A d : Row(d)' = Row(d)
    BY DEF Row
<1>2. OtaShape'
    BY DEF LedgerInv, OtaShape
<1>3. Numbered'
    BY DEF LedgerInv, Numbered
<1>4. Pending'
  <2>1. call'.rows = {Row(d)' : d \in call'.told} /\ call'.rows \subseteq sent'
      BY <1>1 DEF LedgerInv, Pending
  <2>2. call'.at = "record" => Row(call.dev)' \in sent'
      BY DEF Row
  <2>. QED  BY <2>1, <2>2 DEF Pending
<1>5. LedgerIsTrue'
    BY DEF LedgerInv, LedgerIsTrue
<1>. QED  BY <1>2, <1>3, <1>4, <1>5 DEF LedgerInv

\* The call gives up a device by a fault: alone it ends, in a group it goes on.
LEMMA GivingUp ==
    ASSUME LedgerInv, NEW d \in Devices, call.at \in {"send", "record"}, call' = GivesUp(d),
           recorded' = recorded, sent \subseteq sent', Use("faults", MaxOtaFaults)
    PROVE  LedgerInv'
<1>1. DOMAIN used' = Budgets /\ used'["calls"] = used["calls"]
    BY UseKeepsCalls DEF LedgerInv
<1>2. CASE call.group
  <2>1. call' = [call EXCEPT !.at = "send", !.dev = "none", !.todo = @ \ {d}]
      BY <1>2 DEF GivesUp
  <2>2. /\ DOMAIN call' = CallFields /\ call'.at = "send" /\ call'.n = call.n /\ call'.v = call.v
        /\ call'.rows = call.rows /\ call'.told = call.told
      BY <2>1 DEF LedgerInv, OtaShape, CallFields
  <2>. QED  BY <1>1, <2>2, CallGoesOn
<1>3. CASE ~call.group
  <2>1. call' = NoCall
      BY <1>3 DEF GivesUp
  <2>. QED  BY <1>1, <2>1, CallEnds
<1>. QED  BY <1>2, <1>3

LEMMA LedgerInit == OtaInit => LedgerInv
<1>. SUFFICES ASSUME OtaInit PROVE LedgerInv
    OBVIOUS
<1>1. call.at = "none" /\ call.n = 0 /\ DOMAIN call = CallFields
    BY DEF OtaInit, NoCall, CallFields
<1>2. DOMAIN used = Budgets /\ used["calls"] = 0
    BY DEF OtaInit, Budgets
<1>. QED  BY <1>1, <1>2 DEF OtaInit, LedgerInv, OtaShape, Numbered, Pending, LedgerIsTrue

LEMMA LedgerAsk ==
    ASSUME LedgerInv, NEW v \in Versions, NEW ds, NEW group, Ask(v, ds, group)
    PROVE  LedgerInv'
<1>1. DOMAIN used' = Budgets /\ used'["calls"] = used["calls"] + 1
    BY DEF Ask, Use, LedgerInv, OtaShape, Budgets
<1>2. /\ DOMAIN call' = CallFields /\ call'.at = "send" /\ call'.n = used["calls"] + 1
      /\ call'.rows = {} /\ call'.told = {}
    BY DEF Ask, NoCall, CallFields
<1>3. UNCHANGED <<sent, recorded>>
    BY DEF Ask
<1>4. OtaShape' /\ Numbered'
    BY <1>1, <1>2, <1>3 DEF LedgerInv, OtaShape, Numbered
<1>5. Pending' /\ LedgerIsTrue'
    BY <1>2, <1>3 DEF LedgerInv, Pending, LedgerIsTrue
<1>. QED  BY <1>4, <1>5 DEF LedgerInv

LEMMA LedgerPublish ==
    ASSUME LedgerInv, NEW d \in Devices, Publish(d)
    PROVE  LedgerInv'
<1>1. call.at = "send" /\ recorded' = recorded
    BY DEF Publish
<1>2. CASE /\ call' = [call EXCEPT !.at = "record", !.dev = d]
           /\ sent' = sent \cup {Row(d)} /\ UNCHANGED used
  <2>1. /\ DOMAIN call' = CallFields /\ call'.at = "record" /\ call'.dev = d /\ call'.n = call.n
        /\ call'.v = call.v /\ call'.rows = call.rows /\ call'.told = call.told
      BY <1>2 DEF LedgerInv, OtaShape, CallFields
  <2>2. DOMAIN used' = Budgets /\ used'["calls"] = used["calls"]
      BY <1>2 DEF LedgerInv, OtaShape
  <2>. QED  BY <1>1, <1>2, <2>1, <2>2, CallGoesOn
<1>3. CASE Use("faults", MaxOtaFaults) /\ call' = GivesUp(d) /\ sent \subseteq sent'
    BY <1>1, <1>3, GivingUp
<1>. QED  BY <1>2, <1>3 DEF Publish

LEMMA LedgerRecord ==
    ASSUME LedgerInv, NEW d \in Devices, Record(d)
    PROVE  LedgerInv'
<1>1. call.at = "record" /\ call.dev = d /\ UNCHANGED <<sent, recorded>>
    BY DEF Record
<1>2. CASE /\ call' = [call EXCEPT !.at = "send", !.dev = "none", !.todo = @ \ {d},
                                   !.rows = @ \cup {Row(d)}, !.told = @ \cup {d}]
           /\ UNCHANGED used
  <2>1. /\ DOMAIN call' = CallFields /\ call'.at = "send" /\ call'.n = call.n /\ call'.v = call.v
        /\ call'.rows = call.rows \cup {Row(d)} /\ call'.told = call.told \cup {d}
      BY <1>2 DEF LedgerInv, OtaShape, CallFields
  <2>2. \A c : Row(c)' = Row(c)
      BY <2>1 DEF Row
  <2>3. OtaShape' /\ Numbered'
      BY <1>1, <1>2, <2>1 DEF LedgerInv, OtaShape, Numbered
  <2>4. call'.rows = {Row(c)' : c \in call'.told} /\ call'.rows \subseteq sent'
    <3>1. call.rows = {Row(c) : c \in call.told} /\ call.rows \subseteq sent /\ Row(d) \in sent
        BY <1>1 DEF LedgerInv, Pending
    <3>. QED  BY <1>1, <2>1, <2>2, <3>1
  <2>5. Pending' /\ LedgerIsTrue'
      BY <1>1, <2>1, <2>4 DEF LedgerInv, Pending, LedgerIsTrue
  <2>. QED  BY <2>3, <2>5 DEF LedgerInv
<1>3. CASE call' = GivesUp(d) /\ Use("faults", MaxOtaFaults)
    BY <1>1, <1>3, GivingUp
<1>. QED  BY <1>2, <1>3 DEF Record

LEMMA LedgerCommit ==
    ASSUME LedgerInv, Commit
    PROVE  LedgerInv'
<1>1. call.at = "send" /\ UNCHANGED sent
    BY DEF Commit
<1>2. CASE recorded' = recorded \cup call.rows /\ call' = [call EXCEPT !.at = "answered"] /\ UNCHANGED used
  <2>1. /\ DOMAIN call' = CallFields /\ call'.at = "answered" /\ call'.n = call.n /\ call'.v = call.v
        /\ call'.rows = call.rows /\ call'.told = call.told
      BY <1>2 DEF LedgerInv, OtaShape, CallFields
  <2>2. \A c : Row(c)' = Row(c) /\ Row(c).n = call.n
      BY <2>1 DEF Row
  <2>3. call.rows = {Row(c) : c \in call.told} /\ call.rows \subseteq sent
      BY <1>1 DEF LedgerInv, Pending
  <2>4. \A e \in call.rows : e.n = call.n
      BY <2>2, <2>3
  <2>5. call.n = used["calls"] /\ call.n \in Nat /\ \A e \in recorded : e.n \in Nat /\ e.n < call.n
      BY <1>1 DEF LedgerInv, Numbered, OtaShape
  <2>6. OtaShape' /\ Numbered'
      BY <1>2, <2>1, <2>4, <2>5 DEF LedgerInv, OtaShape, Numbered
  <2>7. {e \in recorded' : e.n = call'.n} = call.rows
      BY <1>2, <2>1, <2>4, <2>5
  <2>8. call.rows = {Row(c)' : c \in call'.told}
      BY <2>1, <2>2, <2>3
  <2>9. recorded' \subseteq sent'
      BY <1>1, <1>2, <2>3 DEF LedgerInv, LedgerIsTrue
  <2>10. LedgerIsTrue'
      BY <2>7, <2>8, <2>9 DEF LedgerIsTrue
  <2>11. Pending'
      BY <2>1 DEF Pending
  <2>. QED  BY <2>6, <2>10, <2>11 DEF LedgerInv
<1>3. CASE call' = NoCall /\ Use("faults", MaxOtaFaults) /\ UNCHANGED recorded
    BY <1>1, <1>3, CallEnds, UseKeepsCalls DEF LedgerInv
<1>. QED  BY <1>2, <1>3 DEF Commit

\* What the steps apart from a call's leave as it is.
LEMMA OtherSteps ==
    ASSUME LedgerInv,
           UNCHANGED <<call, sent, recorded>>,
           UNCHANGED used \/ Use("faults", MaxOtaFaults) \/ Use("clicks", MaxDialogClicks)
    PROVE  LedgerInv'
<1>1. DOMAIN used' = Budgets /\ used'["calls"] = used["calls"]
    BY UseKeepsCalls DEF LedgerInv, OtaShape
<1>. QED  BY <1>1, Frame

LEMMA LedgerNext == LedgerInv /\ [OtaNext]_otaVars => LedgerInv'
<1>. SUFFICES ASSUME LedgerInv, [OtaNext]_otaVars PROVE LedgerInv'
    OBVIOUS
<1>. USE DEF catalog, field
<1>1. ASSUME NEW v \in Versions, StoreObject(v) \/ InsertRelease(v) \/ Deactivate(v) PROVE LedgerInv'
    BY <1>1, OtherSteps DEF StoreObject, InsertRelease, Deactivate
<1>2. ASSUME NEW v \in Versions, DispatchToGroup(v) PROVE LedgerInv'
    BY <1>2, LedgerAsk DEF DispatchToGroup
<1>3. ASSUME NEW v \in Versions, NEW d \in Devices, Dispatch(v, d) PROVE LedgerInv'
    BY <1>3, LedgerAsk DEF Dispatch
<1>4. ASSUME NEW d \in Devices, SdkDownload(d) PROVE LedgerInv'
  <2>1. UNCHANGED <<call, sent, recorded>> /\ (UNCHANGED used \/ Use("faults", MaxOtaFaults))
      BY <1>4 DEF SdkDownload
  <2>. QED  BY <2>1, OtherSteps
<1>5. CASE Crash
    BY <1>5, CallEnds, UseKeepsCalls DEF Crash, LedgerInv
<1>6. CASE TakeCommand
    BY <1>6, OtherSteps DEF TakeCommand
<1>7. ASSUME NEW t \in DOMAIN threads, Open(t) \/ Write(t) \/ Check(t) \/ Break(t) PROVE LedgerInv'
  <2>1. UNCHANGED <<call, sent, recorded>> /\ (UNCHANGED used \/ Use("faults", MaxOtaFaults))
      BY <1>7 DEF Open, Write, Check, Break
  <2>. QED  BY <2>1, OtherSteps
<1>8. CASE Finish
  <2>1. UNCHANGED <<call, sent, recorded>> /\ (UNCHANGED used \/ Use("faults", MaxOtaFaults))
      BY <1>8 DEF Finish
  <2>. QED  BY <2>1, OtherSteps
<1>9. CASE CloseDialog \/ RemoveDevice \/ TakeLeftover \/ Exit \/ AddDevice
  <2>1. UNCHANGED <<call, sent, recorded>> /\ (UNCHANGED used \/ Use("clicks", MaxDialogClicks))
      BY <1>9 DEF CloseDialog, RemoveDevice, TakeLeftover, Exit, AddDevice
  <2>. QED  BY <2>1, OtherSteps
<1>10. CASE UNCHANGED otaVars
    BY <1>10, OtherSteps DEF otaVars
<1>. QED  BY <1>1, <1>2, <1>3, <1>4, <1>5, <1>6, <1>7, <1>8, <1>9, <1>10, LedgerPublish, LedgerRecord, LedgerCommit DEF OtaNext

\* A row of ota_events is the trace of a command the broker took, and an answer to a
\* dispatch tells exactly the devices that have a row (dispatch_ota, dispatch_ota_to_group).
THEOREM LedgerIsAlwaysTrue == OtaSpec => []LedgerIsTrue
<1>1. LedgerInv => LedgerIsTrue
    BY DEF LedgerInv
<1>. QED  BY LedgerInit, LedgerNext, <1>1, PTL DEF OtaSpec

-----------------------------------------------------------------------------
(* The file of a version, on the disk of the simulator's device. *)

Event == [kind : {"start", "done", "failed", "left"}, v : Versions]
Download == [v : Versions, at : {"get", "write"}, done : {0, 1, 2}, good : BOOLEAN, mine : BOOLEAN, held : BOOLEAN,
             linked : BOOLEAN]
Running == [on : BOOLEAN, version : Versions \cup {"default"}, saved : Versions \cup {"default"}, dialog : BOOLEAN]
Inbox == queue["simulator"]
Image == file["simulator"]
FieldTypes ==
    /\ queue \in [Devices -> Seq(Event)] /\ file \in [Devices -> [{1, 2} -> Versions \cup {"none", "bad"}]]
    /\ app \in Running /\ threads \in Seq(Download)

\* There is one download, or its outcome, behind the dialog, and none when the window is closed
\* or the device removed.
OneDownload ==
    /\ Len(threads) <= 1
    /\ Len(threads) = 1 => app.on /\ app.dialog /\ \A i \in 1..Len(Inbox) : Inbox[i].kind \notin {"done", "failed"}
    /\ \A i \in 1..Len(Inbox) : Inbox[i].kind \in {"done", "failed"} => app.dialog
    /\ \A i, j \in 1..Len(Inbox) : Inbox[i].kind \in {"done", "failed"} /\ Inbox[j].kind \in {"done", "failed"} => i = j
    /\ ~app.on => \A i \in 1..Len(Inbox) : Inbox[i].kind = "left"

\* What it has written so far is in the file, unless the data was wrong.
Written ==
    Len(threads) = 1 =>
      /\ threads[1].mine /\ threads[1].linked
      /\ threads[1].at = "get" => threads[1].done = 0
      /\ threads[1].good => \A c \in {1, 2} : c <= threads[1].done => Image[c] = threads[1].v
Arrived == \A i \in 1..Len(Inbox) : Inbox[i].kind = "done" => \A c \in {1, 2} : Image[c] = Inbox[i].v

FieldInv == FieldTypes /\ OneDownload /\ Written /\ Arrived
CallInv == DOMAIN call = {"at", "n", "dev", "v", "group", "todo", "rows", "told"} /\ (call.at # "none" => call.v \in Versions)
FileInv == CallInv /\ (~loose => FieldInv)
Takes(v) == app.on /\ app'.on /\ app.version # v /\ app'.version = v
WholeStep == \A v \in Versions : Takes(v) => loose \/ file'["simulator"] = [c \in {1, 2} |-> v]

LEMMA SimulatorIsThere == "simulator" \in Devices /\ "default" \notin Versions
BY OtaAssumption

\* The invariant holds at the start.
LEMMA FileInvInit == OtaInit => FileInv
<1>. SUFFICES ASSUME OtaInit PROVE FileInv
  OBVIOUS
<1>1. CallInv
  BY DEF OtaInit, NoCall, CallInv
<1>2. FieldTypes
  <2>1. Empty \in [{1, 2} -> Versions \cup {"none", "bad"}]
    BY DEF Empty
  <2>2. <<>> \in Seq(Event) /\ <<>> \in Seq(Download)
    OBVIOUS
  <2>. QED  BY <2>1, <2>2 DEF OtaInit, FieldTypes, Running
<1>3. Len(threads) = 0 /\ Len(Inbox) = 0 /\ app.on
  BY SimulatorIsThere DEF OtaInit, Inbox
<1>4. OneDownload /\ Written /\ Arrived
  BY <1>3 DEF OneDownload, Written, Arrived
<1>. QED  BY <1>1, <1>2, <1>4 DEF FileInv, FieldInv

\* A step that does not touch the simulator.
LEMMA FieldStays ==
    ASSUME FieldInv, FieldTypes', UNCHANGED <<app, threads>>, Inbox' = Inbox, Image' = Image
    PROVE  FieldInv'
BY DEF FieldInv, OneDownload, Written, Arrived

\* A command joins the events of the simulator.
LEMMA CommandJoins ==
    ASSUME FieldInv, FieldTypes', UNCHANGED <<app, threads>>, Image' = Image, app.on,
           NEW e \in Event, e.kind = "start", Inbox' = Append(Inbox, e)
    PROVE  FieldInv'
<1>1. Inbox \in Seq(Event)
  BY SimulatorIsThere DEF FieldInv, FieldTypes, Inbox
<1>2. /\ Len(Inbox') = Len(Inbox) + 1 /\ Inbox'[Len(Inbox) + 1] = e
      /\ \A i \in 1..Len(Inbox) : Inbox'[i] = Inbox[i]
  BY <1>1
<1>3. \A i \in 1..Len(Inbox') : Inbox'[i].kind \in {"done", "failed"} => i \in 1..Len(Inbox) /\ Inbox'[i] = Inbox[i]
  BY <1>1, <1>2
<1>4. OneDownload' /\ Arrived'
  <2>1. OneDownload /\ Arrived
    BY DEF FieldInv
  <2>. QED  BY <1>1, <1>2, <1>3, <2>1 DEF OneDownload, Arrived
<1>. QED  BY <1>4 DEF FieldInv, Written

\* The first event is taken.
LEMMA TailOf ==
    ASSUME FieldTypes, Len(Inbox) > 0 \/ Inbox # <<>>, Inbox' = Tail(Inbox)
    PROVE  /\ Len(Inbox') = Len(Inbox) - 1 /\ Len(Inbox) >= 1 /\ Len(Inbox) \in Nat
           /\ \A i \in 1..Len(Inbox') : Inbox'[i] = Inbox[i + 1] /\ i + 1 \in 1..Len(Inbox)
           /\ Head(Inbox) = Inbox[1] /\ Inbox[1] \in Event /\ Inbox' \in Seq(Event)
<1>1. Inbox \in Seq(Event)
  BY SimulatorIsThere DEF FieldTypes, Inbox
<1>. QED  BY <1>1

LEMMA NoCallOk == DOMAIN NoCall = {"at", "n", "dev", "v", "group", "todo", "rows", "told"} /\ NoCall.at = "none"
BY DEF NoCall

\* Here and below: a call keeps its version until it ends.
LEMMA GivesUpKeepsVersion ==
    ASSUME CallInv, call.at # "none", NEW d, call' = GivesUp(d)
    PROVE  CallInv'
BY NoCallOk DEF CallInv, GivesUp

LEMMA AskTyped ==
    ASSUME NEW v \in Versions, NEW ds, NEW group, Ask(v, ds, group)
    PROVE  CallInv'
<1>1. call' = [NoCall EXCEPT !.at = "send", !.n = used.calls + 1, !.v = v, !.group = group, !.todo = ds]
  BY DEF Ask
<1>. QED  BY <1>1, NoCallOk DEF CallInv

LEMMA RecordTyped == ASSUME CallInv, NEW d, Record(d) PROVE CallInv'
<1>1. call.at = "record"
  BY DEF Record
<1>2. CASE call' = [call EXCEPT !.at = "send", !.dev = "none", !.todo = @ \ {d},
                                !.rows = @ \cup {Row(d)}, !.told = @ \cup {d}]
  BY <1>1, <1>2 DEF CallInv
<1>. QED  BY <1>1, <1>2, GivesUpKeepsVersion DEF Record

LEMMA EndTyped == ASSUME CallInv, Commit \/ Crash PROVE CallInv'
<1>1. CASE Commit
  <2>1. call.at = "send" /\ (call' = [call EXCEPT !.at = "answered"] \/ call' = NoCall)
    BY <1>1 DEF Commit
  <2>. QED  BY <2>1, NoCallOk DEF CallInv
<1>2. CASE Crash
  BY <1>2, NoCallOk DEF CallInv, Crash
<1>. QED  BY <1>1, <1>2

\* A step that does not take a version into use.
LEMMA SameVersion == ASSUME app' = app PROVE WholeStep
BY DEF WholeStep, Takes

\* A step on the platform's side alone, or a stutter.
LEMMA AsideKeeps ==
    ASSUME FileInv, CallInv', UNCHANGED field
    PROVE  FileInv' /\ WholeStep
<1>1. FieldInv => FieldInv'
  BY DEF field, FieldInv, FieldTypes, OneDownload, Written, Arrived, Inbox, Image
<1>. QED  BY <1>1, SameVersion DEF field, FileInv

\* What a device is sent.
LEMMA DeliverKeeps ==
    ASSUME FieldInv, CallInv, call.at # "none", NEW d \in Devices, Deliver(d), UNCHANGED <<file, app, threads>>
    PROVE  FieldInv'
<1>1. CASE UNCHANGED queue
  BY <1>1 DEF FieldInv, FieldTypes, OneDownload, Written, Arrived, Inbox, Image
<1>2. CASE (d # "simulator" \/ app.on) /\ queue' = [queue EXCEPT ![d] = Append(@, [kind |-> "start", v |-> call.v])]
  <2>1. PICK e : e = [kind |-> "start", v |-> call.v]
    OBVIOUS
  <2>2. e \in Event /\ e.kind = "start"
    BY <2>1 DEF Event, CallInv
  <2>3. queue' = [queue EXCEPT ![d] = Append(queue[d], e)] /\ queue \in [Devices -> Seq(Event)]
    BY <1>2, <2>1 DEF FieldInv, FieldTypes
  <2>4. FieldTypes'
    BY <2>2, <2>3 DEF FieldInv, FieldTypes
  <2>5. Image' = Image
    BY DEF Image
  <2>6. CASE d = "simulator"
    <3>1. app.on /\ Inbox' = Append(Inbox, e)
      BY <1>2, <2>3, <2>6, SimulatorIsThere DEF Inbox
    <3>. QED  BY <2>2, <2>4, <2>5, <3>1, CommandJoins
  <2>7. CASE d # "simulator"
    <3>1. Inbox' = Inbox
      BY <2>3, <2>7, SimulatorIsThere DEF Inbox
    <3>. QED  BY <2>4, <2>5, <3>1, FieldStays
  <2>. QED  BY <2>6, <2>7
<1>. QED  BY <1>1, <1>2 DEF Deliver

\* Each step keeps the invariant: here and below, one lemma for each action.
LEMMA PublishKeeps ==
    ASSUME FileInv, NEW d \in Devices, Publish(d) PROVE FileInv' /\ WholeStep
<1>1. call.at # "none" /\ UNCHANGED <<file, app, threads, loose>> /\ (Deliver(d) \/ UNCHANGED queue)
  BY DEF Publish
<1>2. CallInv'
  <2>1. CallInv
    BY DEF FileInv
  <2>2. CASE call' = [call EXCEPT !.at = "record", !.dev = d]
    BY <1>1, <2>1, <2>2 DEF CallInv
  <2>. QED  BY <1>1, <2>1, <2>2, GivesUpKeepsVersion DEF Publish
<1>3. FieldInv => FieldInv'
  BY <1>1, DeliverKeeps DEF Deliver, FileInv
<1>. QED  BY <1>1, <1>2, <1>3, SameVersion DEF FileInv

LEMMA SdkDownloadKeeps ==
    ASSUME FileInv, NEW d \in Devices, SdkDownload(d) PROVE FileInv' /\ WholeStep
<1>1. /\ d # "simulator" /\ Took(d) /\ UNCHANGED <<app, threads, loose, call>>
      /\ \E f : file' = [file EXCEPT ![d] = f] /\ (f = [c \in {1, 2} |-> Head(queue[d]).v] \/ f \in Spoiled(d, Head(queue[d]).v))
  BY DEF SdkDownload, catalog
<1>2. ASSUME FieldInv PROVE FieldInv'
  <2>1. queue[d] # <<>> /\ queue[d] \in Seq(Event) /\ queue' = [queue EXCEPT ![d] = Tail(queue[d])]
    BY <1>1, <1>2 DEF Took, FieldInv, FieldTypes
  <2>2. PICK v : v = Head(queue[d]).v
    OBVIOUS
  <2>3. v \in Versions /\ Tail(queue[d]) \in Seq(Event)
    <3>1. Head(queue[d]) \in Event /\ Tail(queue[d]) \in Seq(Event)
      BY <2>1
    <3>. QED  BY <2>2, <3>1 DEF Event
  <2>4. PICK f : file' = [file EXCEPT ![d] = f] /\ (f = [c \in {1, 2} |-> v] \/ f \in Spoiled(d, v))
    BY <1>1, <2>2
  <2>5. f \in [{1, 2} -> Versions \cup {"none", "bad"}]
    <3>1. Empty \in [{1, 2} -> Versions \cup {"none", "bad"}]
      BY DEF Empty
    <3>2. file[d] \in [{1, 2} -> Versions \cup {"none", "bad"}]
      BY <1>2 DEF FieldInv, FieldTypes
    <3>3. PICK part : part = [Empty EXCEPT ![1] = v]
      OBVIOUS
    <3>4. part \in [{1, 2} -> Versions \cup {"none", "bad"}]
      BY <2>3, <3>1, <3>3
    <3>5. [part EXCEPT ![2] = "bad"] \in [{1, 2} -> Versions \cup {"none", "bad"}]
      BY <3>4
    <3>6. f = [c \in {1, 2} |-> v] \/ f \in {file[d], Empty, part, [part EXCEPT ![2] = "bad"]}
      BY <2>4, <3>3 DEF Spoiled
    <3>. QED  BY <2>3, <3>1, <3>2, <3>4, <3>5, <3>6
  <2>6. FieldTypes'
    BY <1>1, <1>2, <2>1, <2>3, <2>4, <2>5 DEF FieldInv, FieldTypes
  <2>7. Inbox' = Inbox /\ Image' = Image
    BY <1>1, <1>2, <2>1, <2>4, SimulatorIsThere DEF Inbox, Image, FieldInv, FieldTypes
  <2>. QED  BY <1>1, <1>2, <2>6, <2>7, FieldStays
<1>3. CallInv'
  BY <1>1 DEF FileInv, CallInv
<1>. QED  BY <1>1, <1>2, <1>3, SameVersion DEF FileInv

\* A step on the devices' side leaves the calls alone.
LEMMA FieldStep ==
    ASSUME FileInv, call' = call, ~loose' => ~loose, FieldInv /\ ~loose' => FieldInv', FieldInv /\ ~loose => WholeStep
    PROVE  FileInv' /\ WholeStep
<1>1. loose => WholeStep
  BY DEF WholeStep
<1>. QED  BY <1>1 DEF FileInv, CallInv

\* The command is off the queue, and the event with it.
LEMMA TookOf ==
    ASSUME FieldTypes, Took("simulator")
    PROVE  /\ Len(Inbox') = Len(Inbox) - 1 /\ Len(Inbox) >= 1 /\ Len(Inbox) \in Nat
           /\ \A i \in 1..Len(Inbox') : Inbox'[i] = Inbox[i + 1] /\ i + 1 \in 1..Len(Inbox)
           /\ Head(Inbox) = Inbox[1] /\ Inbox[1] \in Event /\ Inbox[1].kind = "start"
           /\ queue' \in [Devices -> Seq(Event)]
<1>1. Inbox # <<>> /\ Inbox' = Tail(Inbox) /\ Head(Inbox).kind = "start"
      /\ queue' = [queue EXCEPT !["simulator"] = Tail(Inbox)]
  BY SimulatorIsThere DEF Took, Inbox, FieldTypes
<1>2. Inbox' \in Seq(Event)
  BY <1>1, TailOf
<1>. QED  BY <1>1, <1>2, TailOf DEF FieldTypes

\* A download that begins.
LEMMA NewThreadOk ==
    ASSUME NEW v \in Versions
    PROVE  LET h == NewThread(v) IN h \in Download /\ h.v = v /\ h.at = "get" /\ h.done = 0 /\ h.mine /\ h.linked
BY DEF NewThread, Download

LEMMA TakeCommandKeeps == ASSUME FileInv, TakeCommand PROVE FileInv' /\ WholeStep
<1>1. /\ Took("simulator") /\ UNCHANGED <<file, loose, call>>
      /\ IF app.dialog THEN UNCHANGED <<threads, app>>
         ELSE /\ threads' = Append(threads, NewThread(Head(Inbox).v))
              /\ app' = [app EXCEPT !.dialog = TRUE]
  BY DEF TakeCommand, Skips, catalog, Inbox
<1>2. ASSUME FieldInv PROVE FieldInv' /\ WholeStep
  <2>1. FieldTypes /\ OneDownload /\ Written /\ Arrived
    BY <1>2 DEF FieldInv
  <2>2. /\ Len(Inbox') = Len(Inbox) - 1 /\ Len(Inbox) >= 1 /\ Len(Inbox) \in Nat
        /\ \A i \in 1..Len(Inbox') : Inbox'[i] = Inbox[i + 1] /\ i + 1 \in 1..Len(Inbox)
        /\ Head(Inbox) = Inbox[1] /\ Inbox[1] \in Event /\ Inbox[1].kind = "start"
        /\ queue' \in [Devices -> Seq(Event)]
    BY <1>1, <2>1, TookOf
  <2>3. app.on /\ Image' = Image
    <3>1. 1 \in 1..Len(Inbox)
      BY <2>2
    <3>2. app.on
      BY <2>1, <2>2, <3>1 DEF OneDownload
    <3>. QED  BY <1>1, <3>2 DEF Image
  <2>4. CASE app.dialog
    <3>1. FieldTypes' /\ UNCHANGED <<app, threads>>
      BY <1>1, <2>1, <2>2, <2>4 DEF FieldTypes
    <3>2. OneDownload'
      <4>1. \A i \in 1..Len(Inbox') : Inbox'[i].kind \in {"done", "failed"} => app'.dialog
        BY <2>4, <3>1
      <4>2. ASSUME NEW i \in 1..Len(Inbox'), NEW j \in 1..Len(Inbox'),
                   Inbox'[i].kind \in {"done", "failed"}, Inbox'[j].kind \in {"done", "failed"}
            PROVE  i = j
        <5>1. i + 1 \in 1..Len(Inbox) /\ j + 1 \in 1..Len(Inbox) /\ Inbox'[i] = Inbox[i + 1] /\ Inbox'[j] = Inbox[j + 1]
          BY <2>2
        <5>2. i + 1 = j + 1
          BY <2>1, <4>2, <5>1 DEF OneDownload
        <5>. QED  BY <5>2
      <4>3. Len(threads) = 1 => \A i \in 1..Len(Inbox') : Inbox'[i].kind \notin {"done", "failed"}
        BY <2>1, <2>2 DEF OneDownload
      <4>. QED  BY <2>1, <2>3, <2>4, <3>1, <4>1, <4>2, <4>3 DEF OneDownload
    <3>3. Written' /\ Arrived'
      BY <2>1, <2>2, <2>3, <3>1 DEF Written, Arrived
    <3>. QED  BY <3>1, <3>2, <3>3, SameVersion DEF FieldInv
  <2>5. CASE ~app.dialog
    <3>1. PICK h : h = NewThread(Inbox[1].v)
      OBVIOUS
    <3>2. Inbox[1].v \in Versions
      BY <2>2 DEF Event
    <3>3. h \in Download /\ h.at = "get" /\ h.done = 0 /\ h.mine /\ h.linked
      BY <3>1, <3>2, NewThreadOk
    <3>4. Len(threads) = 0 /\ threads \in Seq(Download) /\ threads' = Append(threads, h)
      <4>1. threads \in Seq(Download) /\ Len(threads) <= 1 /\ Len(threads) # 1
        BY <2>1, <2>5 DEF OneDownload, FieldTypes
      <4>2. Len(threads) \in Nat
        BY <4>1
      <4>3. threads' = Append(threads, h)
        BY <1>1, <2>2, <2>5, <3>1
      <4>4. Len(threads) = 0
        <5>1. PICK n \in Nat : n = Len(threads)
          BY <4>2
        <5>. QED  BY <4>1, <5>1
      <4>. QED  BY <4>1, <4>3, <4>4
    <3>5. threads' \in Seq(Download) /\ Len(threads') = 1 /\ threads'[1] = h
      BY <3>3, <3>4
    <3>6. /\ app' \in Running /\ app'.dialog /\ app'.on /\ app'.version = app.version
      BY <1>1, <2>1, <2>3, <2>5 DEF FieldTypes, Running
    <3>7. FieldTypes'
      BY <1>1, <2>1, <2>2, <3>5, <3>6 DEF FieldTypes
    <3>8. \A i \in 1..Len(Inbox') : Inbox'[i].kind \notin {"done", "failed"}
      BY <2>1, <2>2, <2>5 DEF OneDownload
    <3>9. OneDownload' /\ Arrived'
      BY <3>5, <3>6, <3>8 DEF OneDownload, Arrived
    <3>10. Written'
      <4>1. \A c \in {1, 2} : ~(c <= h.done)
        BY <3>3
      <4>. QED  BY <3>3, <3>5, <4>1 DEF Written
    <3>11. WholeStep
      BY <3>6 DEF WholeStep, Takes
    <3>. QED  BY <3>7, <3>9, <3>10, <3>11 DEF FieldInv
  <2>. QED  BY <2>4, <2>5
<1>. QED  BY <1>1, <1>2, FieldStep

\* The thread that runs is the first.
LEMMA TheThread ==
    ASSUME FieldInv, NEW t \in DOMAIN threads
    PROVE  /\ t = 1 /\ Len(threads) = 1 /\ threads[1] \in Download /\ app.on /\ app.dialog
           /\ threads \in [1..1 -> Download] /\ threads \in Seq(Download) /\ threads[1].mine /\ threads[1].linked
           /\ \A i \in 1..Len(Inbox) : Inbox[i].kind \notin {"done", "failed"}
<1>1. threads \in Seq(Download) /\ Len(threads) <= 1
  BY DEF FieldInv, FieldTypes, OneDownload
<1>2. t \in 1..Len(threads) /\ Len(threads) \in Nat
  BY <1>1
<1>3. t = 1 /\ Len(threads) = 1
  <2>1. PICK n \in Nat : n = Len(threads)
    BY <1>2
  <2>2. t \in 1..n /\ n <= 1
    BY <1>1, <1>2, <2>1
  <2>3. t = 1 /\ n = 1
    BY <2>2
  <2>. QED  BY <2>1, <2>3
<1>4. /\ app.on /\ app.dialog /\ threads[1].mine /\ threads[1].linked
      /\ \A i \in 1..Len(Inbox) : Inbox[i].kind \notin {"done", "failed"}
  BY <1>3, Zenon DEF FieldInv, OneDownload, Written
<1>5. threads[1] \in Download /\ threads \in [1..1 -> Download]
  <2>1. PICK q : q = threads
    OBVIOUS
  <2>2. q \in Seq(Download) /\ Len(q) = 1
    BY <1>1, <1>3, <2>1
  <2>3. q[1] \in Download /\ q \in [1..1 -> Download]
    BY <2>2
  <2>. QED  BY <2>1, <2>3
<1>. QED  BY <1>1, <1>3, <1>4, <1>5

LEMMA OneLong ==
    ASSUME NEW S, NEW q \in [1..1 -> S] PROVE q \in Seq(S) /\ Len(q) = 1
<1>1. q \in Seq(S)
  BY SeqDef
<1>2. PICK n \in Nat : n = Len(q)
  BY <1>1
<1>3. DOMAIN q = 1..n /\ DOMAIN q = 1..1
  BY <1>1, <1>2
<1>4. 1 \in 1..n /\ (n > 1 => n \in 1..n) /\ ~(n > 1 /\ n \in 1..1)
  BY <1>3
<1>5. n = 1
  BY <1>3, <1>4
<1>. QED  BY <1>1, <1>2, <1>5

\* A step of the thread that runs, to h, with the file as given.
LEMMA ThreadGoesOn ==
    ASSUME FieldInv, NEW t \in DOMAIN threads, NEW h \in Download, threads' = [threads EXCEPT ![t] = h],
           h.mine, h.linked, h.at = "get" => h.done = 0,
           UNCHANGED <<queue, app>>, file' \in [Devices -> [{1, 2} -> Versions \cup {"none", "bad"}]],
           h.good => \A c \in {1, 2} : c <= h.done => Image'[c] = h.v
    PROVE  FieldInv' /\ WholeStep
<1>1. /\ t = 1 /\ threads \in [1..1 -> Download] /\ Len(threads) = 1 /\ threads \in Seq(Download)
      /\ \A i \in 1..Len(Inbox) : Inbox[i].kind \notin {"done", "failed"}
  BY TheThread
<1>2. threads' \in Seq(Download) /\ Len(threads') = 1 /\ threads'[1] = h
  <2>1. threads' \in [1..1 -> Download] /\ threads'[1] = h
    BY <1>1
  <2>. QED  BY <2>1, OneLong
<1>3. FieldTypes' /\ Inbox' = Inbox
  BY <1>2 DEF FieldInv, FieldTypes, Inbox
<1>4. OneDownload' /\ Arrived'
  BY <1>1, <1>2, <1>3 DEF FieldInv, OneDownload, Arrived
<1>5. Written'
  BY <1>2 DEF Written
<1>. QED  BY <1>3, <1>4, <1>5, SameVersion DEF FieldInv

LEMMA OpenKeeps == ASSUME FileInv, NEW t \in DOMAIN threads, Open(t) PROVE FileInv' /\ WholeStep
<1>1. /\ threads[t].at = "get" /\ threads' = [threads EXCEPT ![t].at = "write", ![t].linked = TRUE]
      /\ file' = [file EXCEPT !["simulator"] = Empty] /\ UNCHANGED <<call, queue, app, loose>>
  BY DEF Open, catalog
<1>2. ASSUME FieldInv PROVE FieldInv' /\ WholeStep
  <2>1. PICK h : h = [threads[t] EXCEPT !.at = "write", !.linked = TRUE]
    OBVIOUS
  <2>2. threads[t] \in Download /\ threads[t].done = 0 /\ threads[t].mine /\ t = 1
    BY <1>1, <1>2, TheThread DEF FieldInv, Written
  <2>3. h \in Download /\ h.mine /\ h.linked /\ h.at = "write" /\ h.done = 0
    BY <2>1, <2>2 DEF Download
  <2>4. threads' = [threads EXCEPT ![t] = h]
    BY <1>1, <2>1
  <2>5. file' \in [Devices -> [{1, 2} -> Versions \cup {"none", "bad"}]]
    BY <1>1, <1>2 DEF FieldInv, FieldTypes, Empty
  <2>6. h.good => \A c \in {1, 2} : c <= h.done => Image'[c] = h.v
    BY <2>3
  <2>7. (h.at = "get" => h.done = 0) /\ UNCHANGED <<queue, app>>
    BY <1>1, <2>3
  <2>. QED  BY <1>2, <2>3, <2>4, <2>5, <2>6, <2>7, ThreadGoesOn
<1>. QED  BY <1>1, <1>2, FieldStep

LEMMA WriteKeeps == ASSUME FileInv, NEW t \in DOMAIN threads, Write(t) PROVE FileInv' /\ WholeStep
<1>1. PICK good \in BOOLEAN :
        /\ threads' = [threads EXCEPT ![t].done = @ + 1, ![t].good = @ /\ good]
        /\ file' = IF threads[t].linked
                   THEN [file EXCEPT !["simulator"][threads[t].done + 1] = IF good THEN threads[t].v ELSE "bad"] ELSE file
  BY DEF Write
<1>2. threads[t].at = "write" /\ threads[t].done < 2 /\ UNCHANGED <<call, queue, app, loose>>
  BY DEF Write, catalog
<1>3. ASSUME FieldInv PROVE FieldInv' /\ WholeStep
  <2>1. PICK h : h = [threads[t] EXCEPT !.done = @ + 1, !.good = @ /\ good]
    OBVIOUS
  <2>2. threads[t] \in Download /\ threads[t].mine /\ threads[t].linked /\ t = 1
    BY <1>3, TheThread
  <2>3. /\ h \in Download /\ h.mine /\ h.linked /\ h.at = "write" /\ h.done = threads[t].done + 1 /\ h.v = threads[t].v
        /\ h.good = (threads[t].good /\ good)
    <3>1. threads[t].done + 1 \in {0, 1, 2} /\ (threads[t].good /\ good) \in BOOLEAN
      BY <1>2, <2>2 DEF Download
    <3>2. PICK n, b : n = threads[t].done + 1 /\ b = (threads[t].good /\ good)
      OBVIOUS
    <3>3. h = [threads[t] EXCEPT !.done = n, !.good = b]
      BY <2>1, <3>2
    <3>4. h \in Download /\ h.mine /\ h.linked /\ h.at = "write" /\ h.done = n /\ h.v = threads[t].v /\ h.good = b
      BY <1>2, <2>2, <3>1, <3>2, <3>3 DEF Download
    <3>. QED  BY <3>2, <3>4
  <2>4. threads' = [threads EXCEPT ![t] = h]
    BY <1>1, <2>1
  <2>5. PICK x : x = IF good THEN h.v ELSE "bad"
    OBVIOUS
  <2>6. x \in Versions \cup {"none", "bad"}
    BY <2>3, <2>5 DEF Download
  <2>7. PICK k : k = threads[t].done + 1
    OBVIOUS
  <2>8. k \in {1, 2}
    BY <1>2, <2>2, <2>7 DEF Download
  <2>9. Image \in [{1, 2} -> Versions \cup {"none", "bad"}]
    BY <1>3, SimulatorIsThere DEF FieldInv, FieldTypes, Image
  <2>10. file' = [file EXCEPT !["simulator"] = [Image EXCEPT ![k] = x]]
    BY <1>1, <2>2, <2>3, <2>5, <2>7 DEF Image
  <2>11. Image' = [Image EXCEPT ![k] = x] /\ file' \in [Devices -> [{1, 2} -> Versions \cup {"none", "bad"}]]
    BY <1>3, <2>6, <2>8, <2>9, <2>10, SimulatorIsThere DEF FieldInv, FieldTypes, Image
  <2>12. ASSUME h.good, NEW c \in {1, 2}, c <= h.done PROVE Image'[c] = h.v
    <3>1. threads[t].good /\ good
      BY <2>3, <2>12
    <3>2. CASE c = k
      BY <2>5, <2>9, <2>11, <3>1, <3>2
    <3>3. CASE c # k
      <4>1. threads[1].done \in {0, 1, 2} /\ c <= threads[1].done
        BY <2>2, <2>3, <2>7, <2>8, <2>12, <3>3 DEF Download
      <4>2. Image[c] = h.v
        BY <1>3, <2>2, <2>3, <3>1, <4>1, TheThread DEF FieldInv, Written
      <4>. QED  BY <2>9, <2>11, <3>3, <4>2
    <3>. QED  BY <3>2, <3>3
  <2>. QED  BY <1>2, <1>3, <2>3, <2>4, <2>11, <2>12, ThreadGoesOn
<1>. QED  BY <1>2, <1>3, FieldStep

\* The thread ends, and its outcome joins the events.
LEMMA PostKeeps ==
    ASSUME FieldInv, NEW t \in DOMAIN threads, NEW what \in {"done", "failed"}, Post(t, what), UNCHANGED <<file, app>>,
           what = "done" => \A c \in {1, 2} : Image[c] = threads[t].v
    PROVE  FieldInv' /\ WholeStep
<1>1. /\ t = 1 /\ threads \in Seq(Download) /\ Len(threads) = 1 /\ threads[1] \in Download /\ app.on /\ app.dialog
      /\ threads[1].mine /\ \A i \in 1..Len(Inbox) : Inbox[i].kind \notin {"done", "failed"}
  BY TheThread
<1>2. PICK e : e = [kind |-> what, v |-> threads[1].v]
  OBVIOUS
<1>3. e \in Event /\ e.kind = what /\ e.v = threads[1].v
  BY <1>1, <1>2 DEF Event, Download
<1>4. /\ queue' = [queue EXCEPT !["simulator"] = Append(Inbox, e)] /\ threads' = Without(t)
  BY <1>1, <1>2 DEF Post, Inbox
<1>5. threads' \in Seq(Download) /\ Len(threads') = 0
  <2>1. SubSeq(threads, 1, 0) = <<>> /\ SubSeq(threads, 2, 1) = <<>>
    BY <1>1
  <2>2. threads' = SubSeq(threads, 1, 0) \o SubSeq(threads, 2, 1)
    BY <1>1, <1>4 DEF Without
  <2>. QED  BY <2>1, <2>2
<1>6. Inbox \in Seq(Event) /\ Inbox' = Append(Inbox, e)
  BY <1>4, SimulatorIsThere DEF FieldInv, FieldTypes, Inbox
<1>7. FieldTypes'
  <2>1. Append(Inbox, e) \in Seq(Event)
    BY <1>3, <1>6
  <2>2. queue \in [Devices -> Seq(Event)] /\ file \in [Devices -> [{1, 2} -> Versions \cup {"none", "bad"}]] /\ app \in Running
    BY DEF FieldInv, FieldTypes
  <2>3. queue' \in [Devices -> Seq(Event)]
    BY <1>4, <2>1, <2>2
  <2>. QED  BY <1>5, <2>2, <2>3 DEF FieldTypes
<1>8. /\ Len(Inbox') = Len(Inbox) + 1 /\ Inbox'[Len(Inbox) + 1] = e
      /\ \A i \in 1..Len(Inbox) : Inbox'[i] = Inbox[i] /\ Inbox'[i].kind \notin {"done", "failed"}
  BY <1>1, <1>6
<1>9. \A i \in 1..Len(Inbox') : Inbox'[i].kind \in {"done", "failed"} => i = Len(Inbox) + 1 /\ Inbox'[i] = e
  BY <1>6, <1>8
<1>10. OneDownload'
  BY <1>1, <1>5, <1>9 DEF OneDownload
<1>11. Arrived'
  BY <1>1, <1>3, <1>9 DEF Arrived, Image
<1>12. Written'
  BY <1>5 DEF Written
<1>. QED  BY <1>7, <1>10, <1>11, <1>12, SameVersion DEF FieldInv

LEMMA CheckKeeps == ASSUME FileInv, NEW t \in DOMAIN threads, Check(t) PROVE FileInv' /\ WholeStep
<1>1. /\ threads[t].at = "write" /\ threads[t].done = 2 /\ Post(t, IF threads[t].good THEN "done" ELSE "failed")
      /\ UNCHANGED <<call, file, app, loose>>
  BY DEF Check, catalog
<1>2. ASSUME FieldInv PROVE FieldInv' /\ WholeStep
  <2>1. t = 1 /\ Len(threads) = 1
    BY <1>2, TheThread
  <2>2. threads[t].good => \A c \in {1, 2} : Image[c] = threads[t].v
    BY <1>1, <1>2, <2>1 DEF FieldInv, Written
  <2>. QED  BY <1>1, <1>2, <2>2, PostKeeps
<1>. QED  BY <1>1, <1>2, FieldStep

LEMMA BreakKeeps == ASSUME FileInv, NEW t \in DOMAIN threads, Break(t) PROVE FileInv' /\ WholeStep
<1>1. Post(t, "failed") /\ UNCHANGED <<call, file, app, loose>>
  BY DEF Break, catalog
<1>2. ASSUME FieldInv PROVE FieldInv' /\ WholeStep
  BY <1>1, <1>2, PostKeeps
<1>. QED  BY <1>1, <1>2, FieldStep

LEMMA FinishKeeps == ASSUME FileInv, Finish PROVE FileInv' /\ WholeStep
<1>1. PICK e : e = Head(Inbox)
  OBVIOUS
<1>2. /\ Inbox # <<>> /\ e.kind \in {"done", "failed"} /\ queue' = [queue EXCEPT !["simulator"] = Tail(Inbox)]
      /\ UNCHANGED <<call, file, threads, loose>>
      /\ \E version, saved : /\ version \in {app.version, e.v} /\ saved \in {app.saved, e.v}
                             /\ e.kind # "done" => version = app.version /\ saved = app.saved
                             /\ app' = [app EXCEPT !.dialog = FALSE, !.version = version, !.saved = saved]
  <2>1. /\ Inbox # <<>> /\ e.kind \in {"done", "failed"} /\ queue' = [queue EXCEPT !["simulator"] = Tail(Inbox)]
        /\ UNCHANGED <<call, file, threads, loose>>
    BY <1>1 DEF Finish, catalog, Inbox
  <2>2. PICK version : version = IF e.kind = "done" THEN e.v ELSE app.version
    OBVIOUS
  <2>3. PICK saved : saved = IF e.kind = "done" THEN e.v ELSE app.saved
    OBVIOUS
  <2>4. CASE app' = [app EXCEPT !.dialog = FALSE, !.version = version, !.saved = IF e.kind = "done" THEN e.v ELSE @]
    BY <2>1, <2>2, <2>3, <2>4
  <2>5. CASE app' = [app EXCEPT !.dialog = FALSE, !.version = version] /\ e.kind = "done"
    <3>1. app' = [app EXCEPT !.dialog = FALSE, !.version = version, !.saved = app.saved]
      BY <2>5
    <3>. QED  BY <2>1, <2>2, <2>5, <3>1
  <2>. QED  BY <1>1, <2>2, <2>4, <2>5 DEF Finish, Inbox
<1>3. ASSUME FieldInv PROVE FieldInv' /\ WholeStep
  <2>1. Inbox' = Tail(Inbox) /\ FieldTypes /\ OneDownload /\ Written /\ Arrived
    BY <1>2, <1>3, SimulatorIsThere DEF FieldInv, FieldTypes, Inbox
  <2>2. /\ Len(Inbox') = Len(Inbox) - 1 /\ Len(Inbox) >= 1 /\ Len(Inbox) \in Nat
        /\ \A i \in 1..Len(Inbox') : Inbox'[i] = Inbox[i + 1] /\ i + 1 \in 1..Len(Inbox)
        /\ Head(Inbox) = Inbox[1] /\ Inbox[1] \in Event /\ Inbox' \in Seq(Event)
    BY <1>2, <2>1, TailOf
  <2>3. e = Inbox[1] /\ 1 \in 1..Len(Inbox) /\ e.v \in Versions
    BY <1>1, <2>2 DEF Event
  <2>4. PICK version, saved : /\ version \in {app.version, e.v} /\ saved \in {app.saved, e.v}
                              /\ e.kind # "done" => version = app.version /\ saved = app.saved
                              /\ app' = [app EXCEPT !.dialog = FALSE, !.version = version, !.saved = saved]
    BY <1>2
  <2>5. app \in Running /\ version \in Versions \cup {"default"} /\ saved \in Versions \cup {"default"}
    <3>1. app \in Running
      BY <2>1 DEF FieldTypes
    <3>. QED  BY <2>3, <2>4, <3>1 DEF Running
  <2>6. app' \in Running /\ app'.on = app.on /\ app'.version = version
    BY <2>4, <2>5 DEF Running
  <2>7. FieldTypes'
    BY <1>2, <2>1, <2>2, <2>6 DEF FieldTypes
  <2>8. \A i \in 1..Len(Inbox') : Inbox'[i].kind \notin {"done", "failed"}
    <3>1. ASSUME NEW i \in 1..Len(Inbox') PROVE Inbox'[i].kind \notin {"done", "failed"}
      <4>1. Inbox'[i] = Inbox[i + 1] /\ i + 1 \in 1..Len(Inbox) /\ i + 1 # 1
        BY <2>2
      <4>. QED  BY <1>2, <2>1, <2>3, <4>1 DEF OneDownload
    <3>. QED  BY <3>1
  <2>9. Len(threads) # 1 /\ app.on
    BY <1>2, <2>1, <2>2, <2>3, <2>5 DEF OneDownload, Running
  <2>10. OneDownload'
    BY <1>2, <2>1, <2>6, <2>8, <2>9 DEF OneDownload
  <2>11. Written' /\ Arrived'
    BY <1>2, <2>8, <2>9 DEF Written, Arrived
  <2>12. WholeStep
    <3>1. ASSUME NEW v \in Versions, Takes(v) PROVE file'["simulator"] = [c \in {1, 2} |-> v]
      <4>1. e.kind = "done" /\ v = e.v
        BY <2>4, <2>6, <3>1 DEF Takes
      <4>2. \A c \in {1, 2} : Image[c] = v
        BY <2>1, <2>3, <4>1 DEF Arrived
      <4>3. Image \in [{1, 2} -> Versions \cup {"none", "bad"}]
        BY <2>1, SimulatorIsThere DEF FieldTypes, Image
      <4>4. file'["simulator"] = Image
        BY <1>2 DEF Image
      <4>. QED  BY <4>2, <4>3, <4>4
    <3>. QED  BY <3>1 DEF WholeStep
  <2>. QED  BY <2>7, <2>10, <2>11, <2>12 DEF FieldInv
<1>. QED  BY <1>2, <1>3, FieldStep

LEMMA CloseDialogKeeps == ASSUME FileInv, CloseDialog PROVE FileInv' /\ WholeStep
<1>1. loose' /\ call' = call /\ app' = [app EXCEPT !.dialog = FALSE]
  BY DEF CloseDialog, catalog
<1>2. FieldInv => WholeStep
  BY <1>1 DEF FieldInv, FieldTypes, Running, WholeStep, Takes
<1>. QED  BY <1>1, <1>2, FieldStep

\* The window, or the device, is gone: nothing runs, and what waits is left over.
LEMMA NothingLeft ==
    ASSUME FieldTypes', Len(threads') = 0, \A i \in 1..Len(Inbox') : Inbox'[i].kind = "left"
    PROVE  FieldInv'
BY DEF FieldInv, OneDownload, Written, Arrived

LEMMA RemoveDeviceKeeps == ASSUME FileInv, RemoveDevice PROVE FileInv' /\ WholeStep
<1>1. PICK q, left : q = Inbox /\ left = [i \in 1..Len(q) |-> [kind |-> "left", v |-> q[i].v]]
  OBVIOUS
<1>2. /\ app' = [on |-> FALSE, version |-> "default", saved |-> "default", dialog |-> FALSE]
      /\ file' = [file EXCEPT !["simulator"] = Empty] /\ queue' = [queue EXCEPT !["simulator"] = left]
      /\ threads' = [t \in DOMAIN threads |-> [threads[t] EXCEPT !.held = FALSE, !.mine = FALSE, !.linked = FALSE]]
      /\ loose' = (loose \/ threads # <<>>) /\ call' = call
  BY <1>1 DEF RemoveDevice, catalog, Inbox
<1>3. ASSUME FieldInv, ~loose' PROVE FieldInv'
  <2>0. threads = <<>>
    BY <1>2, <1>3
  <2>1. threads' = <<>>
    BY <1>2, <2>0
  <2>2. q \in Seq(Event) /\ Len(q) \in Nat /\ \A i \in 1..Len(q) : q[i] \in Event
    BY <1>1, <1>3, SimulatorIsThere DEF FieldInv, FieldTypes, Inbox
  <2>3. \A i \in 1..Len(q) : left[i] \in Event /\ left[i].kind = "left"
    BY <1>1, <2>2 DEF Event
  <2>4. left \in Seq(Event) /\ Len(left) = Len(q)
    <3>1. left \in [1..Len(q) -> Event]
      BY <1>1, <2>3
    <3>. QED  BY <2>2, <3>1
  <2>5. FieldTypes' /\ Inbox' = left
    BY <1>2, <1>3, <2>1, <2>4, SimulatorIsThere DEF FieldInv, FieldTypes, Running, Inbox, Empty
  <2>. QED  BY <2>1, <2>3, <2>4, <2>5, NothingLeft
<1>4. WholeStep
  BY <1>2 DEF WholeStep, Takes
<1>. QED  BY <1>2, <1>3, <1>4, FieldStep

LEMMA TakeLeftoverKeeps == ASSUME FileInv, TakeLeftover PROVE FileInv' /\ WholeStep
<1>1. /\ Inbox # <<>> /\ queue' = [queue EXCEPT !["simulator"] = Tail(Inbox)]
      /\ UNCHANGED <<call, file, app, threads, loose>>
  BY DEF TakeLeftover, catalog, Inbox
<1>2. ASSUME FieldInv PROVE FieldInv' /\ WholeStep
  <2>1. Inbox' = Tail(Inbox) /\ FieldTypes /\ OneDownload /\ Written /\ Arrived
    BY <1>1, <1>2, SimulatorIsThere DEF FieldInv, FieldTypes, Inbox
  <2>2. /\ Len(Inbox') = Len(Inbox) - 1 /\ Len(Inbox) >= 1 /\ Len(Inbox) \in Nat
        /\ \A i \in 1..Len(Inbox') : Inbox'[i] = Inbox[i + 1] /\ i + 1 \in 1..Len(Inbox)
        /\ Inbox' \in Seq(Event)
    BY <1>1, <2>1, TailOf
  <2>3. FieldTypes' /\ Image' = Image
    BY <1>1, <2>1, <2>2 DEF FieldTypes, Image
  <2>4. OneDownload'
    BY <1>1, <2>1, <2>2 DEF OneDownload
  <2>5. Written' /\ Arrived'
    BY <1>1, <2>1, <2>2, <2>3 DEF Written, Arrived
  <2>. QED  BY <1>1, <2>3, <2>4, <2>5, SameVersion DEF FieldInv
<1>. QED  BY <1>1, <1>2, FieldStep

LEMMA ExitKeeps == ASSUME FileInv, Exit PROVE FileInv' /\ WholeStep
<1>1. /\ app' = [app EXCEPT !.on = FALSE, !.dialog = FALSE] /\ queue' = [queue EXCEPT !["simulator"] = <<>>]
      /\ threads' = <<>> /\ UNCHANGED <<call, file, loose>>
  BY DEF Exit, catalog
<1>2. ASSUME FieldInv PROVE FieldInv' /\ WholeStep
  <2>1. app' \in Running /\ ~app'.on
    BY <1>1, <1>2 DEF FieldInv, FieldTypes, Running
  <2>2. FieldTypes' /\ Inbox' = <<>>
    BY <1>1, <1>2, <2>1, SimulatorIsThere DEF FieldInv, FieldTypes, Inbox
  <2>. QED  BY <1>1, <2>1, <2>2, NothingLeft DEF WholeStep, Takes
<1>. QED  BY <1>1, <1>2, FieldStep

LEMMA AddDeviceKeeps == ASSUME FileInv, AddDevice PROVE FileInv' /\ WholeStep
<1>1. ~app.on /\ app' = [app EXCEPT !.on = TRUE, !.version = app.saved] /\ UNCHANGED <<call, queue, file, threads, loose>>
  BY DEF AddDevice, catalog
<1>2. ASSUME FieldInv PROVE FieldInv' /\ WholeStep
  <2>1. app' \in Running
    BY <1>1, <1>2 DEF FieldInv, FieldTypes, Running
  <2>2. FieldTypes' /\ Inbox' = Inbox
    BY <1>1, <1>2, <2>1 DEF FieldInv, FieldTypes, Inbox
  <2>3. (\A i \in 1..Len(Inbox) : Inbox[i].kind = "left") /\ Len(threads) # 1 /\ Len(threads) <= 1
    BY <1>1, <1>2 DEF FieldInv, OneDownload
  <2>4. OneDownload' /\ Written' /\ Arrived'
    BY <1>1, <2>2, <2>3 DEF OneDownload, Written, Arrived
  <2>5. WholeStep
    BY <1>1 DEF WholeStep, Takes
  <2>. QED  BY <2>2, <2>4, <2>5 DEF FieldInv
<1>. QED  BY <1>1, <1>2, FieldStep

\* Every step keeps the invariant, and takes no version without its file.
LEMMA FileKept == FileInv /\ [OtaNext]_otaVars => FileInv' /\ WholeStep
<1>. SUFFICES ASSUME FileInv, [OtaNext]_otaVars PROVE FileInv' /\ WholeStep
  OBVIOUS
<1>1. ASSUME NEW v \in Versions, StoreObject(v) \/ InsertRelease(v) \/ Deactivate(v) PROVE FileInv' /\ WholeStep
  <2>1. UNCHANGED <<field, call>>
    BY <1>1 DEF StoreObject, InsertRelease, Deactivate
  <2>. QED  BY <2>1, AsideKeeps DEF FileInv, CallInv
<1>2. ASSUME NEW v \in Versions, NEW ds, NEW group, Ask(v, ds, group) PROVE FileInv' /\ WholeStep
  <2>1. CallInv'
    BY <1>2, AskTyped
  <2>2. UNCHANGED field
    BY <1>2 DEF Ask
  <2>. QED  BY <2>1, <2>2, AsideKeeps
<1>3. ASSUME NEW d \in Devices, Record(d) PROVE FileInv' /\ WholeStep
  <2>1. UNCHANGED field
    BY <1>3 DEF Record
  <2>. QED  BY <1>3, <2>1, RecordTyped, AsideKeeps DEF FileInv
<1>4. CASE Commit \/ Crash
  <2>1. UNCHANGED field
    BY <1>4 DEF Commit, Crash
  <2>. QED  BY <1>4, <2>1, EndTyped, AsideKeeps DEF FileInv
<1>5. ASSUME NEW d \in Devices, Publish(d) \/ SdkDownload(d) PROVE FileInv' /\ WholeStep
  BY <1>5, PublishKeeps, SdkDownloadKeeps
<1>6. ASSUME NEW t \in DOMAIN threads, Open(t) \/ Write(t) \/ Check(t) \/ Break(t) PROVE FileInv' /\ WholeStep
  BY <1>6, OpenKeeps, WriteKeeps, CheckKeeps, BreakKeeps
<1>7. CASE TakeCommand \/ Finish \/ CloseDialog \/ RemoveDevice \/ TakeLeftover \/ Exit \/ AddDevice
  BY <1>7, TakeCommandKeeps, FinishKeeps, CloseDialogKeeps, RemoveDeviceKeeps, TakeLeftoverKeeps, ExitKeeps, AddDeviceKeeps
<1>8. CASE UNCHANGED otaVars
  BY <1>8, AsideKeeps DEF otaVars, catalog, FileInv, CallInv
<1>. QED  BY <1>1, <1>2, <1>3, <1>4, <1>5, <1>6, <1>7, <1>8 DEF OtaNext, Dispatch, DispatchToGroup

\* The simulator's device takes a version only with that version's whole file on the disk, for
\* any versions and numbers of calls, clicks and faults, unless a thread was left behind.
THEOREM VersionAlwaysHasItsFile == OtaSpec => VersionHasItsFile
<1>1. FileInv /\ [OtaNext]_otaVars =>
        [\A v \in Versions : app.on /\ app'.on /\ app.version # v /\ app'.version = v =>
             loose \/ file'["simulator"] = [c \in {1, 2} |-> v]]_otaVars
  <2>1. SUFFICES ASSUME FileInv, [OtaNext]_otaVars, NEW v \in Versions,
                        app.on, app'.on, app.version # v, app'.version = v, ~loose
                 PROVE  file'["simulator"] = [c \in {1, 2} |-> v]
    OBVIOUS
  <2>. QED  BY <2>1, FileKept DEF WholeStep, Takes
<1>. QED  BY <1>1, FileInvInit, FileKept, PTL DEF OtaSpec, VersionHasItsFile
=============================================================================
