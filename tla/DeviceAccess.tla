------------------------------ MODULE DeviceAccess ------------------------------
(* The registration check behind the MQTT login and publish decisions:            *)
(* services/device_access.py, asked by routers/emqx.py, with the handlers that    *)
(* register and delete devices. The table is read outside the cache's lock, so a  *)
(* check is three steps: cache, table, store.                                     *)
EXTENDS Integers

CONSTANTS
    Devices,     \* device ids of one tenant
    Checks,      \* request threads that may run is_device_registered
    PosTTL,      \* _POSITIVE_TTL
    NegTTL,      \* _NEGATIVE_TTL
    MaxClock,    \* bound on the clock
    MaxChanges,  \* bound on registrations and deletions
    MaxRestarts, \* bound on restarts of core-api
    None         \* no entry

ASSUME AccessConstants ==
    /\ PosTTL \in Nat \ {0} /\ NegTTL \in Nat \ {0}
    /\ MaxClock \in Nat /\ MaxChanges \in Nat /\ MaxRestarts \in Nat

VARIABLES
    clock,
    registered, \* rows of the devices table
    cache,      \* _cache: device -> entry or None
    check,      \* the running checks
    forgets,    \* handlers per device that have committed and not called forget_device yet
    lastIn,     \* history: the last time the device was registered
    lastOut,    \* history: the last time it was not
    changes, restarts

vars == <<clock, registered, cache, check, forgets, lastIn, lastOut, changes, restarts>>
bounds == <<changes, restarts>>

\* late: a history field, TRUE when forget_device fell between the read of the
\* table and the store.
Entry == [found: BOOLEAN, until: Int, late: BOOLEAN]
Check == [pc: {"idle", "read", "store"}, dev: Devices, since: Int, found: BOOLEAN, late: BOOLEAN]

Idle(d) == [pc |-> "idle", dev |-> d, since |-> 0, found |-> FALSE, late |-> FALSE]

Init ==
    /\ clock = 0 /\ registered \in SUBSET Devices
    /\ cache = [d \in Devices |-> None]
    /\ check \in [Checks -> {Idle(d) : d \in Devices}]
    /\ forgets = [d \in Devices |-> 0]
    /\ lastIn = [d \in Devices |-> IF d \in registered THEN 0 ELSE -PosTTL]
    /\ lastOut = [d \in Devices |-> IF d \in registered THEN -NegTTL ELSE 0]
    /\ changes = 0 /\ restarts = 0

-----------------------------------------------------------------------------
(* is_device_registered *)

Hit(d) == cache[d] # None /\ cache[d].until > clock

\* A live entry answers at once, without a step; otherwise the table is asked.
CacheMiss(c, d) ==
    /\ check[c].pc = "idle" /\ ~Hit(d)
    /\ check' = [check EXCEPT ![c] = [Idle(d) EXCEPT !.pc = "read", !.since = clock]]
    /\ UNCHANGED <<clock, registered, cache, forgets, lastIn, lastOut, bounds>>

ReadTable(c) ==
    /\ check[c].pc = "read"
    /\ check' = [check EXCEPT ![c].pc = "store", ![c].found = check[c].dev \in registered]
    /\ UNCHANGED <<clock, registered, cache, forgets, lastIn, lastOut, bounds>>

\* The database does not answer: refused, and not remembered.
ReadFails(c) ==
    /\ check[c].pc = "read"
    /\ check' = [check EXCEPT ![c] = Idle(check[c].dev)]
    /\ UNCHANGED <<clock, registered, cache, forgets, lastIn, lastOut, bounds>>

TTL(found) == IF found THEN PosTTL ELSE NegTTL

\* Slip for the mutation runs: the time is taken again after the query.
StoreTimeNow(c) == clock

StoreTime(c) == check[c].since

\* Answers k.found. The entry lives from the time the check began.
Store(c) ==
    LET k == check[c] IN
    /\ k.pc = "store"
    /\ cache' = [cache EXCEPT ![k.dev] = [found |-> k.found, until |-> StoreTime(c) + TTL(k.found),
                                          late |-> k.late]]
    /\ check' = [check EXCEPT ![c] = Idle(k.dev)]
    /\ UNCHANGED <<clock, registered, forgets, lastIn, lastOut, bounds>>

-----------------------------------------------------------------------------
(* The handlers that change the table *)

Changed(d) ==
    /\ changes < MaxChanges /\ changes' = changes + 1
    /\ forgets' = [forgets EXCEPT ![d] = @ + 1]
    /\ UNCHANGED <<clock, cache, check, restarts>>

\* POST /provision, up to its commit
Register(d) ==
    /\ d \notin registered
    /\ registered' = registered \cup {d} /\ lastIn' = [lastIn EXCEPT ![d] = clock]
    /\ UNCHANGED lastOut /\ Changed(d)

\* Either delete endpoint, up to its commit
Delete(d) ==
    /\ d \in registered
    /\ registered' = registered \ {d} /\ lastOut' = [lastOut EXCEPT ![d] = clock]
    /\ UNCHANGED lastIn /\ Changed(d)

\* Slip for the mutation runs: a negative answer is kept.
DropPositive(d) == IF cache[d] # None /\ ~cache[d].found THEN cache[d] ELSE None

Drop(d) == None

\* forget_device, after the commit
Forget(d) ==
    /\ forgets[d] > 0
    /\ forgets' = [forgets EXCEPT ![d] = @ - 1]
    /\ cache' = [cache EXCEPT ![d] = Drop(d)]
    /\ check' = [c \in Checks |-> [check[c] EXCEPT !.late = @ \/ (check[c].pc = "store" /\ check[c].dev = d)]]
    /\ UNCHANGED <<clock, registered, lastIn, lastOut, bounds>>

\* The cache and the requests die with the process.
Restart ==
    /\ restarts < MaxRestarts /\ restarts' = restarts + 1
    /\ cache' = [d \in Devices |-> None]
    /\ check' = [c \in Checks |-> Idle(check[c].dev)]
    /\ forgets' = [d \in Devices |-> 0]
    /\ UNCHANGED <<clock, registered, lastIn, lastOut, changes>>

Tick ==
    /\ clock < MaxClock /\ clock' = clock + 1
    /\ lastIn' = [d \in Devices |-> IF d \in registered THEN clock' ELSE lastIn[d]]
    /\ lastOut' = [d \in Devices |-> IF d \in registered THEN lastOut[d] ELSE clock']
    /\ UNCHANGED <<registered, cache, check, forgets, bounds>>

Next ==
    \/ \E c \in Checks, d \in Devices : CacheMiss(c, d)
    \/ \E c \in Checks : ReadTable(c) \/ ReadFails(c) \/ Store(c)
    \/ \E d \in Devices : Register(d) \/ Delete(d) \/ Forget(d)
    \/ Restart \/ Tick

Spec == Init /\ [][Next]_vars

-----------------------------------------------------------------------------
(* Properties *)

\* Shapes; the clock and the histories never run ahead of it.
TypeOK ==
    /\ clock \in Nat /\ registered \subseteq Devices
    /\ cache \in [Devices -> Entry \cup {None}]
    /\ check \in [Checks -> Check]
    /\ forgets \in [Devices -> Nat]
    /\ lastIn \in [Devices -> Int] /\ lastOut \in [Devices -> Int]
    /\ changes \in Nat /\ restarts \in Nat

\* However checks interleave with deletions and a slow database, the answer is yes,
\* from an entry or from the table, only if the device was registered less than
\* PosTTL before the check began.
AllowIsRecent ==
    /\ \A d \in Devices : Hit(d) /\ cache[d].found => lastIn[d] > clock - PosTTL
    /\ \A c \in Checks :
           check[c].pc = "store" /\ check[c].found => lastIn[check[c].dev] > check[c].since - PosTTL

\* The answer is no, the database answering, only if the device was not registered
\* less than NegTTL before the check began: a new device is let in that soon.
DenyIsRecent ==
    /\ \A d \in Devices : Hit(d) /\ ~cache[d].found => lastOut[d] > clock - NegTTL
    /\ \A c \in Checks :
           check[c].pc = "store" /\ ~check[c].found => lastOut[check[c].dev] > check[c].since - NegTTL

\* Once every handler has called forget_device, an entry disagrees with the table
\* only if its check read the table before such a call and stored after it.
ForgetWorks ==
    \A d \in Devices :
        cache[d] # None => (forgets[d] = 0 /\ ~cache[d].late => (cache[d].found <=> d \in registered))
=============================================================================
