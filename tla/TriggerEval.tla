------------------------------ MODULE TriggerEval ------------------------------
(* When does a telemetry rule fire?  alert-service/app/evaluator.py, over the *)
(* readings that ingestion-service writes while time passes: the query window, *)
(* the per-device lists, the trigger modes and the target of the rule.         *)
EXTENDS Integers, FiniteSets, Sequences, SequencesExt

CONSTANTS
    Reporters,  \* devices of the tenant
    Values,     \* readings, integers
    Labels,     \* device_name tags in the order InfluxDB returns their tables
    Triggers,   \* the rules considered; one behaviour has one of them
    Pace,       \* seconds per step of the clock while a rule is considered
    Horizon,    \* bound: steps after which a reading is forgotten
    Null        \* a NULL column

Modes == {"consecutive", "duration", "consecutive_and_duration"}

Trigger == [target: {"device", "group", "all"}, device: Reporters \cup {Null},
            condition: {"above", "below", "equal"}, threshold: Int \cup {Null},
            mode: Modes, count: Nat, duration: Nat]

VARIABLES
    trigger,    \* the alert_rules row
    members,    \* the devices of the rule's group
    label,      \* [device -> the device_name ingestion tags its points with]
    series      \* [device -> [label -> readings of that table, newest first]]

triggerVars == <<trigger, members, label, series>>

Names == ToSet(Labels)

-----------------------------------------------------------------------------
(* evaluate_rule *)

Window(r) == LET a == r.duration + 60
                 b == r.count * 60 + 60
             IN  IF a >= b THEN a ELSE b

ASSUME TriggerConstants ==
    /\ Triggers \subseteq Trigger /\ \A r \in Triggers : r.target = "device" => r.device # Null
    /\ Values \subseteq Int
    /\ Pace \in [Triggers -> Nat \ {0}] /\ Horizon \in [Triggers -> Nat]
    /\ \A r \in Triggers : Window(r) <= Horizon[r] * Pace[r]
    /\ Null \notin Reporters /\ Null \notin Int
    /\ Labels \in Seq(Names) /\ Labels # <<>> /\ IsInjective(Labels)

\* Slip for the mutation runs.
DeviceIdsEmptyGroupIsAll(r) ==
    IF r.target = "device" THEN {r.device}
    ELSE IF r.target = "group" /\ members # {} THEN members ELSE Reporters

\* The device filter of the query; a group without devices never gets here.
DeviceIds(r) == CASE r.target = "device" -> {r.device}
                  [] r.target = "group"  -> members
                  [] OTHER               -> Reporters

\* A table is newest first, so the window holds a prefix of it.
InWindow(s, r) == Restrict(s, {i \in DOMAIN s : s[i].age * Pace[r] <= Window(r)})

\* One table per device_name, each newest first, appended as they are returned.
ValuesOf(d, r) ==
    FlattenSeq([i \in DOMAIN Labels |-> InWindow(series[d][Labels[i]], r)])

CheckCondition(v, r) ==
    /\ r.threshold # Null
    /\ CASE r.condition = "above" -> v > r.threshold
         [] r.condition = "below" -> v < r.threshold
         [] r.condition = "equal" -> v = r.threshold

Crosses(x, r) == CheckCondition(x.value, r)

\* Slip for the mutation runs.
LeadingRunAnywhere(s, r) == Len(SelectSeq(s, LAMBDA x : Crosses(x, r)))

\* Number of readings before the first that does not cross.
LeadingRun(s, r) ==
    CHOOSE n \in 0..Len(s) : /\ \A i \in 1..n : Crosses(s[i], r)
                             /\ n < Len(s) => ~Crosses(s[n + 1], r)

\* Slip for the mutation runs: off by one.
NeededOneLess(r) == IF r.duration \div 60 > 2 THEN r.duration \div 60 - 1 ELSE 1
Needed(r) == IF r.duration \div 60 > 1 THEN r.duration \div 60 ELSE 1

CheckTrigger(s, r) ==
    /\ s # <<>>
    /\ CASE r.mode = "consecutive" -> LeadingRun(s, r) >= r.count
         [] r.mode = "duration" ->
                /\ \A i \in 1..Needed(r) : i <= Len(s) => Crosses(s[i], r)
                /\ Len(s) >= Needed(r)
         [] r.mode = "consecutive_and_duration" ->
                /\ LeadingRun(s, r) >= r.count
                /\ LeadingRun(s, r) >= Needed(r)

\* The devices that can be the first to trigger, hence supply the last value.
Culprits(r) == {d \in DeviceIds(r) : CheckTrigger(ValuesOf(d, r), r)}

Verdict(r) == Culprits(r) # {}

-----------------------------------------------------------------------------
(* Readings arrive, time passes, groups and names change. *)

TriggerInit ==
    /\ trigger \in Triggers
    /\ members = {}
    /\ label = [d \in Reporters |-> Labels[1]]
    /\ series = [d \in Reporters |-> [n \in Names |-> <<>>]]

\* Bound: at most one reading per device and clock step.
WriteTelemetry(d, v) ==
    /\ \A n \in Names : \A i \in DOMAIN series[d][n] : series[d][n][i].age > 0
    /\ series' = [series EXCEPT ![d][label[d]] = <<[value |-> v, age |-> 0]>> \o @]
    /\ UNCHANGED <<trigger, members, label>>

\* Bound: readings older than every window are forgotten.
Pass ==
    /\ series' = [d \in Reporters |-> [n \in Names |->
           LET s == series[d][n]
           IN  [i \in {j \in DOMAIN s : s[j].age < Horizon[trigger]} |-> [s[i] EXCEPT !.age = @ + 1]]]]
    /\ UNCHANGED <<trigger, members, label>>

\* A rename reaches the tags when the name cache of ingestion expires.
Rename(d, n) ==
    /\ n # label[d]
    /\ label' = [label EXCEPT ![d] = n]
    /\ UNCHANGED <<trigger, members, series>>

AssignGroup(d) ==
    /\ trigger.target = "group"
    /\ members' = IF d \in members THEN members \ {d} ELSE members \cup {d}
    /\ UNCHANGED <<trigger, label, series>>

TriggerNext ==
    \/ Pass
    \/ \E d \in Reporters, v \in Values : WriteTelemetry(d, v)
    \/ \E d \in Reporters, n \in Names : Rename(d, n)
    \/ \E d \in Reporters : AssignGroup(d)

TriggerSpec == TriggerInit /\ [][TriggerNext]_triggerVars

-----------------------------------------------------------------------------
(* Properties *)

\* The readings of a device in every table, oldest last.
Readings(d) == UNION {ToSet(series[d][n]) : n \in Names}
Newest(d) == CHOOSE x \in Readings(d) : \A y \in Readings(d) : x.age <= y.age
InTarget(d) == \/ trigger.target = "all"
               \/ trigger.target = "device" /\ d = trigger.device
               \/ trigger.target = "group" /\ d \in members

\* The readings of the device are in one table: it was not renamed lately.
OneTable(d) == \E n \in Names : Readings(d) = ToSet(series[d][n])

\* An alert always has a culprit inside the rule's own target: never a device
\* outside the group, and an emptied group never falls back to everyone. The
\* culprit sent a crossing reading within the window, and its newest reading
\* crosses: an old crossing raises nothing, unless a rename split the readings.
AlertHasCulprit ==
    Verdict(trigger) =>
        \E d \in Reporters :
            /\ InTarget(d)
            /\ \E x \in Readings(d) : x.age * Pace[trigger] <= Window(trigger) /\ Crosses(x, trigger)
            /\ OneTable(d) => Crosses(Newest(d), trigger)

\* "consecutive": a device that fires a rule is one of its target, and the newest N
\* readings of the device all cross, unless a rename split them.
ConsecutiveIsNewestN ==
    trigger.mode = "consecutive" =>
        \A d \in Culprits(trigger) :
            /\ InTarget(d)
            /\ OneTable(d) => \E s \in SUBSET Readings(d) :
                  /\ Cardinality(s) = trigger.count
                  /\ \A x \in s : Crosses(x, trigger)
                  /\ \A x \in s, y \in Readings(d) \ s : x.age < y.age

\* No two readings of the device are less than a minute apart.
Spaced(d) == \A x, y \in Readings(d) : x.age < y.age => (y.age - x.age) * Pace[trigger] >= 60

\* A rule with a duration says what docs/alert-email-triggers.md:69 says, that every sample
\* of the past D minutes crosses, only in part: the code counts D readings instead. Where
\* that is the same, for whole minutes and a device that reports at most once a minute, a
\* device that fires the rule has no other reading younger than D minutes.
DurationMeansItsMinutes ==
    trigger.mode # "consecutive" /\ trigger.duration % 60 = 0 =>
        \A d \in Culprits(trigger) : OneTable(d) /\ Spaced(d) =>
            \A x \in Readings(d) : x.age * Pace[trigger] < trigger.duration => Crosses(x, trigger)

\* Readings growing old never make a device fire a rule, as the code counts the newest
\* ones, unless a rename split the readings of the device. (Under the document's rule a
\* sample that leaves the D minutes could.)
AgeingNeverFires ==
    [][Pass => \A d \in Reporters : OneTable(d) /\ (d \in Culprits(trigger))' => d \in Culprits(trigger)]_triggerVars
=============================================================================
