-------------------------------- MODULE MCAlert --------------------------------
(* Small instances of the three modules of the alert service: a behaviour is one *)
(* of the cycle, of the notices about one rule, or of the readings that fire a   *)
(* rule, of one device or of two that are renamed; the variables of the others   *)
(* stay as they are.                                                             *)
EXTENDS AlertEngine, FailureNotice, TriggerEval, TLC
CONSTANTS d1, d2
VARIABLE side

TwoNames == <<"first", "second">>

R(target, cond, threshold, mode, count, duration) ==
    [target |-> target, device |-> IF target = "device" THEN d1 ELSE Null,
     condition |-> cond, threshold |-> threshold, mode |-> mode,
     count |-> count, duration |-> duration]
AllModes == {"consecutive", "duration", "consecutive_and_duration"}
FirstRule == R("device", "equal", 1, "duration", 1, 30)

\* One device at 40 second steps: up to three readings, or one or two minutes.
OneDeviceRules ==
    {R("device", "above", 0, m, 2, 120) : m \in AllModes}
      \cup {R("device", "below", 1, m, 3, 60) : m \in AllModes}
      \cup {FirstRule, R("device", "above", 0, "consecutive_and_duration", 1, 120)}

\* Two devices that are renamed at 120 second steps, two readings each.
GroupRules ==
    {R("group", "above", 0, m, 1, 30) : m \in AllModes}
      \cup {R("group", "above", Null, "consecutive", 1, 30),
            R("all", "above", 0, "consecutive_and_duration", 1, 60)}

AllRules == OneDeviceRules \cup GroupRules
RulePace == [r \in AllRules |-> IF r \in OneDeviceRules THEN 40 ELSE 120]
RuleHorizon == [r \in AllRules |-> IF r \in OneDeviceRules THEN 6 ELSE 1]

MCInit ==
    /\ side \in {"cycle", "notice", "one", "two"} /\ Init /\ NoticeInit /\ TriggerInit
    /\ IF side = "two" THEN trigger \in GroupRules ELSE trigger \in OneDeviceRules
    /\ side \in {"cycle", "notice"} => trigger = FirstRule
Step == side = "cycle" /\ Serve /\ UNCHANGED <<side, noticeVars, triggerVars>>
One == Pass \/ \E v \in Values : WriteTelemetry(d1, v)
MCNext ==
    \/ side = "cycle" /\ Next /\ UNCHANGED <<side, noticeVars, triggerVars>>
    \/ side = "notice" /\ NoticeNext /\ UNCHANGED <<side, vars, triggerVars>>
    \/ side = "one" /\ One /\ UNCHANGED <<side, vars, noticeVars>>
    \/ side = "two" /\ TriggerNext /\ UNCHANGED <<side, vars, noticeVars>>
allVars == <<side, vars, noticeVars, triggerVars>>
MCSpec == MCInit /\ [][MCNext]_allVars
\* The fairness of AlertEngine's FairSpec.
MCFairSpec == MCSpec /\ WF_allVars(Step)
=============================================================================
