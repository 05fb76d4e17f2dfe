------------------------------ MODULE MCRequests ------------------------------
(* Small instances of ExportJobs, ExportSchedule and Provisioning, whose rows and *)
(* threads have nothing in common: a behaviour is one of the export on request,   *)
(* of the periodic export or of POST /provision, and the variables of the others  *)
(* stay as they are.                                                              *)
EXTENDS ExportJobs, ExportSchedule, Provisioning
VARIABLE side

AnyToken == CHOOSE t \in Tokens : TRUE
AnyDevice == CHOOSE d \in Devices : TRUE

MCInit ==
    /\ side \in {"export", "schedule", "provision"} /\ Init /\ ProvInit /\ ScheduleInit
    /\ side # "provision" =>
           /\ token = [t \in Tokens |-> [active |-> TRUE, max |-> 1, count |-> 0]]
           /\ req = [r \in Requests |-> [token |-> AnyToken, dev |-> AnyDevice, group |-> Null]]
    /\ side # "schedule" => schedule.interval = 1
InExport(A) == side = "export" /\ A /\ UNCHANGED <<side, provVars, scheduleVars>>
InProvision(A) == side = "provision" /\ A /\ UNCHANGED <<side, vars, scheduleVars>>
MCNext ==
    \/ InExport(Next) \/ InProvision(ProvNext)
    \/ side = "schedule" /\ ScheduleNext /\ UNCHANGED <<side, vars, provVars>>
allVars == <<side, vars, provVars, scheduleVars>>
MCSpec == MCInit /\ [][MCNext]_allVars
\* The fairness of ExportJobs' FairSpec and of Provisioning's ProvFairSpec.
MCFairSpec ==
    /\ MCSpec /\ WF_allVars(InExport(Expire))
    /\ \A w \in Workers : WF_allVars(InExport(Thread(w)))
    /\ \A r \in Requests : WF_allVars(InProvision(Step(r)))

\* POST /provision: every request is answered, though it waits for a row that another
\* holds while step-ca signs.
EveryRequestAnswered == side = "provision" => AllAnswered
=============================================================================
