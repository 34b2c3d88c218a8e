-------------------------- MODULE IncidentResponse --------------------------
(* Incidents with their timelines and the circuit breaker                    *)
(* (src/src/incident_management.rs), and the runbook executions that respond *)
(* to them with what they set (src/src/runbook_automation.rs). Neither reads *)
(* the other's records.                                                      *)
EXTENDS PlatformHost

CONSTANT TimelineCap   \* 500 in the code

VARIABLE incident
(* [records : Incident(id), timeline : Timeline(id, index), active :         *)
(*  ActiveIncidentCount, breaker : GlobalCircuitBreaker, postmortems,        *)
(*  oncall : OnCall(team), policies : EscalationPolicy(id)]                  *)

IncidentStatus == {"Triggered", "Acknowledged", "Mitigated", "Resolved", "Closed"}
TimelineEntryType == {"AlertFired", "CommanderAssigned", "StatusChanged", "NoteAdded",
                      "CircuitBreakerTripped", "CircuitBreakerReset"}

IncidentRecord ==
    [status : IncidentStatus, reporter : Account, commander : SUBSET Account,
     timeline_count : Nat, circuit_breaker_tripped : BOOLEAN]

IncidentInit ==
    incident = [records |-> EmptyMap, timeline |-> EmptyMap, active |-> 0,
                breaker |-> FALSE, postmortems |-> {}, oncall |-> EmptyMap,
                policies |-> EmptyMap]

(* The state with one more timeline entry of an incident, at the index its   *)
(* count gives.                                                              *)
WithEntry(state, id, type) ==
    LET index == state.records[id].timeline_count
    IN  [state EXCEPT !.records[id].timeline_count = @ + 1,
                      !.timeline = Put(@, <<id, index>>, type)]

trigger_incident(caller, id) ==
    /\ id \notin DOMAIN incident.records
    /\ incident' = [incident EXCEPT
          !.records = Put(@, id, [status |-> "Triggered", reporter |-> caller,
                                  commander |-> None, timeline_count |-> 1,
                                  circuit_breaker_tripped |-> FALSE]),
          !.timeline = Put(@, <<id, 0>>, "AlertFired"),
          !.active = @ + 1]

acknowledge_incident(commander, id) ==
    /\ incident.records[id].status = "Triggered"
    /\ incident' = WithEntry([incident EXCEPT !.records[id].status = "Acknowledged",
                                              !.records[id].commander = Some(commander)],
                             id, "CommanderAssigned")

add_timeline_entry(id, type) ==
    /\ incident.records[id].timeline_count < TimelineCap
    /\ incident' = WithEntry(incident, id, type)

(* Each incident has a flag; the global breaker follows the latest call.     *)
set_circuit_breaker(id, trip) ==
    /\ incident.records[id].circuit_breaker_tripped # trip
    /\ incident.records[id].timeline_count < TimelineCap + MaxRecords
    /\ incident' = WithEntry([incident EXCEPT !.records[id].circuit_breaker_tripped = trip,
                                              !.breaker = trip],
                             id, IF trip THEN "CircuitBreakerTripped"
                                         ELSE "CircuitBreakerReset")

resolve_incident(id) ==
    LET tripped == incident.records[id].circuit_breaker_tripped
    IN  /\ incident.records[id].status \notin {"Resolved", "Closed"}
        /\ incident' = WithEntry(
              [incident EXCEPT !.records[id].status = "Resolved",
                               !.records[id].circuit_breaker_tripped = FALSE,
                               !.breaker = @ /\ ~tripped,
                               !.active = IF @ > 0 THEN @ - 1 ELSE @],
              id, "StatusChanged")

set_on_call_schedule(team, primary) ==
    incident' = [incident EXCEPT !.oncall = Put(@, team, primary)]

set_escalation_policy(policy, tiers) ==
    incident' = [incident EXCEPT !.policies = Put(@, policy, tiers)]

(* Closes an incident in whatever status; only resolving lowers the count.   *)
record_postmortem(id) ==
    /\ id \notin incident.postmortems
    /\ incident' = [incident EXCEPT !.records[id].status = "Closed",
                                    !.postmortems = @ \cup {id}]

IncidentNext ==
    \/ \E id \in Label, a \in Account :
          \/ trigger_incident(a, id)
          \/ set_on_call_schedule(id, a)
          \/ set_escalation_policy(id, <<a>>)
    \/ \E id \in DOMAIN incident.records :
          \/ \E a \in Account : acknowledge_incident(a, id)
          \/ add_timeline_entry(id, "NoteAdded")
          \/ \E trip \in BOOLEAN : set_circuit_breaker(id, trip)
          \/ resolve_incident(id)
          \/ record_postmortem(id)

IncidentTypeOK ==
    /\ \A id \in DOMAIN incident.records : incident.records[id] \in IncidentRecord
    /\ \A k \in DOMAIN incident.timeline : incident.timeline[k] \in TimelineEntryType

-----------------------------------------------------------------------------
Open == {id \in DOMAIN incident.records :
            incident.records[id].status \notin {"Resolved", "Closed"}}

(* Incidents (incident_management.rs): a timeline has no gap and no entry    *)
(* past its count, so none overwrites another; no open incident is missing   *)
(* from the active count; and a raised global breaker belongs to an incident *)
(* whose own flag is up.                                                     *)
IncidentsAccounted ==
    /\ DOMAIN incident.timeline =
          UNION {{id} \X (0..incident.records[id].timeline_count - 1) :
                   id \in DOMAIN incident.records}
    /\ incident.active >= Cardinality(Open)
    /\ incident.breaker => \E id \in DOMAIN incident.records :
                              incident.records[id].circuit_breaker_tripped

-----------------------------------------------------------------------------
(* Runbooks.                                                                 *)

VARIABLE runbook
(* [execs : Execution(id), steps : Step(id, n), validations : Validation,    *)
(*  bridge : BridgeState, paused : ContractPaused, cap : MaxLogCap, schema : *)
(*  CurrentSchemaVersion, total : TotalExecutions]                           *)

RunbookStatus == {"Draft", "Validated", "PendingApproval", "Executing", "Completed",
                  "Failed", "RolledBack"}
StepExecutionStatus == {"Pending", "Running", "Passed", "Failed", "Skipped", "RolledBack"}

RunbookExecutionRecord ==
    [initiated_by : Account, status : RunbookStatus, completed_steps : 0..MaxRecords,
     dry_run : BOOLEAN]

BridgeFailoverState == [active : Account, backup : Account, count : 0..MaxRecords]

DefaultCap == 10000
Defaults == [paused |-> FALSE, cap |-> DefaultCap, schema |-> 1, bridge |-> None]

RunbookInit ==
    runbook = [execs |-> EmptyMap, steps |-> EmptyMap, validations |-> EmptyMap,
               total |-> 0, settings |-> Defaults]

start_execution(operator, id, dry_run) ==
    /\ id \notin DOMAIN runbook.execs
    /\ runbook' = [runbook EXCEPT
          !.execs = Put(@, id, [initiated_by |-> operator, status |-> "Executing",
                                completed_steps |-> 0, dry_run |-> dry_run]),
          !.total = @ + 1]

(* A validation is recorded whether or not there is such a run.              *)
validate_runbook(id, is_valid) ==
    runbook' = [runbook EXCEPT !.validations = Put(@, id, is_valid)]

Executing(id) == id \in DOMAIN runbook.execs /\ runbook.execs[id].status = "Executing"

(* A step may be recorded again; each time it passes counts.                 *)
record_step(id, step, status) ==
    /\ Executing(id)
    /\ runbook.execs[id].completed_steps < MaxRecords
    /\ runbook' = [runbook EXCEPT
          !.steps = Put(@, <<id, step>>, status),
          !.execs[id] = [runbook.execs[id] EXCEPT
             !.completed_steps = @ + (IF status = "Passed" THEN 1 ELSE 0),
             !.status = IF status = "Failed" THEN "Failed" ELSE @]]

(* The part the four runbook actions share: a dry run changes nothing.       *)
Applied(id, settings) ==
    /\ Executing(id)
    /\ ~runbook.execs[id].dry_run
    /\ runbook' = [runbook EXCEPT !.settings = settings]

execute_contract_pause(id, pause) ==
    Applied(id, [runbook.settings EXCEPT !.paused = pause])

(* "Increase" bounds the new cap from above only.                            *)
execute_cap_increase(id, new_max_logs) ==
    /\ new_max_logs <= runbook.settings.cap * 3
    /\ Applied(id, [runbook.settings EXCEPT !.cap = new_max_logs])

execute_schema_update(id, version) ==
    /\ version > runbook.settings.schema
    /\ Applied(id, [runbook.settings EXCEPT !.schema = version])

execute_bridge_failover(operator, id, new_relayer) ==
    LET was == IF runbook.settings.bridge = None
               THEN [active |-> operator, backup |-> new_relayer, count |-> 0]
               ELSE The(runbook.settings.bridge)
    IN  /\ was.count < MaxRecords
        /\ Applied(id, [runbook.settings EXCEPT !.bridge =
               Some([active |-> new_relayer, backup |-> was.active, count |-> was.count + 1])])

(* No look at the status: a run that failed or was rolled back can complete. *)
finalize_execution(id, success) ==
    /\ id \in DOMAIN runbook.execs
    /\ runbook' = [runbook EXCEPT
          !.execs[id].status = IF success THEN "Completed" ELSE "Failed"]

(* Only the record changes: what the run had set stays set.                  *)
rollback_execution(id) ==
    /\ id \in DOMAIN runbook.execs
    /\ runbook.execs[id].status \in {"Executing", "Failed"}
    /\ runbook' = [runbook EXCEPT !.execs[id].status = "RolledBack"]

RunbookNext ==
    \E id \in Label :
        \/ \E a \in Account, dry \in BOOLEAN : start_execution(a, id, dry)
        \/ \E b \in BOOLEAN : \/ validate_runbook(id, b)
                              \/ execute_contract_pause(id, b)
                              \/ finalize_execution(id, b)
        \/ \E step \in 1..2, status \in StepExecutionStatus : record_step(id, step, status)
        \/ \E v \in Amount : execute_cap_increase(id, v) \/ execute_schema_update(id, v)
        \/ \E a, b \in Account : execute_bridge_failover(a, id, b)
        \/ rollback_execution(id)

RunbookTypeOK ==
    /\ \A id \in DOMAIN runbook.execs : runbook.execs[id] \in RunbookExecutionRecord
    /\ \A k \in DOMAIN runbook.steps : runbook.steps[k] \in StepExecutionStatus
    /\ runbook.settings.bridge \subseteq BridgeFailoverState

-----------------------------------------------------------------------------
(* Runbooks (runbook_automation.rs): runs that only rehearse leave pause,    *)
(* cap, schema and bridge as they were, whatever else they do; a run that is *)
(* still executing has no failed step; each passed step was counted; a       *)
(* schema version never falls below the first; and every run is in the total.*)
RehearsalsHarmless ==
    /\ (\A id \in DOMAIN runbook.execs : runbook.execs[id].dry_run)
          => runbook.settings = Defaults
    /\ \A k \in DOMAIN runbook.steps :
        /\ k[1] \in DOMAIN runbook.execs
        /\ runbook.steps[k] = "Failed" => runbook.execs[k[1]].status # "Executing"
    /\ \A id \in DOMAIN runbook.execs :
          runbook.execs[id].completed_steps
             >= Cardinality({k \in DOMAIN runbook.steps :
                               k[1] = id /\ runbook.steps[k] = "Passed"})
    /\ runbook.settings.schema >= 1
    /\ runbook.total = Cardinality(DOMAIN runbook.execs)
=============================================================================
