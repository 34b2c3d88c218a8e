---------------------------- MODULE MCWorkloads ----------------------------
(* Instances of AuditLedger with more calls than TLC can mix: a workload     *)
(* chosen at the start says which part of the contract is used, and every    *)
(* order of its calls is explored.                                           *)
EXTENDS MCAuditLedger

CONSTANT Workloads

VARIABLE workload

EitherOwners == OneOwner \cup TwoOwners

LogUntouched == order' = order

(* The calls of a workload.                                                  *)
WorkloadCalls ==
    \/ LogCalls
    \/ EvictTemporary
    \/ workload # "admission" /\ (Tick \/ HistoryCalls)
    \/ workload # "proposals" /\ (AccessCalls \/ LimitCalls)
    \/ workload \in {"caps", "policies"} /\ BatchCalls
    \/ workload \in {"proposals", "admission"} /\ OwnerCalls
    \/ workload = "proposals" /\ ProposalCalls

(* What it leaves alone.                                                     *)
Within ==
    CASE workload = "caps" ->
            /\ now' = 0
            /\ dedup' = dedup \/ ~LogUntouched
            /\ <<dedup'.policy, dedup'.policyFor>> = <<dedup.policy, dedup.policyFor>>
      [] workload = "policies" ->
            /\ UNCHANGED <<limits, access>> /\ rs'.max = rs.max
            /\ rs'.total <= rs.total + 1
            /\ index'.types[t2] = {} /\ t2 \notin DOMAIN dedup'.policyFor
            /\ index' = index \/ ~LogUntouched
      [] workload = "proposals" ->
            /\ <<auth'.roles, auth'.rbac>> = <<auth.roles, auth.rbac>>
            /\ ~guard'
            /\ rs'.total > rs.total => order'[rs.total].submitter = o1
                                       /\ order'[rs.total].metadata = m2
      [] workload = "admission" ->
            /\ <<auth'.owner, auth'.owners>> = <<auth.owner, auth.owners>>
            /\ auth'.required = 1
            /\ \A s \in DOMAIN limits'.rate : limits'.rate[s] <= 1
            /\ \A i \in DOMAIN order' : order'[i].metadata = m1

Starts ==
    /\ workload = "proposals" => Len(auth.owners) = 2
    /\ workload = "admission" => Len(auth.owners) = 1

WorkloadInit == Init /\ workload \in Workloads /\ Starts
WorkloadNext == WorkloadCalls /\ Within /\ UNCHANGED workload
WorkloadSpec == WorkloadInit /\ [][WorkloadNext]_<<vars, workload>>
=============================================================================
