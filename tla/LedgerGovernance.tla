-------------------------- MODULE LedgerGovernance --------------------------
(* The owners' settings: pause, submitter lists, caps, sizes, schemas, rate  *)
(* limits, deduplication policies, low-cost mode, index compaction. Then     *)
(* ownership, roles, and the proposals that owners approve and execute.      *)
EXTENDS LedgerHistory

-----------------------------------------------------------------------------
(* Who may do this, and when. Some setters are refused while paused.         *)

OwnerCall(c) == require_owner_or_multisig(c)
OwnerCallUnpaused(c) == require_owner_or_multisig(c) /\ ~access.paused

AccessOnly == UNCHANGED <<now, logVars, extraVars, histVars, limits, auth, proposals>>
LimitsOnly == UNCHANGED <<now, logVars, extraVars, histVars, access, auth, proposals>>
DedupOnly  == UNCHANGED <<now, order, data, cfg, rs, index, rateState, guard,
                          extraVars, histVars, govVars>>

-----------------------------------------------------------------------------
(* Access: pause, blocklist, allowlist, low-cost mode. pause and unpause     *)
(* write the Paused key only; RuntimeState.paused keeps its initial FALSE.   *)

pause(c) ==
    /\ OwnerCall(c)
    /\ access' = [access EXCEPT !.paused = TRUE]
    /\ AccessOnly

unpause(c) ==
    /\ OwnerCall(c)
    /\ access' = [access EXCEPT !.paused = FALSE]
    /\ AccessOnly

block_submitter(c, s) ==
    /\ OwnerCall(c)
    /\ access' = [access EXCEPT !.blocked = @ \cup {s}]
    /\ AccessOnly

unblock_submitter(c, s) ==
    /\ OwnerCall(c)
    /\ access' = [access EXCEPT !.blocked = @ \ {s}]
    /\ AccessOnly

enable_allowlist_mode(c) ==
    /\ OwnerCall(c)
    /\ access' = [access EXCEPT !.allowMode = TRUE]
    /\ AccessOnly

disable_allowlist_mode(c) ==
    /\ OwnerCall(c)
    /\ access' = [access EXCEPT !.allowMode = FALSE]
    /\ AccessOnly

allow_submitter(c, s) ==
    /\ OwnerCall(c)
    /\ access' = [access EXCEPT !.allowed = @ \cup {s}]
    /\ AccessOnly

remove_submitter_from_allowlist(c, s) ==
    /\ OwnerCall(c)
    /\ access' = [access EXCEPT !.allowed = @ \ {s}]
    /\ AccessOnly

set_low_cost_mode(c, enabled) ==
    /\ OwnerCall(c)
    /\ access' = [access EXCEPT !.lowCost = enabled]
    /\ AccessOnly

-----------------------------------------------------------------------------
(* Limits.                                                                   *)

(* The new maximum goes to Config and to RuntimeState.                       *)
set_global_max_logs(c, n) ==
    /\ OwnerCallUnpaused(c)
    /\ n >= rs.total
    /\ cfg' = [cfg EXCEPT !.max = n]
    /\ rs' = [rs EXCEPT !.max = n]
    /\ UNCHANGED <<now, order, data, index, dedup, rateState, guard,
                   extraVars, histVars, govVars>>

set_event_max_logs(c, t, n) ==
    /\ OwnerCallUnpaused(c)
    /\ limits' = [limits EXCEPT !.cap = Put(@, t, n)]
    /\ LimitsOnly

(* Panics when there is no cap to remove.                                    *)
remove_event_cap(c, t) ==
    /\ OwnerCallUnpaused(c)
    /\ t \in DOMAIN limits.cap
    /\ limits' = [limits EXCEPT !.cap = Drop(@, t)]
    /\ LimitsOnly

set_metadata_max_size(c, n) ==
    /\ OwnerCallUnpaused(c)
    /\ limits' = [limits EXCEPT !.size = n]
    /\ LimitsOnly

set_event_metadata_max_size(c, t, n) ==
    /\ OwnerCallUnpaused(c)
    /\ limits' = [limits EXCEPT !.sizeFor = Put(@, t, n)]
    /\ LimitsOnly

(* A schema is its minimum length; one too short to hold it asks for 0.      *)
set_metadata_schema(c, t, min_len) ==
    /\ OwnerCallUnpaused(c)
    /\ limits' = [limits EXCEPT !.schema = Put(@, t, min_len)]
    /\ LimitsOnly

set_submitter_rate_limit(c, s, n) ==
    /\ OwnerCall(c)
    /\ limits' = [limits EXCEPT !.rate = Put(@, s, n)]
    /\ LimitsOnly

(* Drops the index of the listed types that have no cap.                     *)
compact_storage(c, types) ==
    /\ OwnerCall(c)
    /\ index' = [index EXCEPT !.types =
                  [t \in EventType |->
                     IF t \in types \ DOMAIN limits.cap THEN {} ELSE @[t]]]
    /\ UNCHANGED <<now, order, data, cfg, rs, dedup, rateState, guard,
                   extraVars, histVars, govVars>>

-----------------------------------------------------------------------------
(* Deduplication policies.                                                   *)

set_dedup_policy(c, policy) ==
    /\ OwnerCall(c)
    /\ dedup' = [dedup EXCEPT !.policy = policy]
    /\ DedupOnly

(* policy is optional: none clears the override.                             *)
set_dedup_policy_for_type(c, t, policy) ==
    /\ OwnerCall(c)
    /\ dedup' = [dedup EXCEPT !.policyFor =
                  IF policy = {} THEN Drop(@, t)
                  ELSE Put(@, t, CHOOSE p \in policy : TRUE)]
    /\ DedupOnly

-----------------------------------------------------------------------------
AuthOnly == UNCHANGED <<now, logVars, extraVars, histVars, access, limits, proposals>>

-----------------------------------------------------------------------------
(* Owners.                                                                   *)

(* owners with the first occurrence of old replaced.                         *)
ReplaceFirst(owners, old, new) ==
    LET hits == {i \in DOMAIN owners : owners[i] = old}
    IN  [i \in DOMAIN owners |->
            IF i \in hits /\ \A j \in hits : i <= j THEN new ELSE owners[i]]

(* The loop that copies the other owners: kept[n] is what it has copied of   *)
(* the first n.                                                              *)
RemoveAll(owners, a) ==
    LET kept[n \in 0..Len(owners)] ==
            IF n = 0 THEN <<>>
            ELSE IF owners[n] = a THEN kept[n - 1]
            ELSE Append(kept[n - 1], owners[n])
    IN  kept[Len(owners)]

(* Roles follow ownership only while RBAC is enforced: the new owner becomes *)
(* Admin, and the old one loses the Admin role it had.                       *)
RolesAfterTransfer(old, new) ==
    LET granted == Put(auth.roles, new, "Admin")
    IN  IF ~auth.rbac THEN auth.roles
        ELSE IF old \in DOMAIN granted /\ granted[old] = "Admin" THEN Drop(granted, old)
        ELSE granted

transfer_ownership(c, new) ==
    /\ require_owner_or_multisig(c)
    /\ ~access.paused
    /\ new # auth.owner
    /\ auth' = [auth EXCEPT
                  !.owner = new,
                  !.owners = ReplaceFirst(@, auth.owner, new),
                  !.roles = RolesAfterTransfer(auth.owner, new)]
    /\ AuthOnly

(* Returns silently when new is already listed.                              *)
add_owner(c, new) ==
    /\ require_owner_or_multisig(c)
    /\ ~Listed(new)
    /\ auth' = [auth EXCEPT
                  !.owners = Append(@, new),
                  !.roles = IF auth.rbac THEN Put(@, new, "Admin") ELSE @]
    /\ AuthOnly

(* The threshold is lowered to the number of owners left. The Owner key and  *)
(* the role of the removed owner stay. Returns silently when not listed.     *)
remove_owner(c, a) ==
    /\ require_owner_or_multisig(c)
    /\ Listed(a)
    /\ LET left == RemoveAll(auth.owners, a)
       IN  auth' = [auth EXCEPT
                      !.owners = left,
                      !.required = IF @ > Len(left) THEN Len(left) ELSE @]
    /\ AuthOnly

(* Returns silently on an invalid threshold.                                 *)
set_required_signatures(c, n) ==
    /\ require_owner_or_multisig(c)
    /\ n \in 1..Len(auth.owners)
    /\ auth' = [auth EXCEPT !.required = n]
    /\ AuthOnly

-----------------------------------------------------------------------------
(* Roles.                                                                    *)

set_role(c, target, role) ==
    /\ require_owner_or_multisig(c)
    /\ auth' = [auth EXCEPT !.roles =
                  IF role = {} THEN Drop(@, target)
                  ELSE Put(@, target, CHOOSE r \in role : TRUE)]
    /\ AuthOnly

enable_rbac(c, enabled) ==
    /\ require_owner_or_multisig(c)
    /\ auth' = [auth EXCEPT !.rbac = enabled]
    /\ AuthOnly

-----------------------------------------------------------------------------
(* Proposals. They ask for ownership, never for a role.                      *)

submit_proposal(c, action, ttl) ==
    /\ is_addr_owner(c)
    /\ Len(proposals) < MaxProposals
    /\ proposals' = Append(proposals,
          [proposer |-> c, action |-> action, approvals |-> <<c>>,
           expires_at |-> now + ttl, executed |-> FALSE])
    /\ UNCHANGED <<now, logVars, extraVars, histVars, access, limits, auth>>

(* Not executed and not expired; otherwise the call returns silently.        *)
Open(p) == ~proposals[p].executed /\ now <= proposals[p].expires_at

(* Faulty variant: earlier approvals are not looked at.                      *)
HasApprovedNever(p, a) == FALSE

HasApproved(p, a) ==
    \E i \in DOMAIN proposals[p].approvals : proposals[p].approvals[i] = a

approve_proposal(c, p) ==
    /\ is_addr_owner(c)
    /\ Open(p)
    /\ ~HasApproved(p, c)
    /\ proposals' = [proposals EXCEPT ![p].approvals = Append(@, c)]
    /\ UNCHANGED <<now, logVars, extraVars, histVars, access, limits, auth>>

Approved(p) == Len(proposals[p].approvals) >= auth.required

(* The match on the action, by the state it changes.                         *)
AuthAfter(a) ==
    CASE a.kind = "TransferOwnership" -> [auth EXCEPT !.owner = a.addr]
      [] a.kind = "AddOwner" /\ ~Listed(a.addr) ->
            [auth EXCEPT !.owners = Append(@, a.addr)]
      [] a.kind = "RemoveOwner" -> [auth EXCEPT !.owners = RemoveAll(@, a.addr)]
      [] a.kind = "SetRequiredSignatures" -> [auth EXCEPT !.required = a.value]
      [] OTHER -> auth

AccessAfter(a) ==
    IF a.kind \in {"Pause", "Unpause"}
    THEN [access EXCEPT !.paused = (a.kind = "Pause")] ELSE access

LimitsAfter(a) ==
    IF a.kind = "SetMetadataSchema"
    THEN [limits EXCEPT !.schema = Put(@, a.event_type, a.min_len)] ELSE limits

(* Only Config gets the new maximum.                                         *)
ConfigAfter(a) ==
    IF a.kind = "SetGlobalMaxLogs" THEN [cfg EXCEPT !.max = a.value] ELSE cfg

execute_proposal(c, p, h) ==
    LET a == proposals[p].action
    IN  /\ is_addr_owner(c)
        /\ Open(p)
        /\ Approved(p)
        /\ auth' = AuthAfter(a)
        /\ access' = AccessAfter(a)
        /\ limits' = LimitsAfter(a)
        /\ cfg' = ConfigAfter(a)
        /\ IF a.kind = "RollbackEvent"
           THEN RollbackEffect(c, a.index, a.target, h)
           ELSE UNCHANGED <<versions, data, order>>
        /\ proposals' = [proposals EXCEPT ![p].executed = TRUE]
        /\ UNCHANGED <<now, rs, index, dedup, rateState, guard, extraVars, snaps>>
=============================================================================
