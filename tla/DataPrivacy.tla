---------------------------- MODULE DataPrivacy ----------------------------
(* Governance of data and privacy: the catalogue (src/src/data_governance.rs)*)
(* private analytics (src/src/privacy_preserving_analytics.rs), and breaches *)
(* and disclosure policies (src/src/contract_event_privacy.rs).              *)
EXTENDS PlatformHost

CONSTANT NotificationWindow   \* 72 hours in the code

VARIABLES
    catalog,    \* [admin, assets : AssetById, lineage : LineageEdge, quality :
                \*  QualityScorecard, policies : PolicyById, byRole :
                \*  PolicyByAssetRole, requests : StewardshipRequestById]
    analytics,  \* [admin, budget : Budget, queries : DPQuery, rounds : FLRound,
                \*  gradients : FLGradient, sessions : SmpcSession, commitments :
                \*  SmpcCommitment, metrics : HomomorphicMetric]
    breaches    \* [owner : Owner, workflows : Breach(id), ids : BreachIds,
                \*  pets : Pet(id), tees : Tee(event), policies : Disclosure(event)]

DataClassification == {"Public", "Internal", "Confidential", "Restricted"}
CatalogAsset == [owner : Account, steward : Account, classification : DataClassification,
                 version : 0..MaxRecords]
AccessPolicy == [asset : Label, role : Label, actions : SUBSET {"read", "write", "export"},
                 expires_at : Nat]
StewardshipRequest == [asset : Label, requester : Account, reviewer : SUBSET Account,
                       status : {"pending", "approved", "rejected"}]

CatalogInit ==
    catalog = [admin |-> None, assets |-> EmptyMap, lineage |-> EmptyMap,
               quality |-> EmptyMap, policies |-> EmptyMap, byRole |-> EmptyMap,
               requests |-> <<>>]

initialize_catalog(admin) ==
    catalog.admin = None /\ catalog' = [catalog EXCEPT !.admin = Some(admin)]

(* Whoever calls may register, also over an asset of someone else.           *)
register_asset(id, asset) ==
    /\ catalog.admin # None
    /\ catalog' = [catalog EXCEPT !.assets = Put(@, id, asset)]

OwnsAsset(caller, id) ==
    /\ id \in DOMAIN catalog.assets
    /\ caller \in {catalog.assets[id].owner, catalog.assets[id].steward}

update_asset(caller, id, classification) ==
    /\ OwnsAsset(caller, id)
    /\ catalog.assets[id].version < MaxRecords
    /\ catalog' = [catalog EXCEPT !.assets[id].classification = classification,
                                  !.assets[id].version = @ + 1]

record_lineage(edge, source, target) ==
    catalog' = [catalog EXCEPT !.lineage = Put(@, edge, <<source, target>>)]

record_quality_scorecard(id, passed) ==
    catalog' = [catalog EXCEPT !.quality = Put(@, id, passed)]

(* Stored by id and by asset and role; access checks read the second.        *)
set_access_policy(caller, id, policy) ==
    /\ OwnsAsset(caller, policy.asset)
    /\ catalog' = [catalog EXCEPT !.policies = Put(@, id, policy),
                                  !.byRole = Put(@, <<policy.asset, policy.role>>, policy)]

check_access(id, role, action) ==
    /\ <<id, role>> \in DOMAIN catalog.byRole
    /\ LET policy == catalog.byRole[<<id, role>>]
       IN  /\ policy.expires_at = 0 \/ policy.expires_at >= clock
           /\ action \in policy.actions

create_stewardship_request(requester, id) ==
    /\ Len(catalog.requests) < MaxRecords
    /\ catalog' = [catalog EXCEPT !.requests =
          Append(@, [asset |-> id, requester |-> requester, reviewer |-> None,
                     status |-> "pending"])]

(* Any caller reviews, and may review again.                                 *)
review_stewardship_request(steward, n, approved) ==
    catalog' = [catalog EXCEPT
        !.requests[n].status = IF approved THEN "approved" ELSE "rejected",
        !.requests[n].reviewer = Some(steward)]

CatalogNext ==
    \/ \E a \in Account : initialize_catalog(a)
    \/ \E a, b \in Account, id \in Label :
          register_asset(id, [owner |-> a, steward |-> b, classification |-> "Internal",
                              version |-> 0])
    \/ \E a \in Account, id \in Label : \/ update_asset(a, id, "Restricted")
                                        \/ create_stewardship_request(a, id)
    \/ \E id, source, target \in Label : record_lineage(id, source, target)
    \/ \E id \in Label, b \in BOOLEAN : record_quality_scorecard(id, b)
    \/ \E a \in Account, id, asset, role \in Label, actions \in {{}, {"read"}},
          expires \in {0, clock + 1} :
          set_access_policy(a, id, [asset |-> asset, role |-> role, actions |-> actions,
                                    expires_at |-> expires])
    \/ \E a \in Account, n \in DOMAIN catalog.requests, b \in BOOLEAN :
          review_stewardship_request(a, n, b)

-----------------------------------------------------------------------------
PrivacyBudget == [max_epsilon : Amount, spent_epsilon : Nat, query_count : 0..MaxRecords]
FLRound == [min_participants : Amount, participant_count : Nat,
            status : {"open", "aggregated"}]
SmpcSession == [threshold : Amount, commitments_count : 0..MaxRecords,
                status : {"initialized", "active", "completed"}]

AnalyticsInit ==
    analytics = [budget |-> None, queries |-> EmptyMap, rounds |-> <<>>,
                 gradients |-> {}, sessions |-> EmptyMap, commitments |-> {},
                 metrics |-> EmptyMap]

initialize_analytics(max_epsilon) ==
    /\ analytics.budget = None
    /\ analytics' = [analytics EXCEPT !.budget =
          Some([max_epsilon |-> max_epsilon, spent_epsilon |-> 0, query_count |-> 0])]

(* A query id may be used again: the record is replaced, the cost is spent.  *)
execute_dp_query(query, sensitivity, cost) ==
    \E budget \in analytics.budget :
        /\ budget.spent_epsilon + cost <= budget.max_epsilon
        /\ sensitivity # 0
        /\ budget.query_count < MaxRecords
        /\ analytics' = [analytics EXCEPT
              !.budget = Some([budget EXCEPT !.spent_epsilon = @ + cost,
                                             !.query_count = @ + 1]),
              !.queries = Put(@, query, cost)]

start_fl_round(min_participants) ==
    /\ Len(analytics.rounds) < MaxRecords
    /\ analytics' = [analytics EXCEPT !.rounds =
          Append(@, [min_participants |-> min_participants, participant_count |-> 0,
                     status |-> "open"])]

(* Faulty variant: a second gradient of a participant counts.                *)
SubmitGradientAgain(participant, round) ==
    /\ analytics.rounds[round].status = "open"
    /\ analytics.rounds[round].participant_count < MaxRecords
    /\ analytics' = [analytics EXCEPT !.gradients = @ \cup {<<round, participant>>},
                                      !.rounds[round].participant_count = @ + 1]

submit_fl_gradient(participant, round) ==
    /\ analytics.rounds[round].status = "open"
    /\ <<round, participant>> \notin analytics.gradients
    /\ analytics' = [analytics EXCEPT !.gradients = @ \cup {<<round, participant>>},
                                      !.rounds[round].participant_count = @ + 1]

aggregate_fl_round(round) ==
    /\ analytics.rounds[round].participant_count >= analytics.rounds[round].min_participants
    /\ analytics' = [analytics EXCEPT !.rounds[round].status = "aggregated"]

(* Creating a session again forgets its count, not its commitments.          *)
create_smpc_session(s, threshold) ==
    analytics' = [analytics EXCEPT !.sessions =
        Put(@, s, [threshold |-> threshold, commitments_count |-> 0,
                   status |-> "initialized"])]

(* A party that commits again counts again, and a completed session that     *)
(* takes a commitment is active once more.                                   *)
submit_smpc_commitment(party, s) ==
    LET count == analytics.sessions[s].commitments_count + 1
    IN  /\ count <= MaxRecords
        /\ analytics' = [analytics EXCEPT
              !.commitments = @ \cup {<<s, party>>},
              !.sessions[s].commitments_count = count,
              !.sessions[s].status =
                  IF count >= analytics.sessions[s].threshold THEN "active" ELSE @]

finalize_smpc_session(s) ==
    /\ analytics.sessions[s].commitments_count >= analytics.sessions[s].threshold
    /\ analytics' = [analytics EXCEPT !.sessions[s].status = "completed"]

record_homomorphic_metric(submitter, id) ==
    analytics' = [analytics EXCEPT !.metrics = Put(@, id, submitter)]

AnalyticsNext ==
    \/ \E v \in Amount : initialize_analytics(v) \/ start_fl_round(v)
    \/ \E q \in Label, v, w \in Amount : execute_dp_query(q, v, w)
    \/ \E a \in Account, r \in DOMAIN analytics.rounds : submit_fl_gradient(a, r)
    \/ \E r \in DOMAIN analytics.rounds : aggregate_fl_round(r)
    \/ \E s \in Label, v \in Amount : create_smpc_session(s, v)
    \/ \E s \in DOMAIN analytics.sessions :
          finalize_smpc_session(s) \/ \E a \in Account : submit_smpc_commitment(a, s)
    \/ \E a \in Account, id \in Label : record_homomorphic_metric(a, id)

-----------------------------------------------------------------------------
BreachStatus == {"Detected", "Assessed", "AuthorityNotified", "SubjectsNotified", "Closed"}
BreachWorkflow == [reporter : Account, detected_at : Nat, deadline : Nat, severity : 0..4,
                   authority_notified_at : Nat, subjects_notified_at : Nat,
                   status : BreachStatus]

BreachInit ==
    breaches = [owner |-> None, workflows |-> EmptyMap, ids |-> <<>>, pets |-> 0,
                tees |-> EmptyMap, policies |-> EmptyMap]

initialize_privacy(owner) ==
    breaches.owner = None /\ breaches' = [breaches EXCEPT !.owner = Some(owner)]

(* Saves a workflow; its id is listed the first time.                        *)
save_breach(id, record) ==
    breaches' = [breaches EXCEPT
        !.workflows = Put(@, id, record),
        !.ids = IF Contains(@, id) THEN @ ELSE Append(@, id)]

(* Anyone reports a breach; its number follows the earlier ones.             *)
detect_breach(reporter, severity) ==
    /\ severity <= 4
    /\ Len(breaches.ids) < MaxRecords
    /\ save_breach(Len(breaches.ids) + 1,
          [reporter |-> reporter, detected_at |-> clock,
           deadline |-> clock + NotificationWindow, severity |-> severity,
           authority_notified_at |-> 0, subjects_notified_at |-> 0, status |-> "Detected"])

assess_breach(caller, id) ==
    /\ Some(caller) = breaches.owner
    /\ save_breach(id, [breaches.workflows[id] EXCEPT !.status = "Assessed"])

(* Once each; the deadline is not looked at.                                 *)
notify_authority(caller, id) ==
    /\ Some(caller) = breaches.owner
    /\ breaches.workflows[id].authority_notified_at = 0
    /\ save_breach(id, [breaches.workflows[id] EXCEPT !.authority_notified_at = clock,
                                                      !.status = "AuthorityNotified"])

notify_subjects(caller, id) ==
    /\ Some(caller) = breaches.owner
    /\ breaches.workflows[id].subjects_notified_at = 0
    /\ save_breach(id, [breaches.workflows[id] EXCEPT !.subjects_notified_at = clock,
                                                      !.status = "SubjectsNotified"])

complete_review(caller, id) ==
    /\ Some(caller) = breaches.owner
    /\ save_breach(id, [breaches.workflows[id] EXCEPT !.status = "Closed"])

register_pet(caller) ==
    /\ Some(caller) = breaches.owner
    /\ breaches.pets < MaxRecords
    /\ breaches' = [breaches EXCEPT !.pets = @ + 1]

record_tee_attestation(verifier, event) ==
    breaches' = [breaches EXCEPT !.tees = Put(@, event, verifier)]

set_disclosure_policy(caller, event, verifier, expires_at) ==
    /\ Some(caller) = breaches.owner
    /\ expires_at > clock
    /\ breaches' = [breaches EXCEPT !.policies =
          Put(@, event, [verifier |-> verifier, expires_at |-> expires_at])]

BreachNext ==
    \E a \in Account :
        \/ initialize_privacy(a) \/ register_pet(a)
        \/ \E v \in Amount : detect_breach(a, v)
        \/ \E id \in DOMAIN breaches.workflows :
              \/ assess_breach(a, id) \/ complete_review(a, id)
              \/ notify_authority(a, id) \/ notify_subjects(a, id)
        \/ \E e \in Label : \/ record_tee_attestation(a, e)
                            \/ \E t \in 0..1 : set_disclosure_policy(a, e, a, clock + t)

PrivacyTypeOK ==
    /\ \A id \in DOMAIN catalog.assets : catalog.assets[id] \in CatalogAsset
    /\ \A id \in DOMAIN catalog.policies : catalog.policies[id] \in AccessPolicy
    /\ catalog.requests \in Seq(StewardshipRequest)
    /\ analytics.budget \subseteq PrivacyBudget
    /\ analytics.rounds \in Seq(FLRound)
    /\ \A s \in DOMAIN analytics.sessions : analytics.sessions[s] \in SmpcSession
    /\ \A id \in DOMAIN breaches.workflows : breaches.workflows[id] \in BreachWorkflow

-----------------------------------------------------------------------------
(* Data privacy (the three files above): the privacy budget is never         *)
(* overspent; a learning round counts each participant once and is           *)
(* aggregated only with enough of them; a computation completes only at its  *)
(* threshold; a policy that an access check honours is for that asset and    *)
(* role; a reviewed request names its reviewer; a breach keeps its own       *)
(* number and the status of a notice it has really had.                      *)
PrivacyAccounted ==
    /\ \A b \in analytics.budget : b.spent_epsilon <= b.max_epsilon
    /\ \A r \in DOMAIN analytics.rounds :
        LET round == analytics.rounds[r]
        IN  /\ round.participant_count
                  = Cardinality({g \in analytics.gradients : g[1] = r})
            /\ round.status = "aggregated" => round.participant_count >= round.min_participants
    /\ \A s \in DOMAIN analytics.sessions :
          analytics.sessions[s].status # "initialized"
             => analytics.sessions[s].commitments_count >= analytics.sessions[s].threshold
    /\ \A id \in DOMAIN catalog.policies :
          <<catalog.policies[id].asset, catalog.policies[id].role>> \in DOMAIN catalog.byRole
    /\ \A k \in DOMAIN catalog.byRole :
          k = <<catalog.byRole[k].asset, catalog.byRole[k].role>> /\ k[1] \in DOMAIN catalog.assets
    /\ \A n \in DOMAIN catalog.requests :
          catalog.requests[n].status = "pending" <=> catalog.requests[n].reviewer = None
    /\ breaches.ids = [n \in 1..Cardinality(DOMAIN breaches.workflows) |-> n]
    /\ \A id \in DOMAIN breaches.workflows :
        LET w == breaches.workflows[id]
        IN  /\ w.status = "AuthorityNotified" => w.authority_notified_at >= w.detected_at
            /\ w.status = "SubjectsNotified" => w.subjects_notified_at >= w.detected_at
=============================================================================
