----------------------------- MODULE Reputation -----------------------------
(* Reputation of submitters (src/src/reputation_system.rs): scores and tiers *)
(* that reviews, disputes and violations move, and incentives. lib.rs does   *)
(* not declare the file. Times and texts are left out.                       *)
EXTENDS PlatformHost

CONSTANTS
    BaseScore,           \* 100 in the code
    TierThreshold,       \* of silver, gold and platinum: <<500, 1000, 5000>>
    ReviewWeight,        \* 10
    DisputeWeight,       \* 50
    CompliancePenalty    \* 100

ASSUME ReputationAssumption ==
    /\ TierThreshold \in [1..3 -> Nat]
    /\ BaseScore < TierThreshold[1]
    /\ {BaseScore, ReviewWeight, DisputeWeight, CompliancePenalty} \subseteq Nat

VARIABLE reputation
(* [owner : Owner, scores : ReputationScore(address), and, for each kind of  *)
(*  record, the records, the list of identifiers and the next identifier]    *)

RecordKind == {"review", "dispute", "incentive"}

ReputationScore ==
    [score : Nat, tier : 0..3, event_count : Nat, positive_reviews : Nat,
     negative_reviews : Nat, disputes_won : Nat, disputes_lost : Nat,
     compliance_violations : Nat]
PeerReview == [reviewer : Account, subject : Account, rating : 0..5]
DisputeRecord == [plaintiff : Account, defendant : Account, status : {"open", "resolved"}]
IncentiveRecord == [recipient : Account, amount : Nat]

(* The counters read 1 before initialize sets them.                          *)
ReputationInit ==
    reputation = [owner |-> None, scores |-> EmptyMap,
                  records |-> [k \in RecordKind |-> EmptyMap],
                  ids |-> [k \in RecordKind |-> <<>>],
                  next |-> [k \in RecordKind |-> 1]]

(* Sets the counters to 1 whatever was filed before.                         *)
initialize_reputation(owner) ==
    /\ reputation.owner = None
    /\ reputation' = [reputation EXCEPT !.owner = Some(owner),
                                        !.next = [k \in RecordKind |-> 1]]

require_owner(caller) == reputation.owner = Some(caller)

(* get_next_*_id, the record under the identifier, and the identifier at the *)
(* end of the list. An identifier digests its number alone.                  *)
WithRecord(kind, record) ==
    LET id == reputation.next[kind]
    IN  [reputation EXCEPT !.next[kind] = id + 1,
                           !.records[kind] = Put(@, id, record),
                           !.ids[kind] = Append(@, id)]

NoReputation ==
    [score |-> BaseScore, tier |-> 0, event_count |-> 0, positive_reviews |-> 0,
     negative_reviews |-> 0, disputes_won |-> 0, disputes_lost |-> 0,
     compliance_violations |-> 0]

get_reputation(submitter) == GetOr(reputation.scores, submitter, NoReputation)

compute_tier(score) == Cardinality({t \in 1..3 : score >= TierThreshold[t]})

saturating_sub(a, b) == IF a > b THEN a - b ELSE 0

(* The score and the tier it makes.                                          *)
Rescored(r, score) == [r EXCEPT !.score = score, !.tier = compute_tier(score)]

Scored(state, submitter, r) == [state EXCEPT !.scores = Put(@, submitter, r)]

update_event_count(caller, submitter) ==
    LET r == get_reputation(submitter)
    IN  /\ require_owner(caller)
        /\ r.event_count < MaxRecords
        /\ reputation' = Scored(reputation, submitter,
                            Rescored([r EXCEPT !.event_count = @ + 1], r.score))

record_violation(caller, submitter) ==
    LET r == get_reputation(submitter)
    IN  /\ require_owner(caller)
        /\ r.compliance_violations < MaxRecords
        /\ reputation' = Scored(reputation, submitter,
                            Rescored([r EXCEPT !.compliance_violations = @ + 1],
                                     saturating_sub(r.score, CompliancePenalty)))

(* Anyone but the subject, any number of times.                              *)
submit_review(reviewer, subject, rating) ==
    LET r    == get_reputation(subject)
        good == rating >= 3
    IN  /\ reviewer # subject
        /\ rating <= 5
        /\ Len(reputation.ids["review"]) <= MaxRecords
        /\ reputation' =
              Scored(WithRecord("review", [reviewer |-> reviewer, subject |-> subject,
                                      rating |-> rating]),
                     subject,
                     IF good
                     THEN Rescored([r EXCEPT !.positive_reviews = @ + 1],
                                   r.score + ReviewWeight)
                     ELSE Rescored([r EXCEPT !.negative_reviews = @ + 1],
                                   saturating_sub(r.score, ReviewWeight)))

(* Anyone, against anyone.                                                   *)
file_reputation_dispute(plaintiff, defendant) ==
    /\ Len(reputation.ids["dispute"]) < MaxRecords
    /\ reputation' = WithRecord("dispute", [plaintiff |-> plaintiff, defendant |-> defendant,
                                       status |-> "open"])

resolve_reputation_dispute(caller, id, defendant_won) ==
    LET dispute == reputation.records["dispute"][id]
        r       == get_reputation(dispute.defendant)
    IN  /\ require_owner(caller)
        /\ id \in DOMAIN reputation.records["dispute"]
        /\ dispute.status # "resolved"
        /\ reputation' =
              Scored([reputation EXCEPT !.records["dispute"][id].status = "resolved"],
                     dispute.defendant,
                     IF defendant_won
                     THEN Rescored([r EXCEPT !.disputes_won = @ + 1],
                                   r.score + DisputeWeight)
                     ELSE Rescored([r EXCEPT !.disputes_lost = @ + 1],
                                   saturating_sub(r.score, DisputeWeight)))

award_incentive(caller, recipient, amount) ==
    /\ require_owner(caller)
    /\ Len(reputation.ids["incentive"]) < MaxRecords
    /\ reputation' = WithRecord("incentive", [recipient |-> recipient, amount |-> amount])

ReputationNext ==
    \E a, b \in Account :
        \/ initialize_reputation(a)
        \/ update_event_count(a, b)
        \/ record_violation(a, b)
        \/ \E rating \in {2, 3, 6} : submit_review(a, b, rating)
        \/ file_reputation_dispute(a, b)
        \/ \E id \in DOMAIN reputation.records["dispute"], won \in BOOLEAN :
              resolve_reputation_dispute(a, id, won)
        \/ \E n \in Amount : award_incentive(a, b, n)

ReputationTypeOK ==
    /\ \A a \in DOMAIN reputation.scores : reputation.scores[a] \in ReputationScore
    /\ \A i \in DOMAIN reputation.records["review"] :
          reputation.records["review"][i] \in PeerReview
    /\ \A i \in DOMAIN reputation.records["dispute"] :
          reputation.records["dispute"][i] \in DisputeRecord
    /\ \A i \in DOMAIN reputation.records["incentive"] :
          reputation.records["incentive"][i] \in IncentiveRecord

-----------------------------------------------------------------------------
Known == DOMAIN reputation.scores

(* A score rests on its evidence (reputation_system.rs): what counted for    *)
(* the submitter bounds it from above, what is left of that after everything *)
(* that counted against bounds it from below, for no deduction goes beyond   *)
(* zero; and it has the tier it deserves after every change.                 *)
ScoresRestOnEvidence ==
    \A a \in Known :
        LET r       == reputation.scores[a]
            for     == BaseScore + ReviewWeight * r.positive_reviews
                                 + DisputeWeight * r.disputes_won
            against == ReviewWeight * r.negative_reviews + DisputeWeight * r.disputes_lost
                                 + CompliancePenalty * r.compliance_violations
        IN  /\ r.score <= for
            /\ r.score >= for - against
            /\ r.tier = compute_tier(r.score)

(* Evidence counts once (reputation_system.rs): every review listed, and     *)
(* every dispute resolved, though a record that another replaced is counted  *)
(* and no longer there. An identifier is given twice at most, and only where *)
(* records were filed before initialize; an incentive's never.               *)
EvidenceCountedOnce ==
    LET sum(val(_)) == Total([a \in Known |-> val(reputation.scores[a])], Known)
        reviews(r)  == r.positive_reviews + r.negative_reviews
        verdicts(r) == r.disputes_won + r.disputes_lost
        disputes    == reputation.records["dispute"]
        given(k, i) == {n \in DOMAIN reputation.ids[k] : reputation.ids[k][n] = i}
        resolved    == {i \in DOMAIN disputes : disputes[i].status = "resolved"}
    IN  /\ sum(reviews) = Len(reputation.ids["review"])
        /\ sum(verdicts) >= Cardinality(resolved)
        /\ IsInjective(reputation.ids["dispute"]) => sum(verdicts) = Cardinality(resolved)
        /\ \A k \in RecordKind :
              /\ DOMAIN reputation.records[k] = ToSet(reputation.ids[k])
              /\ \A i \in DOMAIN reputation.records[k] :
                    Cardinality(given(k, i)) <=
                      IF k = "incentive" \/ reputation.owner = None THEN 1 ELSE 2

ReputationsSound == ScoresRestOnEvidence /\ EvidenceCountedOnce
=============================================================================
