-------------------------- MODULE RegulatorEvidence -------------------------
(* What regulators are shown: data sharing agreements                        *)
(* (src/src/data_sharing.rs), field disclosure (disclosure.rs), chain checks *)
(* (tamper_evidence.rs), controls and their evidence (regulator.rs,          *)
(* regulator_events.rs, compliance_validators.rs). All are pure functions.   *)
EXTENDS PlatformHost

CONSTANT Bit   \* positions of a digest that differ between fields

VARIABLE evidence   \* the question under inspection, once one is chosen

SensitivityLevel == 0..3   \* Public, Internal, Confidential, Restricted
RegulatorRole == {"Auditor", "RegulatorOfficer", "RegulatoryAdmin"}
ComplianceStandardName == {"ISA3000", "SOC2", "GDPR", "SOX"}

DataSharingAgreement ==
    [active : BOOLEAN, effective : 0..2, expiry : 0..2, regulator : Account,
     standards : SUBSET {"SOC2", "GDPR"}, types : SUBSET Label, role : RegulatorRole]
AccessRequest == [requester : Account, standard : {"SOC2", "GDPR"}, types : SUBSET Label]

is_dsa_active(dsa, ledger) ==
    dsa.active /\ ledger >= dsa.effective /\ (dsa.expiry = 0 \/ ledger <= dsa.expiry)

(* An empty list allows everything.                                          *)
is_event_type_allowed(dsa, type) == dsa.types = {} \/ type \in dsa.types
is_standard_allowed(dsa, standard) == dsa.standards = {} \/ standard \in dsa.standards
is_sensitivity_allowed(min_sensitivity, sensitivity) == sensitivity >= min_sensitivity

evaluate_access(dsa, request, ledger) ==
    IF /\ is_dsa_active(dsa, ledger)
       /\ is_standard_allowed(dsa, request.standard)
       /\ \A type \in request.types : is_event_type_allowed(dsa, type)
       /\ request.requester = dsa.regulator
    THEN IF dsa.role = "Auditor" THEN "Conditional" ELSE "Approved"
    ELSE "Rejected"

(* The id of an agreement is its time: the parties do not enter it.          *)
calculate_agreement_id(provider, regulator, timestamp) == timestamp

-----------------------------------------------------------------------------
(* Field disclosure. A digest is the set of its one bits and two combine by  *)
(* exclusive or.                                                             *)
Digest == SUBSET Bit
ZeroDigest == {}
combine_hashes(left, right) == (left \ right) \cup (right \ left)

(* One level up: neighbours combine, an odd last one is carried over.        *)
NextLevel(hashes) ==
    [k \in 1..(Len(hashes) + 1) \div 2 |->
        IF 2 * k <= Len(hashes) THEN combine_hashes(hashes[2 * k - 1], hashes[2 * k])
        ELSE hashes[2 * k - 1]]

calculate_root(hashes) ==
    LET root[level \in Seq(Digest)] ==
            IF level = <<>> THEN ZeroDigest
            ELSE IF Len(level) = 1 THEN level[1] ELSE root[NextLevel(level)]
    IN  root[hashes]

(* The siblings on the way up, which the position says to combine on either  *)
(* side: with exclusive or both give the same.                               *)
verify_field_inclusion(hash, siblings, root) ==
    FoldLeft(combine_hashes, hash, siblings) = root

(* The disclosed root covers all fields, whichever are disclosed.            *)
create_disclosure_proof(fields, disclosed, complete_root) ==
    [disclosed_root |-> calculate_root(fields), complete_root |-> complete_root,
     disclosed |-> disclosed]

(* The two roots are not compared.                                           *)
verify_disclosure_proof(proof) ==
    proof.disclosed # {} /\ proof.disclosed_root # ZeroDigest

create_compliance_proof(criteria) ==
    [disclosed_root |-> ZeroDigest, complete_root |-> ZeroDigest, disclosed |-> criteria]

-----------------------------------------------------------------------------
(* Chain checks.                                                             *)
verify_chain_link(hash, prev, next_prev) == prev = next_prev \/ next_prev = hash

calculate_integrity_score(total, mismatches) ==
    IF total = 0 THEN 100 ELSE (Max({total - mismatches, 0}) * 100) \div total

verify_chain_continuity(links) ==
    LET bad == {k \in DOMAIN links : ~links[k]}
    IN  [valid |-> bad = {}, mismatches |-> Cardinality(bad), compromised |-> bad,
         score |-> calculate_integrity_score(Len(links), Cardinality(bad))]

verify_immutability(index, total, threshold) == Max({total - index, 0}) >= threshold

verify_no_retroactive_modification(hash, references) ==
    \A k \in DOMAIN references : references[k] = hash

create_archive_proof(path) == [valid |-> path # <<>>]

-----------------------------------------------------------------------------
(* Controls: the evidence each needs and how many pieces of it.              *)
get_control_objectives ==
    "CC6.1" :> [types |-> {"access_grant", "role_assignment"}, least |-> 2] @@
    "CC6.2" :> [types |-> {"exception_report", "approval_log"}, least |-> 1] @@
    "CC7.1" :> [types |-> {"change_log", "audit_trail"}, least |-> 2] @@
    "CC9.1" :> [types |-> {"reconciliation", "balance_verification"}, least |-> 1] @@
    "A1.1"  :> [types |-> {"policy_document", "access_control_list"}, least |-> 1]

get_security_criteria ==
    "CC6.1" :> [types |-> {"access_control", "authentication"}, least |-> 2] @@
    "CC6.2" :> [types |-> {"identity_verification", "credential_issuance"}, least |-> 1] @@
    "CC7.1" :> [types |-> {"change_request", "change_approval"}, least |-> 2]

get_availability_criteria ==
    "A1.1" :> [types |-> {"uptime_report", "availability_metric"}, least |-> 1]

get_processing_integrity_criteria ==
    "PI1.1" :> [types |-> {"transaction_log", "reconciliation"}, least |-> 1]

SOC2Criteria ==
    get_security_criteria @@ get_availability_criteria @@ get_processing_integrity_criteria

(* The catalogues of events list the same evidence.                          *)
ISA3000Objectives == [code \in DOMAIN get_control_objectives |->
                         get_control_objectives[code].types]
SOC2Evidence == [code \in DOMAIN SOC2Criteria |-> SOC2Criteria[code].types]

(* Only the number of pieces is looked at, not their types.                  *)
validate_control(code, events, count) ==
    IF code \notin DOMAIN get_control_objectives
    THEN [operating |-> FALSE, sufficient |-> FALSE, count |-> 0]
    ELSE LET enough == count >= get_control_objectives[code].least
         IN  [operating |-> enough /\ events > 0, sufficient |-> enough, count |-> count]

validate_criterion(code, count) ==
    IF code \notin DOMAIN SOC2Criteria
    THEN [operating |-> FALSE, sufficient |-> FALSE, count |-> 0]
    ELSE LET enough == count >= SOC2Criteria[code].least
         IN  [operating |-> enough, sufficient |-> enough, count |-> count]

calculate_compliance_score(tested, operating) ==
    IF tested = 0 THEN 0 ELSE (operating * 100) \div tested

generate_evidence_report(tested, operating) ==
    [score |-> calculate_compliance_score(tested, operating),
     deficient |-> Max({tested - operating, 0})]

-----------------------------------------------------------------------------
EvidenceCases ==
    [kind : {"access"}, dsa : {d \in DataSharingAgreement : d.effective <= 1},
     request : AccessRequest, ledger : {1}]
    \cup [kind : {"fields"}, fields : SeqOf(Digest, 3)]
    \cup [kind : {"links"}, links : SeqOf(BOOLEAN, 3)]
    \cup [kind : {"controls"}, tested : 0..3, operating : 0..3]

EvidenceInit == evidence = None

InspectEvidence == evidence = None /\ \E c \in EvidenceCases : evidence' = Some(c)

EvidenceNext == InspectEvidence

-----------------------------------------------------------------------------
(* Evidence (data_sharing.rs, disclosure.rs, tamper_evidence.rs,             *)
(* compliance_validators.rs), over bounded inputs: asking for less never     *)
(* loses an access, and a type outside a closed list is never granted; the   *)
(* root of any number of fields is what every field proves with the others   *)
(* as its siblings; the integrity score is full exactly when no link is bad; *)
(* and the parts of a control report add up.                                 *)
EvidenceConsistent ==
    \A e \in evidence :
        /\ e.kind = "access" =>
              LET given == evaluate_access(e.dsa, e.request, e.ledger)
              IN  given # "Rejected" =>
                    /\ \A less \in SUBSET e.request.types :
                          evaluate_access(e.dsa, [e.request EXCEPT !.types = less], e.ledger)
                             = given
                    /\ e.dsa.types # {} => e.request.types \subseteq e.dsa.types
        /\ e.kind = "fields" => \A k \in DOMAIN e.fields :
              verify_field_inclusion(e.fields[k], RemoveAt(e.fields, k),
                                     calculate_root(e.fields))
        /\ e.kind = "links" =>
              LET seen == verify_chain_continuity(e.links)
              IN  (seen.score = 100) <=> seen.valid
        /\ e.kind = "controls" /\ e.operating <= e.tested =>
              LET report == generate_evidence_report(e.tested, e.operating)
              IN  /\ report.deficient + e.operating = e.tested
                  /\ report.score \in 0..100
                  /\ e.tested > 0 => (report.score = 100 <=> report.deficient = 0)
=============================================================================
