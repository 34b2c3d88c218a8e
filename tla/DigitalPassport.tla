-------------------------- MODULE DigitalPassport --------------------------
(* Product passports (src/src/digital_passport.rs): creation, updates, the   *)
(* lifecycle with its history, repairs, recycling, refurbishment, ESPR       *)
(* checks and exports.                                                       *)
EXTENDS PlatformHost

CONSTANTS
    Product,    \* product ids; the passport id is their digest
    EmptyProduct, \* the empty product id
    Content     \* [weight, carbon, eol, recycled]: material percentages in
                \* total, embodied carbon, end-of-life score, recycled share

VARIABLE passport
(* [cards : Passport(id), listed : ProductPassports, stages :                *)
(*  LifecycleHistory, repairs : RepairHistory, repairCount, recyclings :     *)
(*  RecyclingHistory, recyclingCount, refurbishments, compliance :           *)
(*  ComplianceHistory, exports : ExportHistory, count : PassportCount]       *)

ComplianceStatus == {"Compliant", "PartiallyCompliant", "NonCompliant", "PendingVerification"}

PassportLifecycleStage ==
    {"Created", "InProduction", "ReadyForMarket", "InMarket", "EndOfLife",
     "Recycled", "Archived"}

Passport == [manufacturer : Account, content : Content, stage : PassportLifecycleStage,
             created : 0..MaxClock, last_updated : 0..MaxClock, version : Nat]

LifecycleEvent == [stage : PassportLifecycleStage, previous : PassportLifecycleStage,
                   actor : Account, at : 0..MaxClock]

PassportInit ==
    passport = [cards |-> EmptyMap, listed |-> EmptyMap, stages |-> EmptyMap,
                repairs |-> EmptyMap, repairCount |-> EmptyMap,
                recyclings |-> EmptyMap, recyclingCount |-> EmptyMap,
                refurbishments |-> EmptyMap, compliance |-> EmptyMap,
                exports |-> EmptyMap, count |-> 0]

(* A product that has a passport gets a new one over it, from any account;   *)
(* the histories kept under the id stay.                                     *)
create_passport(p, manufacturer, content) ==
    /\ passport.count < MaxRecords
    /\ passport' = [passport EXCEPT
         !.cards = Put(@, p, [manufacturer |-> manufacturer, content |-> content,
                              stage |-> "Created", created |-> clock,
                              last_updated |-> clock, version |-> 1]),
         !.listed = PushTo(@, p, p),
         !.count = @ + 1]

update_passport(p, updater, content) ==
    /\ passport.cards[p].manufacturer = updater
    /\ passport.cards[p].version < MaxRecords
    /\ passport' = [passport EXCEPT !.cards[p].content = content,
                                    !.cards[p].last_updated = clock,
                                    !.cards[p].version = @ + 1]

(* transition_lifecycle_stage on a state of the module: no stage is refused. *)
Moved(state, p, stage, actor) ==
    [state EXCEPT
        !.stages = PushTo(@, p, [stage |-> stage, previous |-> state.cards[p].stage,
                                 actor |-> actor, at |-> clock]),
        !.cards[p].stage = stage,
        !.cards[p].last_updated = clock]

MayMove(p) == p \in DOMAIN passport.cards /\ Len(ListUnder(passport.stages, p)) < MaxRecords

transition_lifecycle_stage(p, stage, actor) ==
    /\ MayMove(p)
    /\ passport' = Moved(passport, p, stage, actor)

(* The passport need not exist.                                              *)
record_repair(p, facility) ==
    /\ Len(ListUnder(passport.repairs, p)) < MaxRecords
    /\ passport' = [passport EXCEPT !.repairs = PushTo(@, p, facility),
                                    !.repairCount = Put(@, p, GetOr(@, p, 0) + 1)]

(* Above 80 percent recovered, the product counts as recycled, and then it   *)
(* must exist.                                                               *)
record_recycling(p, facility, recovery_rate) ==
    LET noted == [passport EXCEPT !.recyclings = PushTo(@, p, recovery_rate),
                                  !.recyclingCount = Put(@, p, GetOr(@, p, 0) + 1)]
    IN  /\ Len(ListUnder(passport.recyclings, p)) < MaxRecords
        /\ recovery_rate > 80 => MayMove(p)
        /\ passport' = IF recovery_rate > 80 THEN Moved(noted, p, "Recycled", facility)
                       ELSE noted

record_refurbishment(p, facility) ==
    LET noted == [passport EXCEPT !.refurbishments = PushTo(@, p, facility)]
    IN  /\ MayMove(p)
        /\ passport' = Moved(noted, p, "InMarket", facility)

(* The checks run in order and each overwrites the status so far: missing    *)
(* carbon or end-of-life data hides a missing product id, a total weight     *)
(* beyond five percent of the whole (none listed included) hides both.       *)
EsprStatus(p, content) ==
    IF content.weight < 95 \/ content.weight > 105 THEN "NonCompliant"
    ELSE IF content.eol = 0 \/ content.carbon = 0 THEN "PartiallyCompliant"
    ELSE IF p = EmptyProduct THEN "NonCompliant"
    ELSE "Compliant"

verify_espr_compliance(p, verifier) ==
    /\ Len(ListUnder(passport.compliance, p)) < MaxRecords
    /\ passport' = [passport EXCEPT !.compliance =
                      PushTo(@, p, [verifier |-> verifier,
                                    status |-> EsprStatus(p, passport.cards[p].content)])]

generate_passport_export(p) ==
    /\ Len(ListUnder(passport.exports, p)) < MaxRecords
    /\ passport' = [passport EXCEPT !.exports = PushTo(@, p, clock)]

(* Ten years, in units of the clock, after creation the passport expires.    *)
PassportLifetime == 2
check_passport_validity(p) == passport.cards[p].created + PassportLifetime > clock

validate_interoperability(p) ==
    LET c == passport.cards[p].content
    IN  p # EmptyProduct /\ c.weight > 0 /\ c.carbon > 0

(* Carbon weighs 40, recycled content and end of life 30 each.               *)
calculate_environmental_score(p) ==
    LET c == passport.cards[p].content
        Grade(best, good, points) == IF best THEN points ELSE IF good THEN points \div 2 ELSE 0
    IN  Grade(c.carbon < 1000, c.carbon < 5000, 40)
        + Grade(c.recycled >= 50, c.recycled >= 25, 30)
        + Grade(c.eol >= 80, c.eol >= 50, 30)

PassportNext ==
    \/ \E p \in Product, a \in Account :
        \/ \E c \in Content : create_passport(p, a, c)
        \/ record_repair(p, a)
        \/ \E r \in {80, 81} : record_recycling(p, a, r)
        \/ record_refurbishment(p, a)
        \/ \E stage \in {"InMarket", "EndOfLife"} : transition_lifecycle_stage(p, stage, a)
    \/ \E p \in DOMAIN passport.cards :
        \/ generate_passport_export(p)
        \/ \E a \in Account :
            \/ verify_espr_compliance(p, a)
            \/ \E c \in Content : update_passport(p, a, c)

PassportTypeOK ==
    /\ \A p \in DOMAIN passport.cards : passport.cards[p] \in Passport
    /\ \A p \in DOMAIN passport.stages : passport.stages[p] \in Seq(LifecycleEvent)

-----------------------------------------------------------------------------
(* A product's history has no gap: each recorded change starts at the stage  *)
(* the one before it reached, or at the creation of a new passport for the   *)
(* product, and the present stage is the last one recorded, or Created; the  *)
(* counts of repairs and recyclings agree with the histories.                *)
LifecycleTraced ==
    \A p \in Product :
        LET history == ListUnder(passport.stages, p)
        IN  /\ \A k \in DOMAIN history : k > 1 =>
                  history[k].previous \in {history[k - 1].stage, "Created"}
            /\ p \in DOMAIN passport.cards /\ passport.cards[p].stage # "Created" =>
                  history # <<>> /\ Last(history).stage = passport.cards[p].stage
            /\ GetOr(passport.repairCount, p, 0) = Len(ListUnder(passport.repairs, p))
            /\ GetOr(passport.recyclingCount, p, 0) = Len(ListUnder(passport.recyclings, p))
=============================================================================
