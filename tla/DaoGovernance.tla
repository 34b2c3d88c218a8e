--------------------------- MODULE DaoGovernance ---------------------------
(* The DAO contracts: proposals and delegation (src/src/dao_governance.rs),  *)
(* the treasury (src/src/dao_treasury.rs) and the jury                       *)
(* (src/src/dao_dispute_resolution.rs). Three contracts with storage of      *)
(* their own; `clock' is the ledger sequence their deadlines are kept in.    *)
EXTENDS PlatformHost

CONSTANTS
    Power,         \* voting power an account may hold
    MaxDelegated,  \* delegated power stops here
    MaxCases       \* proposals, funds, allocations and disputes, each

(* There are finitely many addresses, and balances are unsigned.             *)
ASSUME DaoAssumption ==
    /\ IsFiniteSet(Account)
    /\ Power \subseteq Nat
    /\ {MaxDelegated, MaxCases} \subseteq Nat

VARIABLES
    dao,        \* [owner, config, proposals, power, votes]
    treasury,   \* [ready, signers, required, fees, funds, allocations, approvals,
                \*  shares, collected]
    jury        \* [config, disputes, assignments, slashed, appeals]

ProposalStatus == {"Active", "Executed", "Cancelled"}
VoteChoice == {"For", "Against", "Abstain"}

Proposal ==
    [proposer : Account, start_ledger : Nat, end_ledger : Nat,
     execution_ledger : Nat, status : ProposalStatus, tally : [VoteChoice -> Nat]]

VotingPower ==
    [base_power : Nat, delegated_power : Nat, delegated_to : SUBSET Account]

GovernanceConfig ==
    {c \in [voting_delay : 0..1, voting_period : {1}, timelock_delay : 0..1] :
        c.voting_delay + c.timelock_delay = 1}

(* Nothing in the contract sets base_power: the balances of the governance   *)
(* token are there before the first call.                                    *)
DaoInit ==
    \E base \in [Account -> Power] :
        dao = [owner |-> None, config |-> None, proposals |-> <<>>,
               power |-> [a \in Account |-> [base_power |-> base[a],
                                             delegated_power |-> 0,
                                             delegated_to |-> None]],
               votes |-> EmptyMap]

initialize(owner, config) ==
    /\ dao.owner = None
    /\ dao' = [dao EXCEPT !.owner = Some(owner), !.config = Some(config)]

PowerOf(user) == dao.power[user].base_power + dao.power[user].delegated_power

propose(proposer) ==
    LET config == The(dao.config)
        start  == clock + config.voting_delay
        end    == start + config.voting_period
    IN  /\ dao.config # None
        /\ PowerOf(proposer) > 0
        /\ Len(dao.proposals) < MaxCases
        /\ dao' = [dao EXCEPT !.proposals = Append(@,
                      [proposer |-> proposer, start_ledger |-> start, end_ledger |-> end,
                       execution_ledger |-> end + config.timelock_delay, status |-> "Active",
                       tally |-> [c \in VoteChoice |-> 0]])]

(* The window alone is asked: a cancelled proposal still collects votes.     *)
vote(voter, id, choice) ==
    /\ clock >= dao.proposals[id].start_ledger
    /\ clock <= dao.proposals[id].end_ledger
    /\ <<voter, id>> \notin DOMAIN dao.votes
    /\ PowerOf(voter) > 0
    /\ dao' = [dao EXCEPT
                 !.votes = Put(@, <<voter, id>>, [choice |-> choice, power |-> PowerOf(voter)]),
                 !.proposals[id].tally[choice] = @ + PowerOf(voter)]

(* The delegator keeps its own power, and a second delegation adds it again. *)
delegate(delegator, to) ==
    /\ delegator # to
    /\ dao.power[delegator].base_power > 0
    /\ dao.power[to].delegated_power + dao.power[delegator].base_power <= MaxDelegated
    /\ dao' = [dao EXCEPT !.power[delegator].delegated_to = Some(to),
                          !.power[to].delegated_power = @ + dao.power[delegator].base_power]

(* Faulty variant: the delegate is not forgotten.                            *)
UndelegateUnforgotten(delegator) ==
    LET to == dao.power[delegator].delegated_to
    IN  /\ to # None
        /\ dao' = [dao EXCEPT !.power[The(to)].delegated_power =
                                  @ - dao.power[delegator].base_power]

undelegate(delegator) ==
    LET to == dao.power[delegator].delegated_to
    IN  /\ to # None
        /\ dao' = [dao EXCEPT !.power[The(to)].delegated_power =
                                  @ - dao.power[delegator].base_power,
                              !.power[delegator].delegated_to = None]

(* Quorum and approval threshold of the proposal are not looked at.          *)
proposal_passed(id) ==
    /\ clock > dao.proposals[id].end_ledger
    /\ dao.proposals[id].tally["For"] > dao.proposals[id].tally["Against"]

(* The status is not asked: a cancelled proposal can be executed.            *)
execute_proposal(id) ==
    /\ clock >= dao.proposals[id].execution_ledger
    /\ proposal_passed(id)
    /\ dao' = [dao EXCEPT !.proposals[id].status = "Executed"]

cancel_proposal(caller, id) ==
    /\ caller \in {dao.proposals[id].proposer} \cup dao.owner
    /\ dao' = [dao EXCEPT !.proposals[id].status = "Cancelled"]

(* Proposals keep the deadlines of the configuration they were made under.   *)
update_config(config) ==
    /\ dao.owner # None
    /\ dao' = [dao EXCEPT !.config = Some(config)]

DaoNext ==
    \/ \E a \in Account, c \in GovernanceConfig : initialize(a, c)
    \/ \E a \in Account : propose(a)
    \/ \E a \in Account, p \in DOMAIN dao.proposals, c \in VoteChoice : vote(a, p, c)
    \/ \E a, b \in Account : delegate(a, b)
    \/ \E a \in Account : undelegate(a)
    \/ \E p \in DOMAIN dao.proposals : execute_proposal(p)
    \/ \E a \in Account, p \in DOMAIN dao.proposals : cancel_proposal(a, p)
    \/ \E c \in GovernanceConfig : update_config(c)

-----------------------------------------------------------------------------
(* The fund name distribute_fees uses for every fund: 32 zero bytes.         *)
ZeroName == "zeros"

FeeBasis == 10000

(* The recipient of a fund's entry is not read.                              *)
FeeDistribution(bps) ==
    [recipient : Account, percentage_bps : {bps}, is_fund : {FALSE}]
    \cup [recipient : {ZeroName}, percentage_bps : {bps}, is_fund : {TRUE}]

FundName == {"operations", ZeroName}

(* The owner is whoever authorizes the calls that ask for it.                *)
TreasuryInit ==
    treasury = [ready |-> FALSE, signers |-> {}, required |-> 0, fees |-> <<>>,
                funds |-> EmptyMap, allocations |-> <<>>, approvals |-> {},
                shares |-> EmptyMap, collected |-> 0]

initialize_treasury(signers, required) ==
    /\ ~treasury.ready
    /\ treasury' = [treasury EXCEPT !.ready = TRUE, !.signers = signers,
                                    !.required = required]

(* The period is stored, and nothing ever starts a new one.                  *)
create_fund(name, limit) ==
    /\ treasury.ready
    /\ name \notin DOMAIN treasury.funds
    /\ Cardinality(DOMAIN treasury.funds) < MaxCases
    /\ treasury' = [treasury EXCEPT !.funds =
                        Put(@, name, [balance |-> 0, budget_limit |-> limit, budget_used |-> 0])]

deposit(name, amount) ==
    /\ amount > 0
    /\ name \in DOMAIN treasury.funds
    /\ treasury.funds[name].balance + amount <= MaxRecords
    /\ treasury' = [treasury EXCEPT !.funds[name].balance = @ + amount]

(* The fund is not asked for before the allocation is executed.              *)
request_allocation(name, amount) ==
    /\ treasury.ready
    /\ amount > 0
    /\ Len(treasury.allocations) < MaxCases
    /\ treasury' = [treasury EXCEPT !.allocations = Append(@,
                       [fund |-> name, amount |-> amount, approved |-> FALSE, approval_count |-> 0,
                        required_approvals |-> treasury.required, execution_ledger |-> 0])]

approve_allocation(signer, id) ==
    LET count == treasury.allocations[id].approval_count + 1
    IN  /\ signer \in treasury.signers
        /\ <<id, signer>> \notin treasury.approvals
        /\ treasury' = [treasury EXCEPT
                          !.approvals = @ \cup {<<id, signer>>},
                          !.allocations[id].approval_count = count,
                          !.allocations[id].approved =
                              @ \/ count >= treasury.allocations[id].required_approvals]

(* Approval is not used up: an allocation may be executed again.             *)
execute_allocation(id) ==
    LET allocation == treasury.allocations[id]
        fund == treasury.funds[allocation.fund]
    IN  /\ allocation.approved
        /\ allocation.fund \in DOMAIN treasury.funds
        /\ allocation.amount + fund.budget_used <= fund.budget_limit
        /\ allocation.amount <= fund.balance
        /\ treasury' = [treasury EXCEPT
                          !.funds[allocation.fund].balance = @ - allocation.amount,
                          !.funds[allocation.fund].budget_used = @ + allocation.amount,
                          !.allocations[id].execution_ledger = clock]

set_fee_distribution(distribution) ==
    /\ treasury.ready
    /\ Total([k \in DOMAIN distribution |-> distribution[k].percentage_bps],
             DOMAIN distribution) = FeeBasis
    /\ treasury' = [treasury EXCEPT !.fees = distribution]

ShareOf(entry, fees) == (fees * entry.percentage_bps) \div FeeBasis

(* A fund's share goes to the fund of the zero name; if there is none, or    *)
(* the share rounds to nothing, the deposit panics and with it the call.     *)
distribute_fees(fees) ==
    LET entries == DOMAIN treasury.fees
        toFund  == {k \in entries : treasury.fees[k].is_fund}
        share   == [k \in entries |-> ShareOf(treasury.fees[k], fees)]
        paid(a) == Total(share, {k \in entries \ toFund : treasury.fees[k].recipient = a})
        funds   == [n \in DOMAIN treasury.funds |->
                      IF n = ZeroName
                      THEN [treasury.funds[n] EXCEPT !.balance = @ + Total(share, toFund)]
                      ELSE treasury.funds[n]]
    IN  /\ treasury.ready
        /\ treasury.collected + fees <= MaxRecords
        /\ \A k \in toFund : share[k] > 0 /\ ZeroName \in DOMAIN treasury.funds
        /\ treasury' = [treasury EXCEPT
              !.funds = funds,
              !.shares = [a \in Account |-> GetOr(@, a, 0) + paid(a)],
              !.collected = @ + fees]

TreasuryNext ==
    \/ \E s \in SUBSET Account \ {{}}, n \in 0..2 : initialize_treasury(s, n)
    \/ \E n \in FundName, limit \in Amount : create_fund(n, limit)
    \/ \E n \in FundName, x \in Amount : deposit(n, x) \/ request_allocation(n, x)
    \/ \E a \in Account, k \in DOMAIN treasury.allocations : approve_allocation(a, k)
    \/ \E k \in DOMAIN treasury.allocations : execute_allocation(k)
    \/ \E d \in FeeDistribution(FeeBasis) : set_fee_distribution(<<d>>)
    \/ \E d \in FeeDistribution(3333), e \in FeeDistribution(6667) : set_fee_distribution(<<d, e>>)
    \/ \E x \in Amount : distribute_fees(x)

-----------------------------------------------------------------------------
DisputeStatus == {"Filed", "EvidenceSubmitted", "Voting", "Decided"}
DisputeOutcome == {"PlaintiffWins", "DefendantWins", "Dismissed"}

DisputeConfig ==
    [jurors_per_dispute : {1, 2}, evidence_period : {1}, voting_period : {1},
     slashing_bps : {5000}]

JuryInit ==
    jury = [config |-> None, disputes |-> <<>>, assignments |-> EmptyMap,
            slashed |-> EmptyMap, appeals |-> <<>>]

initialize_disputes(config) ==
    /\ jury.config = None
    /\ jury' = [jury EXCEPT !.config = Some(config)]

file_dispute(plaintiff, defendant, stake) ==
    /\ plaintiff # defendant
    /\ jury.config # None
    /\ Len(jury.disputes) < MaxCases
    /\ jury' = [jury EXCEPT !.disputes = Append(@,
                  [plaintiff |-> plaintiff, defendant |-> defendant, status |-> "Filed",
                   jurors |-> <<>>, tally |-> [o \in DisputeOutcome |-> 0], votes_cast |-> 0,
                   outcome |-> None, stake_amount |-> stake,
                   evidence_deadline |-> clock + The(jury.config).evidence_period,
                   voting_deadline |-> 0])]

(* One side submits, once: the status it sets closes the period to the other.*)
submit_evidence(id, submitter) ==
    /\ jury.disputes[id].status = "Filed"
    /\ clock <= jury.disputes[id].evidence_deadline
    /\ submitter \in {jury.disputes[id].plaintiff, jury.disputes[id].defendant}
    /\ jury' = [jury EXCEPT !.disputes[id].status = "EvidenceSubmitted",
                            !.disputes[id].voting_deadline = clock + The(jury.config).voting_period]

(* In any status: a decided dispute is reopened, with the tallies it had,    *)
(* and jurors who are replaced keep their assignment.                        *)
assign_jurors(id, jurors) ==
    /\ Len(jurors) = The(jury.config).jurors_per_dispute
    /\ jury' = [jury EXCEPT
                  !.assignments = [k \in {<<id, jurors[n]>> : n \in DOMAIN jurors} |-> None] @@ @,
                  !.disputes[id].jurors = jurors,
                  !.disputes[id].status = "Voting"]

(* "Dismissed" stands for every verdict counted as an abstention.            *)
cast_juror_vote(juror, id, outcome) ==
    /\ jury.disputes[id].status = "Voting"
    /\ clock <= jury.disputes[id].voting_deadline
    /\ <<id, juror>> \in DOMAIN jury.assignments
    /\ jury.assignments[<<id, juror>>] = None
    /\ jury.disputes[id].votes_cast < MaxRecords + 1
    /\ jury' = [jury EXCEPT !.assignments[<<id, juror>>] = Some(outcome),
                            !.disputes[id].tally[outcome] = @ + 1,
                            !.disputes[id].votes_cast = @ + 1]

Verdict(tally) ==
    CASE tally["PlaintiffWins"] > tally["DefendantWins"] -> "PlaintiffWins"
      [] tally["PlaintiffWins"] < tally["DefendantWins"] -> "DefendantWins"
      [] OTHER -> "Dismissed"

(* The jurors' rewards are computed and dropped.                             *)
finalize_dispute(id) ==
    LET dispute == jury.disputes[id]
        verdict == Verdict(dispute.tally)
        loss    == (dispute.stake_amount * The(jury.config).slashing_bps) \div FeeBasis
        before  == GetOr(jury.slashed, dispute.defendant, 0)
    IN  /\ dispute.status = "Voting"
        /\ clock > dispute.voting_deadline
        /\ before < MaxRecords
        /\ jury' = [jury EXCEPT
                      !.disputes[id].outcome = Some(verdict),
                      !.disputes[id].status = "Decided",
                      !.slashed = IF verdict = "PlaintiffWins"
                                  THEN Put(@, dispute.defendant, before + loss) ELSE @]

(* The dispute itself is left as it is, so it can be appealed again.         *)
file_appeal(id, appellant) ==
    /\ jury.disputes[id].status = "Decided"
    /\ appellant \in {jury.disputes[id].plaintiff, jury.disputes[id].defendant}
    /\ Len(jury.appeals) < 1
    /\ jury' = [jury EXCEPT !.appeals = Append(@, [dispute |-> id, appellant |-> appellant])]

JuryNext ==
    \/ \E c \in DisputeConfig : initialize_disputes(c)
    \/ \E a, b \in Account, x \in Amount : file_dispute(a, b, x)
    \/ \E k \in DOMAIN jury.disputes, a \in Account : submit_evidence(k, a)
    \/ \E k \in DOMAIN jury.disputes, a \in Account : assign_jurors(k, <<a>>)
    \/ \E k \in DOMAIN jury.disputes, a, b \in Account : assign_jurors(k, <<a, b>>)
    \/ \E k \in DOMAIN jury.disputes, a \in Account, o \in DisputeOutcome : cast_juror_vote(a, k, o)
    \/ \E k \in DOMAIN jury.disputes : finalize_dispute(k)
    \/ \E k \in DOMAIN jury.disputes, a \in Account : file_appeal(k, a)

-----------------------------------------------------------------------------
DaoTypeOK ==
    /\ dao.proposals \in Seq(Proposal)
    /\ dao.power \in [Account -> VotingPower]
    /\ dao.config \in SUBSET GovernanceConfig
    /\ \A k \in DOMAIN jury.disputes : jury.disputes[k].status \in DisputeStatus

(* The tally of a choice is the power of the votes recorded for it.          *)
TalliesRecorded ==
    \A p \in DOMAIN dao.proposals, c \in VoteChoice :
        dao.proposals[p].tally[c] =
            Total([v \in DOMAIN dao.votes |-> dao.votes[v].power],
                  {v \in DOMAIN dao.votes : v[2] = p /\ dao.votes[v].choice = c})

(* What an account holds by delegation covers the power of everyone whose    *)
(* delegate it still is, so taking a delegation back never underflows.       *)
DelegationsCovered ==
    \A a \in Account :
        dao.power[a].delegated_power >=
            Total([b \in Account |-> dao.power[b].base_power],
                  {b \in Account : dao.power[b].delegated_to = Some(a)})

(* An executed proposal had its majority when its votes and its timelock     *)
(* were over, and later votes have not undone it.                            *)
ExecutedWithMajority ==
    \A p \in DOMAIN dao.proposals : dao.proposals[p].status = "Executed" =>
        /\ clock > dao.proposals[p].end_ledger
        /\ dao.proposals[p].tally["For"] > dao.proposals[p].tally["Against"]

(* Money leaves a fund within its budget, and only for an allocation that    *)
(* enough different signers approved.                                        *)
SpendingApproved ==
    /\ \A n \in DOMAIN treasury.funds :
          treasury.funds[n].budget_used <= treasury.funds[n].budget_limit
    /\ \A k \in DOMAIN treasury.allocations : treasury.allocations[k].execution_ledger > 0 =>
           Cardinality({s \in treasury.signers : <<k, s>> \in treasury.approvals})
               >= treasury.allocations[k].required_approvals

(* Rounding never hands out more than was collected.                         *)
FeesCovered ==
    Total([a \in DOMAIN treasury.shares |-> treasury.shares[a]], DOMAIN treasury.shares)
        <= treasury.collected

(* A verdict agrees with the ballots, also once the case was reopened.       *)
VerdictsStand ==
    \A k \in DOMAIN jury.disputes : jury.disputes[k].outcome # None =>
        The(jury.disputes[k].outcome) = Verdict(jury.disputes[k].tally)

(* DAO: tallies, delegation, treasury and verdicts agree with what the       *)
(* members, the signers and the jurors did (dao_governance.rs vote,          *)
(* delegate, execute_proposal; dao_treasury.rs execute_allocation,           *)
(* distribute_fees; dao_dispute_resolution.rs finalize_dispute).             *)
DaoAccountable ==
    /\ TalliesRecorded /\ DelegationsCovered /\ ExecutedWithMajority
    /\ SpendingApproved /\ FeesCovered /\ VerdictsStand
=============================================================================
