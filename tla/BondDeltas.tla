----------------------------- MODULE BondDeltas -----------------------------
(***************************************************************************)
(* What the eventing runs report (packages/bonds-eventing): the state row  *)
(* kept of a validator and the events that tell the difference between the *)
(* row and what the auction, or the bonds API, says now.                   *)
(*                                                                         *)
(* Null stands for null, undefined, NaN and the infinities.  An amount of  *)
(* SOL is a number of grains, GRAINS of them to a lamport; an epochs value *)
(* is in thousandths: both are finer than what the code rounds to.         *)
(* Messages, bond addresses and details that only repeat the validator's   *)
(* data are left out of the events.                                        *)
(***************************************************************************)
EXTENDS Integers, Sequences

CONSTANTS
    Null,
    GRAINS,                    \* grains of SOL in a lamport
    DUST_SOL_THRESHOLD,        \* in grains
    MIN_SETTLEMENT_LAMPORTS,
    ALLOWED_STAKE_PER_BOND_RATIO

ASSUME RoundingAssumption ==
    /\ GRAINS \in Nat \ {0}
    /\ DUST_SOL_THRESHOLD \in Nat
    /\ MIN_SETTLEMENT_LAMPORTS \in Nat \ {0}
    /\ ALLOWED_STAKE_PER_BOND_RATIO \in Nat \ {0}

finiteOr(value, fallback) == IF value = Null THEN fallback ELSE value

solToLamports(sol) ==
    IF sol = Null THEN 0 ELSE (sol + (GRAINS \div 2)) \div GRAINS

(* Variant: epochs as the auction computes them, float jitter included     *)
unroundedEpochs(value) == value

roundEpochs(value) == IF value = Null THEN Null ELSE (value + 5) \div 10

AtLeastZero(n) == IF n > 0 THEN n ELSE 0

PerMille(pmpe, stake) == (pmpe * stake) \div 1000

-----------------------------------------------------------------------------
(* Bidding validators, as the auction simulation returns them              *)

isInAuction(v) == finiteOr(v.target, 0) > 0

(* v.claimable ?? v.balance falls back on null and undefined only; no      *)
(* reading has a NaN or an infinity here.                                  *)
claimableOrBalance(v) == finiteOr(v.claimable, v.balance)

(* deficit_sol: what is missing to the bids of one epoch and the           *)
(* obligations on chain; Null when the bid or the stake is not known.      *)
computeDeficitMetrics(v) ==
    IF v.pmpe = Null \/ v.stake = Null \/ v.stake = 0 THEN Null
    ELSE LET protected == AtLeastZero(v.stake - finiteOr(v.unprotected, 0))
             required == PerMille(finiteOr(v.onchainPmpe, 0), protected)
                            + PerMille(v.pmpe, v.stake)
         IN  AtLeastZero(required - finiteOr(v.balance, 0))

computePenalties(v) ==
    LET stake == finiteOr(v.stake, 0)
    IN  PerMille(finiteOr(v.bidTooLowPmpe, 0), stake)
            + PerMille(finiteOr(v.blacklistPmpe, 0), stake)
            + finiteOr(v.bondRiskFee, 0)

activatingStakeFee(v) ==
    PerMille(finiteOr(v.activatingPmpe, 0),
             AtLeastZero(finiteOr(v.target, 0) - finiteOr(v.stake, 0)))

validatorToState(v, epoch) ==
    [epoch |-> epoch,
     in_auction |-> isInAuction(v),
     bond_good_for_n_epochs |-> roundEpochs(v.epochs),
     cap_constraint |-> v.cap,
     funded |-> solToLamports(v.balance),
     effective |-> solToLamports(claimableOrBalance(v)),
     auction_stake |-> solToLamports(v.target),
     deficit |-> solToLamports(computeDeficitMetrics(v)),
     settlement_claims |-> Null,
     sam_eligible |-> v.samEligible]

-----------------------------------------------------------------------------
(* Events: a type, the validator, and the details its type has             *)

When(condition, event) == IF condition THEN <<event>> ELSE <<>>

buildBondBalanceChangeEvent(vote, prev, funded, effective) ==
    When(funded # prev.funded,
         [inner_type |-> "bond_balance_change", vote |-> vote,
          previous_funded |-> prev.funded, current_funded |-> funded])

buildSettlementAppliedEvent(vote, current, previous) ==
    When(current > 0 /\ current # previous /\ current >= MIN_SETTLEMENT_LAMPORTS,
         [inner_type |-> "settlement_applied", vote |-> vote,
          previous_settlement |-> previous, settlement_total |-> current])

buildValidatorDelistedEvent(vote, prev) ==
    When(prev.funded > 0 \/ prev.in_auction,
         [inner_type |-> "validator_delisted", vote |-> vote,
          last_known_funded |-> prev.funded, last_known_epoch |-> prev.epoch])

FirstSeen(vote, v) ==
    [inner_type |-> "first_seen", vote |-> vote,
     bond_balance |-> solToLamports(v.balance),
     in_auction |-> isInAuction(v),
     bond_good_for_n_epochs |-> roundEpochs(v.epochs),
     cap_constraint |-> v.cap, sam_eligible |-> v.samEligible,
     deficit |-> computeDeficitMetrics(v)]

AuctionStatusEvents(vote, v, prev) ==
    When(~prev.in_auction /\ isInAuction(v),
         [inner_type |-> "auction_entered", vote |-> vote])
    \o When(prev.in_auction /\ ~isInAuction(v),
            [inner_type |-> "auction_exited", vote |-> vote,
             previous_auction_stake |-> prev.auction_stake])

CapEvents(vote, v, prev) ==
    When(prev.cap_constraint # v.cap,
         [inner_type |-> "cap_changed", vote |-> vote,
          previous_cap |-> prev.cap_constraint, current_cap |-> v.cap])

(* previous_deficit is in lamports, the current one as the auction has it. *)
UnderfundedEvents(vote, v, prev) ==
    LET epochs == roundEpochs(v.epochs)
        deficit == computeDeficitMetrics(v)
        epochsChanged == /\ prev.bond_good_for_n_epochs # Null
                         /\ epochs # Null
                         /\ prev.bond_good_for_n_epochs # epochs
        epochsNewlyKnown == /\ prev.bond_good_for_n_epochs = Null
                            /\ epochs # Null
        deficitChanged == /\ deficit # Null
                          /\ solToLamports(deficit) # prev.deficit
    IN  When(epochsChanged \/ epochsNewlyKnown \/ deficitChanged,
             [inner_type |-> "bond_underfunded_change", vote |-> vote,
              previous_epochs |-> prev.bond_good_for_n_epochs,
              current_epochs |-> epochs,
              previous_deficit |-> prev.deficit, deficit |-> deficit])

(* Only in the first run that saves the validator in an epoch              *)
PenaltyEvents(vote, v, prev, epoch) ==
    When(/\ \/ computePenalties(v) > DUST_SOL_THRESHOLD
            \/ activatingStakeFee(v) > DUST_SOL_THRESHOLD
         /\ prev.epoch # epoch,
         [inner_type |-> "penalty_expected", vote |-> vote,
          total_penalty |-> computePenalties(v)])

EligibleEvents(vote, v, prev) ==
    When(prev.sam_eligible # v.samEligible,
         [inner_type |-> "sam_eligible_change", vote |-> vote,
          current_sam_eligible |-> v.samEligible])

(* What a run tells of a bidding validator whose row is prev               *)
DeltasOf(vote, v, prev, epoch) ==
    LET funded == solToLamports(v.balance)
        effective == solToLamports(claimableOrBalance(v))
    IN  AuctionStatusEvents(vote, v, prev)
        \o CapEvents(vote, v, prev)
        \o UnderfundedEvents(vote, v, prev)
        \o buildBondBalanceChangeEvent(vote, prev, funded, effective)
        \o buildSettlementAppliedEvent(vote, funded - effective,
                                       prev.funded - prev.effective)
        \o PenaltyEvents(vote, v, prev, epoch)
        \o EligibleEvents(vote, v, prev)

-----------------------------------------------------------------------------
(* Institutional validators, as the bonds API returns them (in lamports)   *)

computeFlatDeficit(stake, effective) ==
    AtLeastZero((stake \div ALLOWED_STAKE_PER_BOND_RATIO) - effective)

institutionalValidatorToState(v, epoch) ==
    [epoch |-> epoch,
     in_auction |-> FALSE,
     bond_good_for_n_epochs |-> Null,
     cap_constraint |-> Null,
     funded |-> v.funded,
     effective |-> v.effective,
     auction_stake |-> 0,
     deficit |-> computeFlatDeficit(v.stake, v.effective),
     settlement_claims |-> v.claims,
     sam_eligible |-> FALSE]

(* The balance that it tells is the effective one.                         *)
InstitutionalFirstSeen(vote, v) ==
    [inner_type |-> "first_seen", vote |-> vote,
     effective_balance |-> v.effective,
     deficit |-> computeFlatDeficit(v.stake, v.effective)]

InstitutionalDeltasOf(vote, v, prev) ==
    LET deficit == computeFlatDeficit(v.stake, v.effective)
    IN  When(deficit # prev.deficit,
             [inner_type |-> "bond_underfunded_change", vote |-> vote,
              previous_deficit |-> prev.deficit, flat_deficit |-> deficit])
        \o buildBondBalanceChangeEvent(vote, prev, v.funded, v.effective)
        \o buildSettlementAppliedEvent(vote, v.claims,
                                       finiteOr(prev.settlement_claims, 0))
=============================================================================
