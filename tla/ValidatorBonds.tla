--------------------------- MODULE ValidatorBonds ---------------------------
(***************************************************************************)
(* The funds of the validator-bonds program.  Validators deposit stake     *)
(* accounts under the program's PDA (Bonds); the operator funds            *)
(* settlements from them by moving the staker authority of a stake account *)
(* to the settlement's PDA; the records of the settlement's merkle tree    *)
(* are then claimed from the funded accounts, and what is left is reset to *)
(* the bond once the settlement is gone.  A validator takes funds out of   *)
(* the bond through a withdraw request.                                    *)
(*                                                                         *)
(* One action is one instruction: a Solana transaction is atomic, and an   *)
(* instruction that fails (a require!, an Anchor constraint, an arithmetic *)
(* overflow under overflow-checks, a failing CPI) changes nothing, so each *)
(* of those is a guard.  Signers are roles: the holder of a role signs.    *)
(***************************************************************************)
EXTENDS StakeProgram, ClaimsAccount, FiniteSets, FiniteSetsExt

CONSTANTS
    Votes,         \* validator vote accounts, each with its bond account
    Settlements,   \* settlement addresses: PDAs of (bond, merkle root, epoch);
                   \* also stands for the settlement's staker authority PDA
    BondOf,        \* [Settlements -> Votes]
    EpochOf,       \* [Settlements -> Nat], epoch_created_for
    Tree,          \* per settlement: merkle-tree index -> claim in lamports
    Bonds, Owner,  \* the bonds withdrawer authority PDA; the outside world
    Payers,        \* who pays the rent of the account a funding splits off
    StakeIds,      \* addresses of stake accounts
    Deposits,      \* stake accounts somebody may create (records, see below)
    Tips,          \* amounts that may be transferred to a stake account
    Supply,        \* bound on the lamports that enter stake accounts
    MaxTotals, MaxNodes,     \* init_settlement arguments
    Amounts,                 \* init_withdraw_request arguments
    Minimums, ClaimEpochs, LockupEpochs, StartSlots,   \* configure_config arguments
    Pausable, ClosableVotes, \* whether an emergency happens; votes that may go
    SlotsPerEpoch, MaxSlot   \* length of an epoch; bound on the clock

ASSUME SettlementsAssumption ==
    /\ BondOf \in [Settlements -> Votes]
    /\ EpochOf \in [Settlements -> Nat]
    /\ MaxTotals \subseteq Nat /\ MaxNodes \subseteq Nat

(* An address is 32 bytes long. *)
ASSUME StakeIdsAssumption == IsFiniteSet(StakeIds)

ASSUME TreeAssumption ==
    \A s \in Settlements :
        DOMAIN Tree[s] \subseteq Nat /\ Tree[s] \in [DOMAIN Tree[s] -> Nat]

ASSUME ConfigAssumption ==
    /\ Minimums \subseteq Nat /\ ClaimEpochs \subseteq Nat
    /\ LockupEpochs \subseteq Nat /\ StartSlots \subseteq Nat

ASSUME ClockAssumption == SlotsPerEpoch \in Nat \ {0} /\ MaxSlot \in Nat

ASSUME EnvironmentAssumption ==
    /\ Tips \subseteq Nat /\ Supply \in Nat /\ Amounts \subseteq Nat
    /\ Pausable \in BOOLEAN /\ ClosableVotes \subseteq Votes

ASSUME AuthoritiesAssumption ==
    /\ Bonds # Owner /\ Bonds # Nobody /\ Owner # Nobody
    /\ {Bonds, Owner, Nobody} \cap Settlements = {}
    /\ Nobody \notin Votes \cup Payers

(* Who creates what: a validator's own account; a deposit made by hand     *)
(* straight under the bonds authorities (fund_bond.rs:15-17); Marinade's   *)
(* share, an undelegated account under the settlement's staker authority.  *)
Deposit == [staker : Settlements \cup {Bonds, Owner}, withdrawer : {Bonds, Owner},
            voter : Votes \cup {Nobody}, lamports : Nat, locked : BOOLEAN]

ASSUME DepositsAssumption ==
    \A d \in Deposits :
        /\ d \in Deposit
        /\ d.withdrawer = Owner => d.staker = Owner
        /\ d.withdrawer = Bonds => d.staker # Owner
        /\ d.staker \in Settlements => d.voter = Nobody
        /\ d.lamports >= Rent + MinDelegation

VARIABLES
    slot,         \* Clock::slot
    config,       \* the Config account
    voteLive,     \* the vote account still belongs to the vote program
    stakes,       \* the stake accounts
    wallet,       \* lamports that may still be put into stake accounts
    paid,         \* lamports paid out of the stake accounts, by receiver
    settlements,  \* the Settlement accounts
    claims,       \* the SettlementClaims accounts: size in bytes, set bits
    requests      \* the WithdrawRequest account of each bond

vars == <<slot, config, voteLive, stakes, wallet, paid, settlements, claims, requests>>

Epoch == slot \div SlotsPerEpoch

NoSettlement ==
    [exists |-> FALSE, max_total_claim |-> 0, max_merkle_nodes |-> 0,
     lamports_funded |-> 0, lamports_claimed |-> 0, merkle_nodes_claimed |-> 0,
     slot_created_at |-> 0, split_rent_collector |-> Nobody, split_rent_amount |-> 0]

NoClaims == [size |-> 0, bits |-> {}]

NoRequest == [exists |-> FALSE, epoch |-> 0, withdrawn_amount |-> 0,
              requested_amount |-> 0]

Config == [paused : BOOLEAN, minimum_stake_lamports : Minimums,
           epochs_to_claim_settlement : ClaimEpochs,
           withdraw_lockup_epochs : LockupEpochs,
           slots_to_start_settlement_claiming : StartSlots]

(* init_config has been run; nothing is deposited yet *)
Init ==
    /\ slot = 0
    /\ config \in Config /\ ~config.paused
    /\ voteLive = [v \in Votes |-> TRUE]
    /\ stakes = [x \in StakeIds |-> NoAccount]
    /\ wallet = Supply
    /\ paid = [p \in Payers \cup {Owner} |-> 0]
    /\ settlements = [s \in Settlements |-> NoSettlement]
    /\ claims = [s \in Settlements |-> NoClaims]
    /\ requests = [v \in Votes |-> NoRequest]

-----------------------------------------------------------------------------
(* What the instructions check and compute *)

(* utils/stake.rs: minimal_size_stake_account *)
MinSize == Rent + config.minimum_stake_lamports

(* withdrawer authority is the bonds program *)
InCustody(x) == Exists(stakes[x]) /\ stakes[x].withdrawer = Bonds

(* check_stake_valid_delegation; variant: the voter is not compared *)
DelegatedToAnyone(x, v) == IsDelegated(stakes[x])

DelegatedTo(x, v) == IsDelegated(stakes[x]) /\ stakes[x].voter = v

(* is_closed; variant: not checked *)
ClosedOrNot(s) == TRUE

IsClosed(s) == ~settlements[s].exists

Fresh(y) == ~Exists(stakes[y])

Running == ~config.paused

(* The claiming window and the expiry of a settlement: claim_settlement.rs *)
(* and close_settlement.rs compare the same sum with the clock.            *)
ClaimingOpen(s) ==
    /\ EpochOf[s] + config.epochs_to_claim_settlement >= Epoch
    /\ settlements[s].slot_created_at
          + config.slots_to_start_settlement_claiming <= slot

(* Variant: expired in the last epoch of the window already *)
ExpiresInLastEpoch(s) == EpochOf[s] + config.epochs_to_claim_settlement <= Epoch

Expired(s) == EpochOf[s] + config.epochs_to_claim_settlement < Epoch

-----------------------------------------------------------------------------
(* config: configure_config, emergency_pause, emergency_resume *)

(* Deliberately not gated by the pause. *)
ConfigureConfig(c) ==
    /\ c # config /\ c.paused = config.paused
    /\ config' = c
    /\ UNCHANGED <<slot, voteLive, stakes, wallet, paid, settlements, claims, requests>>

EmergencyPause ==
    /\ Pausable /\ ~config.paused
    /\ config' = [config EXCEPT !.paused = TRUE]
    /\ UNCHANGED <<slot, voteLive, stakes, wallet, paid, settlements, claims, requests>>

EmergencyResume ==
    /\ config.paused
    /\ config' = [config EXCEPT !.paused = FALSE]
    /\ UNCHANGED <<slot, voteLive, stakes, wallet, paid, settlements, claims, requests>>

-----------------------------------------------------------------------------
(* bond: fund_bond *)

(* check_stake_exist_and_activating_or_activated *)
ActivatingOrActivated(x) ==
    /\ Activating(stakes[x], Epoch) \/ Effective(stakes[x], Epoch)
    /\ ~Deactivating(stakes[x], Epoch)

(* The signer is the account's withdrawer.  The early return for an        *)
(* account already under Bonds needs the PDA's own signature.              *)
FundBond(x, v) ==
    /\ Running
    /\ Exists(stakes[x]) /\ stakes[x].withdrawer = Owner
    /\ ~stakes[x].locked
    /\ ActivatingOrActivated(x)
    /\ DelegatedTo(x, v)
    /\ stakes' = [stakes EXCEPT ![x].staker = Bonds, ![x].withdrawer = Bonds]
    /\ UNCHANGED <<slot, config, voteLive, wallet, paid, settlements, claims, requests>>

-----------------------------------------------------------------------------
(* withdraw: init, cancel and claim of a withdraw request *)

(* Variant: the epoch of the request is left at its default. *)
InitUndatedRequest(v, amount) ==
    /\ Running
    /\ voteLive[v]
    /\ ~requests[v].exists
    /\ requests' = [requests EXCEPT ![v] =
            [exists |-> TRUE, epoch |-> 0, withdrawn_amount |-> 0,
             requested_amount |-> amount]]
    /\ UNCHANGED <<slot, config, voteLive, stakes, wallet, paid, settlements, claims>>

InitWithdrawRequest(v, amount) ==
    /\ Running
    /\ voteLive[v]
    /\ ~requests[v].exists
    /\ requests' = [requests EXCEPT ![v] =
            [exists |-> TRUE, epoch |-> Epoch, withdrawn_amount |-> 0,
             requested_amount |-> amount]]
    /\ UNCHANGED <<slot, config, voteLive, stakes, wallet, paid, settlements, claims>>

CancelWithdrawRequest(v) ==
    /\ Running
    /\ voteLive[v]
    /\ requests[v].exists
    /\ requests' = [requests EXCEPT ![v] = NoRequest]
    /\ UNCHANGED <<slot, config, voteLive, stakes, wallet, paid, settlements, claims>>

(* Variant: what earlier claims have withdrawn is forgotten. *)
AmountIgnoringWithdrawn(v) == requests[v].requested_amount

amount_to_fulfill_withdraw(v) ==
    IF requests[v].requested_amount > requests[v].withdrawn_amount
    THEN requests[v].requested_amount - requests[v].withdrawn_amount
    ELSE 0

WithdrawRequestReady(v) ==
    requests[v].epoch + config.withdraw_lockup_epochs < Epoch

(* The authorize CPI of the withdrawer refuses an account under lockup. *)
ClaimWithdrawChecks(v, x) ==
    /\ Running
    /\ voteLive[v]
    /\ requests[v].exists
    /\ WithdrawRequestReady(v)
    /\ amount_to_fulfill_withdraw(v) > 0
    /\ DelegatedTo(x, v)
    /\ InCustody(x) /\ stakes[x].staker = Bonds
    /\ ~stakes[x].locked

Released(acc) == [acc EXCEPT !.staker = Owner, !.withdrawer = Owner]

(* The account is at most what is still owed: all of it goes. *)
ClaimWithdrawWhole(v, x) ==
    /\ ClaimWithdrawChecks(v, x)
    /\ stakes[x].lamports <= amount_to_fulfill_withdraw(v)
    /\ stakes' = [stakes EXCEPT ![x] = Released(@)]
    /\ requests' = [requests EXCEPT ![v].withdrawn_amount = @ + stakes[x].lamports]
    /\ UNCHANGED <<slot, config, voteLive, wallet, paid, settlements, claims>>

(* both parts of a split are stake accounts of minimal size; variant: only *)
(* the part that is withdrawn                                              *)
WithdrawnPartBigEnough(x, amount) == amount >= MinSize

BigEnoughToSplit(x, amount) ==
    /\ stakes[x].lamports - amount >= MinSize
    /\ amount >= MinSize

(* The account is larger: what is not owed is split off to y, which stays. *)
ClaimWithdrawSplit(v, x, y) ==
    LET amount   == amount_to_fulfill_withdraw(v)
        leftover == stakes[x].lamports - amount
    IN  /\ ClaimWithdrawChecks(v, x)
        /\ Fresh(y) /\ wallet >= Rent
        /\ stakes[x].lamports > amount
        /\ BigEnoughToSplit(x, amount)
        /\ CanSplit(stakes[x], leftover, Rent)
        /\ stakes' = [stakes EXCEPT
                        ![x] = Released(SplitSource(@, leftover)),
                        ![y] = SplitTarget(stakes[x], leftover, Rent)]
        /\ wallet' = wallet - Rent
        /\ requests' = [requests EXCEPT ![v].withdrawn_amount = @ + amount]
        /\ UNCHANGED <<slot, config, voteLive, paid, settlements, claims>>

-----------------------------------------------------------------------------
(* settlement: init_settlement, upsize_settlement_claims, fund_settlement *)

InitSettlement(s, max_total_claim, max_merkle_nodes) ==
    /\ Running
    /\ ~settlements[s].exists
    /\ max_total_claim # 0 /\ max_merkle_nodes # 0
    /\ CanInitializeClaims(max_merkle_nodes)
    /\ settlements' = [settlements EXCEPT ![s] =
            [NoSettlement EXCEPT !.exists = TRUE,
                                 !.max_total_claim = max_total_claim,
                                 !.max_merkle_nodes = max_merkle_nodes,
                                 !.slot_created_at = slot]]
    /\ claims' = [claims EXCEPT ![s] =
            [size |-> account_initialization_size(max_merkle_nodes), bits |-> {}]]
    /\ UNCHANGED <<slot, config, voteLive, stakes, wallet, paid, requests>>

(* Deliberately not gated by the pause. *)
UpsizeSettlementClaims(s) ==
    /\ settlements[s].exists
    /\ CanIncrease(settlements[s].max_merkle_nodes, claims[s].size)
    /\ claims' = [claims EXCEPT ![s].size =
            account_increase_size(settlements[s].max_merkle_nodes, @)]
    /\ UNCHANGED <<slot, config, voteLive, stakes, wallet, paid, settlements, requests>>

(* lamports the settlement still lacks *)
Lacking(s) == settlements[s].max_total_claim - settlements[s].lamports_funded

(* Otherwise the instruction is a no-op.  Variant: an exactly full          *)
(* settlement is funded again.                                             *)
NotOverFunded(s) ==
    settlements[s].lamports_funded <= settlements[s].max_total_claim

NotFullyFunded(s) ==
    settlements[s].lamports_funded < settlements[s].max_total_claim

FundChecks(s, x) ==
    /\ Running
    /\ settlements[s].exists
    /\ voteLive[BondOf[s]]
    /\ NotFullyFunded(s)
    /\ InCustody(x)
    /\ stakes[x].staker = Bonds
    /\ DelegatedTo(x, BondOf[s])
    /\ ~stakes[x].locked

amount_needed(s) == Lacking(s) + MinSize

(* Variant: splits only what is more than twice the amount needed. *)
SplittableTwice(s, x) ==
    stakes[x].lamports - amount_needed(s) >= amount_needed(s) + MinSize + Rent

left_over_splittable(s, x) ==
    /\ stakes[x].lamports > amount_needed(s)
    /\ stakes[x].lamports - amount_needed(s) >= MinSize + Rent

(* deactivate unless already deactivated, then move the staker authority   *)
FundedTo(s, acc) == [Deactivated(acc, Epoch) EXCEPT !.staker = s]

(* The subtraction below does not underflow; variant: it wraps silently. *)
CoversNothing(x) == TRUE

CoversMinSize(x) == stakes[x].lamports >= MinSize

(* The whole account is funded; the settlement may get more than it needs. *)
FundWhole(s, x) ==
    /\ FundChecks(s, x)
    /\ ~left_over_splittable(s, x)
    /\ CoversMinSize(x)
    /\ stakes' = [stakes EXCEPT ![x] = FundedTo(s, @)]
    /\ settlements' = [settlements EXCEPT ![s].lamports_funded =
                            @ + (stakes[x].lamports - MinSize)]
    /\ UNCHANGED <<slot, config, voteLive, wallet, paid, claims, requests>>

(* Variant: the rent owed to the split rent payer is not kept back. *)
LeftOverWithRent(s, x) == stakes[x].lamports - amount_needed(s)

(* What is left to the bond: all but the amount needed and the rent of the *)
(* split account, which is paid back when the settlement is closed.  The   *)
(* part of it that has to be withdrawn, so that enough stays delegated,    *)
(* and the part that is split off.                                         *)
left_over(s, x) == stakes[x].lamports - amount_needed(s) - Rent

(* Variant: undelegated lamports are never moved ahead of the split. *)
NothingToTransfer(s, x) == 0

lamports_to_transfer(s, x) ==
    LET non_delegated == stakes[x].lamports - stakes[x].delegated
        max_possible_non_delegated == Lacking(s) + Rent
        excess == non_delegated - max_possible_non_delegated
    IN  IF excess <= 0 THEN 0
        ELSE IF left_over(s, x) >= excess THEN excess ELSE left_over(s, x)

fund_split_leftover(s, x) == left_over(s, x) - lamports_to_transfer(s, x)

(* The split account when nothing delegated is left to split off.          *)
InitializedSplit(s, x) ==
    [NoAccount EXCEPT !.state = "initialized", !.staker = Bonds, !.withdrawer = Bonds,
                      !.lamports = Rent + lamports_to_transfer(s, x)]

(* stake_account after the withdraw CPI *)
AfterTransfer(s, x) == [stakes[x] EXCEPT !.lamports = @ - lamports_to_transfer(s, x)]

(* Every CPI of the split branch succeeds. *)
SplitCPIsSucceed(s, x) ==
    LET transfer == lamports_to_transfer(s, x)
        leftover == fund_split_leftover(s, x)
    IN  /\ stakes[x].lamports >= stakes[x].delegated
        /\ transfer > 0 => CanWithdraw(stakes[x], transfer, Epoch)
        /\ leftover > 0 => CanSplit(AfterTransfer(s, x), leftover, Rent + transfer)
        /\ leftover = 0 => CanDelegate(InitializedSplit(s, x), BondOf[s], Epoch)

SplitOff(s, x) ==
    IF fund_split_leftover(s, x) > 0
    THEN SplitTarget(AfterTransfer(s, x), fund_split_leftover(s, x),
                     Rent + lamports_to_transfer(s, x))
    ELSE Delegated(InitializedSplit(s, x), BondOf[s], Epoch)

KeptForFunding(s, x) ==
    IF fund_split_leftover(s, x) > 0
    THEN SplitSource(AfterTransfer(s, x), fund_split_leftover(s, x))
    ELSE AfterTransfer(s, x)

FundSplit(s, x, y, payer) ==
    /\ FundChecks(s, x)
    /\ left_over_splittable(s, x)
    /\ Fresh(y) /\ wallet >= Rent
    /\ SplitCPIsSucceed(s, x)
    /\ stakes' = [stakes EXCEPT ![x] = FundedTo(s, KeptForFunding(s, x)),
                                ![y] = SplitOff(s, x)]
    /\ wallet' = wallet - Rent
    /\ settlements' = [settlements EXCEPT ![s].lamports_funded = @ + Lacking(s),
                                          ![s].split_rent_collector = payer,
                                          ![s].split_rent_amount = Rent]
    /\ UNCHANGED <<slot, config, voteLive, paid, claims, requests>>

-----------------------------------------------------------------------------
(* settlement: claim_settlement, close_settlement, cancel_settlement *)

(* Variant: the bit of the record is not looked at. *)
NotClaimedUnchecked(s, i) ==
    /\ check_size(settlements[s].max_merkle_nodes, claims[s].size)
    /\ i < settlements[s].max_merkle_nodes

(* BitmapProjection::try_to_set answers true *)
NotClaimedYet(s, i) ==
    /\ check_size(settlements[s].max_merkle_nodes, claims[s].size)
    /\ i < settlements[s].max_merkle_nodes
    /\ i \notin claims[s].bits

WithinLimits(s, claim) ==
    /\ settlements[s].lamports_claimed + claim <= settlements[s].max_total_claim
    /\ settlements[s].merkle_nodes_claimed + 1 <= settlements[s].max_merkle_nodes

(* Variant: the account keeps its rent only. *)
SufficientForRent(x, claim) ==
    \/ stakes[x].lamports >= claim + Rent
    \/ stakes[x].lamports = claim

(* The account stays of minimal size, or is taken to the last lamport. *)
SufficientFor(x, claim) ==
    \/ stakes[x].lamports >= claim + MinSize
    \/ stakes[x].lamports = claim

(* The merkle proof binds (index, claim, authorities) to the tree of the   *)
(* settlement; the receiving account is the claimant's, outside the model. *)
ClaimSettlementV2(s, i, x) ==
    LET claim == Tree[s][i]
    IN  /\ Running
        /\ settlements[s].exists
        /\ ClaimingOpen(s)
        /\ NotClaimedYet(s, i)
        /\ WithinLimits(s, claim)
        /\ InCustody(x) /\ stakes[x].staker = s
        /\ SufficientFor(x, claim)
        /\ CanWithdraw(stakes[x], claim, Epoch)
        /\ stakes' = [stakes EXCEPT ![x] = Withdrawn(@, claim)]
        /\ paid' = [paid EXCEPT ![Owner] = @ + claim]
        /\ claims' = [claims EXCEPT ![s].bits = @ \cup {i}]
        /\ settlements' = [settlements EXCEPT ![s].lamports_claimed = @ + claim,
                                              ![s].merkle_nodes_claimed = @ + 1]
        /\ UNCHANGED <<slot, config, voteLive, wallet, requests>>

(* withdraw_refund_stake_account: the account that pays the rent of the    *)
(* split account back is any of the bond's validator, whoever is its staker *)
CanRefund(s, x) ==
    /\ InCustody(x)
    /\ DelegatedTo(x, BondOf[s])
    /\ CanWithdraw(stakes[x], settlements[s].split_rent_amount, Epoch)

RefundSplitRent(s, receiver) ==
    IF settlements[s].split_rent_collector # Nobody
    THEN \E x \in StakeIds :
            /\ CanRefund(s, x)
            /\ stakes' = [stakes EXCEPT ![x] =
                                Withdrawn(@, settlements[s].split_rent_amount)]
            /\ paid' = [paid EXCEPT ![receiver] = @ + settlements[s].split_rent_amount]
    ELSE UNCHANGED <<stakes, paid>>

(* Anchor's close = rent_collector on both accounts *)
RemoveSettlement(s) ==
    /\ settlements' = [settlements EXCEPT ![s] = NoSettlement]
    /\ claims' = [claims EXCEPT ![s] = NoClaims]

(* Permissionless; the receiver is compared with the settlement's. *)
CloseSettlementV2(s) ==
    /\ Running
    /\ settlements[s].exists
    /\ Expired(s)
    /\ RefundSplitRent(s, settlements[s].split_rent_collector)
    /\ RemoveSettlement(s)
    /\ UNCHANGED <<slot, config, voteLive, wallet, requests>>

(* Variant: cancelling works during a pause. *)
CancelWhilePaused(s, receiver) ==
    /\ settlements[s].exists
    /\ RefundSplitRent(s, receiver)
    /\ RemoveSettlement(s)
    /\ UNCHANGED <<slot, config, voteLive, wallet, requests>>

(* The operator or the pause authority, at any time; whoever calls it      *)
(* names the receiver of the refund.                                       *)
CancelSettlement(s, receiver) ==
    /\ Running
    /\ settlements[s].exists
    /\ RefundSplitRent(s, receiver)
    /\ RemoveSettlement(s)
    /\ UNCHANGED <<slot, config, voteLive, wallet, requests>>

-----------------------------------------------------------------------------
(* stake: merge_stake, reset_stake (both permissionless), withdraw_stake *)

(* Variant: the source is put under the staker of the destination first. *)
MergeAcrossStakers(src, dst) ==
    LET source == [stakes[src] EXCEPT !.staker = stakes[dst].staker]
    IN  /\ Running
        /\ src # dst
        /\ InCustody(src) /\ InCustody(dst)
        /\ {stakes[src].staker, stakes[dst].staker} \subseteq Settlements \cup {Bonds}
        /\ stakes[src].voter = stakes[dst].voter
        /\ CanMerge(stakes[dst], source, Epoch)
        /\ stakes' = [stakes EXCEPT ![dst] = Merged(@, source, Epoch),
                                    ![src] = NoAccount]
        /\ UNCHANGED <<slot, config, voteLive, wallet, paid, settlements, claims, requests>>

MergeStake(src, dst) ==
    /\ Running
    /\ src # dst
    /\ InCustody(src) /\ InCustody(dst)
    /\ stakes[src].staker = stakes[dst].staker
    /\ stakes[src].staker \in Settlements \cup {Bonds}
    /\ stakes[src].voter = stakes[dst].voter
    /\ CanMerge(stakes[dst], stakes[src], Epoch)
    /\ stakes' = [stakes EXCEPT ![dst] = Merged(@, stakes[src], Epoch),
                                ![src] = NoAccount]
    /\ UNCHANGED <<slot, config, voteLive, wallet, paid, settlements, claims, requests>>

(* Back to the bond; redelegated unless the vote account is gone. *)
ResetStake(s, v, x) ==
    LET reset == [stakes[x] EXCEPT !.staker = Bonds]
    IN  /\ Running
        /\ IsClosed(s)
        /\ InCustody(x) /\ stakes[x].staker = s
        /\ DelegatedTo(x, v)
        /\ voteLive[v] => CanDelegate(reset, v, Epoch)
        /\ stakes' = [stakes EXCEPT ![x] =
                IF voteLive[v] THEN Delegated(reset, v, Epoch) ELSE reset]
        /\ UNCHANGED <<slot, config, voteLive, wallet, paid, settlements, claims, requests>>

(* Marinade's own share goes back to the operator. *)
WithdrawStake(s, x) ==
    /\ Running
    /\ IsClosed(s)
    /\ InCustody(x) /\ stakes[x].staker = s
    /\ stakes[x].state = "initialized"
    /\ CanWithdraw(stakes[x], stakes[x].lamports, Epoch)
    /\ stakes' = [stakes EXCEPT ![x] = Withdrawn(@, stakes[x].lamports)]
    /\ paid' = [paid EXCEPT ![Owner] = @ + stakes[x].lamports]
    /\ UNCHANGED <<slot, config, voteLive, wallet, settlements, claims, requests>>

-----------------------------------------------------------------------------
(* The rest of the chain *)

Tick ==
    /\ slot < MaxSlot
    /\ slot' = slot + 1
    /\ UNCHANGED <<config, voteLive, stakes, wallet, paid, settlements, claims, requests>>

CloseVoteAccount(v) ==
    /\ v \in ClosableVotes /\ voteLive[v]
    /\ voteLive' = [voteLive EXCEPT ![v] = FALSE]
    /\ UNCHANGED <<slot, config, stakes, wallet, paid, settlements, claims, requests>>

CreateStake(x, d) ==
    LET acc == [NoAccount EXCEPT !.state = "initialized", !.lamports = d.lamports,
                                 !.staker = d.staker, !.withdrawer = d.withdrawer,
                                 !.locked = d.locked]
    IN  /\ Fresh(x)
        /\ wallet >= d.lamports
        /\ d.voter # Nobody => voteLive[d.voter]
        /\ stakes' = [stakes EXCEPT ![x] =
                IF d.voter = Nobody THEN acc ELSE Delegated(acc, d.voter, Epoch)]
        /\ wallet' = wallet - d.lamports
        /\ UNCHANGED <<slot, config, voteLive, paid, settlements, claims, requests>>

(* MEV tips and plain transfers arrive undelegated. *)
Tip(x, amount) ==
    /\ Exists(stakes[x])
    /\ wallet >= amount
    /\ stakes' = [stakes EXCEPT ![x].lamports = @ + amount]
    /\ wallet' = wallet - amount
    /\ UNCHANGED <<slot, config, voteLive, paid, settlements, claims, requests>>

(* A deposit made by hand, in whatever state the account is. *)
ManualDeposit(x) ==
    /\ Exists(stakes[x]) /\ stakes[x].withdrawer = Owner
    /\ ~stakes[x].locked
    /\ stakes' = [stakes EXCEPT ![x].staker = Bonds, ![x].withdrawer = Bonds]
    /\ UNCHANGED <<slot, config, voteLive, wallet, paid, settlements, claims, requests>>

OwnerDeactivates(x) ==
    /\ IsDelegated(stakes[x]) /\ stakes[x].staker = Owner
    /\ stakes[x].deact = NEVER
    /\ stakes' = [stakes EXCEPT ![x] = Deactivated(@, Epoch)]
    /\ UNCHANGED <<slot, config, voteLive, wallet, paid, settlements, claims, requests>>

-----------------------------------------------------------------------------
Next ==
    \/ Tick
    \/ \E c \in Config : ConfigureConfig(c)
    \/ EmergencyPause
    \/ EmergencyResume
    \/ \E v \in Votes :
        \/ CloseVoteAccount(v)
        \/ CancelWithdrawRequest(v)
        \/ \E amount \in Amounts : InitWithdrawRequest(v, amount)
        \/ \E x \in StakeIds :
            \/ FundBond(x, v)
            \/ ClaimWithdrawWhole(v, x)
            \/ \E y \in StakeIds : ClaimWithdrawSplit(v, x, y)
    \/ \E s \in Settlements :
        \/ \E total \in MaxTotals, nodes \in MaxNodes : InitSettlement(s, total, nodes)
        \/ UpsizeSettlementClaims(s)
        \/ CloseSettlementV2(s)
        \/ \E receiver \in Payers : CancelSettlement(s, receiver)
        \/ \E x \in StakeIds :
            \/ FundWhole(s, x)
            \/ \E y \in StakeIds, payer \in Payers : FundSplit(s, x, y, payer)
            \/ \E i \in DOMAIN Tree[s] : ClaimSettlementV2(s, i, x)
            \/ \E v \in Votes : ResetStake(s, v, x)
            \/ WithdrawStake(s, x)
    \/ \E x \in StakeIds :
        \/ \E d \in Deposits : CreateStake(x, d)
        \/ \E amount \in Tips : Tip(x, amount)
        \/ \E y \in StakeIds : MergeStake(x, y)
        \/ OwnerDeactivates(x)
        \/ ManualDeposit(x)

Spec == Init /\ [][Next]_vars

(* reset_stake is permissionless, and the pipelines run it every epoch for *)
(* every account of a settlement that is gone.                             *)
ResetByAnyone(s, x) == \E v \in Votes : ResetStake(s, v, x)

FairSpec == Spec /\ \A s \in Settlements, x \in StakeIds :
                        WF_vars(ResetByAnyone(s, x))

-----------------------------------------------------------------------------
(* Properties *)

StakeAccount ==
    [state : {"none", "initialized", "stake"}, lamports : Nat,
     staker : Settlements \cup {Bonds, Owner, Nobody},
     withdrawer : {Bonds, Owner, Nobody}, voter : Votes \cup {Nobody},
     delegated : Nat, act : Nat, deact : Nat \cup {NEVER}, locked : BOOLEAN]

Settlement ==
    [exists : BOOLEAN, max_total_claim : Nat, max_merkle_nodes : Nat,
     lamports_funded : Nat, lamports_claimed : Nat, merkle_nodes_claimed : Nat,
     slot_created_at : Nat, split_rent_collector : Payers \cup {Nobody}, split_rent_amount : Nat]

WithdrawRequest == [exists : BOOLEAN, epoch : Nat, withdrawn_amount : Nat,
                    requested_amount : Nat]

(* Every account holds values of its type; in particular no lamports       *)
(* counter of any instruction ever goes below zero.                        *)
TypeOK ==
    /\ slot \in Nat
    /\ config \in Config
    /\ voteLive \in [Votes -> BOOLEAN]
    /\ stakes \in [StakeIds -> StakeAccount]
    /\ wallet \in Nat /\ paid \in [Payers \cup {Owner} -> Nat]
    /\ settlements \in [Settlements -> Settlement]
    /\ claims \in [Settlements -> [size : Nat, bits : SUBSET Nat]]
    /\ requests \in [Votes -> WithdrawRequest]

(* fund_settlement.rs:226-227: the undelegated lamports are moved first so *)
(* that the split never leaves either account without enough delegation.   *)
(* Whenever the instruction chooses to split an account that has not been  *)
(* deactivated, each of its CPIs succeeds, so funding is never stuck.      *)
FundingNeverStuck ==
    \A s \in Settlements, x \in StakeIds :
        /\ FundChecks(s, x)
        /\ left_over_splittable(s, x)
        /\ stakes[x].deact = NEVER
        => SplitCPIsSucceed(s, x)

(* The stake accounts that are or were funded to s *)
FundedStakes(s) == {x \in StakeIds : InCustody(x) /\ stakes[x].staker = s}

(* lamports that claims can take from x while it keeps its minimal size *)
Payable(x) == IF stakes[x].lamports > MinSize THEN stakes[x].lamports - MinSize ELSE 0

(* claim_settlement.rs:215-218 leaves to fund_settlement that the funded   *)
(* accounts can pay: they hold, beyond their minimal sizes, whatever was   *)
(* counted as funded and is not claimed yet, and the split rent that close *)
(* pays back.                                                              *)
SettlementSolvent ==
    \A s \in Settlements :
        settlements[s].exists =>
            MapThenSumSet(Payable, FundedStakes(s))
                >= settlements[s].lamports_funded - settlements[s].lamports_claimed
                     + settlements[s].split_rent_amount

(* The note at fund_settlement.rs:183: an account that cannot be split     *)
(* over-funds the settlement, but by less than one more account would      *)
(* need to exist.                                                          *)
OverfundBounded ==
    \A s \in Settlements :
        /\ settlements[s].exists
        /\ settlements[s].lamports_funded > settlements[s].max_total_claim
        => \E m \in Minimums :
              settlements[s].lamports_funded
                  < settlements[s].max_total_claim + (Rent + m) + Rent

(* The counters of a settlement agree with the bitmap and respect the      *)
(* limits: each record is paid at most once and for exactly its claim.     *)
ClaimsAccounted ==
    \A s \in Settlements :
        LET st == settlements[s]
        IN  /\ st.lamports_claimed
                 = MapThenSumSet(LAMBDA i : Tree[s][i], claims[s].bits)
            /\ st.merkle_nodes_claimed = Cardinality(claims[s].bits)
            /\ st.lamports_claimed <= st.max_total_claim
            /\ st.merkle_nodes_claimed <= st.max_merkle_nodes

(* A rent payer registered for the split refund is never overwritten by a  *)
(* second split: the settlement is exactly full from then on.              *)
SplitRentOwedOnce ==
    \A s \in Settlements :
        settlements[s].split_rent_collector # Nobody =>
            /\ settlements[s].lamports_funded = settlements[s].max_total_claim
            /\ settlements[s].split_rent_amount = Rent

(* However many stake accounts a withdraw request is claimed from, no more *)
(* leaves the bond than was requested.                                     *)
RequestNotOverdrawn ==
    \A v \in Votes : requests[v].withdrawn_amount <= requests[v].requested_amount

(* As long as deposits are of minimal size, so is everything the bond      *)
(* keeps: claiming a withdraw request from several accounts, in whole and  *)
(* in part, never leaves a remainder that could not fund a settlement.     *)
BondStakesOfMinimalSize ==
    \A x \in StakeIds :
        InCustody(x) /\ stakes[x].staker = Bonds => stakes[x].lamports >= MinSize

(* README.md:80: the program never changes the vote account an account in  *)
(* its custody is delegated to.                                            *)
VoterKept ==
    [][\A x \in StakeIds :
          /\ InCustody(x) /\ IsDelegated(stakes[x])
          /\ stakes'[x].withdrawer = Bonds
          => stakes'[x].voter = stakes[x].voter]_vars

(* Lamports held for the bond of v *)
HeldFor(v) == MapThenSumSet(LAMBDA x : stakes[x].lamports,
                            {x \in StakeIds : InCustody(x) /\ stakes[x].voter = v})

(* A bond pays for its own validator only: what it holds shrinks only by a *)
(* claim from, or the end of, one of its settlements, or by its withdraw   *)
(* request.                                                                *)
BondPaysForItselfOnly ==
    [][\A v \in Votes :
          HeldFor(v)' < HeldFor(v) =>
             \/ requests'[v].withdrawn_amount > requests[v].withdrawn_amount
             \/ \E s \in Settlements : /\ BondOf[s] = v
                                       /\ settlements'[s] # settlements[s]]_vars

(* Lamports held by the accounts funded to s *)
HeldBy(s) == MapThenSumSet(LAMBDA x : stakes[x].lamports, FundedStakes(s))

(* merge_stake.rs:65-82: anybody may merge, but never the accounts of    *)
(* two settlements or of a settlement and the bond.  As long as a          *)
(* settlement exists its accounts are drawn from only by its own claims,   *)
(* and by the split rent of another settlement of the bond that ends.      *)
SettlementKeepsItsFunds ==
    [][\A s \in Settlements :
          settlements[s].exists /\ settlements'[s].exists =>
             LET kept == HeldBy(s)' + settlements'[s].lamports_claimed
                                    - settlements[s].lamports_claimed
             IN  \/ kept >= HeldBy(s)
                 \/ \E r \in Settlements :
                       /\ BondOf[r] = BondOf[s]
                       /\ settlements[r].exists /\ ~settlements'[r].exists
                       /\ kept + settlements[r].split_rent_amount >= HeldBy(s)]_vars

(* What a claim asks for but for the time: record i can be paid from x.    *)
Payout(s, i, x) ==
    /\ NotClaimedYet(s, i) /\ WithinLimits(s, Tree[s][i])
    /\ InCustody(x) /\ stakes[x].staker = s
    /\ SufficientFor(x, Tree[s][i])
    /\ CanWithdraw(stakes[x], Tree[s][i], Epoch)

(* claim_settlement.rs:60 and close_settlement.rs:40: whatever the         *)
(* administrator makes of the window, and at its last epoch too, nobody    *)
(* can close a settlement whose records can still be claimed, and once     *)
(* claiming has started a payout that is possible can be claimed unless    *)
(* the settlement may be closed for good.                                  *)
ClaimOrClose ==
    \A s \in Settlements :
        settlements[s].exists /\ Running =>
           LET Started == settlements[s].slot_created_at
                             + config.slots_to_start_settlement_claiming <= slot
               Claimable(i, x) == ENABLED ClaimSettlementV2(s, i, x)
               Endable == \E p \in Payers : ENABLED CancelSettlement(s, p)
           IN  \A i \in DOMAIN Tree[s], x \in StakeIds :
                  IF ENABLED CloseSettlementV2(s) THEN ~Claimable(i, x)
                  ELSE Started /\ Endable /\ Payout(s, i, x) => Claimable(i, x)

WithdrawClaimable(v) ==
    \E x \in StakeIds : ENABLED (\/ ClaimWithdrawWhole(v, x)
                               \/ \E y \in StakeIds : ClaimWithdrawSplit(v, x, y))

(* programs/validator-bonds/README.md:33-37: what a validator withdraws    *)
(* stays in the bond for the lockup after the request was made: a bond     *)
(* that has no request in some epoch has nothing to withdraw before the    *)
(* lockup after that epoch is over, whatever the lockup is made and        *)
(* however many requests are cancelled and made again.                     *)
LockupElapses ==
    \A v \in Votes, asked \in 0 .. MaxSlot \div SlotsPerEpoch :
        []((~requests[v].exists /\ Epoch = asked)
             => [](WithdrawClaimable(v) => asked + config.withdraw_lockup_epochs < Epoch))

(* While the program is paused nothing leaves its custody, changes hands   *)
(* or is promised: settlements, claims and requests stand still.           *)
PauseFreezes ==
    [][config.paused =>
          /\ settlements' = settlements /\ requests' = requests
          /\ \A s \in Settlements : claims'[s].bits = claims[s].bits
          /\ \A x \in StakeIds : InCustody(x) =>
                /\ stakes'[x].lamports >= stakes[x].lamports
                /\ stakes'[x].staker = stakes[x].staker
                /\ stakes'[x].withdrawer = Bonds]_vars

(* The authority transitions of the README: every instruction moves the    *)
(* accounts only as StakeCustody allows.                                   *)
Holder(acc) == IF ~Exists(acc) THEN Nobody
               ELSE IF acc.withdrawer = Bonds THEN acc.staker ELSE Owner

Custody == INSTANCE StakeCustody
           WITH Nowhere <- Nobody,
                custody <- [x \in StakeIds |-> Holder(stakes[x])],
                open <- {s \in Settlements : settlements[s].exists}

CustodySpec == Custody!Spec

(* close_settlement.rs:82-83: the account that refunds the split rent "is  *)
(* funded to the settlement" that is being closed.                         *)
RefundFromOwnFunds ==
    [][\A s \in Settlements :
          settlements[s].exists /\ ~settlements'[s].exists =>
             \A x \in StakeIds : stakes'[x].lamports < stakes[x].lamports
                                    => stakes[x].staker = s]_vars

(* cancel_settlement.rs:80: the receiver of the split rent is "verified at *)
(* settlement #[account()]", so that the payer registered by the funding   *)
(* gets it back whenever the settlement goes away.                         *)
SplitRentReturnedToPayer ==
    [][\A s \in Settlements :
          LET payer == settlements[s].split_rent_collector
          IN  settlements[s].exists /\ ~settlements'[s].exists /\ payer # Nobody =>
                 paid'[payer] = paid[payer] + settlements[s].split_rent_amount]_vars

(* A delegated account left behind by a closed or cancelled settlement     *)
(* comes back to the bond, whatever claims, merges and the refund of the   *)
(* split rent have done to it and even if its vote account is gone, unless *)
(* the settlement is created anew or the program is paused.  reset_stake   *)
(* needs the rent and a minimum delegation in the account; a refund is not *)
(* held to any minimal size (close_settlement.rs:161).  So this holds only *)
(* as long as the configured minimum is larger than the refunds that are   *)
(* taken from one account, which the instance has to see to.               *)
LeftBehind(s, x) ==
    /\ Running /\ ~settlements[s].exists
    /\ x \in FundedStakes(s) /\ IsDelegated(stakes[x])

StakesComeBack ==
    \A s \in Settlements, x \in StakeIds : LeftBehind(s, x) ~> ~LeftBehind(s, x)
=============================================================================
