-------------------------- MODULE ProgramInterface --------------------------
(***************************************************************************)
(* What the validator-bonds program demands of the accounts of each        *)
(* instruction, as its interface (validator-bonds-sdk/idl, generated from  *)
(* the program) states it, and the checks of the handlers that compare     *)
(* accounts.  Amounts, windows and the pause are the matter of             *)
(* ValidatorBonds; that an account to be created is free is left out.      *)
(*                                                                         *)
(* Per instruction: its accounts in order, those that must be writable,    *)
(* must sign, may be None, or have a fixed address; the addresses that are *)
(* derived; and the relations <<holder, field>>: what account holder holds *)
(* in field is the account named field.                                    *)
(***************************************************************************)
EXTENDS BondAccounts

Pda(prefix, seeds) == [prefix |-> prefix, seeds |-> seeds]

(* A seed: the address of an account, what an account holds, an argument   *)
At(name) == <<name>>
In(name, field) == <<name, field>>
Arg(name) == <<"args", name>>

BondOfVote == Pda("bond_account", <<At("config"), At("voteAccount")>>)
BondOfItsVote == Pda("bond_account", <<At("config"), In("bond", "voteAccount")>>)
SettlementOfItsRoot ==
    Pda("settlement_account", <<At("bond"), In("settlement", "merkleRoot"),
                                In("settlement", "epochCreatedFor")>>)
SettlementOfRoot ==
    Pda("settlement_account", <<At("bond"), Arg("merkleRoot"), Arg("epoch")>>)
ClaimsOfSettlement == Pda("claims_account", <<At("settlement")>>)
ClaimsOfItsSettlement == Pda("claims_account", <<In("settlementClaims", "settlement")>>)
RequestOfBond == Pda("withdraw_account", <<At("bond")>>)
WithdrawerOfConfig == Pda("bonds_authority", <<At("config")>>)
StakerOfSettlement == Pda("settlement_authority", <<At("settlement")>>)
ProductOfItsType ==
    Pda("bond_product", <<At("bond"), In("bondProduct", "productType")>>)
ProductOfType == Pda("bond_product", <<At("bond"), Arg("productType")>>)
MintOfNamedIdentity == Pda("bond_mint", <<At("bond"), Arg("validatorIdentity")>>)
MintOfIdentity == Pda("bond_mint", <<At("bond"), At("validatorIdentity")>>)
TokensOfIdentity == Pda("associated_token", <<At("validatorIdentity"), At("mint")>>)
EventAuthority == Pda("__event_authority", <<>>)

-----------------------------------------------------------------------------
cancelSettlement ==
    [accounts  |-> <<"config", "bond", "settlement", "settlementClaims",
                     "authority", "bondsWithdrawerAuthority",
                     "rentCollector", "splitRentCollector",
                     "splitRentRefundAccount", "clock", "stakeProgram",
                     "stakeHistory", "eventAuthority", "program">>,
     writable  |-> {"config", "settlement", "settlementClaims",
                    "rentCollector", "splitRentCollector",
                    "splitRentRefundAccount"},
     signers   |-> {"authority"},
     optional  |-> {},
     fixed     |-> {"clock", "stakeProgram", "stakeHistory"},
     pdas      |-> [bond |-> BondOfItsVote,
                    settlement |-> SettlementOfItsRoot,
                    settlementClaims |-> ClaimsOfSettlement,
                    bondsWithdrawerAuthority |-> WithdrawerOfConfig,
                    eventAuthority |-> EventAuthority],
     relations |-> {<<"bond", "config">>, <<"settlement", "bond">>,
                    <<"settlementClaims", "settlement">>,
                    <<"settlement", "rentCollector">>}]

cancelWithdrawRequest ==
    [accounts  |-> <<"config", "bond", "voteAccount", "authority",
                     "withdrawRequest", "rentCollector", "eventAuthority",
                     "program">>,
     writable  |-> {"withdrawRequest", "rentCollector"},
     signers   |-> {"authority"},
     optional  |-> {},
     fixed     |-> {},
     pdas      |-> [bond |-> BondOfVote, withdrawRequest |-> RequestOfBond,
                    eventAuthority |-> EventAuthority],
     relations |-> {<<"bond", "config">>, <<"withdrawRequest", "bond">>,
                    <<"bond", "voteAccount">>}]

claimSettlementV1 ==
    [accounts  |-> <<"settlementClaimV1">>,
     writable  |-> {},
     signers   |-> {},
     optional  |-> {},
     fixed     |-> {},
     pdas      |-> <<>>,
     relations |-> {}]

claimSettlementV2 ==
    [accounts  |-> <<"config", "bond", "settlement", "settlementClaims",
                     "stakeAccountFrom", "stakeAccountTo",
                     "bondsWithdrawerAuthority", "stakeHistory", "clock",
                     "stakeProgram", "eventAuthority", "program">>,
     writable  |-> {"settlement", "settlementClaims", "stakeAccountFrom",
                    "stakeAccountTo"},
     signers   |-> {},
     optional  |-> {},
     fixed     |-> {"stakeHistory", "clock", "stakeProgram"},
     pdas      |-> [bond |-> BondOfItsVote,
                    settlement |-> SettlementOfItsRoot,
                    settlementClaims |-> ClaimsOfSettlement,
                    bondsWithdrawerAuthority |-> WithdrawerOfConfig,
                    eventAuthority |-> EventAuthority],
     relations |-> {<<"bond", "config">>, <<"settlement", "bond">>,
                    <<"settlementClaims", "settlement">>}]

claimWithdrawRequest ==
    [accounts  |-> <<"config", "bond", "voteAccount", "authority",
                     "withdrawRequest", "bondsWithdrawerAuthority",
                     "stakeAccount", "withdrawer", "splitStakeAccount",
                     "splitStakeRentPayer", "stakeProgram", "systemProgram",
                     "stakeHistory", "clock", "eventAuthority", "program">>,
     writable  |-> {"withdrawRequest", "stakeAccount", "splitStakeAccount",
                    "splitStakeRentPayer"},
     signers   |-> {"authority", "splitStakeAccount", "splitStakeRentPayer"},
     optional  |-> {},
     fixed     |-> {"stakeProgram", "systemProgram", "stakeHistory",
                    "clock"},
     pdas      |-> [bond |-> BondOfVote, withdrawRequest |-> RequestOfBond,
                    bondsWithdrawerAuthority |-> WithdrawerOfConfig,
                    eventAuthority |-> EventAuthority],
     relations |-> {<<"bond", "config">>, <<"withdrawRequest", "bond">>,
                    <<"bond", "voteAccount">>,
                    <<"withdrawRequest", "voteAccount">>}]

closeSettlementV2 ==
    [accounts  |-> <<"config", "bond", "settlement", "settlementClaims",
                     "bondsWithdrawerAuthority", "rentCollector",
                     "splitRentCollector", "splitRentRefundAccount",
                     "clock", "stakeProgram", "stakeHistory",
                     "eventAuthority", "program">>,
     writable  |-> {"settlement", "settlementClaims", "rentCollector",
                    "splitRentCollector", "splitRentRefundAccount"},
     signers   |-> {},
     optional  |-> {},
     fixed     |-> {"clock", "stakeProgram", "stakeHistory"},
     pdas      |-> [bond |-> BondOfItsVote,
                    settlement |-> SettlementOfItsRoot,
                    settlementClaims |-> ClaimsOfSettlement,
                    bondsWithdrawerAuthority |-> WithdrawerOfConfig,
                    eventAuthority |-> EventAuthority],
     relations |-> {<<"bond", "config">>, <<"settlement", "bond">>,
                    <<"settlementClaims", "settlement">>,
                    <<"settlement", "rentCollector">>}]

configureBond ==
    [accounts  |-> <<"config", "bond", "authority", "voteAccount",
                     "eventAuthority", "program">>,
     writable  |-> {"bond"},
     signers   |-> {"authority"},
     optional  |-> {},
     fixed     |-> {},
     pdas      |-> [bond |-> BondOfVote, eventAuthority |-> EventAuthority],
     relations |-> {<<"bond", "config">>, <<"bond", "voteAccount">>}]

configureBondProduct ==
    [accounts  |-> <<"config", "bond", "voteAccount", "bondProduct",
                     "authority", "eventAuthority", "program">>,
     writable  |-> {"bondProduct"},
     signers   |-> {"authority"},
     optional  |-> {},
     fixed     |-> {},
     pdas      |-> [bond |-> BondOfVote, bondProduct |-> ProductOfItsType,
                    eventAuthority |-> EventAuthority],
     relations |-> {<<"bond", "config">>, <<"bondProduct", "bond">>,
                    <<"bond", "voteAccount">>}]

configureBondWithMint ==
    [accounts  |-> <<"config", "bond", "mint", "voteAccount",
                     "tokenAccount", "tokenAuthority", "tokenProgram",
                     "eventAuthority", "program">>,
     writable  |-> {"bond", "mint", "tokenAccount"},
     signers   |-> {"tokenAuthority"},
     optional  |-> {},
     fixed     |-> {"tokenProgram"},
     pdas      |-> [bond |-> BondOfVote, mint |-> MintOfNamedIdentity,
                    eventAuthority |-> EventAuthority],
     relations |-> {<<"bond", "config">>, <<"bond", "voteAccount">>}]

configureConfig ==
    [accounts  |-> <<"config", "adminAuthority", "eventAuthority",
                     "program">>,
     writable  |-> {"config"},
     signers   |-> {"adminAuthority"},
     optional  |-> {},
     fixed     |-> {},
     pdas      |-> [eventAuthority |-> EventAuthority],
     relations |-> {<<"config", "adminAuthority">>}]

emergencyPause ==
    [accounts  |-> <<"config", "pauseAuthority", "eventAuthority",
                     "program">>,
     writable  |-> {"config"},
     signers   |-> {"pauseAuthority"},
     optional  |-> {},
     fixed     |-> {},
     pdas      |-> [eventAuthority |-> EventAuthority],
     relations |-> {<<"config", "pauseAuthority">>}]

emergencyResume ==
    [accounts  |-> <<"config", "pauseAuthority", "eventAuthority",
                     "program">>,
     writable  |-> {"config"},
     signers   |-> {"pauseAuthority"},
     optional  |-> {},
     fixed     |-> {},
     pdas      |-> [eventAuthority |-> EventAuthority],
     relations |-> {<<"config", "pauseAuthority">>}]

fundBond ==
    [accounts  |-> <<"config", "bond", "bondsWithdrawerAuthority",
                     "stakeAccount", "stakeAuthority", "clock",
                     "stakeHistory", "stakeProgram", "eventAuthority",
                     "program">>,
     writable  |-> {"stakeAccount"},
     signers   |-> {"stakeAuthority"},
     optional  |-> {},
     fixed     |-> {"clock", "stakeHistory", "stakeProgram"},
     pdas      |-> [bond |-> BondOfItsVote,
                    bondsWithdrawerAuthority |-> WithdrawerOfConfig,
                    eventAuthority |-> EventAuthority],
     relations |-> {<<"bond", "config">>}]

fundSettlement ==
    [accounts  |-> <<"config", "bond", "voteAccount", "settlement",
                     "operatorAuthority", "stakeAccount",
                     "settlementStakerAuthority",
                     "bondsWithdrawerAuthority", "splitStakeAccount",
                     "splitStakeRentPayer", "systemProgram", "stakeHistory",
                     "clock", "rent", "stakeProgram", "stakeConfig",
                     "eventAuthority", "program">>,
     writable  |-> {"settlement", "stakeAccount", "splitStakeAccount",
                    "splitStakeRentPayer"},
     signers   |-> {"operatorAuthority", "splitStakeAccount",
                    "splitStakeRentPayer"},
     optional  |-> {},
     fixed     |-> {"systemProgram", "stakeHistory", "clock", "rent",
                    "stakeProgram", "stakeConfig"},
     pdas      |-> [bond |-> BondOfVote, settlement |-> SettlementOfItsRoot,
                    settlementStakerAuthority |-> StakerOfSettlement,
                    bondsWithdrawerAuthority |-> WithdrawerOfConfig,
                    eventAuthority |-> EventAuthority],
     relations |-> {<<"bond", "config">>, <<"settlement", "bond">>,
                    <<"bond", "voteAccount">>,
                    <<"config", "operatorAuthority">>}]

initBond ==
    [accounts  |-> <<"config", "voteAccount", "validatorIdentity", "bond",
                     "rentPayer", "systemProgram", "eventAuthority",
                     "program">>,
     writable  |-> {"bond", "rentPayer"},
     signers   |-> {"validatorIdentity", "rentPayer"},
     optional  |-> {"validatorIdentity"},
     fixed     |-> {"systemProgram"},
     pdas      |-> [bond |-> BondOfVote, eventAuthority |-> EventAuthority],
     relations |-> {}]

initBondProduct ==
    [accounts  |-> <<"config", "bond", "voteAccount", "bondProduct",
                     "authority", "rentPayer", "systemProgram",
                     "eventAuthority", "program">>,
     writable  |-> {"bond", "bondProduct", "rentPayer"},
     signers   |-> {"authority", "rentPayer"},
     optional  |-> {"authority"},
     fixed     |-> {"systemProgram"},
     pdas      |-> [bond |-> BondOfVote, bondProduct |-> ProductOfType,
                    eventAuthority |-> EventAuthority],
     relations |-> {<<"bond", "config">>, <<"bond", "voteAccount">>}]

initConfig ==
    [accounts  |-> <<"config", "rentPayer", "systemProgram",
                     "eventAuthority", "program">>,
     writable  |-> {"config", "rentPayer"},
     signers   |-> {"config", "rentPayer"},
     optional  |-> {},
     fixed     |-> {"systemProgram"},
     pdas      |-> [eventAuthority |-> EventAuthority],
     relations |-> {}]

initSettlement ==
    [accounts  |-> <<"config", "bond", "settlement", "settlementClaims",
                     "operatorAuthority", "rentPayer", "systemProgram",
                     "eventAuthority", "program">>,
     writable  |-> {"settlement", "settlementClaims", "rentPayer"},
     signers   |-> {"operatorAuthority", "rentPayer"},
     optional  |-> {},
     fixed     |-> {"systemProgram"},
     pdas      |-> [bond |-> BondOfItsVote, settlement |-> SettlementOfRoot,
                    settlementClaims |-> ClaimsOfSettlement,
                    eventAuthority |-> EventAuthority],
     relations |-> {<<"bond", "config">>, <<"config", "operatorAuthority">>}]

initWithdrawRequest ==
    [accounts  |-> <<"config", "bond", "voteAccount", "authority",
                     "withdrawRequest", "rentPayer", "systemProgram",
                     "eventAuthority", "program">>,
     writable  |-> {"withdrawRequest", "rentPayer"},
     signers   |-> {"authority", "rentPayer"},
     optional  |-> {},
     fixed     |-> {"systemProgram"},
     pdas      |-> [bond |-> BondOfVote, withdrawRequest |-> RequestOfBond,
                    eventAuthority |-> EventAuthority],
     relations |-> {<<"bond", "config">>, <<"bond", "voteAccount">>}]

mergeStake ==
    [accounts  |-> <<"config", "sourceStake", "destinationStake",
                     "stakerAuthority", "stakeHistory", "clock",
                     "stakeProgram", "eventAuthority", "program">>,
     writable  |-> {"sourceStake", "destinationStake"},
     signers   |-> {},
     optional  |-> {},
     fixed     |-> {"stakeHistory", "clock", "stakeProgram"},
     pdas      |-> [eventAuthority |-> EventAuthority],
     relations |-> {}]

mintBond ==
    [accounts  |-> <<"config", "bond", "mint", "validatorIdentity",
                     "validatorIdentityTokenAccount", "voteAccount",
                     "metadata", "rentPayer", "systemProgram",
                     "tokenProgram", "associatedTokenProgram",
                     "metadataProgram", "rent", "eventAuthority",
                     "program">>,
     writable  |-> {"mint", "validatorIdentityTokenAccount", "metadata",
                    "rentPayer"},
     signers   |-> {"rentPayer"},
     optional  |-> {},
     fixed     |-> {"systemProgram", "tokenProgram",
                    "associatedTokenProgram", "metadataProgram", "rent"},
     pdas      |-> [bond |-> BondOfVote, mint |-> MintOfIdentity,
                    validatorIdentityTokenAccount |-> TokensOfIdentity,
                    eventAuthority |-> EventAuthority],
     relations |-> {<<"bond", "config">>, <<"bond", "voteAccount">>}]

resetStake ==
    [accounts  |-> <<"config", "bond", "settlement", "stakeAccount",
                     "bondsWithdrawerAuthority", "voteAccount",
                     "stakeHistory", "stakeConfig", "clock", "stakeProgram",
                     "eventAuthority", "program">>,
     writable  |-> {"stakeAccount"},
     signers   |-> {},
     optional  |-> {},
     fixed     |-> {"stakeHistory", "stakeConfig", "clock", "stakeProgram"},
     pdas      |-> [bond |-> BondOfVote,
                    bondsWithdrawerAuthority |-> WithdrawerOfConfig,
                    eventAuthority |-> EventAuthority],
     relations |-> {<<"bond", "config">>, <<"bond", "voteAccount">>}]

upsizeSettlementClaims ==
    [accounts  |-> <<"settlementClaims", "rentPayer", "systemProgram">>,
     writable  |-> {"settlementClaims", "rentPayer"},
     signers   |-> {"rentPayer"},
     optional  |-> {},
     fixed     |-> {"systemProgram"},
     pdas      |-> [settlementClaims |-> ClaimsOfItsSettlement],
     relations |-> {}]

withdrawStake ==
    [accounts  |-> <<"config", "operatorAuthority", "settlement",
                     "stakeAccount", "bondsWithdrawerAuthority",
                     "withdrawTo", "stakeHistory", "clock", "stakeProgram",
                     "eventAuthority", "program">>,
     writable  |-> {"stakeAccount", "withdrawTo"},
     signers   |-> {"operatorAuthority"},
     optional  |-> {},
     fixed     |-> {"stakeHistory", "clock", "stakeProgram"},
     pdas      |-> [bondsWithdrawerAuthority |-> WithdrawerOfConfig,
                    eventAuthority |-> EventAuthority],
     relations |-> {<<"config", "operatorAuthority">>}]

-----------------------------------------------------------------------------
Interface ==
    [cancelSettlement |-> cancelSettlement,
     cancelWithdrawRequest |-> cancelWithdrawRequest,
     claimSettlementV1 |-> claimSettlementV1,
     claimSettlementV2 |-> claimSettlementV2,
     claimWithdrawRequest |-> claimWithdrawRequest,
     closeSettlementV2 |-> closeSettlementV2,
     configureBond |-> configureBond,
     configureBondProduct |-> configureBondProduct,
     configureBondWithMint |-> configureBondWithMint,
     configureConfig |-> configureConfig,
     emergencyPause |-> emergencyPause,
     emergencyResume |-> emergencyResume,
     fundBond |-> fundBond,
     fundSettlement |-> fundSettlement,
     initBond |-> initBond,
     initBondProduct |-> initBondProduct,
     initConfig |-> initConfig,
     initSettlement |-> initSettlement,
     initWithdrawRequest |-> initWithdrawRequest,
     mergeStake |-> mergeStake,
     mintBond |-> mintBond,
     resetStake |-> resetStake,
     upsizeSettlementClaims |-> upsizeSettlementClaims,
     withdrawStake |-> withdrawStake]

Instructions == DOMAIN Interface

(* A transaction is a sequence of instructions, each with what is sent of  *)
(* its accounts in order, and the arguments that name accounts.            *)
Meta(address, writable, signer) ==
    [address |-> address, writable |-> writable, signer |-> signer]

(* How the program names the accounts that it is sent                      *)
Named(names, wire) ==
    [n \in ToSet(names) |-> wire[CHOOSE i \in DOMAIN names : names[i] = n]]

Received(ix, wire) == Named(Interface[ix].accounts, wire)

Addresses(metas) == [n \in DOMAIN metas |-> metas[n].address]

SeedValue(live, acc, args, seed) ==
    IF Len(seed) = 1 THEN acc[seed[1]]
    ELSE IF seed[1] = "args" THEN args[seed[2]]
    ELSE Data(live, acc[seed[1]], seed[2])

Derived(live, acc, args, pda) ==
    <<pda.prefix>> \o [i \in DOMAIN pda.seeds |->
                         SeedValue(live, acc, args, pda.seeds[i])]

(* What Anchor generates of the interface                                  *)
RolesMatch(face, metas) ==
    /\ \A n \in face.writable : metas[n].writable
    /\ \A n \in face.signers :
          metas[n].signer \/ (n \in face.optional /\ metas[n].address = ProgramId)

AddressesMatch(live, face, acc, args) ==
    /\ \A n \in face.fixed : acc[n] = FixedAddress(n)
    /\ \A n \in DOMAIN face.pdas : acc[n] = Derived(live, acc, args, face.pdas[n])
    /\ \A r \in face.relations : acc[r[2]] = Data(live, acc[r[1]], r[2])

AccountsMatch(live, tx) ==
    /\ Len(tx.wire) = Len(Interface[tx.ix].accounts)
    /\ RolesMatch(Interface[tx.ix], Received(tx.ix, tx.wire))
    /\ AddressesMatch(live, Interface[tx.ix], Addresses(Received(tx.ix, tx.wire)), tx.args)

-----------------------------------------------------------------------------
(* The checks of the handlers                                              *)

check_vote_account_validator_identity(live, vote, identity) ==
    identity = Data(live, vote, "nodePubkey")

(* taking the identity of whichever validator *)
AnyIdentityIsAuthority(live, authority, bond, vote) ==
    \/ authority = Data(live, bond, "authority")
    \/ \E v \in Votes : check_vote_account_validator_identity(live, v, authority)

check_bond_authority(live, authority, bond, vote) ==
    \/ authority = Data(live, bond, "authority")
    \/ check_vote_account_validator_identity(live, vote, authority)

(* taking a stake account delegated to anybody *)
DelegatedSomewhere(live, stake, vote) == Data(live, stake, "voter") # Null

check_stake_valid_delegation(live, stake, vote) ==
    Data(live, stake, "voter") = vote

check_stake_withdrawer(live, stake, authority) ==
    Data(live, stake, "withdrawer") = authority

StakerIs(live, stake, authority) == Data(live, stake, "staker") = authority

BondVote(live, acc) == Data(live, acc.bond, "voteAccount")

(* deposited under the config and delegated to the validator of the bond   *)
BondedStake(live, acc, stake) ==
    /\ check_stake_withdrawer(live, stake, acc.bondsWithdrawerAuthority)
    /\ check_stake_valid_delegation(live, stake, BondVote(live, acc))

ByBondAuthority(live, acc) ==
    check_bond_authority(live, acc.authority, acc.bond, acc.voteAccount)

SplitRentMatches(live, acc) ==
    Data(live, acc.settlement, "splitRentCollector") \in {Null, acc.splitRentCollector}

RefundStake(live, acc) ==
    \/ Data(live, acc.settlement, "splitRentCollector") = Null
    \/ BondedStake(live, acc, acc.splitRentRefundAccount)

is_closed(live, settlement) == Data(live, settlement, "bond") = Null

(* the leaf that the proof of a claim shows to be in the tree              *)
ClaimProven(live, acc, args) ==
    \E f \in Families :
        /\ acc.settlement = SettlementAt(f, "open")
        /\ args.stakeAccountStaker = Key("staker", f)
        /\ args.stakeAccountWithdrawer = Key("creditor", f)

claim_withdraw_request(live, acc) ==
    /\ ByBondAuthority(live, acc)
    /\ BondedStake(live, acc, acc.stakeAccount)
    /\ StakerIs(live, acc.stakeAccount, acc.bondsWithdrawerAuthority)

init_bond(live, acc) ==
    \/ acc.validatorIdentity = ProgramId
    \/ check_vote_account_validator_identity(live, acc.voteAccount, acc.validatorIdentity)

init_bond_product(live, acc) ==
    \/ acc.authority = ProgramId
    \/ ByBondAuthority(live, acc)

configure_bond_with_mint(live, acc, args) ==
    check_vote_account_validator_identity(live, acc.voteAccount, args.validatorIdentity)

mint_bond(live, acc) ==
    check_vote_account_validator_identity(live, acc.voteAccount, acc.validatorIdentity)

fund_bond(live, acc) ==
    /\ check_stake_withdrawer(live, acc.stakeAccount, acc.stakeAuthority)
    /\ check_stake_valid_delegation(live, acc.stakeAccount, BondVote(live, acc))

fund_settlement(live, acc) ==
    /\ BondedStake(live, acc, acc.stakeAccount)
    /\ StakerIs(live, acc.stakeAccount, acc.bondsWithdrawerAuthority)

claim_settlement(live, acc, args) ==
    /\ check_stake_withdrawer(live, acc.stakeAccountFrom, acc.bondsWithdrawerAuthority)
    /\ StakerIs(live, acc.stakeAccountFrom, Data(live, acc.settlement, "stakerAuthority"))
    /\ check_stake_withdrawer(live, acc.stakeAccountTo, args.stakeAccountWithdrawer)
    /\ StakerIs(live, acc.stakeAccountTo, args.stakeAccountStaker)
    /\ ClaimProven(live, acc, args)

cancel_settlement(live, acc) ==
    /\ acc.authority \in {Data(live, acc.config, "operatorAuthority"),
                          Data(live, acc.config, "pauseAuthority")}
    /\ RefundStake(live, acc)

close_settlement(live, acc) == SplitRentMatches(live, acc) /\ RefundStake(live, acc)

merge_stake(live, acc, args) ==
    LET bonds == bondsWithdrawerAuthority(acc.config)
    IN  /\ acc.sourceStake # acc.destinationStake
        /\ \A s \in {acc.sourceStake, acc.destinationStake} :
              StakerIs(live, s, acc.stakerAuthority) /\ check_stake_withdrawer(live, s, bonds)
        /\ Data(live, acc.sourceStake, "voter") = Data(live, acc.destinationStake, "voter")
        /\ acc.stakerAuthority \in {bonds, settlementStakerAuthority(args.settlement)}

reset_stake(live, acc) ==
    /\ is_closed(live, acc.settlement)
    /\ BondedStake(live, acc, acc.stakeAccount)
    /\ StakerIs(live, acc.stakeAccount, settlementStakerAuthority(acc.settlement))

withdraw_stake(live, acc) ==
    /\ is_closed(live, acc.settlement)
    /\ check_stake_withdrawer(live, acc.stakeAccount, acc.bondsWithdrawerAuthority)
    /\ Data(live, acc.stakeAccount, "voter") = Null
    /\ StakerIs(live, acc.stakeAccount, settlementStakerAuthority(acc.settlement))

HandlerPermits(live, ix, acc, args) ==
    CASE ix \in {"configureBond", "configureBondProduct", "initWithdrawRequest",
                 "cancelWithdrawRequest"} -> ByBondAuthority(live, acc)
      [] ix = "claimWithdrawRequest"      -> claim_withdraw_request(live, acc)
      [] ix = "initBond"                  -> init_bond(live, acc)
      [] ix = "initBondProduct"           -> init_bond_product(live, acc)
      [] ix = "configureBondWithMint"     -> configure_bond_with_mint(live, acc, args)
      [] ix = "mintBond"                  -> mint_bond(live, acc)
      [] ix = "fundBond"                  -> fund_bond(live, acc)
      [] ix = "fundSettlement"            -> fund_settlement(live, acc)
      [] ix = "claimSettlementV2"         -> claim_settlement(live, acc, args)
      [] ix = "cancelSettlement"          -> cancel_settlement(live, acc)
      [] ix = "closeSettlementV2"         -> close_settlement(live, acc)
      [] ix = "mergeStake"                -> merge_stake(live, acc, args)
      [] ix = "resetStake"                -> reset_stake(live, acc)
      [] ix = "withdrawStake"             -> withdraw_stake(live, acc)
      [] OTHER                            -> TRUE

Takes(live, t) ==
    /\ AccountsMatch(live, t)
    /\ HandlerPermits(live, t.ix, Addresses(Received(t.ix, t.wire)), t.args)

(* An instruction that hands the bond to another authority shows in the    *)
(* next ones of its transaction.                                           *)
configure_bond(live, t) ==
    IF t.ix \in {"configureBond", "configureBondWithMint"} /\ t.args.bondAuthority # Null
    THEN [live EXCEPT ![<<Received(t.ix, t.wire)["bond"].address, "authority">>] =
                            t.args.bondAuthority]
    ELSE live

KeysBefore(live, tx, i) == FoldLeft(configure_bond, live, SubSeq(tx, 1, i - 1))

Accepts(live, tx) == \A i \in DOMAIN tx : Takes(KeysBefore(live, tx, i), tx[i])
=============================================================================
