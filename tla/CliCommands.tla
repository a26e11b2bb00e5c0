----------------------------- MODULE CliCommands -----------------------------
(***************************************************************************)
(* The commands of the CLIs (validator-bonds-cli-core and, for the config, *)
(* settlements and stake accounts, validator-bonds-cli).  A command        *)
(* resolves the address its user gives, be it of the bond, its vote        *)
(* account, validator identity, withdraw request or a stake account, and   *)
(* calls the builders of the SDK.  What it gives is a transaction of one   *)
(* or two instructions, or Null when it throws.                            *)
(*                                                                         *)
(* The institutional CLI is a caller that always gives its config.  Dry    *)
(* runs, compute limits and the checks of amounts and bids are left out.   *)
(***************************************************************************)
EXTENDS SdkBuilders

(* --config with its default                                               *)
withConfigOption(in) == [in EXCEPT !.config = Or(@, MARINADE_CONFIG_ADDRESS)]

Single(built) == IF built = Null THEN Null ELSE <<built>>
InOneTransaction(a, b) == IF a = Null \/ b = Null THEN Null ELSE <<a, b>>

-----------------------------------------------------------------------------
(* Which account an address is meant to be                                 *)
OfKind(address, prefix) == address \in DOMAIN Ledger /\ address[1] = prefix

findVoteAccountByIdentity(live, identity) ==
    LET found == {v \in Votes : Data(live, v, "nodePubkey") = identity}
    IN  IF Cardinality(found) = 1 THEN CHOOSE v \in found : TRUE ELSE Null

isVoteAccount(address) == IF address \in Votes THEN address ELSE Null

DelegatedVote(live, address) ==
    IF OfKind(address, "stake_account") THEN Data(live, address, "voter") ELSE Null

IdentityVote(live, address) ==
    IF address \in Existing THEN Null ELSE findVoteAccountByIdentity(live, address)

VoteOrDelegated(live, address) == Or(isVoteAccount(address), DelegatedVote(live, address))

BondUnder(config, vote, otherwise) ==
    IF vote = Null THEN otherwise ELSE bondAddress(Or(config, MARINADE_CONFIG_ADDRESS), vote)

BondOfRequest(live, address) ==
    IF OfKind(address, "withdraw_account") THEN Data(live, address, "bond") ELSE address

IfOfKind(address, prefix) == IF OfKind(address, prefix) THEN address ELSE Null

getBondFromAddress(live, address, config) ==
    IfOfKind(BondUnder(config,
                        Or(IdentityVote(live, address), VoteOrDelegated(live, address)),
                        BondOfRequest(live, address)),
             "bond_account")

getWithdrawRequestFromAddress(live, address, config) ==
    IF address \notin Existing THEN Null
    ELSE Or(IfOfKind(address, "withdraw_account"),
            IfOfKind(withdrawRequestAddress(
                         BondUnder(config, VoteOrDelegated(live, address), address)),
                     "withdraw_account"))

-----------------------------------------------------------------------------
(* The bond of the address, in place of what else identifies it            *)
WithBond(live, in, bond) ==
    [in EXCEPT !.bond = bond, !.config = Data(live, bond, "config"),
               !.voteAccount = Data(live, bond, "voteAccount")]

AtBond(live, in) == WithBond(live, in, getBondFromAddress(live, in.address, in.config))

FundBond(live, at) == IF at.bond = Null THEN Null ELSE Single(fundBondInstruction(live, at))

manageFundBond(live, in) == FundBond(live, AtBond(live, in))

MintBond(live, at) == IF at.bond = Null THEN Null ELSE Single(mintBondInstruction(live, at))

manageMintBond(live, in) == MintBond(live, AtBond(live, withConfigOption(in)))

ByBondsAuthority(live, in) ==
    [in EXCEPT !.authority = Or(@, Data(live, in.bond, "authority"))]

ByWallet(in) == [in EXCEPT !.authority = Or(@, in.wallet)]

InitWithdrawRequest(live, at) ==
    IF at.address # Null /\ at.bond = Null THEN Null
    ELSE Single(initWithdrawRequestInstruction(live, at))

manageInitWithdrawRequest(live, in) ==
    InitWithdrawRequest(live,
        IF in.address = Null THEN ByWallet(withConfigOption(in))
        ELSE ByBondsAuthority(live, AtBond(live, withConfigOption(in))))

(* verifyCommissionBondProductExistence, and what follows from it          *)
CommissionInstruction(live, in) ==
    IF bondProductAddress(in.bond, "commission") \in DOMAIN Ledger
    THEN configureCommissionProductInstruction(live, [in EXCEPT !.bondProduct = Null])
    ELSE initCommissionProductInstruction(live, in)

ConfigureBondByToken(live, at) ==
    IF at.bond = Null \/ at.commission # Null THEN Null
    ELSE Single(configureBondWithMintInstruction(live,
                    [at EXCEPT !.tokenAuthority = Or(at.authority, at.wallet)]))

ConfigureBondByAuthority(live, at) ==
    IF at.bond = Null THEN Null
    ELSE IF at.commission = Null THEN Single(configureBondInstruction(live, at))
    ELSE InOneTransaction(configureBondInstruction(live, at), CommissionInstruction(live, at))

ConfigureBond(live, at) ==
    IF at.withToken # Null THEN ConfigureBondByToken(live, at)
    ELSE ConfigureBondByAuthority(live, ByBondsAuthority(live, at))

manageConfigureBond(live, in) == ConfigureBond(live, AtBond(live, withConfigOption(in)))

manageInitBond(live, in) ==
    LET new == withConfigOption(in)
        product == [new EXCEPT !.bond = bondAddress(new.config, in.voteAccount),
                               !.authority = in.validatorIdentity]
    IN  InOneTransaction(initBondInstruction(live, new),
                         initCommissionProductInstruction(live, product))

-----------------------------------------------------------------------------
(* The request of the address, with its bond and its vote account, and the *)
(* authority of that bond.  The config stays what it is, given or default. *)
WithRequest(live, in, request) ==
    [in EXCEPT !.withdrawRequest = request, !.bond = Data(live, request, "bond"),
               !.voteAccount = Data(live, request, "voteAccount")]

AtRequest(live, in) ==
    IF in.address = Null THEN in
    ELSE WithRequest(live, in, getWithdrawRequestFromAddress(live, in.address, in.config))

AuthorityOf(live, known, in) ==
    IF known = Null THEN in.wallet
    ELSE Data(live, getBondFromAddress(live, known, in.config), "authority")

WithAuthority(live, in) ==
    [in EXCEPT !.authority = Or(@, AuthorityOf(live, Or(in.bond, in.voteAccount), in))]

Identifies(at) == (at.address # Null => at.withdrawRequest # Null) /\ at.authority # Null

ClaimWithdrawRequest(live, at) ==
    IF Identifies(at) THEN Single(claimWithdrawRequestInstruction(live,
                                    [at EXCEPT !.withdrawer = Or(@, at.wallet)]))
    ELSE Null

manageClaimWithdrawRequest(live, in) ==
    ClaimWithdrawRequest(live, WithAuthority(live, AtRequest(live, withConfigOption(in))))

CancelWithdrawRequest(live, at) ==
    IF Identifies(at) THEN Single(cancelWithdrawRequestInstruction(live, at)) ELSE Null

manageCancelWithdrawRequest(live, in) ==
    CancelWithdrawRequest(live, WithAuthority(live, AtRequest(live, withConfigOption(in))))

-----------------------------------------------------------------------------
Settled(live, in) ==
    WithBond(live,
             [in EXCEPT !.rentCollector = Data(live, in.settlement, "rentCollector"),
                        !.splitRentCollector = Data(live, in.settlement, "splitRentCollector")],
             Data(live, in.settlement, "bond"))

manageCloseSettlement(live, in) ==
    IF Data(live, in.settlement, "bond") = Null THEN Null
    ELSE Single(closeSettlementV2Instruction(live, Settled(live, in)))

manageResetStake(live, in) ==
    IF in.settlement \in Existing THEN Null
    ELSE Single(resetStakeInstruction(live, in))

manageMerge(live, in) == Single(mergeStakeInstruction(live, withConfigOption(in)))

(* Without --admin-authority the wallet must be the admin.                 *)
manageConfigureConfig(live, in) ==
    LET at == withConfigOption(in)
        admin == Or(in.adminAuthority, Data(live, at.config, "adminAuthority"))
    IN  IF in.adminAuthority = Null /\ admin # in.wallet THEN Null
        ELSE Single(configureConfigInstruction(live, [at EXCEPT !.adminAuthority = admin]))

manageEmergencyPauseAndResume(live, in, action) ==
    LET at == [withConfigOption(in) EXCEPT !.pauseAuthority = Or(@, in.wallet)]
    IN  Single(IF action = "pause" THEN emergencyPauseInstruction(live, at)
                                   ELSE emergencyResumeInstruction(live, at))

manageInitConfig(live, in) == Single(initConfigInstruction(live, in))
=============================================================================
