---------------------------- MODULE CodamaClients ----------------------------
(***************************************************************************)
(* The generated client (packages/validator-bonds-codama).  Per            *)
(* instruction: what its input type requires and takes as a signer, the    *)
(* defaults that get...InstructionAsync fills in, in order, the accounts   *)
(* that are sent in order with those marked writable, and the names that   *)
(* parse...Instruction gives to the accounts of a transaction.             *)
(*                                                                         *)
(* The variant without Async of an instruction derives nothing: its input  *)
(* requires those accounts too, and only fixed addresses are filled in.    *)
(*                                                                         *)
(* The encoding of the data and the wording of errors are left out.        *)
(***************************************************************************)
EXTENDS BondAccounts

(* A default: the account it is for, the prefix and the accounts that are  *)
(* the seeds; a fixed address has no prefix                                *)
Derive(account, prefix, seeds) ==
    [account |-> account, prefix |-> prefix, seeds |-> seeds]
Fixed(accounts) ==
    [i \in DOMAIN accounts |-> [account |-> accounts[i], prefix |-> "", seeds |-> <<>>]]

(* The input of the variant without Async                                  *)
AndAlso(input, accounts) == [input EXCEPT !.required = @ \cup accounts]

DeriveBond == Derive("bond", "bond_account", <<"config", "voteAccount">>)
DeriveClaims == Derive("settlementClaims", "claims_account", <<"settlement">>)
DeriveRequest == Derive("withdrawRequest", "withdraw_account", <<"bond">>)
DeriveWithdrawer ==
    Derive("bondsWithdrawerAuthority", "bonds_authority", <<"config">>)
(* the staker of a settlement, once of its bond *)
StakerFromBond ==
    Derive("settlementStakerAuthority", "settlement_authority", <<"bond">>)
DeriveStaker ==
    Derive("settlementStakerAuthority", "settlement_authority", <<"settlement">>)
DeriveMint == Derive("mint", "bond_mint", <<"bond", "validatorIdentity">>)
DeriveTokenAccount ==
    Derive("validatorIdentityTokenAccount", "associated_token",
           <<"validatorIdentity", "mint">>)
DeriveEventAuthority == Derive("eventAuthority", "__event_authority", <<>>)

-----------------------------------------------------------------------------
CancelSettlementAsyncInput ==
    [required |-> {"config", "bond", "settlement", "authority",
                   "rentCollector", "splitRentCollector",
                   "splitRentRefundAccount", "program"},
     signers  |-> {"authority"}]
CancelSettlementInput ==
    AndAlso(CancelSettlementAsyncInput,
            {"settlementClaims", "bondsWithdrawerAuthority", "eventAuthority"})
getCancelSettlementInstructionAsync ==
    <<DeriveClaims, DeriveWithdrawer>>
    \o Fixed(<<"clock", "stakeProgram", "stakeHistory">>)
    \o <<DeriveEventAuthority>>
getCancelSettlementInstruction ==
    [accounts |-> <<"config", "bond", "settlement", "settlementClaims",
                    "authority", "bondsWithdrawerAuthority",
                    "rentCollector", "splitRentCollector",
                    "splitRentRefundAccount", "clock", "stakeProgram",
                    "stakeHistory", "eventAuthority", "program">>,
     writable |-> {"config", "settlement", "settlementClaims",
                   "rentCollector", "splitRentCollector",
                   "splitRentRefundAccount"},
     defaults |-> {"clock", "stakeProgram", "stakeHistory"}]
parseCancelSettlementInstruction ==
    <<"config", "bond", "settlement", "settlementClaims", "authority",
      "bondsWithdrawerAuthority", "rentCollector", "splitRentCollector",
      "splitRentRefundAccount", "clock", "stakeProgram", "stakeHistory",
      "eventAuthority", "program">>

CancelWithdrawRequestAsyncInput ==
    [required |-> {"config", "voteAccount", "authority", "rentCollector",
                   "program"},
     signers  |-> {"authority"}]
CancelWithdrawRequestInput ==
    AndAlso(CancelWithdrawRequestAsyncInput,
            {"bond", "withdrawRequest", "eventAuthority"})
getCancelWithdrawRequestInstructionAsync ==
    <<DeriveBond, DeriveRequest, DeriveEventAuthority>>
getCancelWithdrawRequestInstruction ==
    [accounts |-> <<"config", "bond", "voteAccount", "authority",
                    "withdrawRequest", "rentCollector", "eventAuthority",
                    "program">>,
     writable |-> {"withdrawRequest", "rentCollector"},
     defaults |-> {}]
parseCancelWithdrawRequestInstruction ==
    <<"config", "bond", "voteAccount", "authority", "withdrawRequest",
      "rentCollector", "eventAuthority", "program">>

ClaimSettlementV1Input ==
    [required |-> {"settlementClaimV1"},
     signers  |-> {}]
getClaimSettlementV1Instruction ==
    [accounts |-> <<"settlementClaimV1">>,
     writable |-> {},
     defaults |-> {}]
parseClaimSettlementV1Instruction ==
    <<"settlementClaimV1">>

ClaimSettlementV2AsyncInput ==
    [required |-> {"config", "bond", "settlement", "stakeAccountFrom",
                   "stakeAccountTo", "program"},
     signers  |-> {}]
ClaimSettlementV2Input ==
    AndAlso(ClaimSettlementV2AsyncInput,
            {"settlementClaims", "bondsWithdrawerAuthority", "eventAuthority"})
getClaimSettlementV2InstructionAsync ==
    <<DeriveClaims, DeriveWithdrawer>>
    \o Fixed(<<"stakeHistory", "clock", "stakeProgram">>)
    \o <<DeriveEventAuthority>>
getClaimSettlementV2Instruction ==
    [accounts |-> <<"config", "bond", "settlement", "settlementClaims",
                    "stakeAccountFrom", "stakeAccountTo",
                    "bondsWithdrawerAuthority", "stakeHistory", "clock",
                    "stakeProgram", "eventAuthority", "program">>,
     writable |-> {"settlement", "settlementClaims", "stakeAccountFrom",
                   "stakeAccountTo"},
     defaults |-> {"stakeHistory", "clock", "stakeProgram"}]
(* naming the two stake accounts of a claim the wrong way round *)
ParsedCrosswise ==
    <<"config", "bond", "settlement", "settlementClaims",
      "stakeAccountTo", "stakeAccountFrom", "bondsWithdrawerAuthority",
      "stakeHistory", "clock", "stakeProgram", "eventAuthority", "program">>
parseClaimSettlementV2Instruction ==
    <<"config", "bond", "settlement", "settlementClaims",
      "stakeAccountFrom", "stakeAccountTo", "bondsWithdrawerAuthority",
      "stakeHistory", "clock", "stakeProgram", "eventAuthority", "program">>

ClaimWithdrawRequestAsyncInput ==
    [required |-> {"config", "voteAccount", "authority", "stakeAccount",
                   "withdrawer", "splitStakeAccount", "splitStakeRentPayer",
                   "program"},
     signers  |-> {"authority", "splitStakeAccount", "splitStakeRentPayer"}]
ClaimWithdrawRequestInput ==
    AndAlso(ClaimWithdrawRequestAsyncInput,
            {"bond", "withdrawRequest", "bondsWithdrawerAuthority",
             "eventAuthority"})
getClaimWithdrawRequestInstructionAsync ==
    <<DeriveBond, DeriveRequest, DeriveWithdrawer>>
    \o Fixed(<<"stakeProgram", "systemProgram", "stakeHistory", "clock">>)
    \o <<DeriveEventAuthority>>
getClaimWithdrawRequestInstruction ==
    [accounts |-> <<"config", "bond", "voteAccount", "authority",
                    "withdrawRequest", "bondsWithdrawerAuthority",
                    "stakeAccount", "withdrawer", "splitStakeAccount",
                    "splitStakeRentPayer", "stakeProgram", "systemProgram",
                    "stakeHistory", "clock", "eventAuthority", "program">>,
     writable |-> {"withdrawRequest", "stakeAccount", "splitStakeAccount",
                   "splitStakeRentPayer"},
     defaults |-> {"stakeProgram", "systemProgram", "stakeHistory", "clock"}]
parseClaimWithdrawRequestInstruction ==
    <<"config", "bond", "voteAccount", "authority", "withdrawRequest",
      "bondsWithdrawerAuthority", "stakeAccount", "withdrawer",
      "splitStakeAccount", "splitStakeRentPayer", "stakeProgram",
      "systemProgram", "stakeHistory", "clock", "eventAuthority",
      "program">>

CloseSettlementV2AsyncInput ==
    [required |-> {"config", "bond", "settlement", "rentCollector",
                   "splitRentCollector", "splitRentRefundAccount",
                   "program"},
     signers  |-> {}]
CloseSettlementV2Input ==
    AndAlso(CloseSettlementV2AsyncInput,
            {"settlementClaims", "bondsWithdrawerAuthority", "eventAuthority"})
getCloseSettlementV2InstructionAsync ==
    <<DeriveClaims, DeriveWithdrawer>>
    \o Fixed(<<"clock", "stakeProgram", "stakeHistory">>)
    \o <<DeriveEventAuthority>>
getCloseSettlementV2Instruction ==
    [accounts |-> <<"config", "bond", "settlement", "settlementClaims",
                    "bondsWithdrawerAuthority", "rentCollector",
                    "splitRentCollector", "splitRentRefundAccount", "clock",
                    "stakeProgram", "stakeHistory", "eventAuthority",
                    "program">>,
     writable |-> {"settlement", "settlementClaims", "rentCollector",
                   "splitRentCollector", "splitRentRefundAccount"},
     defaults |-> {"clock", "stakeProgram", "stakeHistory"}]
parseCloseSettlementV2Instruction ==
    <<"config", "bond", "settlement", "settlementClaims",
      "bondsWithdrawerAuthority", "rentCollector", "splitRentCollector",
      "splitRentRefundAccount", "clock", "stakeProgram", "stakeHistory",
      "eventAuthority", "program">>

ConfigureBondAsyncInput ==
    [required |-> {"config", "authority", "voteAccount", "program"},
     signers  |-> {"authority"}]
ConfigureBondInput ==
    AndAlso(ConfigureBondAsyncInput, {"bond", "eventAuthority"})
getConfigureBondInstructionAsync ==
    <<DeriveBond, DeriveEventAuthority>>
getConfigureBondInstruction ==
    [accounts |-> <<"config", "bond", "authority", "voteAccount",
                    "eventAuthority", "program">>,
     writable |-> {"bond"},
     defaults |-> {}]
parseConfigureBondInstruction ==
    <<"config", "bond", "authority", "voteAccount", "eventAuthority",
      "program">>

ConfigureBondProductAsyncInput ==
    [required |-> {"config", "voteAccount", "bondProduct", "authority",
                   "program"},
     signers  |-> {"authority"}]
ConfigureBondProductInput ==
    AndAlso(ConfigureBondProductAsyncInput, {"bond", "eventAuthority"})
getConfigureBondProductInstructionAsync ==
    <<DeriveBond, DeriveEventAuthority>>
getConfigureBondProductInstruction ==
    [accounts |-> <<"config", "bond", "voteAccount", "bondProduct",
                    "authority", "eventAuthority", "program">>,
     writable |-> {"bondProduct"},
     defaults |-> {}]
parseConfigureBondProductInstruction ==
    <<"config", "bond", "voteAccount", "bondProduct", "authority",
      "eventAuthority", "program">>

ConfigureBondWithMintAsyncInput ==
    [required |-> {"config", "mint", "voteAccount", "tokenAccount",
                   "tokenAuthority", "program"},
     signers  |-> {"tokenAuthority"}]
ConfigureBondWithMintInput ==
    AndAlso(ConfigureBondWithMintAsyncInput, {"bond", "eventAuthority"})
getConfigureBondWithMintInstructionAsync ==
    <<DeriveBond>>
    \o Fixed(<<"tokenProgram">>)
    \o <<DeriveEventAuthority>>
getConfigureBondWithMintInstruction ==
    [accounts |-> <<"config", "bond", "mint", "voteAccount", "tokenAccount",
                    "tokenAuthority", "tokenProgram", "eventAuthority",
                    "program">>,
     writable |-> {"bond", "mint", "tokenAccount"},
     defaults |-> {"tokenProgram"}]
parseConfigureBondWithMintInstruction ==
    <<"config", "bond", "mint", "voteAccount", "tokenAccount",
      "tokenAuthority", "tokenProgram", "eventAuthority", "program">>

ConfigureConfigAsyncInput ==
    [required |-> {"config", "adminAuthority", "program"},
     signers  |-> {"adminAuthority"}]
ConfigureConfigInput ==
    AndAlso(ConfigureConfigAsyncInput, {"eventAuthority"})
getConfigureConfigInstructionAsync ==
    <<DeriveEventAuthority>>
getConfigureConfigInstruction ==
    [accounts |-> <<"config", "adminAuthority", "eventAuthority",
                    "program">>,
     writable |-> {"config"},
     defaults |-> {}]
parseConfigureConfigInstruction ==
    <<"config", "adminAuthority", "eventAuthority", "program">>

EmergencyPauseAsyncInput ==
    [required |-> {"config", "pauseAuthority", "program"},
     signers  |-> {"pauseAuthority"}]
EmergencyPauseInput ==
    AndAlso(EmergencyPauseAsyncInput, {"eventAuthority"})
getEmergencyPauseInstructionAsync ==
    <<DeriveEventAuthority>>
getEmergencyPauseInstruction ==
    [accounts |-> <<"config", "pauseAuthority", "eventAuthority",
                    "program">>,
     writable |-> {"config"},
     defaults |-> {}]
parseEmergencyPauseInstruction ==
    <<"config", "pauseAuthority", "eventAuthority", "program">>

EmergencyResumeAsyncInput ==
    [required |-> {"config", "pauseAuthority", "program"},
     signers  |-> {"pauseAuthority"}]
EmergencyResumeInput ==
    AndAlso(EmergencyResumeAsyncInput, {"eventAuthority"})
getEmergencyResumeInstructionAsync ==
    <<DeriveEventAuthority>>
getEmergencyResumeInstruction ==
    [accounts |-> <<"config", "pauseAuthority", "eventAuthority",
                    "program">>,
     writable |-> {"config"},
     defaults |-> {}]
parseEmergencyResumeInstruction ==
    <<"config", "pauseAuthority", "eventAuthority", "program">>

FundBondAsyncInput ==
    [required |-> {"config", "bond", "stakeAccount", "stakeAuthority",
                   "program"},
     signers  |-> {"stakeAuthority"}]
FundBondInput ==
    AndAlso(FundBondAsyncInput, {"bondsWithdrawerAuthority", "eventAuthority"})
getFundBondInstructionAsync ==
    <<DeriveWithdrawer>>
    \o Fixed(<<"clock", "stakeHistory", "stakeProgram">>)
    \o <<DeriveEventAuthority>>
getFundBondInstruction ==
    [accounts |-> <<"config", "bond", "bondsWithdrawerAuthority",
                    "stakeAccount", "stakeAuthority", "clock",
                    "stakeHistory", "stakeProgram", "eventAuthority",
                    "program">>,
     writable |-> {"stakeAccount"},
     defaults |-> {"clock", "stakeHistory", "stakeProgram"}]
parseFundBondInstruction ==
    <<"config", "bond", "bondsWithdrawerAuthority", "stakeAccount",
      "stakeAuthority", "clock", "stakeHistory", "stakeProgram",
      "eventAuthority", "program">>

FundSettlementAsyncInput ==
    [required |-> {"config", "voteAccount", "settlement",
                   "operatorAuthority", "stakeAccount", "splitStakeAccount",
                   "splitStakeRentPayer", "program"},
     signers  |-> {"operatorAuthority", "splitStakeAccount",
                   "splitStakeRentPayer"}]
FundSettlementInput ==
    AndAlso(FundSettlementAsyncInput,
            {"bond", "settlementStakerAuthority", "bondsWithdrawerAuthority",
             "eventAuthority"})
getFundSettlementInstructionAsync ==
    <<DeriveBond, DeriveStaker, DeriveWithdrawer>>
    \o Fixed(<<"systemProgram", "stakeHistory", "clock", "rent",
               "stakeProgram", "stakeConfig">>)
    \o <<DeriveEventAuthority>>
getFundSettlementInstruction ==
    [accounts |-> <<"config", "bond", "voteAccount", "settlement",
                    "operatorAuthority", "stakeAccount",
                    "settlementStakerAuthority", "bondsWithdrawerAuthority",
                    "splitStakeAccount", "splitStakeRentPayer",
                    "systemProgram", "stakeHistory", "clock", "rent",
                    "stakeProgram", "stakeConfig", "eventAuthority",
                    "program">>,
     writable |-> {"settlement", "stakeAccount", "splitStakeAccount",
                   "splitStakeRentPayer"},
     defaults |-> {"systemProgram", "stakeHistory", "clock", "rent",
                   "stakeProgram", "stakeConfig"}]
parseFundSettlementInstruction ==
    <<"config", "bond", "voteAccount", "settlement", "operatorAuthority",
      "stakeAccount", "settlementStakerAuthority",
      "bondsWithdrawerAuthority", "splitStakeAccount",
      "splitStakeRentPayer", "systemProgram", "stakeHistory", "clock",
      "rent", "stakeProgram", "stakeConfig", "eventAuthority", "program">>

InitBondAsyncInput ==
    [required |-> {"config", "voteAccount", "rentPayer", "program"},
     signers  |-> {"validatorIdentity", "rentPayer"}]
InitBondInput ==
    AndAlso(InitBondAsyncInput, {"bond", "eventAuthority"})
getInitBondInstructionAsync ==
    <<DeriveBond>>
    \o Fixed(<<"systemProgram">>)
    \o <<DeriveEventAuthority>>
getInitBondInstruction ==
    [accounts |-> <<"config", "voteAccount", "validatorIdentity", "bond",
                    "rentPayer", "systemProgram", "eventAuthority",
                    "program">>,
     writable |-> {"bond", "rentPayer"},
     defaults |-> {"systemProgram"}]
parseInitBondInstruction ==
    <<"config", "voteAccount", "validatorIdentity", "bond", "rentPayer",
      "systemProgram", "eventAuthority", "program">>

InitBondProductAsyncInput ==
    [required |-> {"config", "voteAccount", "bondProduct", "rentPayer",
                   "program"},
     signers  |-> {"authority", "rentPayer"}]
InitBondProductInput ==
    AndAlso(InitBondProductAsyncInput, {"bond", "eventAuthority"})
getInitBondProductInstructionAsync ==
    <<DeriveBond>>
    \o Fixed(<<"systemProgram">>)
    \o <<DeriveEventAuthority>>
getInitBondProductInstruction ==
    [accounts |-> <<"config", "bond", "voteAccount", "bondProduct",
                    "authority", "rentPayer", "systemProgram",
                    "eventAuthority", "program">>,
     writable |-> {"bond", "bondProduct", "rentPayer"},
     defaults |-> {"systemProgram"}]
parseInitBondProductInstruction ==
    <<"config", "bond", "voteAccount", "bondProduct", "authority",
      "rentPayer", "systemProgram", "eventAuthority", "program">>

InitConfigAsyncInput ==
    [required |-> {"config", "rentPayer", "program"},
     signers  |-> {"config", "rentPayer"}]
InitConfigInput ==
    AndAlso(InitConfigAsyncInput, {"eventAuthority"})
getInitConfigInstructionAsync ==
    Fixed(<<"systemProgram">>)
    \o <<DeriveEventAuthority>>
getInitConfigInstruction ==
    [accounts |-> <<"config", "rentPayer", "systemProgram",
                    "eventAuthority", "program">>,
     writable |-> {"config", "rentPayer"},
     defaults |-> {"systemProgram"}]
parseInitConfigInstruction ==
    <<"config", "rentPayer", "systemProgram", "eventAuthority", "program">>

InitSettlementAsyncInput ==
    [required |-> {"config", "bond", "settlement", "operatorAuthority",
                   "rentPayer", "program"},
     signers  |-> {"operatorAuthority", "rentPayer"}]
InitSettlementInput ==
    AndAlso(InitSettlementAsyncInput, {"settlementClaims", "eventAuthority"})
getInitSettlementInstructionAsync ==
    <<DeriveClaims>>
    \o Fixed(<<"systemProgram">>)
    \o <<DeriveEventAuthority>>
getInitSettlementInstruction ==
    [accounts |-> <<"config", "bond", "settlement", "settlementClaims",
                    "operatorAuthority", "rentPayer", "systemProgram",
                    "eventAuthority", "program">>,
     writable |-> {"settlement", "settlementClaims", "rentPayer"},
     defaults |-> {"systemProgram"}]
parseInitSettlementInstruction ==
    <<"config", "bond", "settlement", "settlementClaims",
      "operatorAuthority", "rentPayer", "systemProgram", "eventAuthority",
      "program">>

InitWithdrawRequestAsyncInput ==
    [required |-> {"config", "voteAccount", "authority", "rentPayer",
                   "program"},
     signers  |-> {"authority", "rentPayer"}]
InitWithdrawRequestInput ==
    AndAlso(InitWithdrawRequestAsyncInput,
            {"bond", "withdrawRequest", "eventAuthority"})
getInitWithdrawRequestInstructionAsync ==
    <<DeriveBond, DeriveRequest>>
    \o Fixed(<<"systemProgram">>)
    \o <<DeriveEventAuthority>>
getInitWithdrawRequestInstruction ==
    [accounts |-> <<"config", "bond", "voteAccount", "authority",
                    "withdrawRequest", "rentPayer", "systemProgram",
                    "eventAuthority", "program">>,
     writable |-> {"withdrawRequest", "rentPayer"},
     defaults |-> {"systemProgram"}]
parseInitWithdrawRequestInstruction ==
    <<"config", "bond", "voteAccount", "authority", "withdrawRequest",
      "rentPayer", "systemProgram", "eventAuthority", "program">>

MergeStakeAsyncInput ==
    [required |-> {"config", "sourceStake", "destinationStake",
                   "stakerAuthority", "program"},
     signers  |-> {}]
MergeStakeInput ==
    AndAlso(MergeStakeAsyncInput, {"eventAuthority"})
getMergeStakeInstructionAsync ==
    Fixed(<<"stakeHistory", "clock", "stakeProgram">>)
    \o <<DeriveEventAuthority>>
getMergeStakeInstruction ==
    [accounts |-> <<"config", "sourceStake", "destinationStake",
                    "stakerAuthority", "stakeHistory", "clock",
                    "stakeProgram", "eventAuthority", "program">>,
     writable |-> {"sourceStake", "destinationStake"},
     defaults |-> {"stakeHistory", "clock", "stakeProgram"}]
parseMergeStakeInstruction ==
    <<"config", "sourceStake", "destinationStake", "stakerAuthority",
      "stakeHistory", "clock", "stakeProgram", "eventAuthority", "program">>

MintBondAsyncInput ==
    [required |-> {"config", "validatorIdentity", "voteAccount", "metadata",
                   "rentPayer", "program"},
     signers  |-> {"rentPayer"}]
MintBondInput ==
    AndAlso(MintBondAsyncInput,
            {"bond", "mint", "validatorIdentityTokenAccount", "eventAuthority"})
getMintBondInstructionAsync ==
    <<DeriveBond, DeriveMint, DeriveTokenAccount>>
    \o Fixed(<<"systemProgram", "tokenProgram", "associatedTokenProgram",
               "metadataProgram", "rent">>)
    \o <<DeriveEventAuthority>>
getMintBondInstruction ==
    [accounts |-> <<"config", "bond", "mint", "validatorIdentity",
                    "validatorIdentityTokenAccount", "voteAccount",
                    "metadata", "rentPayer", "systemProgram",
                    "tokenProgram", "associatedTokenProgram",
                    "metadataProgram", "rent", "eventAuthority", "program">>,
     writable |-> {"mint", "validatorIdentityTokenAccount", "metadata",
                   "rentPayer"},
     defaults |-> {"systemProgram", "tokenProgram",
                   "associatedTokenProgram", "metadataProgram", "rent"}]
parseMintBondInstruction ==
    <<"config", "bond", "mint", "validatorIdentity",
      "validatorIdentityTokenAccount", "voteAccount", "metadata",
      "rentPayer", "systemProgram", "tokenProgram",
      "associatedTokenProgram", "metadataProgram", "rent", "eventAuthority",
      "program">>

ResetStakeAsyncInput ==
    [required |-> {"config", "settlement", "stakeAccount", "voteAccount",
                   "program"},
     signers  |-> {}]
ResetStakeInput ==
    AndAlso(ResetStakeAsyncInput,
            {"bond", "bondsWithdrawerAuthority", "eventAuthority"})
getResetStakeInstructionAsync ==
    <<DeriveBond, DeriveWithdrawer>>
    \o Fixed(<<"stakeHistory", "stakeConfig", "clock", "stakeProgram">>)
    \o <<DeriveEventAuthority>>
getResetStakeInstruction ==
    [accounts |-> <<"config", "bond", "settlement", "stakeAccount",
                    "bondsWithdrawerAuthority", "voteAccount",
                    "stakeHistory", "stakeConfig", "clock", "stakeProgram",
                    "eventAuthority", "program">>,
     writable |-> {"stakeAccount"},
     defaults |-> {"stakeHistory", "stakeConfig", "clock", "stakeProgram"}]
parseResetStakeInstruction ==
    <<"config", "bond", "settlement", "stakeAccount",
      "bondsWithdrawerAuthority", "voteAccount", "stakeHistory",
      "stakeConfig", "clock", "stakeProgram", "eventAuthority", "program">>

UpsizeSettlementClaimsInput ==
    [required |-> {"settlementClaims", "rentPayer"},
     signers  |-> {"rentPayer"}]
getUpsizeSettlementClaimsInstruction ==
    [accounts |-> <<"settlementClaims", "rentPayer", "systemProgram">>,
     writable |-> {"settlementClaims", "rentPayer"},
     defaults |-> {"systemProgram"}]
parseUpsizeSettlementClaimsInstruction ==
    <<"settlementClaims", "rentPayer", "systemProgram">>

WithdrawStakeAsyncInput ==
    [required |-> {"config", "operatorAuthority", "settlement",
                   "stakeAccount", "withdrawTo", "program"},
     signers  |-> {"operatorAuthority"}]
WithdrawStakeInput ==
    AndAlso(WithdrawStakeAsyncInput, {"bondsWithdrawerAuthority", "eventAuthority"})
getWithdrawStakeInstructionAsync ==
    <<DeriveWithdrawer>>
    \o Fixed(<<"stakeHistory", "clock", "stakeProgram">>)
    \o <<DeriveEventAuthority>>
getWithdrawStakeInstruction ==
    [accounts |-> <<"config", "operatorAuthority", "settlement",
                    "stakeAccount", "bondsWithdrawerAuthority",
                    "withdrawTo", "stakeHistory", "clock", "stakeProgram",
                    "eventAuthority", "program">>,
     writable |-> {"stakeAccount", "withdrawTo"},
     defaults |-> {"stakeHistory", "clock", "stakeProgram"}]
parseWithdrawStakeInstruction ==
    <<"config", "operatorAuthority", "settlement", "stakeAccount",
      "bondsWithdrawerAuthority", "withdrawTo", "stakeHistory", "clock",
      "stakeProgram", "eventAuthority", "program">>

-----------------------------------------------------------------------------
Client(input, plain, steps, sent, parsed) ==
    [input |-> input, plain |-> plain, steps |-> steps, sent |-> sent, parsed |-> parsed]

Codama ==
    [cancelSettlement |->
        Client(CancelSettlementAsyncInput, CancelSettlementInput,
               getCancelSettlementInstructionAsync,
               getCancelSettlementInstruction, parseCancelSettlementInstruction),
     cancelWithdrawRequest |->
        Client(CancelWithdrawRequestAsyncInput, CancelWithdrawRequestInput,
               getCancelWithdrawRequestInstructionAsync,
               getCancelWithdrawRequestInstruction, parseCancelWithdrawRequestInstruction),
     claimSettlementV1 |->
        Client(ClaimSettlementV1Input, ClaimSettlementV1Input,
               Fixed(SetToSeq(getClaimSettlementV1Instruction.defaults)),
               getClaimSettlementV1Instruction, parseClaimSettlementV1Instruction),
     claimSettlementV2 |->
        Client(ClaimSettlementV2AsyncInput, ClaimSettlementV2Input,
               getClaimSettlementV2InstructionAsync,
               getClaimSettlementV2Instruction, parseClaimSettlementV2Instruction),
     claimWithdrawRequest |->
        Client(ClaimWithdrawRequestAsyncInput, ClaimWithdrawRequestInput,
               getClaimWithdrawRequestInstructionAsync,
               getClaimWithdrawRequestInstruction, parseClaimWithdrawRequestInstruction),
     closeSettlementV2 |->
        Client(CloseSettlementV2AsyncInput, CloseSettlementV2Input,
               getCloseSettlementV2InstructionAsync,
               getCloseSettlementV2Instruction, parseCloseSettlementV2Instruction),
     configureBond |->
        Client(ConfigureBondAsyncInput, ConfigureBondInput,
               getConfigureBondInstructionAsync,
               getConfigureBondInstruction, parseConfigureBondInstruction),
     configureBondProduct |->
        Client(ConfigureBondProductAsyncInput, ConfigureBondProductInput,
               getConfigureBondProductInstructionAsync,
               getConfigureBondProductInstruction, parseConfigureBondProductInstruction),
     configureBondWithMint |->
        Client(ConfigureBondWithMintAsyncInput, ConfigureBondWithMintInput,
               getConfigureBondWithMintInstructionAsync,
               getConfigureBondWithMintInstruction, parseConfigureBondWithMintInstruction),
     configureConfig |->
        Client(ConfigureConfigAsyncInput, ConfigureConfigInput,
               getConfigureConfigInstructionAsync,
               getConfigureConfigInstruction, parseConfigureConfigInstruction),
     emergencyPause |->
        Client(EmergencyPauseAsyncInput, EmergencyPauseInput,
               getEmergencyPauseInstructionAsync,
               getEmergencyPauseInstruction, parseEmergencyPauseInstruction),
     emergencyResume |->
        Client(EmergencyResumeAsyncInput, EmergencyResumeInput,
               getEmergencyResumeInstructionAsync,
               getEmergencyResumeInstruction, parseEmergencyResumeInstruction),
     fundBond |->
        Client(FundBondAsyncInput, FundBondInput,
               getFundBondInstructionAsync,
               getFundBondInstruction, parseFundBondInstruction),
     fundSettlement |->
        Client(FundSettlementAsyncInput, FundSettlementInput,
               getFundSettlementInstructionAsync,
               getFundSettlementInstruction, parseFundSettlementInstruction),
     initBond |->
        Client(InitBondAsyncInput, InitBondInput,
               getInitBondInstructionAsync,
               getInitBondInstruction, parseInitBondInstruction),
     initBondProduct |->
        Client(InitBondProductAsyncInput, InitBondProductInput,
               getInitBondProductInstructionAsync,
               getInitBondProductInstruction, parseInitBondProductInstruction),
     initConfig |->
        Client(InitConfigAsyncInput, InitConfigInput,
               getInitConfigInstructionAsync,
               getInitConfigInstruction, parseInitConfigInstruction),
     initSettlement |->
        Client(InitSettlementAsyncInput, InitSettlementInput,
               getInitSettlementInstructionAsync,
               getInitSettlementInstruction, parseInitSettlementInstruction),
     initWithdrawRequest |->
        Client(InitWithdrawRequestAsyncInput, InitWithdrawRequestInput,
               getInitWithdrawRequestInstructionAsync,
               getInitWithdrawRequestInstruction, parseInitWithdrawRequestInstruction),
     mergeStake |->
        Client(MergeStakeAsyncInput, MergeStakeInput,
               getMergeStakeInstructionAsync,
               getMergeStakeInstruction, parseMergeStakeInstruction),
     mintBond |->
        Client(MintBondAsyncInput, MintBondInput,
               getMintBondInstructionAsync,
               getMintBondInstruction, parseMintBondInstruction),
     resetStake |->
        Client(ResetStakeAsyncInput, ResetStakeInput,
               getResetStakeInstructionAsync,
               getResetStakeInstruction, parseResetStakeInstruction),
     upsizeSettlementClaims |->
        Client(UpsizeSettlementClaimsInput, UpsizeSettlementClaimsInput,
               Fixed(SetToSeq(getUpsizeSettlementClaimsInstruction.defaults)),
               getUpsizeSettlementClaimsInstruction, parseUpsizeSettlementClaimsInstruction),
     withdrawStake |->
        Client(WithdrawStakeAsyncInput, WithdrawStakeInput,
               getWithdrawStakeInstructionAsync,
               getWithdrawStakeInstruction, parseWithdrawStakeInstruction)]

-----------------------------------------------------------------------------
(* One default.  A seed that is missing throws.                            *)
FillIn(accounts, step) ==
    IF accounts = Null \/ accounts[step.account] # Null THEN accounts
    ELSE LET seeds == [i \in DOMAIN step.seeds |-> accounts[step.seeds[i]]]
         IN  IF Null \in ToSet(seeds) THEN Null
             ELSE [accounts EXCEPT ![step.account] =
                     IF step.prefix = "" THEN FixedAddress(step.account)
                                         ELSE <<step.prefix>> \o seeds]

(* Each instruction has two functions, or one that does what both would.   *)
WithAsync(ix) == [input |-> Codama[ix].input, steps |-> Codama[ix].steps]
WithoutAsync(ix) ==
    [input |-> Codama[ix].plain, steps |-> Fixed(SetToSeq(Codama[ix].sent.defaults))]

Resolved(ix, variant, in) ==
    FoldLeft(FillIn, [n \in ToSet(Codama[ix].sent.accounts) |-> in[n]], variant.steps)

(* What is sent; an account without a value is sent as the program's id.   *)
CodamaWire(ix, variant, in) ==
    LET sent == Codama[ix].sent
        accounts == Resolved(ix, variant, in)
        MetaOf(n) ==
            [address  |-> IF accounts[n] = Null THEN ProgramId ELSE accounts[n],
             writable |-> accounts[n] # Null /\ n \in sent.writable,
             signer   |-> accounts[n] # Null /\ n \in variant.input.signers]
    IN  IF accounts = Null THEN Null
        ELSE [i \in DOMAIN sent.accounts |-> MetaOf(sent.accounts[i])]

(* How an observer that parses a transaction names its accounts            *)
ParsedAccounts(ix, wire) ==
    LET names == Codama[ix].parsed
    IN  [n \in ToSet(names) |->
            wire[CHOOSE i \in DOMAIN names : names[i] = n].address]
=============================================================================
