----------------------------- MODULE SdkBuilders -----------------------------
(***************************************************************************)
(* The instruction builders of the SDK (validator-bonds-sdk/src).  Each    *)
(* takes what its caller knows, derives or fetches the rest, and leaves to *)
(* Anchor the addresses the interface fixes.                               *)
(*                                                                         *)
(* in[n] is what the caller gives as the account, or the argument, n;      *)
(* Null is undefined; in.wallet is the wallet of the provider.  A builder  *)
(* gives Null when it throws: an account that it fetches does not exist,   *)
(* or one that the interface demands is still undefined.  Arguments that   *)
(* name no account and their validation are left out, and so is that a     *)
(* caller gives null for splitRentCollector.                               *)
(***************************************************************************)
EXTENDS ProgramInterface

Or(a, b) == IF a # Null THEN a ELSE b
When(condition, address) == IF condition THEN {address} ELSE {}
NoArgs == <<>>

(* What either of two functions says, the first where both do: @@ of TLC   *)
(* spelt out, of which TLAPS has no definition                             *)
Joined(f, g) ==
    [x \in DOMAIN f \cup DOMAIN g |-> IF x \in DOMAIN f THEN f[x] ELSE g[x]]

anchorProgramWalletPubkey(in) == in.wallet

checkAndGetBondAddress(in) ==
    IF in.bond # Null THEN in.bond
    ELSE IF Null \notin {in.config, in.voteAccount}
         THEN bondAddress(in.config, in.voteAccount)
         ELSE Null

checkAndGetBondProductAddress(in) ==
    LET bond == checkAndGetBondAddress(in)
    IN  IF in.bondProduct # Null THEN in.bondProduct
        ELSE IF Null \notin {bond, in.productType}
             THEN bondProductAddress(bond, in.productType)
             ELSE Null

(* Stake accounts with these authorities, delegated to voter               *)
findStakeAccounts(staker, withdrawer, voter) ==
    {a \in DOMAIN Ledger : /\ a[1] = "stake_account"
                           /\ Ledger[a] = StakeAccount(staker, withdrawer, voter)}

-----------------------------------------------------------------------------
(* What Anchor makes of the accounts and the arguments of a builder        *)
Existing == DOMAIN Ledger \cup Configs \cup Votes

Completed(ix, accounts) ==
    Joined(Joined(accounts, [n \in Interface[ix].fixed |-> FixedAddress(n)]),
           [eventAuthority |-> eventAuthorityAddress, program |-> ProgramId])

Wire(face, accounts) ==
    LET MetaOf(n) ==
            LET none == n \in face.optional /\ accounts[n] = ProgramId
            IN  Meta(accounts[n], n \in face.writable /\ ~none, n \in face.signers /\ ~none)
    IN  [i \in DOMAIN face.accounts |-> MetaOf(face.accounts[i])]

(* sending what is still undefined *)
BuiltUnchecked(ix, fetched, accounts, args) ==
    IF fetched \subseteq Existing
    THEN [ix |-> ix, wire |-> Wire(Interface[ix], Completed(ix, accounts)), args |-> args]
    ELSE Null

Built(ix, fetched, accounts, args) ==
    IF \A n \in DOMAIN accounts : accounts[n] # Null
    THEN BuiltUnchecked(ix, fetched, accounts, args)
    ELSE Null

(* config and voteAccount, both as the bond has them when one is missing   *)
LacksOne(in) == Null \in {in.config, in.voteAccount}

ConfigAndVote(live, bond, in) ==
    IF LacksOne(in) THEN [config |-> Data(live, bond, "config"),
                          voteAccount |-> Data(live, bond, "voteAccount")]
    ELSE [config |-> in.config, voteAccount |-> in.voteAccount]

(* taking the default config for whatever bond *)
DefaultForAll(in) ==
    IF in.config = Null THEN [in EXCEPT !.config = MARINADE_CONFIG_ADDRESS] ELSE in

(* the default config goes with a vote account that is all that is given   *)
WithDefaultConfig(in) ==
    IF in.bond = Null /\ in.config = Null /\ in.voteAccount # Null
    THEN [in EXCEPT !.config = MARINADE_CONFIG_ADDRESS]
    ELSE in

-----------------------------------------------------------------------------
getCloseSettlementAccounts(live, in) ==
    LET named == checkAndGetBondAddress(in)
        readSettlement == Null \in {named, in.rentCollector, in.splitRentCollector}
        bond == IF readSettlement THEN Data(live, in.settlement, "bond") ELSE named
        readBond ==
            \/ in.config = Null
            \/ in.voteAccount = Null /\ in.splitRentRefundAccount = Null
        vote == IF readBond THEN Data(live, bond, "voteAccount") ELSE in.voteAccount
        config == Or(in.config, Data(live, bond, "config"))
        withdrawer == bondsWithdrawerAuthority(config)
        collector ==
            Or(in.splitRentCollector, Data(live, in.settlement, "splitRentCollector"))
        found ==
            findStakeAccounts(settlementStakerAuthority(in.settlement), withdrawer, vote)
        refund == IF collector = Null THEN Fresh("splitRentCollector")
                  ELSE IF found # {} THEN CHOOSE a \in found : TRUE
                  ELSE Null
    IN  [fetched  |-> When(readSettlement, in.settlement) \cup When(readBond, bond),
         accounts |->
            [config                   |-> config,
             bond                     |-> bond,
             settlement               |-> in.settlement,
             settlementClaims         |-> settlementClaimsAddress(in.settlement),
             bondsWithdrawerAuthority |-> withdrawer,
             rentCollector            |->
                Or(in.rentCollector, Data(live, in.settlement, "rentCollector")),
             splitRentCollector       |-> Or(collector, Fresh("splitRentCollector")),
             splitRentRefundAccount   |-> Or(in.splitRentRefundAccount, refund)]]

BuiltClosing(ix, closing, others) ==
    Built(ix, closing.fetched, Joined(closing.accounts, others), NoArgs)

closeSettlementV2Instruction(live, in) ==
    BuiltClosing("closeSettlementV2", getCloseSettlementAccounts(live, in), <<>>)

cancelSettlementInstruction(live, in) ==
    BuiltClosing("cancelSettlement", getCloseSettlementAccounts(live, in),
                 [authority |-> Or(in.authority, anchorProgramWalletPubkey(in))])

initSettlementInstruction(live, in) ==
    LET bond == checkAndGetBondAddress(in)
        epoch == Or(in.epoch, Epoch)
        config == Or(in.config, Data(live, bond, "config"))
        settlement == settlementAddress(bond, in.merkleRoot, epoch)
    IN  Built("initSettlement", When(bond = Null \/ in.config = Null, bond),
              [config            |-> config,
               bond              |-> bond,
               settlement        |-> settlement,
               settlementClaims  |-> settlementClaimsAddress(settlement),
               operatorAuthority |->
                  Or(in.operatorAuthority, Data(live, config, "operatorAuthority")),
               rentPayer         |-> anchorProgramWalletPubkey(in)],
              [merkleRoot |-> in.merkleRoot, epoch |-> epoch])

fundSettlementInstruction(live, in) ==
    LET named == checkAndGetBondAddress(in)
        bond == Or(named, Data(live, in.settlement, "bond"))
        known == ConfigAndVote(live, bond, in)
    IN  Built("fundSettlement",
              When(named = Null, in.settlement) \cup When(LacksOne(in), bond),
              Joined(known,
                [bond                      |-> bond,
                 settlement                |-> in.settlement,
                 operatorAuthority         |->
                    Or(in.operatorAuthority, Data(live, known.config, "operatorAuthority")),
                 stakeAccount              |-> in.stakeAccount,
                 bondsWithdrawerAuthority  |-> bondsWithdrawerAuthority(known.config),
                 settlementStakerAuthority |-> settlementStakerAuthority(in.settlement),
                 splitStakeAccount         |->
                    Or(in.splitStakeAccount, Fresh("splitStakeAccount")),
                 splitStakeRentPayer       |-> anchorProgramWalletPubkey(in)]),
              NoArgs)

claimSettlementV2Instruction(live, in) ==
    LET bond == Or(in.bond, IF in.settlement # Null
                            THEN Data(live, in.settlement, "bond")
                            ELSE checkAndGetBondAddress(in))
        config == Or(in.config, Data(live, bond, "config"))
        settlement == IF in.settlement = Null /\ Null \notin {in.merkleRoot, in.epoch}
                      THEN settlementAddress(bond, in.merkleRoot, in.epoch)
                      ELSE in.settlement
        readTo == Null \in {in.stakeAccountStaker, in.stakeAccountWithdrawer}
    IN  Built("claimSettlementV2",
              When(in.settlement # Null, in.settlement) \cup When(LacksOne(in), bond)
                  \cup When(readTo, in.stakeAccountTo),
              [config                   |-> config,
               bond                     |-> bond,
               settlement               |-> settlement,
               settlementClaims         |-> settlementClaimsAddress(settlement),
               bondsWithdrawerAuthority |-> bondsWithdrawerAuthority(config),
               stakeAccountFrom         |-> in.stakeAccountFrom,
               stakeAccountTo           |-> in.stakeAccountTo],
              [stakeAccountStaker     |->
                  Or(in.stakeAccountStaker, Data(live, in.stakeAccountTo, "staker")),
               stakeAccountWithdrawer |->
                  Or(in.stakeAccountWithdrawer, Data(live, in.stakeAccountTo, "withdrawer"))])

upsizeSettlementClaimsInstruction(live, in) ==
    LET derived == settlementClaimsAddress(in.settlement)
    IN  Built("upsizeSettlementClaims", {},
              [settlementClaims |->
                  IF in.settlement = Null THEN in.settlementClaims
                  ELSE IF in.settlementClaims \in {Null, derived} THEN derived
                  ELSE Null,
               rentPayer        |-> anchorProgramWalletPubkey(in)], NoArgs)

-----------------------------------------------------------------------------
initWithdrawRequestInstruction(live, in) ==
    LET given == WithDefaultConfig(in)
        bond == checkAndGetBondAddress(given)
    IN  Built("initWithdrawRequest", When(bond = Null \/ LacksOne(given), bond),
              [config          |-> Or(given.config, Data(live, bond, "config")),
               bond            |-> bond,
               voteAccount     |-> Or(in.voteAccount, Data(live, bond, "voteAccount")),
               authority       |-> Or(in.authority, anchorProgramWalletPubkey(in)),
               withdrawRequest |-> withdrawRequestAddress(bond),
               rentPayer       |-> anchorProgramWalletPubkey(in)], NoArgs)

cancelWithdrawRequestInstruction(live, in) ==
    LET readRequest == in.withdrawRequest # Null /\ Null \in {in.bond, in.voteAccount}
        bond == IF readRequest THEN Or(in.bond, Data(live, in.withdrawRequest, "bond"))
                               ELSE checkAndGetBondAddress(in)
        voteOfRequest == Or(in.voteAccount, Data(live, in.withdrawRequest, "voteAccount"))
        readBond == Null \in {voteOfRequest, in.authority, in.config}
        authority == Or(in.authority, Data(live, bond, "authority"))
    IN  Built("cancelWithdrawRequest",
              When(readRequest, in.withdrawRequest) \cup When(readBond, bond),
              [config          |-> Or(Or(in.config, Data(live, bond, "config")),
                                      MARINADE_CONFIG_ADDRESS),
               bond            |-> bond,
               voteAccount     |-> Or(voteOfRequest, Data(live, bond, "voteAccount")),
               authority       |-> Or(authority, anchorProgramWalletPubkey(in)),
               withdrawRequest |-> Or(in.withdrawRequest, withdrawRequestAddress(bond)),
               rentCollector   |-> Or(in.rentCollector, anchorProgramWalletPubkey(in))],
              NoArgs)

claimWithdrawRequestInstruction(live, in) ==
    LET named == checkAndGetBondAddress(in)
        readRequest == in.withdrawRequest # Null /\ Null \in {named, in.voteAccount}
        bond == Or(named, Data(live, in.withdrawRequest, "bond"))
        voteOfRequest == Or(in.voteAccount, Data(live, in.withdrawRequest, "voteAccount"))
        readBond == Null \in {voteOfRequest, in.config}
        config == Or(Or(in.config, Data(live, bond, "config")), MARINADE_CONFIG_ADDRESS)
        request == Or(in.withdrawRequest, withdrawRequestAddress(bond))
        node == Data(live, Data(live, request, "voteAccount"), "nodePubkey")
    IN  Built("claimWithdrawRequest",
              When(readRequest, in.withdrawRequest) \cup When(readBond, bond)
                  \cup When(in.withdrawer = Null, request),
              [config                   |-> config,
               bond                     |-> bond,
               voteAccount              |->
                  Or(voteOfRequest, Data(live, bond, "voteAccount")),
               authority                |-> Or(in.authority, anchorProgramWalletPubkey(in)),
               withdrawRequest          |-> request,
               bondsWithdrawerAuthority |-> bondsWithdrawerAuthority(config),
               stakeAccount             |-> in.stakeAccount,
               withdrawer               |-> Or(in.withdrawer, node),
               splitStakeAccount        |-> Fresh("splitStakeAccount"),
               splitStakeRentPayer      |-> anchorProgramWalletPubkey(in)], NoArgs)

-----------------------------------------------------------------------------
initBondInstruction(live, in) ==
    Built("initBond", {},
          [config            |-> in.config,
           voteAccount       |-> in.voteAccount,
           validatorIdentity |-> Or(in.validatorIdentity, ProgramId),
           bond              |-> bondAddress(in.config, in.voteAccount),
           rentPayer         |-> anchorProgramWalletPubkey(in)], NoArgs)

configureBondInstruction(live, in) ==
    LET bond == checkAndGetBondAddress(in)
    IN  Built("configureBond", When(LacksOne(in), bond),
              Joined(ConfigAndVote(live, bond, in),
                [bond      |-> bond,
                 authority |-> Or(in.authority, anchorProgramWalletPubkey(in))]),
              [bondAuthority |-> in.newBondAuthority])

mintBondInstruction(live, in) ==
    LET bond == checkAndGetBondAddress(in)
        known == ConfigAndVote(live, bond, in)
        identity == Or(in.validatorIdentity, Data(live, known.voteAccount, "nodePubkey"))
        mint == bondMintAddress(bond, identity)
    IN  Built("mintBond",
              When(LacksOne(in), bond)
                  \cup When(in.validatorIdentity = Null, known.voteAccount),
              Joined(known,
                [bond                          |-> bond,
                 mint                          |-> mint,
                 metadata                      |->
                    Or(in.metadata, tokenMetadataAddress(mint)),
                 validatorIdentity             |-> identity,
                 validatorIdentityTokenAccount |->
                    getAssociatedTokenAddressSync(mint, identity),
                 rentPayer                     |-> anchorProgramWalletPubkey(in)]), NoArgs)

configureBondWithMintInstruction(live, in) ==
    LET bond == checkAndGetBondAddress(in)
        vote == Or(in.voteAccount, Data(live, bond, "voteAccount"))
        identity == Or(in.validatorIdentity, Data(live, vote, "nodePubkey"))
        mint == bondMintAddress(bond, identity)
        authority == Or(in.tokenAuthority, anchorProgramWalletPubkey(in))
    IN  Built("configureBondWithMint",
              When(LacksOne(in), bond) \cup When(in.validatorIdentity = Null, vote),
              [config         |-> Or(in.config, Data(live, bond, "config")),
               bond           |-> bond,
               voteAccount    |-> vote,
               mint           |-> mint,
               tokenAccount   |->
                  Or(in.tokenAccount, getAssociatedTokenAddressSync(mint, authority)),
               tokenAuthority |-> authority],
              [validatorIdentity |-> identity, bondAuthority |-> in.newBondAuthority])

fundBondInstruction(live, in) ==
    LET given == WithDefaultConfig(in)
        bond == checkAndGetBondAddress(given)
        config == Or(given.config, Data(live, bond, "config"))
    IN  Built("fundBond", When(given.config = Null, bond),
              [config                   |-> config,
               bond                     |-> bond,
               bondsWithdrawerAuthority |-> bondsWithdrawerAuthority(config),
               stakeAccount             |-> in.stakeAccount,
               stakeAuthority           |->
                  Or(in.stakeAuthority, anchorProgramWalletPubkey(in))], NoArgs)

InitProduct(live, bond, in, productType) ==
    Built("initBondProduct", When(LacksOne(in), bond),
          Joined(ConfigAndVote(live, bond, in),
            [bond        |-> bond,
             bondProduct |-> bondProductAddress(bond, productType),
             authority   |-> Or(in.authority, ProgramId),
             rentPayer   |-> anchorProgramWalletPubkey(in)]),
          [productType |-> productType])

initCommissionProductInstruction(live, in) ==
    InitProduct(live, checkAndGetBondAddress(in), in, "commission")

initCustomProductInstruction(live, in) == InitProduct(live, in.bond, in, in.productType)

ConfigureProduct(live, in) ==
    LET product == checkAndGetBondProductAddress(in)
    IN  Built("configureBondProduct", {product},
              [config      |-> Data(live, product, "config"),
               bond        |-> Data(live, product, "bond"),
               voteAccount |-> Data(live, product, "voteAccount"),
               bondProduct |-> product,
               authority   |-> Or(in.authority, anchorProgramWalletPubkey(in))], NoArgs)

configureCommissionProductInstruction(live, in) ==
    ConfigureProduct(live, [in EXCEPT !.productType = "commission"])

configureCustomProductInstruction(live, in) == ConfigureProduct(live, in)

-----------------------------------------------------------------------------
initConfigInstruction(live, in) ==
    Built("initConfig", {}, [config    |-> Or(in.config, Fresh("config")),
                             rentPayer |-> anchorProgramWalletPubkey(in)], NoArgs)

configureConfigInstruction(live, in) ==
    LET config == IF in.adminAuthority = Null /\ in.config = Null
                  THEN MARINADE_CONFIG_ADDRESS ELSE in.config
        admin == Or(in.adminAuthority, Data(live, config, "adminAuthority"))
    IN  Built("configureConfig", When(in.adminAuthority = Null, config),
              [config |-> config, adminAuthority |-> admin], NoArgs)

emergencyPauseInstruction(live, in) ==
    LET config == Or(in.config, MARINADE_CONFIG_ADDRESS)
        authority == Or(in.pauseAuthority, Data(live, config, "pauseAuthority"))
    IN  Built("emergencyPause", When(in.pauseAuthority = Null, config),
              [config |-> config, pauseAuthority |-> authority], NoArgs)

emergencyResumeInstruction(live, in) ==
    LET config == Or(in.config, MARINADE_CONFIG_ADDRESS)
        authority == Or(in.pauseAuthority, Data(live, config, "pauseAuthority"))
    IN  Built("emergencyResume", When(in.pauseAuthority = Null, config),
              [config |-> config, pauseAuthority |-> authority], NoArgs)

mergeStakeInstruction(live, in) ==
    LET withdrawer == bondsWithdrawerAuthority(in.config)
        unmatched == in.settlement = Null /\ in.stakerAuthority \notin {Null, withdrawer}
    IN  Built("mergeStake", {},
              [config           |-> in.config,
               sourceStake      |-> in.sourceStake,
               destinationStake |-> in.destinationStake,
               stakerAuthority  |->
                  IF unmatched THEN Null ELSE Or(in.stakerAuthority, withdrawer)],
              [settlement |-> in.settlement])

resetStakeInstruction(live, in) ==
    LET vote == Or(in.voteAccount, Data(live, in.stakeAccount, "voter"))
        bond == checkAndGetBondAddress([in EXCEPT !.voteAccount = vote])
        config == Or(in.config, Data(live, bond, "config"))
    IN  Built("resetStake",
              When(in.voteAccount = Null, in.stakeAccount) \cup When(in.config = Null, bond),
              [config                   |-> config,
               bond                     |-> bond,
               settlement               |-> in.settlement,
               stakeAccount             |-> in.stakeAccount,
               bondsWithdrawerAuthority |-> bondsWithdrawerAuthority(config),
               voteAccount              |-> vote], NoArgs)

withdrawStakeInstruction(live, in) ==
    Built("withdrawStake", When(in.operatorAuthority = Null, in.config),
          [config                   |-> in.config,
           operatorAuthority        |->
              Or(in.operatorAuthority, Data(live, in.config, "operatorAuthority")),
           settlement               |-> in.settlement,
           stakeAccount             |-> in.stakeAccount,
           bondsWithdrawerAuthority |-> bondsWithdrawerAuthority(in.config),
           withdrawTo               |-> in.withdrawTo], NoArgs)
=============================================================================
