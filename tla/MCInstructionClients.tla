------------------------ MODULE MCInstructionClients ------------------------
(* Two validators under the default config, one of them under another one  *)
(* too, the other without a commission product; the parameters of the      *)
(* builders and the options of the commands (a question mark in their      *)
(* types makes one optional).                                              *)
EXTENDS InstructionClients

CONSTANTS Default, Other, v1, v2

MCConfigs == {Default, Other}
MCVotes == {v1, v2}
MCFamilies == {<<Default, v1>>, <<Default, v2>>, <<Other, v1>>}
MCWithCommission == {<<Default, v1>>, <<Other, v1>>}

Offer(builder, always, maybe, enough) ==
    [builder |-> builder, kinds |-> {"by nothing"},
     always |-> always, maybe |-> maybe, enough |-> enough]

Command(builder, kinds, always, maybe, enough) ==
    [builder |-> builder, kinds |-> kinds, always |-> always, maybe |-> maybe, enough |-> enough]

ABond == {"bond", "config", "voteAccount"}
BondKnown == {{"bond"}, {"config", "voteAccount"}}
BondOrDefault == BondKnown \cup {{"voteAccount", "the default config"}}
RequestKnown == BondKnown \cup {{"withdrawRequest"}}
Pausing == {{"config"}, {"the default config"}}

BuilderOffers ==
    {Offer("cancelSettlement", {"settlement"},
           ABond \cup {"authority", "rentCollector", "splitRentRefundAccount"}, {{}}),
     Offer("closeSettlementV2", {"settlement"},
           ABond \cup {"rentCollector", "splitRentRefundAccount"}, {{}}),
     Offer("initSettlement", {"merkleRoot"}, ABond \cup {"epoch", "operatorAuthority"},
           BondKnown),
     Offer("fundSettlement", {"settlement", "stakeAccount"},
           ABond \cup {"operatorAuthority", "splitStakeAccount"}, {{}}),
     Offer("claimSettlementV2", {"stakeAccountFrom", "stakeAccountTo"},
           ABond \cup {"settlement", "merkleRoot", "epoch", "stakeAccountWithdrawer"},
           {{"settlement"}} \cup {{"merkleRoot", "epoch"} \cup bond : bond \in BondKnown}),
     Offer("upsizeSettlementClaims", {}, {"settlement", "settlementClaims"},
           {{"settlement"}, {"settlementClaims"}}),
     Offer("initWithdrawRequest", {}, ABond \cup {"authority"}, BondOrDefault),
     Offer("cancelWithdrawRequest", {},
           ABond \cup {"withdrawRequest", "authority", "rentCollector"}, RequestKnown),
     Offer("claimWithdrawRequest", {"stakeAccount"},
           ABond \cup {"withdrawRequest", "authority", "withdrawer"}, RequestKnown),
     Offer("initBond", {"config", "voteAccount"}, {"validatorIdentity"}, {{}}),
     Offer("configureBond", {}, ABond \cup {"authority"}, BondKnown),
     Offer("mintBond", {}, ABond \cup {"validatorIdentity", "metadata"}, BondKnown),
     Offer("configureBondWithMint", {},
           ABond \cup {"validatorIdentity", "tokenAuthority", "tokenAccount"}, BondKnown),
     Offer("fundBond", {"stakeAccount"}, ABond \cup {"stakeAuthority"}, BondOrDefault),
     Offer("initCommissionProduct", {}, ABond \cup {"authority"}, BondKnown),
     Offer("initCustomProduct", {"bond", "productType"}, {"config", "voteAccount", "authority"},
           {{}}),
     Offer("configureCommissionProduct", {}, ABond \cup {"bondProduct", "authority"},
           {{"a commission product"} \cup k : k \in BondKnown \cup {{"bondProduct"}}}),
     Offer("configureCustomProduct", {}, ABond \cup {"bondProduct", "productType"},
           {{"bondProduct"}} \cup {{"productType"} \cup bond : bond \in BondKnown}),
     Offer("initConfig", {}, {}, {{}}),
     Offer("configureConfig", {}, {"config", "adminAuthority"},
           {{"config"}, {"the default config", "no admin"}}),
     Offer("emergencyPause", {}, {"config", "pauseAuthority"}, Pausing),
     Offer("emergencyResume", {}, {"config", "pauseAuthority"}, Pausing),
     Offer("mergeStake", {"config", "sourceStake", "destinationStake"},
           {"settlement", "stakerAuthority"}, {{}}),
     Offer("resetStake", {"settlement", "stakeAccount"}, ABond, {{"bond"}, {"config"}}),
     Offer("withdrawStake", {"config", "settlement", "stakeAccount", "withdrawTo"},
           {"operatorAuthority"}, {{}})}

ByAddress == {"by bond", "by request", "by vote", "by identity", "by stake"}
ByNothing == {"by nothing"}
AddressKnown ==
    {{"by bond"}, {"by request"}}
    \cup {{k, c} : k \in {"by vote", "by identity", "by stake"},
                   c \in {"config", "the default config"}}
ChangesPossible == {"token or commission", "one change or the identity's"}
VoteKnown == {{"by nothing", "voteAccount"} \cup c : c \in Pausing}
RequestFound ==
    {{k} \cup c : k \in {"by bond", "by request", "by vote", "by stake"}, c \in Pausing}
    \cup VoteKnown

CommandOffers ==
    {Command("manageFundBond", ByAddress, {"stakeAccount"}, {"config", "stakeAuthority"},
             AddressKnown),
     Command("manageMintBond", ByAddress, {}, {"config"}, AddressKnown),
     Command("manageInitWithdrawRequest", ByAddress \cup ByNothing, {},
             {"config", "voteAccount", "authority"}, AddressKnown \cup VoteKnown),
     Command("manageConfigureBond", ByAddress, {},
             {"config", "authority", "withToken", "commission", "newBondAuthority"},
             {ChangesPossible \cup k : k \in AddressKnown}),
     Command("manageInitBond", ByNothing, {"voteAccount"},
             {"config", "validatorIdentity"}, Pausing),
     Command("manageClaimWithdrawRequest", ByAddress \cup ByNothing, {"stakeAccount"},
             {"config", "voteAccount", "authority", "withdrawer"}, RequestFound),
     Command("manageCancelWithdrawRequest", ByAddress \cup ByNothing, {},
             {"config", "voteAccount", "authority", "rentCollector"}, RequestFound),
     Command("manageCloseSettlement", ByNothing, {"settlement"}, {"splitRentRefundAccount"}, {{}}),
     Command("manageResetStake", ByNothing, {"settlement", "stakeAccount", "bond"}, {}, {{}}),
     Command("manageMerge", ByNothing, {"sourceStake", "destinationStake"}, {"config"}, Pausing),
     Command("manageConfigureConfig", ByNothing, {}, {"config", "adminAuthority"}, Pausing),
     Command("pause", ByNothing, {}, {"config", "pauseAuthority"}, Pausing),
     Command("resume", ByNothing, {}, {"config", "pauseAuthority"}, Pausing),
     Command("manageInitConfig", ByNothing, {}, {}, {{}})}

MCOffers == BuilderOffers \cup CommandOffers
=============================================================================
