-------------------------- MODULE ClientsProofs --------------------------
(***************************************************************************)
(* What the program takes from the clients.  A builder gives every account *)
(* that the interface names an address, and none but an optional one the   *)
(* program's own id; a command gives builders what such accounts hold.     *)
(* That is the inductive invariant, with what an accepted transaction was  *)
(* accepted for.  From it follow what an observer reads, for whom an       *)
(* authority speaks, and that the generated client sends the same.         *)
(*                                                                         *)
(* For the last the defaults of the generated client are followed one by   *)
(* one: each is for an account that the program checks to be at the        *)
(* address that the default derives, so that, of the accounts of a         *)
(* transaction that was taken, it derives what the transaction has.        *)
(***************************************************************************)
EXTENDS InstructionClients, FiniteSums

(* Neither what is missing nor the program's id is a function: so no       *)
(* derived address is one of them, and no collection of accounts missing.  *)
IsAFunction(v) == v = [x \in DOMAIN v |-> v[x]]
Apart == ~IsAFunction(Null) /\ ~IsAFunction(ProgramId)

(* The parameters that are addresses                                       *)
AccountNames ==
    {"address", "config", "voteAccount", "bond", "withdrawRequest", "bondProduct",
     "settlement", "settlementClaims", "rentCollector", "splitRentCollector",
     "splitRentRefundAccount", "splitStakeAccount", "stakeAccount", "sourceStake",
     "destinationStake", "stakerAuthority", "stakeAccountFrom", "stakeAccountTo",
     "stakeAuthority", "authority", "adminAuthority", "operatorAuthority",
     "pauseAuthority", "validatorIdentity", "tokenAuthority", "tokenAccount",
     "metadata", "withdrawer", "withdrawTo", "wallet"}

ProperInput(in) ==
    /\ in = [n \in DOMAIN in |-> in[n]] /\ AccountNames \subseteq DOMAIN in
    /\ \A n \in AccountNames : in[n] # ProgramId

ProperKeys(keys) == \A address, field : Data(keys, address, field) # ProgramId

(* What is built of an instruction: an address for each account, none the  *)
(* program's that need not be                                              *)
ProperAccounts(ix, accounts) ==
    \A n \in ToSet(Interface[ix].accounts) :
        /\ accounts[n] # Null
        /\ n \notin Interface[ix].optional \cup {"program"} => accounts[n] # ProgramId

ProperlyBuilt(t) ==
    /\ t.ix \in Instructions
    /\ \E accounts : /\ ProperAccounts(t.ix, accounts)
                     /\ t.wire = Wire(Interface[t.ix], accounts)

ProperlyMade(made) == made # Null => \A i \in DOMAIN made : ProperlyBuilt(made[i])

-----------------------------------------------------------------------------
LEMMA InstructionNames ==
  Instructions =
    {"cancelSettlement", "cancelWithdrawRequest", "claimSettlementV1",
     "claimSettlementV2", "claimWithdrawRequest", "closeSettlementV2", "configureBond",
     "configureBondProduct", "configureBondWithMint", "configureConfig", "emergencyPause",
     "emergencyResume", "fundBond", "fundSettlement", "initBond", "initBondProduct",
     "initConfig", "initSettlement", "initWithdrawRequest", "mergeStake", "mintBond",
     "resetStake", "upsizeSettlementClaims", "withdrawStake"}
  BY DEF Instructions, Interface

LEMMA TuplesApart ==
  ASSUME Apart
  PROVE  /\ \A a : <<a>> \notin {Null, ProgramId}
         /\ \A a, b : <<a, b>> \notin {Null, ProgramId}
         /\ \A a, b, c : <<a, b, c>> \notin {Null, ProgramId}
         /\ \A a, b, c, d : <<a, b, c, d>> \notin {Null, ProgramId}
  <1>1. ASSUME NEW a, NEW b, NEW c, NEW d
        PROVE /\ IsAFunction(<<a>>) /\ IsAFunction(<<a, b>>)
              /\ IsAFunction(<<a, b, c>>) /\ IsAFunction(<<a, b, c, d>>)
    BY DEF IsAFunction
  <1> QED  BY <1>1 DEF Apart

LEMMA AddressesApart ==
  ASSUME Apart
  PROVE  /\ \A c : bondsWithdrawerAuthority(c) # ProgramId
         /\ \A c, v : bondAddress(c, v) # ProgramId
         /\ \A b, t : bondProductAddress(b, t) # ProgramId
         /\ \A b, r, e : settlementAddress(b, r, e) # ProgramId
         /\ \A s : settlementStakerAuthority(s) # ProgramId
         /\ \A s : settlementClaimsAddress(s) # ProgramId
         /\ \A b : withdrawRequestAddress(b) # ProgramId
         /\ \A b, i : bondMintAddress(b, i) # ProgramId
         /\ \A m, o : getAssociatedTokenAddressSync(m, o) # ProgramId
         /\ \A m : tokenMetadataAddress(m) # ProgramId
         /\ \A n : Fresh(n) # ProgramId
         /\ \A n : FixedAddress(n) \notin {Null, ProgramId}
         /\ \A r, o : Key(r, o) # ProgramId
         /\ eventAuthorityAddress \notin {Null, ProgramId}
         /\ Spare # ProgramId
  BY TuplesApart
     DEF bondsWithdrawerAuthority, bondAddress, bondProductAddress, settlementAddress,
         settlementStakerAuthority, settlementClaimsAddress, withdrawRequestAddress,
         bondMintAddress, getAssociatedTokenAddressSync, tokenMetadataAddress, Fresh,
         FixedAddress, Key, eventAuthorityAddress, Spare

-----------------------------------------------------------------------------
(* What Anchor adds are fixed addresses, that of the event authority and   *)
(* the program's.                                                          *)
Fills(names, ix) ==
    ToSet(Interface[ix].accounts) \subseteq
        names \cup Interface[ix].fixed \cup {"eventAuthority", "program"}

LEMMA Builds ==
  ASSUME Apart,
         NEW ix \in Instructions, NEW fetched, NEW accounts, NEW args,
         Built(ix, fetched, accounts, args) # Null,
         Fills(DOMAIN accounts, ix),
         \A n \in DOMAIN accounts \ Interface[ix].optional : accounts[n] # ProgramId
  PROVE  ProperlyBuilt(Built(ix, fetched, accounts, args))
  <1> DEFINE all == Completed(ix, accounts)
             t == Built(ix, fetched, accounts, args)
  <1>1. ASSUME NEW n \in ToSet(Interface[ix].accounts)
        PROVE  /\ all[n] # Null
               /\ n \notin Interface[ix].optional \cup {"program"} => all[n] # ProgramId
    <2>1. CASE n \in DOMAIN accounts
      BY <2>1 DEF Built, Completed, Joined
    <2>2. CASE n \notin DOMAIN accounts /\ n \in Interface[ix].fixed
      <3>1. all[n] = FixedAddress(n)  BY <2>2 DEF Completed, Joined
      <3> QED  BY <3>1, AddressesApart
    <2>3. CASE n \notin DOMAIN accounts /\ n \notin Interface[ix].fixed
      <3>1. n \in {"eventAuthority", "program"}  BY <2>3 DEF Fills
      <3>2. (n = "program" /\ all[n] = ProgramId) \/ all[n] = eventAuthorityAddress
        BY <2>3, <3>1 DEF Completed, Joined
      <3> QED  BY <3>2, AddressesApart, ProgramAssumption
    <2> QED  BY <2>1, <2>2, <2>3
  <1>2. t.ix = ix /\ t.wire = Wire(Interface[ix], all)
    BY DEF Built, BuiltUnchecked
  <1> QED  BY <1>1, <1>2 DEF ProperlyBuilt, ProperAccounts

LEMMA ClosingAccounts ==
  ASSUME Apart, NEW keys, ProperKeys(keys), NEW in, ProperInput(in)
  PROVE  LET accounts == getCloseSettlementAccounts(keys, in).accounts
         IN  /\ DOMAIN accounts = {"config", "bond", "settlement", "settlementClaims",
                                   "bondsWithdrawerAuthority", "rentCollector",
                                   "splitRentCollector", "splitRentRefundAccount"}
             /\ \A n \in DOMAIN accounts : accounts[n] # ProgramId
  <1>1. \A staker, withdrawer, voter :
           LET found == findStakeAccounts(staker, withdrawer, voter)
           IN  found # {} => (CHOOSE a \in found : TRUE) # ProgramId
    <2> SUFFICES ASSUME NEW staker, NEW withdrawer, NEW voter,
                        findStakeAccounts(staker, withdrawer, voter) # {}
                 PROVE  (CHOOSE a \in findStakeAccounts(staker, withdrawer, voter) : TRUE)
                           # ProgramId
      OBVIOUS
    <2>1. (CHOOSE a \in findStakeAccounts(staker, withdrawer, voter) : TRUE)
             \in findStakeAccounts(staker, withdrawer, voter)
      OBVIOUS
    <2> QED  BY <2>1, ProgramAssumption DEF findStakeAccounts
  <1> DEFINE accounts == getCloseSettlementAccounts(keys, in).accounts
  <1>2. DOMAIN accounts = {"config", "bond", "settlement", "settlementClaims",
                           "bondsWithdrawerAuthority", "rentCollector",
                           "splitRentCollector", "splitRentRefundAccount"}
    BY DEF getCloseSettlementAccounts
  <1>3. accounts.splitRentRefundAccount # ProgramId
    BY <1>1, AddressesApart, ProgramAssumption
       DEF ProperInput, ProperKeys, AccountNames, Or, getCloseSettlementAccounts
  <1>4. \A n \in DOMAIN accounts \ {"splitRentRefundAccount"} : accounts[n] # ProgramId
    BY AddressesApart, ProgramAssumption
       DEF ProperInput, ProperKeys, AccountNames, Or, getCloseSettlementAccounts,
           checkAndGetBondAddress
  <1> QED  BY <1>2, <1>3, <1>4

LEMMA BuildersAreProper ==
  ASSUME Apart, NEW keys, ProperKeys(keys), NEW in, ProperInput(in)
  PROVE  /\ LET t == cancelSettlementInstruction(keys, in)
            IN  t # Null => ProperlyBuilt(t)
         /\ LET t == cancelWithdrawRequestInstruction(keys, in)
            IN  t # Null => ProperlyBuilt(t)
         /\ LET t == claimSettlementV2Instruction(keys, in)
            IN  t # Null => ProperlyBuilt(t)
         /\ LET t == claimWithdrawRequestInstruction(keys, in)
            IN  t # Null => ProperlyBuilt(t)
         /\ LET t == closeSettlementV2Instruction(keys, in)
            IN  t # Null => ProperlyBuilt(t)
         /\ LET t == configureBondInstruction(keys, in)
            IN  t # Null => ProperlyBuilt(t)
         /\ LET t == configureBondWithMintInstruction(keys, in)
            IN  t # Null => ProperlyBuilt(t)
         /\ LET t == configureCommissionProductInstruction(keys, in)
            IN  t # Null => ProperlyBuilt(t)
         /\ LET t == configureConfigInstruction(keys, in)
            IN  t # Null => ProperlyBuilt(t)
         /\ LET t == configureCustomProductInstruction(keys, in)
            IN  t # Null => ProperlyBuilt(t)
         /\ LET t == emergencyPauseInstruction(keys, in)
            IN  t # Null => ProperlyBuilt(t)
         /\ LET t == emergencyResumeInstruction(keys, in)
            IN  t # Null => ProperlyBuilt(t)
         /\ LET t == fundBondInstruction(keys, in)
            IN  t # Null => ProperlyBuilt(t)
         /\ LET t == fundSettlementInstruction(keys, in)
            IN  t # Null => ProperlyBuilt(t)
         /\ LET t == initBondInstruction(keys, in)
            IN  t # Null => ProperlyBuilt(t)
         /\ LET t == initCommissionProductInstruction(keys, in)
            IN  t # Null => ProperlyBuilt(t)
         /\ LET t == initConfigInstruction(keys, in)
            IN  t # Null => ProperlyBuilt(t)
         /\ LET t == initCustomProductInstruction(keys, in)
            IN  t # Null => ProperlyBuilt(t)
         /\ LET t == initSettlementInstruction(keys, in)
            IN  t # Null => ProperlyBuilt(t)
         /\ LET t == initWithdrawRequestInstruction(keys, in)
            IN  t # Null => ProperlyBuilt(t)
         /\ LET t == mergeStakeInstruction(keys, in)
            IN  t # Null => ProperlyBuilt(t)
         /\ LET t == mintBondInstruction(keys, in)
            IN  t # Null => ProperlyBuilt(t)
         /\ LET t == resetStakeInstruction(keys, in)
            IN  t # Null => ProperlyBuilt(t)
         /\ LET t == upsizeSettlementClaimsInstruction(keys, in)
            IN  t # Null => ProperlyBuilt(t)
         /\ LET t == withdrawStakeInstruction(keys, in)
            IN  t # Null => ProperlyBuilt(t)
  <1>1. LET t == cancelSettlementInstruction(keys, in) IN t # Null => ProperlyBuilt(t)
    <2> DEFINE closing == getCloseSettlementAccounts(keys, in)
               others == [authority |-> Or(in.authority, anchorProgramWalletPubkey(in))]
               accounts == Joined(closing.accounts, others)
    <2>1. "cancelSettlement" \in Instructions  BY InstructionNames
    <2>2. \A n \in DOMAIN others : n = "authority" /\ others[n] # ProgramId
      BY DEF ProperInput, AccountNames, Or, anchorProgramWalletPubkey
    <2>3. /\ DOMAIN accounts = DOMAIN closing.accounts \cup DOMAIN others
          /\ \A n \in DOMAIN accounts : accounts[n] # ProgramId
      BY <2>2, ClosingAccounts DEF Joined
    <2>4. Fills(DOMAIN accounts, "cancelSettlement")
      BY <2>3, ClosingAccounts DEF Fills, ToSet, Interface, cancelSettlement
    <2> HIDE DEF accounts
    <2> QED
      BY <2>1, <2>3, <2>4, Builds DEF cancelSettlementInstruction, BuiltClosing, accounts
  <1>2. LET t == cancelWithdrawRequestInstruction(keys, in) IN t # Null => ProperlyBuilt(t)
    <2>1. "cancelWithdrawRequest" \in Instructions  BY InstructionNames
    <2> QED
      BY <2>1, Builds, AddressesApart, AccountsAssumption, ProgramAssumption
         DEF ProperInput, ProperKeys, AccountNames, Or, anchorProgramWalletPubkey,
             checkAndGetBondAddress, Fills, ToSet, Interface,
             cancelWithdrawRequest, cancelWithdrawRequestInstruction
  <1>3. LET t == claimSettlementV2Instruction(keys, in) IN t # Null => ProperlyBuilt(t)
    <2>1. "claimSettlementV2" \in Instructions  BY InstructionNames
    <2> QED
      BY <2>1, Builds, AddressesApart, AccountsAssumption, ProgramAssumption
         DEF ProperInput, ProperKeys, AccountNames, Or, checkAndGetBondAddress,
             Fills, ToSet, Interface, claimSettlementV2,
             claimSettlementV2Instruction
  <1>4. LET t == claimWithdrawRequestInstruction(keys, in) IN t # Null => ProperlyBuilt(t)
    <2>1. "claimWithdrawRequest" \in Instructions  BY InstructionNames
    <2> QED
      BY <2>1, Builds, AddressesApart, AccountsAssumption, ProgramAssumption
         DEF ProperInput, ProperKeys, AccountNames, Or, anchorProgramWalletPubkey,
             checkAndGetBondAddress, Fills, ToSet, Interface, claimWithdrawRequest,
             claimWithdrawRequestInstruction
  <1>5. LET t == closeSettlementV2Instruction(keys, in) IN t # Null => ProperlyBuilt(t)
    <2> DEFINE closing == getCloseSettlementAccounts(keys, in)
               others == <<>>
               accounts == Joined(closing.accounts, others)
    <2>1. "closeSettlementV2" \in Instructions  BY InstructionNames
    <2>2. \A n \in DOMAIN others : n = "authority" /\ others[n] # ProgramId
      BY DEF ProperInput, AccountNames, Or, anchorProgramWalletPubkey
    <2>3. /\ DOMAIN accounts = DOMAIN closing.accounts \cup DOMAIN others
          /\ \A n \in DOMAIN accounts : accounts[n] # ProgramId
      BY <2>2, ClosingAccounts DEF Joined
    <2>4. Fills(DOMAIN accounts, "closeSettlementV2")
      BY <2>3, ClosingAccounts DEF Fills, ToSet, Interface, closeSettlementV2
    <2> HIDE DEF accounts
    <2> QED
      BY <2>1, <2>3, <2>4, Builds DEF closeSettlementV2Instruction, BuiltClosing, accounts
  <1>6. LET t == configureBondInstruction(keys, in) IN t # Null => ProperlyBuilt(t)
    <2>1. "configureBond" \in Instructions  BY InstructionNames
    <2> QED
      BY <2>1, Builds, AddressesApart, AccountsAssumption, ProgramAssumption
         DEF ProperInput, ProperKeys, AccountNames, Or, ConfigAndVote, Joined,
             anchorProgramWalletPubkey, checkAndGetBondAddress, Fills, ToSet,
             Interface, configureBond, configureBondInstruction
  <1>7. LET t == configureBondWithMintInstruction(keys, in) IN t # Null => ProperlyBuilt(t)
    <2>1. "configureBondWithMint" \in Instructions  BY InstructionNames
    <2> QED
      BY <2>1, Builds, AddressesApart, AccountsAssumption, ProgramAssumption
         DEF ProperInput, ProperKeys, AccountNames, Or, anchorProgramWalletPubkey,
             checkAndGetBondAddress, Fills, ToSet, Interface,
             configureBondWithMint, configureBondWithMintInstruction
  <1>8. LET t == configureCommissionProductInstruction(keys, in) IN t # Null => ProperlyBuilt(t)
    <2>1. "configureBondProduct" \in Instructions  BY InstructionNames
    <2> QED
      BY <2>1, Builds, AddressesApart, AccountsAssumption, ProgramAssumption
         DEF ProperInput, ProperKeys, AccountNames, Or, ConfigureProduct,
             checkAndGetBondProductAddress, anchorProgramWalletPubkey,
             checkAndGetBondAddress, Fills, ToSet, Interface, configureBondProduct,
             configureCommissionProductInstruction
  <1>9. LET t == configureConfigInstruction(keys, in) IN t # Null => ProperlyBuilt(t)
    <2>1. "configureConfig" \in Instructions  BY InstructionNames
    <2> QED
      BY <2>1, Builds, AddressesApart, AccountsAssumption, ProgramAssumption
         DEF ProperInput, ProperKeys, AccountNames, Or, Fills, ToSet, Interface,
             configureConfig, configureConfigInstruction
  <1>10. LET t == configureCustomProductInstruction(keys, in) IN t # Null => ProperlyBuilt(t)
    <2>1. "configureBondProduct" \in Instructions  BY InstructionNames
    <2> QED
      BY <2>1, Builds, AddressesApart, AccountsAssumption, ProgramAssumption
         DEF ProperInput, ProperKeys, AccountNames, Or, ConfigureProduct,
             checkAndGetBondProductAddress, anchorProgramWalletPubkey,
             checkAndGetBondAddress, Fills, ToSet, Interface, configureBondProduct,
             configureCustomProductInstruction
  <1>11. LET t == emergencyPauseInstruction(keys, in) IN t # Null => ProperlyBuilt(t)
    <2>1. "emergencyPause" \in Instructions  BY InstructionNames
    <2> QED
      BY <2>1, Builds, AddressesApart, AccountsAssumption, ProgramAssumption
         DEF ProperInput, ProperKeys, AccountNames, Or, Fills, ToSet, Interface,
             emergencyPause, emergencyPauseInstruction
  <1>12. LET t == emergencyResumeInstruction(keys, in) IN t # Null => ProperlyBuilt(t)
    <2>1. "emergencyResume" \in Instructions  BY InstructionNames
    <2> QED
      BY <2>1, Builds, AddressesApart, AccountsAssumption, ProgramAssumption
         DEF ProperInput, ProperKeys, AccountNames, Or, Fills, ToSet, Interface,
             emergencyResume, emergencyResumeInstruction
  <1>13. LET t == fundBondInstruction(keys, in) IN t # Null => ProperlyBuilt(t)
    <2>1. "fundBond" \in Instructions  BY InstructionNames
    <2> QED
      BY <2>1, Builds, AddressesApart, AccountsAssumption, ProgramAssumption
         DEF ProperInput, ProperKeys, AccountNames, Or, WithDefaultConfig,
             anchorProgramWalletPubkey, checkAndGetBondAddress, Fills, ToSet,
             Interface, fundBond, fundBondInstruction
  <1>14. LET t == fundSettlementInstruction(keys, in) IN t # Null => ProperlyBuilt(t)
    <2>1. "fundSettlement" \in Instructions  BY InstructionNames
    <2> QED
      BY <2>1, Builds, AddressesApart, AccountsAssumption, ProgramAssumption
         DEF ProperInput, ProperKeys, AccountNames, Or, ConfigAndVote, Joined,
             anchorProgramWalletPubkey, checkAndGetBondAddress, Fills, ToSet,
             Interface, fundSettlement, fundSettlementInstruction
  <1>15. LET t == initBondInstruction(keys, in) IN t # Null => ProperlyBuilt(t)
    <2>1. "initBond" \in Instructions  BY InstructionNames
    <2> QED
      BY <2>1, Builds, AddressesApart, AccountsAssumption, ProgramAssumption
         DEF ProperInput, ProperKeys, AccountNames, Or, anchorProgramWalletPubkey,
             Fills, ToSet, Interface, initBond, initBondInstruction
  <1>16. LET t == initCommissionProductInstruction(keys, in) IN t # Null => ProperlyBuilt(t)
    <2>1. "initBondProduct" \in Instructions  BY InstructionNames
    <2> QED
      BY <2>1, Builds, AddressesApart, AccountsAssumption, ProgramAssumption
         DEF ProperInput, ProperKeys, AccountNames, Or, InitProduct, ConfigAndVote,
             Joined, anchorProgramWalletPubkey, checkAndGetBondAddress, Fills,
             ToSet, Interface, initBondProduct, initCommissionProductInstruction
  <1>17. LET t == initConfigInstruction(keys, in) IN t # Null => ProperlyBuilt(t)
    <2>1. "initConfig" \in Instructions  BY InstructionNames
    <2> QED
      BY <2>1, Builds, AddressesApart, AccountsAssumption, ProgramAssumption
         DEF ProperInput, ProperKeys, AccountNames, Or, anchorProgramWalletPubkey,
             Fills, ToSet, Interface, initConfig, initConfigInstruction
  <1>18. LET t == initCustomProductInstruction(keys, in) IN t # Null => ProperlyBuilt(t)
    <2>1. "initBondProduct" \in Instructions  BY InstructionNames
    <2> QED
      BY <2>1, Builds, AddressesApart, AccountsAssumption, ProgramAssumption
         DEF ProperInput, ProperKeys, AccountNames, Or, InitProduct, ConfigAndVote,
             Joined, anchorProgramWalletPubkey, Fills, ToSet, Interface,
             initBondProduct, initCustomProductInstruction
  <1>19. LET t == initSettlementInstruction(keys, in) IN t # Null => ProperlyBuilt(t)
    <2>1. "initSettlement" \in Instructions  BY InstructionNames
    <2> QED
      BY <2>1, Builds, AddressesApart, AccountsAssumption, ProgramAssumption
         DEF ProperInput, ProperKeys, AccountNames, Or, anchorProgramWalletPubkey,
             checkAndGetBondAddress, Fills, ToSet, Interface, initSettlement,
             initSettlementInstruction
  <1>20. LET t == initWithdrawRequestInstruction(keys, in) IN t # Null => ProperlyBuilt(t)
    <2>1. "initWithdrawRequest" \in Instructions  BY InstructionNames
    <2> QED
      BY <2>1, Builds, AddressesApart, AccountsAssumption, ProgramAssumption
         DEF ProperInput, ProperKeys, AccountNames, Or, WithDefaultConfig,
             anchorProgramWalletPubkey, checkAndGetBondAddress, Fills, ToSet,
             Interface, initWithdrawRequest, initWithdrawRequestInstruction
  <1>21. LET t == mergeStakeInstruction(keys, in) IN t # Null => ProperlyBuilt(t)
    <2>1. "mergeStake" \in Instructions  BY InstructionNames
    <2> QED
      BY <2>1, Builds, AddressesApart, AccountsAssumption, ProgramAssumption
         DEF ProperInput, ProperKeys, AccountNames, Or, Fills, ToSet, Interface,
             mergeStake, mergeStakeInstruction
  <1>22. LET t == mintBondInstruction(keys, in) IN t # Null => ProperlyBuilt(t)
    <2>1. "mintBond" \in Instructions  BY InstructionNames
    <2> QED
      BY <2>1, Builds, AddressesApart, AccountsAssumption, ProgramAssumption
         DEF ProperInput, ProperKeys, AccountNames, Or, ConfigAndVote, Joined,
             anchorProgramWalletPubkey, checkAndGetBondAddress, Fills, ToSet,
             Interface, mintBond, mintBondInstruction
  <1>23. LET t == resetStakeInstruction(keys, in) IN t # Null => ProperlyBuilt(t)
    <2>1. "resetStake" \in Instructions  BY InstructionNames
    <2> QED
      BY <2>1, Builds, AddressesApart, AccountsAssumption, ProgramAssumption
         DEF ProperInput, ProperKeys, AccountNames, Or, checkAndGetBondAddress,
             Fills, ToSet, Interface, resetStake, resetStakeInstruction
  <1>24. LET t == upsizeSettlementClaimsInstruction(keys, in) IN t # Null => ProperlyBuilt(t)
    <2>1. "upsizeSettlementClaims" \in Instructions  BY InstructionNames
    <2> QED
      BY <2>1, Builds, AddressesApart, AccountsAssumption, ProgramAssumption
         DEF ProperInput, ProperKeys, AccountNames, Or, anchorProgramWalletPubkey,
             Fills, ToSet, Interface, upsizeSettlementClaims,
             upsizeSettlementClaimsInstruction
  <1>25. LET t == withdrawStakeInstruction(keys, in) IN t # Null => ProperlyBuilt(t)
    <2>1. "withdrawStake" \in Instructions  BY InstructionNames
    <2> QED
      BY <2>1, Builds, AddressesApart, AccountsAssumption, ProgramAssumption
         DEF ProperInput, ProperKeys, AccountNames, Or, Fills, ToSet, Interface,
             withdrawStake, withdrawStakeInstruction
  <1> QED  BY <1>1, <1>2, <1>3, <1>4, <1>5, <1>6, <1>7, <1>8, <1>9, <1>10, <1>11,
             <1>12, <1>13, <1>14, <1>15, <1>16, <1>17, <1>18, <1>19, <1>20, <1>21,
             <1>22, <1>23, <1>24, <1>25

-----------------------------------------------------------------------------
(* What a command finds is an account, and what it puts in place of its    *)
(* input is proper where the input was.                                    *)
LEMMA FoundApart ==
  ASSUME NEW keys, NEW address, NEW config
  PROVE  /\ getBondFromAddress(keys, address, config) # ProgramId
         /\ getWithdrawRequestFromAddress(keys, address, config) # ProgramId
  BY ProgramAssumption
     DEF getBondFromAddress, getWithdrawRequestFromAddress, IfOfKind, OfKind, Or

LEMMA WithBondIsProper ==
  ASSUME NEW keys, ProperKeys(keys), NEW in, ProperInput(in), NEW bond, bond # ProgramId
  PROVE  ProperInput(WithBond(keys, in, bond))
  <1> DEFINE config == Data(keys, bond, "config")
             vote == Data(keys, bond, "voteAccount")
  <1>1. config # ProgramId /\ vote # ProgramId  BY DEF ProperKeys
  <1> HIDE DEF config, vote
  <1>2. [in EXCEPT !.bond = bond, !.config = config, !.voteAccount = vote]
           = [n \in DOMAIN in |-> IF n = "bond" THEN bond
                                  ELSE IF n = "config" THEN config
                                  ELSE IF n = "voteAccount" THEN vote ELSE in[n]]
    BY DEF ProperInput, AccountNames
  <1>3. ProperInput([in EXCEPT !.bond = bond, !.config = config, !.voteAccount = vote])
    BY <1>1, <1>2 DEF ProperInput
  <1> QED  BY <1>3 DEF WithBond, config, vote

LEMMA WithRequestIsProper ==
  ASSUME NEW keys, ProperKeys(keys), NEW in, ProperInput(in),
         NEW request, request # ProgramId
  PROVE  ProperInput(WithRequest(keys, in, request))
  <1> DEFINE bond == Data(keys, request, "bond")
             vote == Data(keys, request, "voteAccount")
  <1>1. bond # ProgramId /\ vote # ProgramId  BY DEF ProperKeys
  <1> HIDE DEF bond, vote
  <1>2. [in EXCEPT !.withdrawRequest = request, !.bond = bond, !.voteAccount = vote]
           = [n \in DOMAIN in |-> IF n = "withdrawRequest" THEN request
                                  ELSE IF n = "bond" THEN bond
                                  ELSE IF n = "voteAccount" THEN vote ELSE in[n]]
    BY DEF ProperInput, AccountNames
  <1>3. ProperInput([in EXCEPT !.withdrawRequest = request, !.bond = bond,
                               !.voteAccount = vote])
    BY <1>1, <1>2 DEF ProperInput
  <1> QED  BY <1>3 DEF WithRequest, bond, vote

LEMMA SettledIsProper ==
  ASSUME NEW keys, ProperKeys(keys), NEW in, ProperInput(in)
  PROVE  ProperInput(Settled(keys, in))
  <1> DEFINE rent == Data(keys, in.settlement, "rentCollector")
             split == Data(keys, in.settlement, "splitRentCollector")
  <1>1. rent # ProgramId /\ split # ProgramId  BY DEF ProperKeys
  <1> HIDE DEF rent, split
  <1>2. ProperInput([in EXCEPT !.rentCollector = rent, !.splitRentCollector = split])
    BY <1>1 DEF ProperInput, AccountNames
  <1>3. Data(keys, in.settlement, "bond") # ProgramId  BY DEF ProperKeys
  <1> QED  BY <1>2, <1>3, WithBondIsProper DEF Settled, rent, split

LEMMA InputsAreProper ==
  ASSUME NEW keys, ProperKeys(keys), NEW in, ProperInput(in)
  PROVE  /\ ProperInput(withConfigOption(in))
         /\ ProperInput(AtBond(keys, in))
         /\ ProperInput(ByBondsAuthority(keys, in))
         /\ ProperInput(ByWallet(in))
         /\ ProperInput(AtRequest(keys, in))
         /\ ProperInput(WithAuthority(keys, in))
         /\ ProperInput(Settled(keys, in))
  <1>1. ProperInput(withConfigOption(in))
    BY AccountsAssumption, ProgramAssumption
       DEF ProperInput, AccountNames, withConfigOption, Or
  <1>2. ProperInput(AtBond(keys, in))
    BY FoundApart, WithBondIsProper DEF AtBond
  <1>3. ProperInput(ByBondsAuthority(keys, in))
    BY DEF ProperInput, ProperKeys, AccountNames, ByBondsAuthority, Or
  <1>4. ProperInput(ByWallet(in))
    BY DEF ProperInput, AccountNames, ByWallet, Or
  <1>5. ProperInput(AtRequest(keys, in))
    BY FoundApart, WithRequestIsProper DEF AtRequest
  <1>6. ProperInput(WithAuthority(keys, in))
    BY DEF ProperInput, ProperKeys, AccountNames, WithAuthority, AuthorityOf, Or
  <1>7. ProperInput(Settled(keys, in))
    BY SettledIsProper
  <1> QED  BY <1>1, <1>2, <1>3, <1>4, <1>5, <1>6, <1>7

LEMMA TransactionsAreProper ==
  ASSUME NEW a, NEW b,
         a # Null => ProperlyBuilt(a), b # Null => ProperlyBuilt(b)
  PROVE  ProperlyMade(Single(a)) /\ ProperlyMade(InOneTransaction(a, b))
  BY DEF ProperlyMade, Single, InOneTransaction

LEMMA CommandsAreProper ==
  ASSUME Apart, NEW keys, ProperKeys(keys), NEW in, ProperInput(in)
  PROVE  /\ ProperlyMade(manageCancelWithdrawRequest(keys, in))
         /\ ProperlyMade(manageClaimWithdrawRequest(keys, in))
         /\ ProperlyMade(manageCloseSettlement(keys, in))
         /\ ProperlyMade(manageConfigureBond(keys, in))
         /\ ProperlyMade(manageConfigureConfig(keys, in))
         /\ \A action : ProperlyMade(manageEmergencyPauseAndResume(keys, in, action))
         /\ ProperlyMade(manageFundBond(keys, in))
         /\ ProperlyMade(manageInitBond(keys, in))
         /\ ProperlyMade(manageInitConfig(keys, in))
         /\ ProperlyMade(manageInitWithdrawRequest(keys, in))
         /\ ProperlyMade(manageMerge(keys, in))
         /\ ProperlyMade(manageMintBond(keys, in))
         /\ ProperlyMade(manageResetStake(keys, in))
  <1> DEFINE given == withConfigOption(in)
             atBond == AtBond(keys, given)
             atRequest == WithAuthority(keys, AtRequest(keys, given))
  <1>0. ProperlyMade(Null)  BY DEF ProperlyMade
  <1>1. ProperInput(given)  BY InputsAreProper
  <1>2. ProperInput(atBond) /\ ProperInput(ByBondsAuthority(keys, atBond))
    BY <1>1, InputsAreProper
  <1>3. ProperInput(atRequest)  BY <1>1, InputsAreProper
  <1>4. ProperInput([atRequest EXCEPT !.withdrawer = Or(@, atRequest.wallet)])
    BY <1>3 DEF ProperInput, AccountNames, Or
  <1>5. ProperlyMade(manageCancelWithdrawRequest(keys, in))
    BY <1>0, <1>3, BuildersAreProper, TransactionsAreProper
       DEF manageCancelWithdrawRequest, CancelWithdrawRequest
  <1>6. ProperlyMade(manageClaimWithdrawRequest(keys, in))
    BY <1>0, <1>4, BuildersAreProper, TransactionsAreProper
       DEF manageClaimWithdrawRequest, ClaimWithdrawRequest
  <1>7. ProperlyMade(manageCloseSettlement(keys, in))
    BY <1>0, InputsAreProper, BuildersAreProper, TransactionsAreProper
       DEF manageCloseSettlement
  <1>8. ProperlyMade(manageConfigureBond(keys, in))
    <2> DEFINE byToken == [atBond EXCEPT !.tokenAuthority = Or(atBond.authority, atBond.wallet)]
               byAuthority == ByBondsAuthority(keys, atBond)
    <2>1. ProperInput(byToken)  BY <1>2 DEF ProperInput, AccountNames, Or
    <2>2. ProperlyMade(ConfigureBondByToken(keys, atBond))
      BY <1>0, <2>1, BuildersAreProper, TransactionsAreProper DEF ConfigureBondByToken
    <2>3. ProperInput([byAuthority EXCEPT !.bondProduct = Null])
      BY <1>2, ProgramAssumption DEF ProperInput, AccountNames
    <2>4. CommissionInstruction(keys, byAuthority) # Null =>
             ProperlyBuilt(CommissionInstruction(keys, byAuthority))
      BY <1>2, <2>3, BuildersAreProper DEF CommissionInstruction
    <2>5. ProperlyMade(ConfigureBondByAuthority(keys, byAuthority))
      BY <1>0, <1>2, <2>4, BuildersAreProper, TransactionsAreProper
         DEF ConfigureBondByAuthority
    <2> QED  BY <2>2, <2>5 DEF manageConfigureBond, ConfigureBond
  <1>9. ProperlyMade(manageConfigureConfig(keys, in))
    <2> DEFINE admin == Or(in.adminAuthority, Data(keys, given.config, "adminAuthority"))
    <2>1. ProperInput([given EXCEPT !.adminAuthority = admin])
      <3>1. admin # ProgramId  BY DEF ProperInput, ProperKeys, AccountNames, Or
      <3> QED  BY <1>1, <3>1 DEF ProperInput, AccountNames
    <2> QED  BY <1>0, <2>1, BuildersAreProper, TransactionsAreProper DEF manageConfigureConfig
  <1>10. ASSUME NEW action
         PROVE  ProperlyMade(manageEmergencyPauseAndResume(keys, in, action))
    <2>1. ProperInput([given EXCEPT !.pauseAuthority = Or(@, in.wallet)])
      <3>1. in.wallet # ProgramId  BY DEF ProperInput, AccountNames
      <3> QED  BY <1>1, <3>1 DEF ProperInput, AccountNames, Or
    <2> QED
      BY <2>1, BuildersAreProper, TransactionsAreProper DEF manageEmergencyPauseAndResume
  <1>11. ProperlyMade(manageFundBond(keys, in))
    BY <1>0, InputsAreProper, BuildersAreProper, TransactionsAreProper
       DEF manageFundBond, FundBond
  <1>12. ProperlyMade(manageInitBond(keys, in))
    <2> DEFINE product == [given EXCEPT !.bond = bondAddress(given.config, in.voteAccount),
                                        !.authority = in.validatorIdentity]
    <2>1. ProperInput(product)
      <3>1. in.validatorIdentity # ProgramId  BY DEF ProperInput, AccountNames
      <3> QED  BY <1>1, <3>1, AddressesApart DEF ProperInput, AccountNames
    <2> QED  BY <1>1, <2>1, BuildersAreProper, TransactionsAreProper DEF manageInitBond
  <1>13. ProperlyMade(manageInitConfig(keys, in))
    BY BuildersAreProper, TransactionsAreProper DEF manageInitConfig
  <1>14. ProperlyMade(manageInitWithdrawRequest(keys, in))
    BY <1>0, <1>1, <1>2, InputsAreProper, BuildersAreProper, TransactionsAreProper
       DEF manageInitWithdrawRequest, InitWithdrawRequest
  <1>15. ProperlyMade(manageMerge(keys, in))
    BY <1>1, BuildersAreProper, TransactionsAreProper DEF manageMerge
  <1>16. ProperlyMade(manageMintBond(keys, in))
    BY <1>0, <1>2, BuildersAreProper, TransactionsAreProper DEF manageMintBond, MintBond
  <1>17. ProperlyMade(manageResetStake(keys, in))
    BY <1>0, BuildersAreProper, TransactionsAreProper DEF manageResetStake
  <1> QED  BY <1>5, <1>6, <1>7, <1>8, <1>9, <1>10, <1>11, <1>12, <1>13, <1>14, <1>15,
              <1>16, <1>17

LEMMA MadeIsProper ==
  ASSUME Apart, ProperKeys(live), NEW in, ProperInput(in),
         NEW builder \in Builders \cup Commands
  PROVE  ProperlyMade(MadeBy(builder, in))
  <1>1. ASSUME builder \in Builders
        PROVE  BuiltBy(builder, in) # Null => ProperlyBuilt(BuiltBy(builder, in))
    <2>1. ProperInput([in EXCEPT !.productType = "commission"])
      BY DEF ProperInput, AccountNames
    <2> QED  BY <1>1, <2>1, BuildersAreProper DEF BuiltBy, Builders
  <1>2. CASE builder \in Builders
    <2>1. MadeBy(builder, in) = Single(BuiltBy(builder, in))
      BY <1>2 DEF MadeBy, Builders
    <2> QED  BY <1>1, <1>2, <2>1, TransactionsAreProper
  <1>3. CASE builder \in Commands
    BY <1>3, CommandsAreProper DEF MadeBy, Commands
  <1> QED  BY <1>2, <1>3

-----------------------------------------------------------------------------
(* What a caller knows is proper.                                          *)
LEMMA KnownIsProper ==
  ASSUME Apart, NEW f \in Families, NEW builder
  PROVE  /\ DOMAIN KnownFor(builder, f) = DOMAIN Known(f)
         /\ ProperInput(KnownFor(builder, f))
  <1> DEFINE known == Known(f)
             SameNames(in) == DOMAIN in = DOMAIN known /\ ProperInput(in)
  <1>1. /\ f[1] # ProgramId /\ f[2] # ProgramId
        /\ \A kind : StakeAt(f, kind) # ProgramId
        /\ \A root : SettlementAt(f, root) # ProgramId
        /\ BondAt(f) # ProgramId /\ <<"key", "new">> # ProgramId
    BY AddressesApart, TuplesApart, AccountsAssumption, ProgramAssumption
       DEF StakeAt, SettlementAt, BondAt
  <1>2. SameNames(known)
    BY <1>1, AddressesApart, ProgramAssumption DEF ProperInput, AccountNames, Known
  <1> HIDE DEF known
  <1>3. ASSUME NEW account, NEW wallet, account # ProgramId, wallet # ProgramId
        PROVE  SameNames([known EXCEPT !.stakeAccount = account, !.wallet = wallet])
    BY <1>2, <1>3 DEF ProperInput, AccountNames
  <1>4. ASSUME NEW settlement, NEW account,
               settlement # ProgramId, account # ProgramId
        PROVE  SameNames([known EXCEPT !.settlement = settlement, !.stakeAccount = account])
    BY <1>2, <1>4 DEF ProperInput, AccountNames
  <1>5. \A root : SameNames([known EXCEPT !.merkleRoot = root])
    BY <1>2 DEF ProperInput, AccountNames
  <1>6. ASSUME NEW type, NEW product, product # ProgramId
        PROVE  SameNames([known EXCEPT !.productType = type, !.bondProduct = product])
    BY <1>2, <1>6 DEF ProperInput, AccountNames
  <1>7. ASSUME NEW authority, NEW wallet, authority # ProgramId, wallet # ProgramId
        PROVE  SameNames([known EXCEPT !.authority = authority, !.wallet = wallet])
    BY <1>2, <1>7 DEF ProperInput, AccountNames
  <1>8. \A wallet : wallet # ProgramId => SameNames([known EXCEPT !.wallet = wallet])
    BY <1>2 DEF ProperInput, AccountNames
  <1> HIDE DEF SameNames
  <1>9. SameNames(KnownFor(builder, f))
    BY <1>1, <1>2, <1>3, <1>4, <1>5, <1>6, <1>7, <1>8, AddressesApart DEF KnownFor, known
  <1> QED  BY <1>9 DEF SameNames, known

LEMMA InputIsProper ==
  ASSUME Apart, NEW c \in Calls
  PROVE  ProperInput(Input(c))
  <1>1. /\ c.offer \in Offers /\ c.family \in Families /\ c.kind \in Kinds
        /\ c.foreign = <<>> \/ c.foreign[2] \in Families
    BY OffersAssumption DEF Calls
  <1>2. DOMAIN Known(c.family) = DOMAIN Input(c) /\ AccountNames \subseteq DOMAIN Input(c)
    BY DEF Input, Known, AccountNames
  <1>3. ASSUME NEW n \in AccountNames, NEW f \in Families
        PROVE  Value(c, f, n) # ProgramId
    BY <1>3, KnownIsProper, AddressesApart DEF Value, ProperInput
  <1>4. AddressOf(c.kind, c.family) # ProgramId
    BY <1>1, AddressesApart, TuplesApart, AccountsAssumption, ProgramAssumption
       DEF AddressOf, Kinds, BondAt, StakeAt
  <1>5. ASSUME NEW n \in AccountNames PROVE Input(c)[n] # ProgramId
    <2> HIDE DEF AccountNames
    <2>1. Input(c)[n] \in {Null, AddressOf(c.kind, c.family), Value(c, c.family, n)}
                             \cup {Value(c, f, n) : f \in Families}
      BY <1>1, <1>2 DEF Input
    <2> QED  BY <2>1, <1>1, <1>3, <1>4, ProgramAssumption
  <1> QED  BY <1>2, <1>5 DEF ProperInput, Input

(* The keys that change are never the program's, so nothing that an        *)
(* account holds is.                                                       *)
KeysOK ==
    /\ live = [k \in DOMAIN live |-> live[k]]
    /\ \A k \in DOMAIN live : live[k] # ProgramId

LEMMA KeysAreProper ==
  ASSUME KeysOK
  PROVE  ProperKeys(live)
  BY ProgramAssumption DEF KeysOK, ProperKeys, Data

(* The inductive invariant: what was made is proper, and what was taken is *)
(* what the program accepts of the keys as they then are.                  *)
ClientInv ==
    /\ TypeOK
    /\ KeysOK
    /\ call \in Calls
    /\ ProperlyMade(tx)
    /\ phase = "accepted" => Accepts(live, tx)

(* What is sent: a name's address, and its role unless it stands for None  *)
StandsForNone(face, accounts, n) == n \in face.optional /\ accounts[n] = ProgramId

LEMMA WireOf ==
  ASSUME NEW face, NEW accounts
  PROVE  /\ DOMAIN Wire(face, accounts) = DOMAIN face.accounts
         /\ \A k \in DOMAIN face.accounts :
               Wire(face, accounts)[k].address = accounts[face.accounts[k]]
  BY DEF Wire, Meta

LEMMA AddressesGiven ==
  ASSUME NEW t, ProperlyBuilt(t)
  PROVE  /\ t.ix \in Instructions
         /\ \A k \in DOMAIN t.wire : t.wire[k].address # Null
  <1>1. PICK accounts : /\ ProperAccounts(t.ix, accounts)
                        /\ t.wire = Wire(Interface[t.ix], accounts)
    BY DEF ProperlyBuilt
  <1> DEFINE names == Interface[t.ix].accounts
  <1>2. /\ DOMAIN t.wire = DOMAIN names
        /\ \A k \in DOMAIN names : t.wire[k].address = accounts[names[k]]
    BY <1>1, WireOf
  <1>3. \A k \in DOMAIN names : names[k] \in ToSet(names)  BY DEF ToSet
  <1> QED  BY <1>1, <1>2, <1>3 DEF ProperlyBuilt, ProperAccounts

LEMMA ClientInit ==
  ASSUME Apart, Init
  PROVE  ClientInv
  <1>1. KeysOK
    <2>1. \A account, field : FirstKey(account, field) # ProgramId
                              \/ field \notin {"adminAuthority", "operatorAuthority",
                                  "pauseAuthority", "nodePubkey", "authority",
                                  "rentCollector", "splitRentCollector"}
      BY AddressesApart, ProgramAssumption DEF FirstKey, ConfigKeys
    <2>2. \A k \in DOMAIN FirstKeys : FirstKeys[k] # ProgramId
      BY <2>1 DEF FirstKeys, ConfigKeys
    <2>3. FirstKeys = [k \in DOMAIN FirstKeys |-> FirstKeys[k]]
      BY DEF FirstKeys
    <2> QED  BY <2>2, <2>3, AddressesApart DEF Init, Funded, KeysOK
  <1>2. call \in Calls  BY DEF Init
  <1>3. call.offer \in Offers /\ call.family \in Families  BY <1>2 DEF Calls
  <1>4. TypeOK  BY <1>3 DEF Init, TypeOK
  <1> QED  BY <1>1, <1>2, <1>4 DEF Init, ClientInv, ProperlyMade

LEMMA ClientNext ==
  ASSUME Apart, ClientInv, [Next]_vars
  PROVE  ClientInv'
  <1> USE DEF ClientInv
  <1>1. CASE Build
    <2>1. ProperlyMade(tx')
      <3>1. call.offer.builder \in Builders \cup Commands
        BY OffersAssumption DEF TypeOK
      <3> QED  BY <1>1, <3>1, KeysAreProper, InputIsProper, MadeIsProper DEF Build
    <2>2. \A i \in DOMAIN tx' : tx' # Null =>
             /\ tx'[i].ix \in Instructions
             /\ \A k \in DOMAIN tx'[i].wire : tx'[i].wire[k].address # Null
      BY <2>1, AddressesGiven DEF ProperlyMade
    <2>3. TypeOK'  BY <1>1, <2>2 DEF Build, TypeOK
    <2> QED  BY <1>1, <2>1, <2>3 DEF Build, KeysOK
  <1>2. CASE Change
    <2>1. KeysOK'  BY <1>2, AddressesApart DEF Change, KeysOK
    <2> QED  BY <1>2, <2>1 DEF Change, TypeOK
  <1>3. CASE Send
    BY <1>3 DEF Send, TypeOK, KeysOK
  <1>4. CASE UNCHANGED vars
    BY <1>4 DEF vars, TypeOK, KeysOK
  <1> QED  BY <1>1, <1>2, <1>3, <1>4 DEF Next

(* What a builder or a command makes has an address for every account of   *)
(* an instruction that the program knows, or nothing is made.              *)
THEOREM ClientTypes ==
  ASSUME Apart
  PROVE  Spec => []TypeOK
  <1>1. Init => ClientInv  BY ClientInit
  <1>2. ClientInv /\ [Next]_vars => ClientInv'  BY ClientNext
  <1>3. ClientInv => TypeOK  BY DEF ClientInv
  <1> QED  BY <1>1, <1>2, <1>3, PTL DEF Spec

LEMMA ClientInvariant ==
  ASSUME Apart
  PROVE  Spec => []ClientInv
  <1>1. Init => ClientInv  BY ClientInit
  <1>2. ClientInv /\ [Next]_vars => ClientInv'  BY ClientNext
  <1> QED  BY <1>1, <1>2, PTL DEF Spec

-----------------------------------------------------------------------------
(* The generated client names the accounts that it sends, and those that   *)
(* it parses, as the interface does.                                       *)
LEMMA CodamaNames ==
  ASSUME NEW ix \in Instructions
  PROVE  /\ Codama[ix].parsed = Interface[ix].accounts
         /\ Codama[ix].sent.accounts = Interface[ix].accounts
  <1> DEFINE Same(i) == /\ Codama[i].parsed = Interface[i].accounts
                        /\ Codama[i].sent.accounts = Interface[i].accounts
  <1>1. Same("cancelSettlement")
    BY DEF Codama, Client, Interface, cancelSettlement,
           getCancelSettlementInstruction, parseCancelSettlementInstruction
  <1>2. Same("cancelWithdrawRequest")
    BY DEF Codama, Client, Interface, cancelWithdrawRequest,
           getCancelWithdrawRequestInstruction,
           parseCancelWithdrawRequestInstruction
  <1>3. Same("claimSettlementV1")
    BY DEF Codama, Client, Interface, claimSettlementV1,
           getClaimSettlementV1Instruction, parseClaimSettlementV1Instruction
  <1>4. Same("claimSettlementV2")
    BY DEF Codama, Client, Interface, claimSettlementV2,
           getClaimSettlementV2Instruction, parseClaimSettlementV2Instruction
  <1>5. Same("claimWithdrawRequest")
    BY DEF Codama, Client, Interface, claimWithdrawRequest,
           getClaimWithdrawRequestInstruction, parseClaimWithdrawRequestInstruction
  <1>6. Same("closeSettlementV2")
    BY DEF Codama, Client, Interface, closeSettlementV2,
           getCloseSettlementV2Instruction, parseCloseSettlementV2Instruction
  <1>7. Same("configureBond")
    BY DEF Codama, Client, Interface, configureBond, getConfigureBondInstruction,
           parseConfigureBondInstruction
  <1>8. Same("configureBondProduct")
    BY DEF Codama, Client, Interface, configureBondProduct,
           getConfigureBondProductInstruction, parseConfigureBondProductInstruction
  <1>9. Same("configureBondWithMint")
    BY DEF Codama, Client, Interface, configureBondWithMint,
           getConfigureBondWithMintInstruction,
           parseConfigureBondWithMintInstruction
  <1>10. Same("configureConfig")
    BY DEF Codama, Client, Interface, configureConfig,
           getConfigureConfigInstruction, parseConfigureConfigInstruction
  <1>11. Same("emergencyPause")
    BY DEF Codama, Client, Interface, emergencyPause, getEmergencyPauseInstruction,
           parseEmergencyPauseInstruction
  <1>12. Same("emergencyResume")
    BY DEF Codama, Client, Interface, emergencyResume,
           getEmergencyResumeInstruction, parseEmergencyResumeInstruction
  <1>13. Same("fundBond")
    BY DEF Codama, Client, Interface, fundBond, getFundBondInstruction,
           parseFundBondInstruction
  <1>14. Same("fundSettlement")
    BY DEF Codama, Client, Interface, fundSettlement, getFundSettlementInstruction,
           parseFundSettlementInstruction
  <1>15. Same("initBond")
    BY DEF Codama, Client, Interface, initBond, getInitBondInstruction,
           parseInitBondInstruction
  <1>16. Same("initBondProduct")
    BY DEF Codama, Client, Interface, initBondProduct,
           getInitBondProductInstruction, parseInitBondProductInstruction
  <1>17. Same("initConfig")
    BY DEF Codama, Client, Interface, initConfig, getInitConfigInstruction,
           parseInitConfigInstruction
  <1>18. Same("initSettlement")
    BY DEF Codama, Client, Interface, initSettlement, getInitSettlementInstruction,
           parseInitSettlementInstruction
  <1>19. Same("initWithdrawRequest")
    BY DEF Codama, Client, Interface, initWithdrawRequest,
           getInitWithdrawRequestInstruction, parseInitWithdrawRequestInstruction
  <1>20. Same("mergeStake")
    BY DEF Codama, Client, Interface, mergeStake, getMergeStakeInstruction,
           parseMergeStakeInstruction
  <1>21. Same("mintBond")
    BY DEF Codama, Client, Interface, mintBond, getMintBondInstruction,
           parseMintBondInstruction
  <1>22. Same("resetStake")
    BY DEF Codama, Client, Interface, resetStake, getResetStakeInstruction,
           parseResetStakeInstruction
  <1>23. Same("upsizeSettlementClaims")
    BY DEF Codama, Client, Interface, upsizeSettlementClaims,
           getUpsizeSettlementClaimsInstruction,
           parseUpsizeSettlementClaimsInstruction
  <1>24. Same("withdrawStake")
    BY DEF Codama, Client, Interface, withdrawStake, getWithdrawStakeInstruction,
           parseWithdrawStakeInstruction
  <1> QED  BY InstructionNames, <1>1, <1>2, <1>3, <1>4, <1>5, <1>6, <1>7, <1>8,
             <1>9, <1>10, <1>11, <1>12, <1>13, <1>14, <1>15, <1>16, <1>17, <1>18,
             <1>19, <1>20, <1>21, <1>22, <1>23, <1>24

(* An observer that parses what was sent gives every account the name      *)
(* under which the program uses it.                                        *)
THEOREM ObserverReadsRight ==
  ASSUME Apart
  PROVE  Spec => []ObserverReads
  <1>1. ASSUME ClientInv PROVE ObserverReads
    <2> SUFFICES ASSUME phase = "accepted", NEW i \in DOMAIN tx
                 PROVE  ParsedAccounts(tx[i].ix, tx[i].wire) = Sent(i)
      BY DEF ObserverReads
    <2>1. tx[i].ix \in Instructions
      BY <1>1 DEF ClientInv, TypeOK
    <2> DEFINE names == Interface[tx[i].ix].accounts
    <2>2. Codama[tx[i].ix].parsed = names  BY <2>1, CodamaNames
    <2> QED
      BY <2>2 DEF ParsedAccounts, Sent, Addresses, Received, Named
  <1> QED  BY <1>1, ClientInvariant, PTL

-----------------------------------------------------------------------------
(* The accounts that must speak for a bond or a config                     *)
Authorities == {"authority", "adminAuthority", "operatorAuthority", "pauseAuthority"}

LEMMA NamedAuthority ==
  ASSUME NEW ix \in Instructions, NEW n \in ToSet(Interface[ix].accounts) \cap Authorities
  PROVE  \/ /\ n = "authority"
            /\ ix \in {"cancelSettlement", "cancelWithdrawRequest", "claimWithdrawRequest",
                       "configureBond", "configureBondProduct", "initBondProduct",
                       "initWithdrawRequest"}
         \/ n # "authority" /\ <<"config", n>> \in Interface[ix].relations
  <1> DEFINE Fine(i) == \A m \in ToSet(Interface[i].accounts) \cap Authorities :
               \/ /\ m = "authority"
                  /\ i \in {"cancelSettlement", "cancelWithdrawRequest",
                            "claimWithdrawRequest", "configureBond", "configureBondProduct",
                            "initBondProduct", "initWithdrawRequest"}
               \/ m # "authority" /\ <<"config", m>> \in Interface[i].relations
  <1>1. Fine("cancelSettlement")  BY DEF Interface, cancelSettlement, ToSet, Authorities
  <1>2. Fine("cancelWithdrawRequest")
    BY DEF Interface, cancelWithdrawRequest, ToSet, Authorities
  <1>3. Fine("claimSettlementV1")  BY DEF Interface, claimSettlementV1, ToSet, Authorities
  <1>4. Fine("claimSettlementV2")  BY DEF Interface, claimSettlementV2, ToSet, Authorities
  <1>5. Fine("claimWithdrawRequest")  BY DEF Interface, claimWithdrawRequest, ToSet, Authorities
  <1>6. Fine("closeSettlementV2")  BY DEF Interface, closeSettlementV2, ToSet, Authorities
  <1>7. Fine("configureBond")  BY DEF Interface, configureBond, ToSet, Authorities
  <1>8. Fine("configureBondProduct")  BY DEF Interface, configureBondProduct, ToSet, Authorities
  <1>9. Fine("configureBondWithMint")
    BY DEF Interface, configureBondWithMint, ToSet, Authorities
  <1>10. Fine("configureConfig")  BY DEF Interface, configureConfig, ToSet, Authorities
  <1>11. Fine("emergencyPause")  BY DEF Interface, emergencyPause, ToSet, Authorities
  <1>12. Fine("emergencyResume")  BY DEF Interface, emergencyResume, ToSet, Authorities
  <1>13. Fine("fundBond")  BY DEF Interface, fundBond, ToSet, Authorities
  <1>14. Fine("fundSettlement")  BY DEF Interface, fundSettlement, ToSet, Authorities
  <1>15. Fine("initBond")  BY DEF Interface, initBond, ToSet, Authorities
  <1>16. Fine("initBondProduct")  BY DEF Interface, initBondProduct, ToSet, Authorities
  <1>17. Fine("initConfig")  BY DEF Interface, initConfig, ToSet, Authorities
  <1>18. Fine("initSettlement")  BY DEF Interface, initSettlement, ToSet, Authorities
  <1>19. Fine("initWithdrawRequest")  BY DEF Interface, initWithdrawRequest, ToSet, Authorities
  <1>20. Fine("mergeStake")  BY DEF Interface, mergeStake, ToSet, Authorities
  <1>21. Fine("mintBond")  BY DEF Interface, mintBond, ToSet, Authorities
  <1>22. Fine("resetStake")  BY DEF Interface, resetStake, ToSet, Authorities
  <1>23. Fine("upsizeSettlementClaims")
    BY DEF Interface, upsizeSettlementClaims, ToSet, Authorities
  <1>24. Fine("withdrawStake")  BY DEF Interface, withdrawStake, ToSet, Authorities
  <1> QED  BY InstructionNames, <1>1, <1>2, <1>3, <1>4, <1>5, <1>6, <1>7, <1>8,
             <1>9, <1>10, <1>11, <1>12, <1>13, <1>14, <1>15, <1>16, <1>17, <1>18,
             <1>19, <1>20, <1>21, <1>22, <1>23, <1>24

LEMMA Speaks ==
  ASSUME NEW keys, NEW t, t.ix \in Instructions, Takes(keys, t),
         NEW n \in Authorities,
         n \in DOMAIN Addresses(Received(t.ix, t.wire))
  PROVE  LET sent == Addresses(Received(t.ix, t.wire))
         IN  sent[n] \in Speakers(keys, t.ix, sent, n)
  <1> DEFINE sent == Addresses(Received(t.ix, t.wire))
             ix == t.ix
  <1>1. n \in ToSet(Interface[ix].accounts)  BY DEF Addresses, Received, Named
  <1>2. /\ AddressesMatch(keys, Interface[ix], sent, t.args)
        /\ HandlerPermits(keys, ix, sent, t.args)
    BY DEF Takes, AccountsMatch
  <1> HIDE DEF sent
  <1>3. CASE n # "authority"
    <2>1. <<"config", n>> \in Interface[ix].relations  BY <1>1, <1>3, NamedAuthority
    <2>2. sent[n] = Data(keys, sent.config, n)  BY <1>2, <2>1 DEF AddressesMatch
    <2> QED  BY <1>3, <2>2 DEF Speakers, Authorities, sent
  <1>4. CASE n = "authority" /\ ix = "cancelSettlement"
    BY <1>2, <1>4 DEF HandlerPermits, cancel_settlement, Speakers, sent
  <1>5. CASE n = "authority" /\ ix # "cancelSettlement"
    <2>1. ix \in {"cancelWithdrawRequest", "claimWithdrawRequest", "configureBond",
                  "configureBondProduct", "initBondProduct", "initWithdrawRequest"}
      BY <1>1, <1>5, NamedAuthority
    <2>2. sent.authority = ProgramId \/ ByBondAuthority(keys, sent)
      BY <1>2, <2>1 DEF HandlerPermits, claim_withdraw_request, init_bond_product
    <2>3. <<"bond", "voteAccount">> \in Interface[ix].relations
      BY <2>1 DEF Interface, cancelWithdrawRequest, claimWithdrawRequest, configureBond,
                  configureBondProduct, initBondProduct, initWithdrawRequest
    <2>4. sent.voteAccount = Data(keys, sent.bond, "voteAccount")
      BY <1>2, <2>3 DEF AddressesMatch
    <2> QED
      BY <1>5, <2>2, <2>4
         DEF ByBondAuthority, check_bond_authority, check_vote_account_validator_identity,
             Speakers, sent
  <1> QED  BY <1>3, <1>4, <1>5

(* Whatever a caller gives and whichever key is replaced meanwhile, an     *)
(* authority of a transaction that the program takes speaks for the config *)
(* or the bond that it acts on as they are when it is taken.               *)
THEOREM AuthoritiesSpeak ==
  ASSUME Apart
  PROVE  Spec => []SpokenFor
  <1>1. ASSUME ClientInv PROVE SpokenFor
    <2> SUFFICES ASSUME phase = "accepted", NEW i \in DOMAIN tx,
                        NEW n \in DOMAIN Sent(i) \cap Authorities
                 PROVE  Sent(i)[n] \in Speakers(KeysBefore(live, tx, i), tx[i].ix, Sent(i), n)
      BY DEF SpokenFor, Authorities
    <2>1. tx[i].ix \in Instructions
      BY <1>1 DEF ClientInv, TypeOK
    <2>2. Takes(KeysBefore(live, tx, i), tx[i])
      BY <1>1 DEF ClientInv, Accepts
    <2> QED
      BY <2>1, <2>2, Speaks DEF Sent
  <1> QED  BY <1>1, ClientInvariant, PTL

-----------------------------------------------------------------------------
(* The generated client derives what it can: its defaults are for accounts *)
(* that the program wants at the very address that they give.              *)
IsList(s) == \E S : s \in Seq(S)

(* A default is for an account that the program wants at the same address, *)
(* derived of the same accounts, none of which may be left out.            *)
StepFits(ix, step) ==
    LET face == Interface[ix]
        always == ToSet(face.accounts) \ (face.optional \cup {"program"})
    IN  /\ step.account \in always
        /\ \A i \in DOMAIN step.seeds : step.seeds[i] \in always
        /\ IF step.prefix = "" THEN step.account \in face.fixed
           ELSE /\ step.account \in DOMAIN face.pdas
                /\ face.pdas[step.account].prefix = step.prefix
                /\ DOMAIN face.pdas[step.account].seeds = DOMAIN step.seeds
                /\ \A i \in DOMAIN step.seeds :
                      face.pdas[step.account].seeds[i] = At(step.seeds[i])

(* What a default is derived of is given or has been derived.              *)
StepsFit(ix, given, steps) ==
    /\ IsList(steps)
    /\ \A k \in DOMAIN steps :
          /\ StepFits(ix, steps[k])
          /\ \A i \in DOMAIN steps[k].seeds :
                \/ steps[k].seeds[i] \in given
                \/ \E j \in 1 .. k - 1 : steps[j].account = steps[k].seeds[i]

LEMMA StepsJoin ==
  ASSUME NEW ix, NEW given, NEW s, NEW t, StepsFit(ix, given, s), StepsFit(ix, given, t)
  PROVE  StepsFit(ix, given, s \o t)
  <1> DEFINE st == s \o t
  <1>0. PICK S, T : s \in Seq(S) /\ t \in Seq(T)  BY DEF StepsFit, IsList
  <1>1. /\ IsList(st) /\ DOMAIN st = 1 .. Len(s) + Len(t)
        /\ Len(s) \in Nat /\ Len(t) \in Nat /\ DOMAIN s = 1 .. Len(s) /\ DOMAIN t = 1 .. Len(t)
        /\ \A k \in 1 .. Len(s) + Len(t) :
              st[k] = IF k <= Len(s) THEN s[k] ELSE t[k - Len(s)]
    <2>1. s \in Seq(S \cup T) /\ t \in Seq(S \cup T)  BY <1>0
    <2> QED  BY <2>1 DEF IsList
  <1> HIDE DEF st
  <1>2. ASSUME NEW k \in DOMAIN st
        PROVE  /\ StepFits(ix, st[k])
               /\ \A i \in DOMAIN st[k].seeds :
                     \/ st[k].seeds[i] \in given
                     \/ \E j \in 1 .. k - 1 : st[j].account = st[k].seeds[i]
    <2>1. CASE k <= Len(s)
      <3>1. k \in DOMAIN s /\ st[k] = s[k]  BY <1>1, <2>1
      <3>2. \A j \in 1 .. k - 1 : st[j] = s[j]  BY <1>1, <2>1
      <3> QED  BY <3>1, <3>2 DEF StepsFit
    <2>2. CASE ~(k <= Len(s))
      <3> DEFINE l == k - Len(s)
      <3>1. l \in DOMAIN t /\ st[k] = t[l]  BY <1>1, <2>2
      <3>2. ASSUME NEW j \in 1 .. l - 1
            PROVE  /\ j + Len(s) \in 1 .. k - 1 /\ st[j + Len(s)] = t[j]
        <4>1. j + Len(s) \in 1 .. k - 1 /\ j + Len(s) \in 1 .. Len(s) + Len(t)
              /\ ~(j + Len(s) <= Len(s)) /\ (j + Len(s)) - Len(s) = j
          BY <1>1, <2>2
        <4> QED  BY <1>1, <4>1
      <3> HIDE DEF l
      <3> QED  BY <3>1, <3>2 DEF StepsFit
    <2> QED  BY <2>1, <2>2
  <1> QED  BY <1>1, <1>2 DEF StepsFit, st

LEMMA FixedFit ==
  ASSUME NEW ix, NEW given, NEW names, IsList(names),
         \A i \in DOMAIN names :
            names[i] \in (Interface[ix].fixed \cap ToSet(Interface[ix].accounts))
                            \ (Interface[ix].optional \cup {"program"})
  PROVE  StepsFit(ix, given, Fixed(names))
  <1> DEFINE steps == Fixed(names)
             fixed(n) == [account |-> n, prefix |-> "", seeds |-> <<>>]
  <1>1. /\ Len(names) \in Nat /\ DOMAIN names = 1 .. Len(names)
    BY DEF IsList
  <1>2. steps = [k \in 1 .. Len(names) |-> fixed(names[k])]  BY <1>1 DEF Fixed
  <1> HIDE DEF steps
  <1>4. IsList(steps)
    <2> DEFINE F == {steps[k] : k \in 1 .. Len(names)}
    <2>1. steps \in [1 .. Len(names) -> F]  BY <1>2
    <2> HIDE DEF F
    <2>2. steps \in Seq(F)  BY <1>1, <2>1
    <2> QED  BY <2>2 DEF IsList
  <1>5. DOMAIN steps = DOMAIN names /\ \A k \in DOMAIN names : steps[k] = fixed(names[k])
    BY <1>1, <1>2
  <1>6. \A n : fixed(n).account = n /\ fixed(n).prefix = "" /\ DOMAIN fixed(n).seeds = {}
    <2> TAKE n
    <2>1. fixed(n).account = n /\ fixed(n).prefix = "" /\ fixed(n).seeds = <<>>  OBVIOUS
    <2>2. DOMAIN <<>> = {}  OBVIOUS
    <2> HIDE DEF fixed
    <2> QED  BY <2>1, <2>2
  <1> HIDE DEF fixed
  <1>7. ASSUME NEW k \in DOMAIN steps
        PROVE  StepFits(ix, steps[k]) /\ DOMAIN steps[k].seeds = {}
    <2>1. steps[k].account = names[k] /\ steps[k].prefix = "" /\ DOMAIN steps[k].seeds = {}
      <3>1. steps[k] = fixed(names[k])  BY <1>5
      <3>2. LET f == fixed(names[k])
            IN  f.account = names[k] /\ f.prefix = "" /\ DOMAIN f.seeds = {}
        BY <1>6
      <3> QED  BY <3>1, <3>2
    <2>2. /\ names[k] \in Interface[ix].fixed
          /\ names[k] \in ToSet(Interface[ix].accounts)
                            \ (Interface[ix].optional \cup {"program"})
      BY <1>5
    <2> QED  BY <2>1, <2>2 DEF StepFits
  <1>8. StepsFit(ix, given, steps)  BY <1>4, <1>7 DEF StepsFit
  <1> QED  BY <1>8 DEF steps

(* What a default derives of the accounts s                                *)
Filled(s, step) ==
    IF step.prefix = "" THEN FixedAddress(step.account)
    ELSE <<step.prefix>> \o [i \in DOMAIN step.seeds |-> s[step.seeds[i]]]

(* Whatever default fits gives what the transaction has.                   *)
AsDerived(ix, s) ==
    \A step : StepFits(ix, step) => s[step.account] = Filled(s, step)

LEMMA TakenIsDerived ==
  ASSUME NEW keys, NEW args, NEW ix, NEW s, AddressesMatch(keys, Interface[ix], s, args)
  PROVE  AsDerived(ix, s)
  <1> SUFFICES ASSUME NEW step, StepFits(ix, step)
               PROVE  s[step.account] = Filled(s, step)
    BY DEF AsDerived
  <1>1. CASE step.prefix = ""
    BY <1>1 DEF StepFits, AddressesMatch, Filled
  <1>2. CASE step.prefix # ""
    <2> DEFINE pda == Interface[ix].pdas[step.account]
    <2>1. /\ s[step.account] = Derived(keys, s, args, pda)
          /\ pda.prefix = step.prefix /\ DOMAIN pda.seeds = DOMAIN step.seeds
          /\ \A i \in DOMAIN step.seeds : pda.seeds[i] = At(step.seeds[i])
      BY <1>2 DEF StepFits, AddressesMatch
    <2> HIDE DEF pda
    <2>2. \A n : SeedValue(keys, s, args, At(n)) = s[n]
      <3>1. \A n : Len(<<n>>) = 1 /\ <<n>>[1] = n  OBVIOUS
      <3> QED  BY <3>1 DEF SeedValue, At
    <2>3. [i \in DOMAIN pda.seeds |-> SeedValue(keys, s, args, pda.seeds[i])]
             = [i \in DOMAIN step.seeds |-> s[step.seeds[i]]]
      BY <2>1, <2>2
    <2> QED  BY <1>2, <2>1, <2>3 DEF Derived, Filled
  <1> QED  BY <1>1, <1>2

(* The defaults fill in what is missing, one after the other               *)

(* h fills in for every part of the positions up to k.                     *)
FillsUp(h, start, steps, k) ==
    \A T \in SUBSET (1 .. k) :
        h[T] = IF T = {} THEN start ELSE FillIn(h[T \ {Max(T)}], steps[Max(T)])

LEMMA FillExists ==
  ASSUME NEW start, NEW steps, NEW n \in Nat
  PROVE  \E h : h = [T \in SUBSET (1 .. n) |-> h[T]] /\ FillsUp(h, start, steps, n)
  <1> DEFINE P == SUBSET (1 .. n)
             Good(k) == \E h : h = [T \in P |-> h[T]] /\ FillsUp(h, start, steps, k)
             Bad == {k \in 0 .. n : ~ Good(k)}
  <1>1. SUFFICES ASSUME Bad # {} PROVE FALSE
    <2>1. n \in 0 .. n  OBVIOUS
    <2> SUFFICES ASSUME Bad = {} PROVE Good(n)  OBVIOUS
    <2> QED BY <2>1
  <1>2. PICK k \in Bad : \A j \in Bad : k <= j
    <2>1. Bad \in SUBSET Nat  OBVIOUS
    <2> HIDE DEF Bad
    <2> QED BY <1>1, <2>1, LeastNumber
  <1>3. k # 0
    <2> DEFINE c == [T \in P |-> start]
    <2>1. c = [T \in P |-> c[T]]  OBVIOUS
    <2>2. FillsUp(c, start, steps, 0)  BY DEF FillsUp
    <2>3. Good(0)  BY <2>1, <2>2
    <2> QED BY <2>3
  <1>4. k \in 1 .. n /\ k - 1 \in 0 .. n /\ k - 1 \notin Bad
    <2>1. k \in 0 .. n  OBVIOUS
    <2>2. ~ (k <= k - 1)  BY <2>1
    <2> HIDE DEF Bad
    <2> QED BY <1>2, <1>3, <2>1, <2>2
  <1>5. PICK h : h = [T \in P |-> h[T]] /\ FillsUp(h, start, steps, k - 1)
    BY <1>4
  <1> HIDE DEF Bad
  <1> DEFINE g == [T \in P |-> IF T \in SUBSET (1 .. k - 1) THEN h[T]
                               ELSE FillIn(h[T \ {Max(T)}], steps[Max(T)])]
  <1>6. ASSUME NEW T \in SUBSET (1 .. k)
        PROVE  g[T] = IF T = {} THEN start ELSE FillIn(g[T \ {Max(T)}], steps[Max(T)])
    <2>1. CASE T = {}
      <3>1. T \in P /\ T \in SUBSET (1 .. k - 1)  BY <2>1
      <3>2. g[T] = h[T]  BY <3>1
      <3> HIDE DEF g
      <3> QED BY <1>5, <2>1, <3>1, <3>2 DEF FillsUp
    <2>2. CASE T # {}
      <3> DEFINE R == T \ {Max(T)}
      <3>1. T \in P /\ R \in P /\ R \in SUBSET (1 .. k - 1)
        BY <1>4, <2>2, LargestLeft
      <3>2. g[R] = h[R]  BY <3>1
      <3>3. CASE T \in SUBSET (1 .. k - 1)
        <4>1. h[T] = FillIn(h[R], steps[Max(T)])
          BY <1>5, <2>2, <3>3 DEF FillsUp
        <4>2. g[T] = h[T]  BY <3>1, <3>3
        <4> HIDE DEF g, R
        <4>3. g[T] = FillIn(g[R], steps[Max(T)])  BY <3>2, <4>1, <4>2
        <4> QED BY <2>2, <4>3 DEF R
      <3>4. CASE T \notin SUBSET (1 .. k - 1)
        <4>1. g[T] = FillIn(h[R], steps[Max(T)])  BY <3>1, <3>4
        <4> HIDE DEF g, R
        <4>2. g[T] = FillIn(g[R], steps[Max(T)])  BY <3>2, <4>1
        <4> QED BY <2>2, <4>2 DEF R
      <3> QED BY <3>3, <3>4
    <2> QED BY <2>1, <2>2
  <1>7. g = [T \in P |-> g[T]]  OBVIOUS
  <1> HIDE DEF g
  <1>8. FillsUp(g, start, steps, k)  BY <1>6 DEF FillsUp
  <1>9. Good(k)  BY <1>7, <1>8
  <1> QED BY <1>9 DEF Bad

(* After k defaults acc has the accounts s of the transaction, but for     *)
(* those sent as None and those that a later default is for.               *)
Partly(ix, variant, s, acc, k) ==
    LET names == ToSet(Interface[ix].accounts)
        none(n) == n \in Interface[ix].optional /\ s[n] = ProgramId
    IN  /\ acc = [n \in names |-> acc[n]]
        /\ \A n \in names :
              \/ acc[n] = s[n] /\ ~none(n)
              \/ acc[n] = Null /\ none(n)
              \/ /\ acc[n] = Null /\ n \notin variant.input.required
                 /\ n \in {variant.steps[j].account : j \in DOMAIN variant.steps}
        /\ \A j \in 1 .. k : acc[variant.steps[j].account] = s[variant.steps[j].account]

LEMMA FillStep ==
  ASSUME Apart, NEW ix, NEW variant, NEW s,
         StepsFit(ix, variant.input.required, variant.steps), AsDerived(ix, s),
         \A n \in ToSet(Interface[ix].accounts) : s[n] # Null,
         NEW k \in Nat, k + 1 \in DOMAIN variant.steps,
         \A n \in ToSet(Interface[ix].accounts) \ (Interface[ix].optional \cup {"program"}) :
            s[n] # ProgramId,
         NEW acc, Partly(ix, variant, s, acc, k)
  PROVE  Partly(ix, variant, s, FillIn(acc, variant.steps[k + 1]), k + 1)
  <1> DEFINE names == ToSet(Interface[ix].accounts)
             optional == Interface[ix].optional
             step == variant.steps[k + 1]
             required == variant.input.required
             new == FillIn(acc, step)
             none(n) == n \in optional /\ s[n] = ProgramId
             later(n) == n \in {variant.steps[j].account : j \in DOMAIN variant.steps}
             Right(a, n) == \/ a[n] = s[n] /\ ~none(n)
                            \/ a[n] = Null /\ none(n)
                            \/ a[n] = Null /\ n \notin required /\ later(n)
  <1>1. /\ acc = [n \in names |-> acc[n]] /\ \A n \in names : Right(acc, n)
        /\ \A j \in 1 .. k : acc[variant.steps[j].account] = s[variant.steps[j].account]
    BY DEF Partly
  <1>2. acc # Null  BY <1>1 DEF Apart, IsAFunction
  <1>3. /\ StepFits(ix, step)
        /\ \A i \in DOMAIN step.seeds :
              \/ step.seeds[i] \in required
              \/ \E j \in 1 .. k : variant.steps[j].account = step.seeds[i]
    BY DEF StepsFit
  <1> HIDE DEF later, step
  <1>4. /\ step.account \in names /\ step.account \notin optional
        /\ \A i \in DOMAIN step.seeds : step.seeds[i] \in names /\ step.seeds[i] \notin optional
    BY <1>3 DEF StepFits
  <1>5. \A n \in names : s[n] # Null  OBVIOUS
  <1>6. \A i \in DOMAIN step.seeds : acc[step.seeds[i]] = s[step.seeds[i]]
    BY <1>1, <1>3, <1>4
  <1>7. /\ new = [n \in names |-> new[n]]
        /\ \A n \in names \ {step.account} : new[n] = acc[n]
        /\ new[step.account] = s[step.account]
    <2>1. CASE acc[step.account] # Null
      <3>1. new = acc  BY <2>1, <1>2 DEF FillIn
      <3>2. acc[step.account] = s[step.account]  BY <1>1, <1>4, <2>1
      <3> HIDE DEF new, names
      <3> QED  BY <1>1, <3>1, <3>2
    <2>2. CASE acc[step.account] = Null
      <3> DEFINE seeds == [i \in DOMAIN step.seeds |-> acc[step.seeds[i]]]
                 value == IF step.prefix = "" THEN FixedAddress(step.account)
                                              ELSE <<step.prefix>> \o seeds
      <3>1. Null \notin ToSet(seeds)
        BY <1>4, <1>5, <1>6 DEF ToSet
      <3>2. seeds = [i \in DOMAIN step.seeds |-> s[step.seeds[i]]]  BY <1>6
      <3>3. value = s[step.account]
        <4>2. s[step.account] = Filled(s, step)  BY <1>3 DEF AsDerived
        <4> HIDE DEF seeds
        <4> QED  BY <3>2, <4>2 DEF Filled
      <3>4. new = [acc EXCEPT ![step.account] = value]
        BY <1>2, <2>2, <3>1 DEF FillIn
      <3> HIDE DEF value, new, names
      <3> QED  BY <1>1, <1>4, <3>3, <3>4
    <2> QED  BY <2>1, <2>2
  <1> HIDE DEF new
  <1>8. ~none(step.account)  BY <1>4
  <1>9. \A n \in names : Right(new, n)
    BY <1>1, <1>7, <1>8
  <1>10. ASSUME NEW j \in 1 .. k + 1
         PROVE  new[variant.steps[j].account] = s[variant.steps[j].account]
    <2>1. CASE variant.steps[j].account = step.account  BY <1>7, <2>1
    <2>2. CASE variant.steps[j].account # step.account
      <3>1. j # k + 1 /\ j \in 1 .. k  BY <2>2 DEF step
      <3>2. j \in DOMAIN variant.steps
        <4>1. PICK S : variant.steps \in Seq(S)  BY DEF StepsFit, IsList
        <4>2. DOMAIN variant.steps = 1 .. Len(variant.steps) /\ Len(variant.steps) \in Nat
          BY <4>1
        <4> QED  BY <3>1, <4>2
      <3>3. variant.steps[j].account \in names  BY <3>2 DEF StepsFit, StepFits
      <3> QED  BY <1>1, <1>7, <2>2, <3>1, <3>3
    <2> QED  BY <2>1, <2>2
  <1> QED  BY <1>7, <1>9, <1>10 DEF Partly, new, step, later

LEMMA FillsAll ==
  ASSUME Apart, NEW ix, NEW variant, NEW s,
         StepsFit(ix, variant.input.required, variant.steps), AsDerived(ix, s),
         \A n \in ToSet(Interface[ix].accounts) : s[n] # Null,
         \A n \in ToSet(Interface[ix].accounts) \ (Interface[ix].optional \cup {"program"}) :
            s[n] # ProgramId,
         NEW start, Partly(ix, variant, s, start, 0),
         NEW h, FillsUp(h, start, variant.steps, Len(variant.steps))
  PROVE  Partly(ix, variant, s, h[1 .. Len(variant.steps)], Len(variant.steps))
  <1> DEFINE n == Len(variant.steps)
             Good(k) == Partly(ix, variant, s, h[1 .. k], k)
             Bad == {k \in 0 .. n : ~ Good(k)}
  <1>0. n \in Nat /\ DOMAIN variant.steps = 1 .. n
    <2>1. PICK S : variant.steps \in Seq(S)  BY DEF StepsFit, IsList
    <2> QED  BY <2>1
  <1>1. SUFFICES ASSUME Bad # {} PROVE FALSE
    <2>1. n \in 0 .. n  BY <1>0
    <2> SUFFICES ASSUME Bad = {} PROVE Good(n)  OBVIOUS
    <2> HIDE DEF Good, n
    <2> QED BY <2>1
  <1>2. PICK k \in Bad : \A j \in Bad : k <= j
    <2>1. Bad \in SUBSET Nat  BY <1>0
    <2> HIDE DEF Bad
    <2> QED BY <1>1, <2>1, LeastNumber
  <1>3. k # 0
    <2>1. 1 .. 0 = {} /\ {} \in SUBSET (1 .. n)  OBVIOUS
    <2>2. h[{}] = start  BY <2>1 DEF FillsUp
    <2>3. Good(0)  BY <2>1, <2>2
    <2> QED BY <2>3
  <1>4. k \in 1 .. n /\ k - 1 \in 0 .. n /\ k - 1 \notin Bad
    <2>1. k \in 0 .. n  OBVIOUS
    <2>2. ~ (k <= k - 1)  BY <1>0, <2>1
    <2> HIDE DEF Bad
    <2> QED BY <1>0, <1>2, <1>3, <2>1, <2>2
  <1>5. Good(k - 1)  BY <1>4
  <1>6. h[1 .. k] = FillIn(h[1 .. k - 1], variant.steps[k])
    <2> DEFINE T == 1 .. k
    <2>0. k \in Nat /\ 1 <= k /\ k <= n  BY <1>0, <1>4
    <2>1. T \in SUBSET (1 .. k) /\ T # {} /\ k \in T
      <3>1. k \in 1 .. k  BY <2>0
      <3> QED  BY <3>1, Zenon
    <2>2. Max(T) \in T /\ \A m \in T : Max(T) >= m  BY <2>0, <2>1, LargestNumber
    <2>3. Max(T) = k  BY <2>0, <2>1, <2>2
    <2>4. T \ {k} = 1 .. k - 1  BY <2>0
    <2>5. T \in SUBSET (1 .. n)  BY <1>0, <2>0
    <2> HIDE DEF T
    <2>6. h[T] = FillIn(h[T \ {Max(T)}], variant.steps[Max(T)])
      BY <2>1, <2>5 DEF FillsUp
    <2> QED BY <2>3, <2>4, <2>6 DEF T
  <1>7. Good(k)
    <2> DEFINE j == k - 1
    <2>1. j \in Nat /\ j + 1 = k /\ j + 1 \in DOMAIN variant.steps  BY <1>0, <1>4
    <2>2. Partly(ix, variant, s, h[1 .. j], j)  BY <1>5
    <2> HIDE DEF j
    <2>3. Partly(ix, variant, s, FillIn(h[1 .. j], variant.steps[j + 1]), j + 1)
      BY <2>1, <2>2, FillStep
    <2> QED BY <1>6, <2>1, <2>3 DEF j
  <1> QED BY <1>4, <1>7

LEMMA FillFolds ==
  ASSUME Apart, NEW ix, NEW variant, NEW s,
         StepsFit(ix, variant.input.required, variant.steps), AsDerived(ix, s),
         \A n \in ToSet(Interface[ix].accounts) : s[n] # Null,
         \A n \in ToSet(Interface[ix].accounts) \ (Interface[ix].optional \cup {"program"}) :
            s[n] # ProgramId,
         NEW start, Partly(ix, variant, s, start, 0)
  PROVE  Partly(ix, variant, s, FoldLeft(FillIn, start, variant.steps), Len(variant.steps))
  <1> DEFINE steps == variant.steps
             Positions == DOMAIN steps
             Fold(h) == h = [T \in SUBSET Positions |->
                               IF T = {} THEN start
                               ELSE FillIn(h[T \ {Max(T)}], steps[Max(T)])]
             g == CHOOSE h : Fold(h)
  <1>1. FoldLeft(FillIn, start, steps) = g[Positions]
    BY DEF FoldLeft, MapThenFoldSet
  <1>2. Len(steps) \in Nat /\ Positions = 1 .. Len(steps)
    <2>1. PICK S : steps \in Seq(S)  BY DEF StepsFit, IsList
    <2> QED  BY <2>1
  <1>4. PICK h : h = [T \in SUBSET Positions |-> h[T]] /\ FillsUp(h, start, steps, Len(steps))
    <2> HIDE DEF steps
    <2> QED  BY <1>2, FillExists
  <1>5. Fold(h)  BY <1>2, <1>4, Zenon DEF FillsUp
  <1>6. Fold(g)  BY <1>5
  <1> HIDE DEF g
  <1>7. FillsUp(g, start, steps, Len(steps))  BY <1>2, <1>6 DEF FillsUp
  <1>8. Partly(ix, variant, s, g[1 .. Len(steps)], Len(steps))  BY <1>7, FillsAll
  <1> QED BY <1>1, <1>2, <1>8

(* The generated function of a variant does what the interface says        *)
Fits(ix, variant) ==
    /\ StepsFit(ix, variant.input.required, variant.steps)
    /\ variant.input.signers = Interface[ix].signers
    /\ Codama[ix].sent.accounts = Interface[ix].accounts
    /\ Codama[ix].sent.writable = Interface[ix].writable
    /\ "program" \notin Interface[ix].optional

LEMMA WireAgrees ==
  ASSUME Apart, NEW i \in DOMAIN tx, NEW variant, Fits(tx[i].ix, variant),
         ProperlyBuilt(tx[i]), AsDerived(tx[i].ix, Sent(i))
  PROVE  CodamaWire(tx[i].ix, variant, GivenOf(i, Needed(tx[i].ix, variant))) = tx[i].wire
  <1> DEFINE ix == tx[i].ix
             face == Interface[ix]
             names == ToSet(face.accounts)
             s == Sent(i)
             none(n) == n \in face.optional /\ s[n] = ProgramId
             in == GivenOf(i, Needed(ix, variant))
             start == [n \in names |-> in[n]]
             accounts == FoldLeft(FillIn, start, variant.steps)
             steps == variant.steps
             derived == {steps[k].account : k \in DOMAIN steps}
  <1>1. PICK given : /\ ProperAccounts(ix, given)
                     /\ tx[i].wire = Wire(face, given)
    BY DEF ProperlyBuilt
  <1>2. /\ s = [n \in names |-> s[n]]
        /\ \A n \in names : s[n] = given[n]
    <2>1. s = [n \in names |-> tx[i].wire[CHOOSE j \in DOMAIN face.accounts :
                                                face.accounts[j] = n].address]
      <3> DEFINE metas == Received(ix, tx[i].wire)
      <3>1. metas = [n \in names |-> tx[i].wire[CHOOSE j \in DOMAIN face.accounts :
                                                   face.accounts[j] = n]]
        BY Zenon DEF Received, Named
      <3>2. s = [n \in DOMAIN metas |-> metas[n].address]  BY Zenon DEF Sent, Addresses
      <3> HIDE DEF metas, s, names, face
      <3> QED  BY <3>1, <3>2
    <2>2. ASSUME NEW n \in names PROVE s[n] = given[n]
      <3>1. PICK j \in DOMAIN face.accounts : face.accounts[j] = n  BY DEF ToSet
      <3> DEFINE c == CHOOSE l \in DOMAIN face.accounts : face.accounts[l] = n
      <3>2. c \in DOMAIN face.accounts /\ face.accounts[c] = n  BY <3>1
      <3>3. s[n] = tx[i].wire[c].address  BY <2>1
      <3> HIDE DEF c
      <3> QED  BY <1>1, <3>2, <3>3, WireOf
    <2> QED  BY <2>1, <2>2
  <1>3. /\ \A n \in names : s[n] # Null
        /\ \A n \in names \ (face.optional \cup {"program"}) : s[n] # ProgramId
    BY <1>1, <1>2 DEF ProperAccounts
  <1>4. "program" \notin face.optional /\ ToSet(Codama[ix].sent.accounts) = names
    BY DEF Fits
  <1>5. Partly(ix, variant, s, start, 0)
    <2>1. ASSUME NEW n \in names
          PROVE  \/ start[n] = s[n] /\ ~none(n)
                 \/ start[n] = Null /\ none(n)
                 \/ start[n] = Null /\ n \notin variant.input.required /\ n \in derived
      <3>1. n \in Needed(ix, variant) \/ (n \in derived /\ n \notin variant.input.required)
        <4>1. Needed(ix, variant) = variant.input.required \cup (names \ derived)
          BY <1>4, Zenon DEF Needed
        <4> HIDE DEF names, derived
        <4> QED  BY <4>1
      <3>2. start[n] = IF n \in Needed(ix, variant) /\ (s[n] # ProgramId \/ n = "program")
                       THEN s[n] ELSE Null
        BY <1>2 DEF GivenOf
      <3>3. n \in variant.input.required => n \in Needed(ix, variant)  BY DEF Needed
      <3> HIDE DEF start, names, derived
      <3>4. CASE n \in Needed(ix, variant) /\ (s[n] # ProgramId \/ n = "program")
        BY <1>4, <3>2, <3>4
      <3>5. CASE n \in Needed(ix, variant) /\ ~(s[n] # ProgramId \/ n = "program")
        BY <1>3, <3>2, <3>5
      <3>6. CASE n \notin Needed(ix, variant)
        BY <3>1, <3>2, <3>6
      <3> QED  BY <3>4, <3>5, <3>6
    <2>2. start = [n \in names |-> start[n]]  OBVIOUS
    <2> HIDE DEF start
    <2> QED  BY <2>1, <2>2 DEF Partly
  <1>6. Partly(ix, variant, s, accounts, Len(steps))
    <2> HIDE DEF start, s, ix
    <2>1. StepsFit(ix, variant.input.required, variant.steps)  BY DEF Fits, ix
    <2>2. AsDerived(ix, s)  BY DEF s, ix
    <2> QED  BY <1>3, <1>5, <2>1, <2>2, FillFolds
  <1>7. Resolved(ix, variant, in) = accounts
    BY DEF Resolved, Fits
  <1> HIDE DEF accounts
  <1>8. /\ accounts # Null
        /\ \A n \in names : IF none(n) THEN accounts[n] = Null ELSE accounts[n] = s[n]
    <2>1. accounts = [n \in names |-> accounts[n]]  BY <1>6 DEF Partly
    <2>2. \A k \in DOMAIN steps : accounts[steps[k].account] = s[steps[k].account]
      <3>1. PICK S : steps \in Seq(S)  BY DEF Fits, StepsFit, IsList
      <3>2. DOMAIN steps = 1 .. Len(steps)  BY <3>1
      <3> QED  BY <1>6, <3>2 DEF Partly
    <2>3. \A n \in names :
             \/ accounts[n] = s[n] /\ ~none(n)
             \/ accounts[n] = Null /\ none(n)
             \/ accounts[n] = Null /\ n \in derived
      BY <1>6 DEF Partly
    <2> QED  BY <1>3, <2>1, <2>2, <2>3 DEF Apart, IsAFunction
  <1> DEFINE MetaOf(n) ==
               [address  |-> IF accounts[n] = Null THEN ProgramId ELSE accounts[n],
                writable |-> accounts[n] # Null /\ n \in face.writable,
                signer   |-> accounts[n] # Null /\ n \in face.signers]
  <1>9. ASSUME NEW j \in DOMAIN face.accounts
        PROVE  Wire(face, given)[j] = MetaOf(face.accounts[j])
    <2> DEFINE n == face.accounts[j]
    <2>1. n \in names  BY DEF ToSet
    <2>2. Wire(face, given)[j] =
             Meta(given[n],
                  n \in face.writable /\ ~(n \in face.optional /\ given[n] = ProgramId),
                  n \in face.signers /\ ~(n \in face.optional /\ given[n] = ProgramId))
      BY DEF Wire
    <2>3. given[n] = s[n] /\ s[n] # Null  BY <1>2, <1>3, <2>1
    <2>4. IF none(n) THEN accounts[n] = Null ELSE accounts[n] = s[n]  BY <1>8, <2>1
    <2> HIDE DEF n, s, face
    <2>5. Wire(face, given)[j] = MetaOf(n)
      <3>1. CASE none(n)  BY <2>2, <2>3, <2>4, <3>1 DEF Meta
      <3>2. CASE ~none(n)  BY <2>2, <2>3, <2>4, <3>2 DEF Meta
      <3> QED  BY <3>1, <3>2
    <2> QED  BY <2>5 DEF n
  <1>10. DOMAIN Wire(face, given) = DOMAIN face.accounts
         /\ Wire(face, given) = [j \in DOMAIN face.accounts |-> Wire(face, given)[j]]
    BY DEF Wire
  <1>11. Wire(face, given) = [j \in DOMAIN face.accounts |-> MetaOf(face.accounts[j])]
    <2> HIDE DEF MetaOf, face
    <2> QED  BY <1>9, <1>10
  <1>12. /\ Codama[ix].sent.accounts = face.accounts
         /\ Codama[ix].sent.writable = face.writable
         /\ variant.input.signers = face.signers
    BY DEF Fits
  <1>13. CodamaWire(ix, variant, in) = [j \in DOMAIN face.accounts |-> MetaOf(face.accounts[j])]
    <2> HIDE DEF face, ix, in
    <2> QED  BY <1>7, <1>8, <1>12 DEF CodamaWire
  <1> QED  BY <1>1, <1>11, <1>13

-----------------------------------------------------------------------------
(* A tuple is a list.                                                      *)
LEMMA Tuples ==
  ASSUME NEW a, NEW b, NEW c, NEW d, NEW e, NEW f
  PROVE  /\ IsList(<<a>>) /\ IsList(<<a, b>>) /\ IsList(<<a, b, c>>)
         /\ IsList(<<a, b, c, d>>) /\ IsList(<<a, b, c, d, e>>)
         /\ IsList(<<a, b, c, d, e, f>>)
  <1> DEFINE S == {a, b, c, d, e, f}
  <1>1. /\ <<a>> \in Seq(S) /\ <<a, b>> \in Seq(S) /\ <<a, b, c>> \in Seq(S)
        /\ <<a, b, c, d>> \in Seq(S) /\ <<a, b, c, d, e>> \in Seq(S)
        /\ <<a, b, c, d, e, f>> \in Seq(S)
    OBVIOUS
  <1> QED  BY <1>1 DEF IsList

FixedNames ==
    {"clock", "stakeHistory", "stakeProgram", "stakeConfig", "systemProgram", "rent",
     "tokenProgram", "associatedTokenProgram", "metadataProgram"}

(* What a default is derived of is known.                                  *)
From(known, step) == \A i \in DOMAIN step.seeds : step.seeds[i] \in known

LEMMA OneFits ==
  ASSUME NEW ix, NEW given, NEW a, StepFits(ix, a), From(given, a)
  PROVE  StepsFit(ix, given, <<a>>)
  <1>1. IsList(<<a>>)  BY Tuples
  <1> QED  BY <1>1 DEF StepsFit, From

LEMMA TwoFit ==
  ASSUME NEW ix, NEW given, NEW a, NEW b, StepFits(ix, a), StepFits(ix, b),
         From(given, a), From(given \cup {a.account}, b)
  PROVE  StepsFit(ix, given, <<a, b>>)
  <1>1. IsList(<<a, b>>)  BY Tuples
  <1> QED  BY <1>1 DEF StepsFit, From

LEMMA ThreeFit ==
  ASSUME NEW ix, NEW given, NEW a, NEW b, NEW c,
         StepFits(ix, a), StepFits(ix, b), StepFits(ix, c),
         From(given, a), From(given \cup {a.account}, b),
         From(given \cup {a.account, b.account}, c)
  PROVE  StepsFit(ix, given, <<a, b, c>>)
  <1>1. IsList(<<a, b, c>>)  BY Tuples
  <1> QED  BY <1>1 DEF StepsFit, From

LEMMA SetFits ==
  ASSUME NEW ix, NEW given, NEW names \in SUBSET FixedNames,
         names \subseteq (Interface[ix].fixed \cap ToSet(Interface[ix].accounts))
                            \ (Interface[ix].optional \cup {"program"})
  PROVE  StepsFit(ix, given, Fixed(SetToSeq(names)))
  <1> DEFINE n == Cardinality(names)
             seq == SetToSeq(names)
  <1>1. IsFiniteSet(FixedNames)
    <2> DEFINE A == {"clock", "stakeHistory", "stakeProgram"}
               B == {"stakeConfig", "systemProgram", "rent"}
               C == {"tokenProgram", "associatedTokenProgram", "metadataProgram"}
    <2>1. \A a, b, c : IsFiniteSet({a, b, c})
      <3> TAKE a, b, c
      <3>1. IsFiniteSet({a})  BY FS_Singleton
      <3>2. IsFiniteSet({a} \cup {b})  BY <3>1, FS_AddElement
      <3>3. IsFiniteSet(({a} \cup {b}) \cup {c})  BY <3>2, FS_AddElement
      <3>4. ({a} \cup {b}) \cup {c} = {a, b, c}  OBVIOUS
      <3> QED  BY <3>3, <3>4
    <2>2. IsFiniteSet(A) /\ IsFiniteSet(B) /\ IsFiniteSet(C)  BY <2>1
    <2>3. FixedNames = (A \cup B) \cup C  BY DEF FixedNames
    <2> HIDE DEF A, B, C
    <2>4. IsFiniteSet(A \cup B)  BY <2>2, FS_Union
    <2>5. IsFiniteSet((A \cup B) \cup C)  BY <2>2, <2>4, FS_Union
    <2> QED  BY <2>3, <2>5
  <1>2. IsFiniteSet(names)  BY <1>1, FS_Subset
  <1>3. n \in Nat /\ ExistsBijection(1 .. n, names)  BY <1>2, FS_CardinalityType
  <1>4. \E f \in [1 .. n -> names] : IsInjective(f)
    BY <1>3 DEF ExistsBijection, Bijection, Injection, IsInjective
  <1>5. seq \in [1 .. n -> names]  BY <1>4 DEF SetToSeq
  <1> HIDE DEF seq, n
  <1>6. DOMAIN seq = 1 .. n /\ \A i \in DOMAIN seq : seq[i] \in names  BY <1>5
  <1>7. IsList(seq)
    <2>1. seq \in Seq(names)  BY <1>3, <1>5
    <2> QED  BY <2>1 DEF IsList
  <1>8. StepsFit(ix, given, Fixed(seq))  BY <1>6, <1>7, FixedFit
  <1> QED  BY <1>8 DEF seq

(* The two functions of the client fit the interface, instruction by       *)
(* instruction.                                                            *)
FitsBoth(ix) == Fits(ix, WithAsync(ix)) /\ Fits(ix, WithoutAsync(ix))

LEMMA FitsCancelSettlement == FitsBoth("cancelSettlement")
  <1>1. StepsFit("cancelSettlement", CancelSettlementInput.required,
                 Fixed(SetToSeq(getCancelSettlementInstruction.defaults)))
    BY SetFits DEF FixedNames, Interface, cancelSettlement,
           getCancelSettlementInstruction, ToSet
  <1>2. StepFits("cancelSettlement", DeriveClaims)
    BY DEF StepFits, Derive, DeriveClaims, Interface, cancelSettlement, ToSet,
           At, Pda, ClaimsOfSettlement
  <1>3. StepFits("cancelSettlement", DeriveWithdrawer)
    BY DEF StepFits, Derive, DeriveWithdrawer, Interface, cancelSettlement,
           ToSet, At, Pda, WithdrawerOfConfig
  <1>4. StepFits("cancelSettlement", DeriveEventAuthority)
    BY DEF StepFits, Derive, DeriveEventAuthority, Interface,
           cancelSettlement, ToSet, At, Pda, EventAuthority
  <1>5. StepsFit("cancelSettlement", CancelSettlementAsyncInput.required,
                 <<DeriveClaims, DeriveWithdrawer>>)
    <2>1. /\ From(CancelSettlementAsyncInput.required, DeriveClaims)
          /\ From(CancelSettlementAsyncInput.required \cup {DeriveClaims.account},
                  DeriveWithdrawer)
      BY DEF From, Derive, DeriveClaims, DeriveWithdrawer,
             CancelSettlementAsyncInput
    <2> QED  BY <2>1, <1>2, <1>3, TwoFit
  <1>6. StepsFit("cancelSettlement", CancelSettlementAsyncInput.required,
                 Fixed(<<"clock", "stakeProgram", "stakeHistory">>))
    <2>1. IsList(<<"clock", "stakeProgram", "stakeHistory">>)  BY Tuples
    <2> QED
      BY <2>1, FixedFit DEF Interface, cancelSettlement, ToSet
  <1>7. StepsFit("cancelSettlement", CancelSettlementAsyncInput.required,
                 <<DeriveEventAuthority>>)
    <2>1. From(CancelSettlementAsyncInput.required, DeriveEventAuthority)
      BY DEF From, Derive, DeriveEventAuthority, CancelSettlementAsyncInput
    <2> QED  BY <2>1, <1>4, OneFits
  <1>8. StepsFit("cancelSettlement", CancelSettlementAsyncInput.required,
                 getCancelSettlementInstructionAsync)
    BY <1>5, <1>6, <1>7, StepsJoin DEF getCancelSettlementInstructionAsync
  <1> QED  BY <1>1, <1>8
           DEF FitsBoth, Fits, WithAsync, WithoutAsync, Codama, Client,
               Interface, cancelSettlement, CancelSettlementAsyncInput,
               CancelSettlementInput, AndAlso, getCancelSettlementInstruction

LEMMA FitsCancelWithdrawRequest == FitsBoth("cancelWithdrawRequest")
  <1>1. StepsFit("cancelWithdrawRequest", CancelWithdrawRequestInput.required,
                 Fixed(SetToSeq(getCancelWithdrawRequestInstruction.defaults)))
    BY SetFits DEF FixedNames, Interface, cancelWithdrawRequest,
           getCancelWithdrawRequestInstruction, ToSet
  <1>2. StepFits("cancelWithdrawRequest", DeriveBond)
    BY DEF StepFits, Derive, DeriveBond, Interface, cancelWithdrawRequest,
           ToSet, At, Pda, BondOfVote
  <1>3. StepFits("cancelWithdrawRequest", DeriveRequest)
    BY DEF StepFits, Derive, DeriveRequest, Interface, cancelWithdrawRequest,
           ToSet, At, Pda, RequestOfBond
  <1>4. StepFits("cancelWithdrawRequest", DeriveEventAuthority)
    BY DEF StepFits, Derive, DeriveEventAuthority, Interface,
           cancelWithdrawRequest, ToSet, At, Pda, EventAuthority
  <1>5. StepsFit("cancelWithdrawRequest", CancelWithdrawRequestAsyncInput.required,
                 <<DeriveBond, DeriveRequest, DeriveEventAuthority>>)
    <2>1. /\ From(CancelWithdrawRequestAsyncInput.required, DeriveBond)
          /\ From(CancelWithdrawRequestAsyncInput.required \cup {DeriveBond.account},
                  DeriveRequest)
          /\ From(CancelWithdrawRequestAsyncInput.required
                    \cup {DeriveBond.account, DeriveRequest.account},
                  DeriveEventAuthority)
      BY DEF From, Derive, DeriveBond, DeriveRequest, DeriveEventAuthority,
             CancelWithdrawRequestAsyncInput
    <2> QED  BY <2>1, <1>2, <1>3, <1>4, ThreeFit
  <1>6. StepsFit("cancelWithdrawRequest", CancelWithdrawRequestAsyncInput.required,
                 getCancelWithdrawRequestInstructionAsync)
    BY <1>5, StepsJoin DEF getCancelWithdrawRequestInstructionAsync
  <1> QED  BY <1>1, <1>6
           DEF FitsBoth, Fits, WithAsync, WithoutAsync, Codama, Client,
               Interface, cancelWithdrawRequest,
               CancelWithdrawRequestAsyncInput, CancelWithdrawRequestInput,
               AndAlso, getCancelWithdrawRequestInstruction

LEMMA FitsClaimSettlementV1 == FitsBoth("claimSettlementV1")
  <1>1. StepsFit("claimSettlementV1", ClaimSettlementV1Input.required,
                 Fixed(SetToSeq(getClaimSettlementV1Instruction.defaults)))
    BY SetFits DEF FixedNames, Interface, claimSettlementV1,
           getClaimSettlementV1Instruction, ToSet
  <1> QED  BY <1>1
           DEF FitsBoth, Fits, WithAsync, WithoutAsync, Codama, Client,
               Interface, claimSettlementV1, ClaimSettlementV1Input, AndAlso,
               getClaimSettlementV1Instruction

LEMMA FitsClaimSettlementV2 == FitsBoth("claimSettlementV2")
  <1>1. StepsFit("claimSettlementV2", ClaimSettlementV2Input.required,
                 Fixed(SetToSeq(getClaimSettlementV2Instruction.defaults)))
    BY SetFits DEF FixedNames, Interface, claimSettlementV2,
           getClaimSettlementV2Instruction, ToSet
  <1>2. StepFits("claimSettlementV2", DeriveClaims)
    BY DEF StepFits, Derive, DeriveClaims, Interface, claimSettlementV2,
           ToSet, At, Pda, ClaimsOfSettlement
  <1>3. StepFits("claimSettlementV2", DeriveWithdrawer)
    BY DEF StepFits, Derive, DeriveWithdrawer, Interface, claimSettlementV2,
           ToSet, At, Pda, WithdrawerOfConfig
  <1>4. StepFits("claimSettlementV2", DeriveEventAuthority)
    BY DEF StepFits, Derive, DeriveEventAuthority, Interface,
           claimSettlementV2, ToSet, At, Pda, EventAuthority
  <1>5. StepsFit("claimSettlementV2", ClaimSettlementV2AsyncInput.required,
                 <<DeriveClaims, DeriveWithdrawer>>)
    <2>1. /\ From(ClaimSettlementV2AsyncInput.required, DeriveClaims)
          /\ From(ClaimSettlementV2AsyncInput.required \cup {DeriveClaims.account},
                  DeriveWithdrawer)
      BY DEF From, Derive, DeriveClaims, DeriveWithdrawer,
             ClaimSettlementV2AsyncInput
    <2> QED  BY <2>1, <1>2, <1>3, TwoFit
  <1>6. StepsFit("claimSettlementV2", ClaimSettlementV2AsyncInput.required,
                 Fixed(<<"stakeHistory", "clock", "stakeProgram">>))
    <2>1. IsList(<<"stakeHistory", "clock", "stakeProgram">>)  BY Tuples
    <2> QED
      BY <2>1, FixedFit DEF Interface, claimSettlementV2, ToSet
  <1>7. StepsFit("claimSettlementV2", ClaimSettlementV2AsyncInput.required,
                 <<DeriveEventAuthority>>)
    <2>1. From(ClaimSettlementV2AsyncInput.required, DeriveEventAuthority)
      BY DEF From, Derive, DeriveEventAuthority, ClaimSettlementV2AsyncInput
    <2> QED  BY <2>1, <1>4, OneFits
  <1>8. StepsFit("claimSettlementV2", ClaimSettlementV2AsyncInput.required,
                 getClaimSettlementV2InstructionAsync)
    BY <1>5, <1>6, <1>7, StepsJoin DEF getClaimSettlementV2InstructionAsync
  <1> QED  BY <1>1, <1>8
           DEF FitsBoth, Fits, WithAsync, WithoutAsync, Codama, Client,
               Interface, claimSettlementV2, ClaimSettlementV2AsyncInput,
               ClaimSettlementV2Input, AndAlso,
               getClaimSettlementV2Instruction

LEMMA FitsClaimWithdrawRequest == FitsBoth("claimWithdrawRequest")
  <1>1. StepsFit("claimWithdrawRequest", ClaimWithdrawRequestInput.required,
                 Fixed(SetToSeq(getClaimWithdrawRequestInstruction.defaults)))
    BY SetFits DEF FixedNames, Interface, claimWithdrawRequest,
           getClaimWithdrawRequestInstruction, ToSet
  <1>2. StepFits("claimWithdrawRequest", DeriveBond)
    BY DEF StepFits, Derive, DeriveBond, Interface, claimWithdrawRequest,
           ToSet, At, Pda, BondOfVote
  <1>3. StepFits("claimWithdrawRequest", DeriveRequest)
    BY DEF StepFits, Derive, DeriveRequest, Interface, claimWithdrawRequest,
           ToSet, At, Pda, RequestOfBond
  <1>4. StepFits("claimWithdrawRequest", DeriveWithdrawer)
    BY DEF StepFits, Derive, DeriveWithdrawer, Interface,
           claimWithdrawRequest, ToSet, At, Pda, WithdrawerOfConfig
  <1>5. StepFits("claimWithdrawRequest", DeriveEventAuthority)
    BY DEF StepFits, Derive, DeriveEventAuthority, Interface,
           claimWithdrawRequest, ToSet, At, Pda, EventAuthority
  <1>6. StepsFit("claimWithdrawRequest", ClaimWithdrawRequestAsyncInput.required,
                 <<DeriveBond, DeriveRequest, DeriveWithdrawer>>)
    <2>1. /\ From(ClaimWithdrawRequestAsyncInput.required, DeriveBond)
          /\ From(ClaimWithdrawRequestAsyncInput.required \cup {DeriveBond.account},
                  DeriveRequest)
          /\ From(ClaimWithdrawRequestAsyncInput.required
                    \cup {DeriveBond.account, DeriveRequest.account},
                  DeriveWithdrawer)
      BY DEF From, Derive, DeriveBond, DeriveRequest, DeriveWithdrawer,
             ClaimWithdrawRequestAsyncInput
    <2> QED  BY <2>1, <1>2, <1>3, <1>4, ThreeFit
  <1>7. StepsFit("claimWithdrawRequest", ClaimWithdrawRequestAsyncInput.required,
                 Fixed(<<"stakeProgram", "systemProgram", "stakeHistory", "clock">>))
    <2>1. IsList(<<"stakeProgram", "systemProgram", "stakeHistory", "clock">>)  BY Tuples
    <2> QED
      BY <2>1, FixedFit DEF Interface, claimWithdrawRequest, ToSet
  <1>8. StepsFit("claimWithdrawRequest", ClaimWithdrawRequestAsyncInput.required,
                 <<DeriveEventAuthority>>)
    <2>1. From(ClaimWithdrawRequestAsyncInput.required, DeriveEventAuthority)
      BY DEF From, Derive, DeriveEventAuthority,
             ClaimWithdrawRequestAsyncInput
    <2> QED  BY <2>1, <1>5, OneFits
  <1>9. StepsFit("claimWithdrawRequest", ClaimWithdrawRequestAsyncInput.required,
                 getClaimWithdrawRequestInstructionAsync)
    BY <1>6, <1>7, <1>8, StepsJoin DEF getClaimWithdrawRequestInstructionAsync
  <1> QED  BY <1>1, <1>9
           DEF FitsBoth, Fits, WithAsync, WithoutAsync, Codama, Client,
               Interface, claimWithdrawRequest,
               ClaimWithdrawRequestAsyncInput, ClaimWithdrawRequestInput,
               AndAlso, getClaimWithdrawRequestInstruction

LEMMA FitsCloseSettlementV2 == FitsBoth("closeSettlementV2")
  <1>1. StepsFit("closeSettlementV2", CloseSettlementV2Input.required,
                 Fixed(SetToSeq(getCloseSettlementV2Instruction.defaults)))
    BY SetFits DEF FixedNames, Interface, closeSettlementV2,
           getCloseSettlementV2Instruction, ToSet
  <1>2. StepFits("closeSettlementV2", DeriveClaims)
    BY DEF StepFits, Derive, DeriveClaims, Interface, closeSettlementV2,
           ToSet, At, Pda, ClaimsOfSettlement
  <1>3. StepFits("closeSettlementV2", DeriveWithdrawer)
    BY DEF StepFits, Derive, DeriveWithdrawer, Interface, closeSettlementV2,
           ToSet, At, Pda, WithdrawerOfConfig
  <1>4. StepFits("closeSettlementV2", DeriveEventAuthority)
    BY DEF StepFits, Derive, DeriveEventAuthority, Interface,
           closeSettlementV2, ToSet, At, Pda, EventAuthority
  <1>5. StepsFit("closeSettlementV2", CloseSettlementV2AsyncInput.required,
                 <<DeriveClaims, DeriveWithdrawer>>)
    <2>1. /\ From(CloseSettlementV2AsyncInput.required, DeriveClaims)
          /\ From(CloseSettlementV2AsyncInput.required \cup {DeriveClaims.account},
                  DeriveWithdrawer)
      BY DEF From, Derive, DeriveClaims, DeriveWithdrawer,
             CloseSettlementV2AsyncInput
    <2> QED  BY <2>1, <1>2, <1>3, TwoFit
  <1>6. StepsFit("closeSettlementV2", CloseSettlementV2AsyncInput.required,
                 Fixed(<<"clock", "stakeProgram", "stakeHistory">>))
    <2>1. IsList(<<"clock", "stakeProgram", "stakeHistory">>)  BY Tuples
    <2> QED
      BY <2>1, FixedFit DEF Interface, closeSettlementV2, ToSet
  <1>7. StepsFit("closeSettlementV2", CloseSettlementV2AsyncInput.required,
                 <<DeriveEventAuthority>>)
    <2>1. From(CloseSettlementV2AsyncInput.required, DeriveEventAuthority)
      BY DEF From, Derive, DeriveEventAuthority, CloseSettlementV2AsyncInput
    <2> QED  BY <2>1, <1>4, OneFits
  <1>8. StepsFit("closeSettlementV2", CloseSettlementV2AsyncInput.required,
                 getCloseSettlementV2InstructionAsync)
    BY <1>5, <1>6, <1>7, StepsJoin DEF getCloseSettlementV2InstructionAsync
  <1> QED  BY <1>1, <1>8
           DEF FitsBoth, Fits, WithAsync, WithoutAsync, Codama, Client,
               Interface, closeSettlementV2, CloseSettlementV2AsyncInput,
               CloseSettlementV2Input, AndAlso,
               getCloseSettlementV2Instruction

LEMMA FitsConfigureBond == FitsBoth("configureBond")
  <1>1. StepsFit("configureBond", ConfigureBondInput.required,
                 Fixed(SetToSeq(getConfigureBondInstruction.defaults)))
    BY SetFits DEF FixedNames, Interface, configureBond,
           getConfigureBondInstruction, ToSet
  <1>2. StepFits("configureBond", DeriveBond)
    BY DEF StepFits, Derive, DeriveBond, Interface, configureBond, ToSet, At,
           Pda, BondOfVote
  <1>3. StepFits("configureBond", DeriveEventAuthority)
    BY DEF StepFits, Derive, DeriveEventAuthority, Interface, configureBond,
           ToSet, At, Pda, EventAuthority
  <1>4. StepsFit("configureBond", ConfigureBondAsyncInput.required,
                 <<DeriveBond, DeriveEventAuthority>>)
    <2>1. /\ From(ConfigureBondAsyncInput.required, DeriveBond)
          /\ From(ConfigureBondAsyncInput.required \cup {DeriveBond.account},
                  DeriveEventAuthority)
      BY DEF From, Derive, DeriveBond, DeriveEventAuthority,
             ConfigureBondAsyncInput
    <2> QED  BY <2>1, <1>2, <1>3, TwoFit
  <1>5. StepsFit("configureBond", ConfigureBondAsyncInput.required,
                 getConfigureBondInstructionAsync)
    BY <1>4, StepsJoin DEF getConfigureBondInstructionAsync
  <1> QED  BY <1>1, <1>5
           DEF FitsBoth, Fits, WithAsync, WithoutAsync, Codama, Client,
               Interface, configureBond, ConfigureBondAsyncInput,
               ConfigureBondInput, AndAlso, getConfigureBondInstruction

LEMMA FitsConfigureBondProduct == FitsBoth("configureBondProduct")
  <1>1. StepsFit("configureBondProduct", ConfigureBondProductInput.required,
                 Fixed(SetToSeq(getConfigureBondProductInstruction.defaults)))
    BY SetFits DEF FixedNames, Interface, configureBondProduct,
           getConfigureBondProductInstruction, ToSet
  <1>2. StepFits("configureBondProduct", DeriveBond)
    BY DEF StepFits, Derive, DeriveBond, Interface, configureBondProduct,
           ToSet, At, Pda, BondOfVote
  <1>3. StepFits("configureBondProduct", DeriveEventAuthority)
    BY DEF StepFits, Derive, DeriveEventAuthority, Interface,
           configureBondProduct, ToSet, At, Pda, EventAuthority
  <1>4. StepsFit("configureBondProduct", ConfigureBondProductAsyncInput.required,
                 <<DeriveBond, DeriveEventAuthority>>)
    <2>1. /\ From(ConfigureBondProductAsyncInput.required, DeriveBond)
          /\ From(ConfigureBondProductAsyncInput.required \cup {DeriveBond.account},
                  DeriveEventAuthority)
      BY DEF From, Derive, DeriveBond, DeriveEventAuthority,
             ConfigureBondProductAsyncInput
    <2> QED  BY <2>1, <1>2, <1>3, TwoFit
  <1>5. StepsFit("configureBondProduct", ConfigureBondProductAsyncInput.required,
                 getConfigureBondProductInstructionAsync)
    BY <1>4, StepsJoin DEF getConfigureBondProductInstructionAsync
  <1> QED  BY <1>1, <1>5
           DEF FitsBoth, Fits, WithAsync, WithoutAsync, Codama, Client,
               Interface, configureBondProduct,
               ConfigureBondProductAsyncInput, ConfigureBondProductInput,
               AndAlso, getConfigureBondProductInstruction

LEMMA FitsConfigureBondWithMint == FitsBoth("configureBondWithMint")
  <1>1. StepsFit("configureBondWithMint", ConfigureBondWithMintInput.required,
                 Fixed(SetToSeq(getConfigureBondWithMintInstruction.defaults)))
    BY SetFits DEF FixedNames, Interface, configureBondWithMint,
           getConfigureBondWithMintInstruction, ToSet
  <1>2. StepFits("configureBondWithMint", DeriveBond)
    BY DEF StepFits, Derive, DeriveBond, Interface, configureBondWithMint,
           ToSet, At, Pda, BondOfVote
  <1>3. StepFits("configureBondWithMint", DeriveEventAuthority)
    BY DEF StepFits, Derive, DeriveEventAuthority, Interface,
           configureBondWithMint, ToSet, At, Pda, EventAuthority
  <1>4. StepsFit("configureBondWithMint", ConfigureBondWithMintAsyncInput.required,
                 <<DeriveBond>>)
    <2>1. From(ConfigureBondWithMintAsyncInput.required, DeriveBond)
      BY DEF From, Derive, DeriveBond, ConfigureBondWithMintAsyncInput
    <2> QED  BY <2>1, <1>2, OneFits
  <1>5. StepsFit("configureBondWithMint", ConfigureBondWithMintAsyncInput.required,
                 Fixed(<<"tokenProgram">>))
    <2>1. IsList(<<"tokenProgram">>)  BY Tuples
    <2> QED
      BY <2>1, FixedFit DEF Interface, configureBondWithMint, ToSet
  <1>6. StepsFit("configureBondWithMint", ConfigureBondWithMintAsyncInput.required,
                 <<DeriveEventAuthority>>)
    <2>1. From(ConfigureBondWithMintAsyncInput.required, DeriveEventAuthority)
      BY DEF From, Derive, DeriveEventAuthority,
             ConfigureBondWithMintAsyncInput
    <2> QED  BY <2>1, <1>3, OneFits
  <1>7. StepsFit("configureBondWithMint", ConfigureBondWithMintAsyncInput.required,
                 getConfigureBondWithMintInstructionAsync)
    BY <1>4, <1>5, <1>6, StepsJoin DEF getConfigureBondWithMintInstructionAsync
  <1> QED  BY <1>1, <1>7
           DEF FitsBoth, Fits, WithAsync, WithoutAsync, Codama, Client,
               Interface, configureBondWithMint,
               ConfigureBondWithMintAsyncInput, ConfigureBondWithMintInput,
               AndAlso, getConfigureBondWithMintInstruction

LEMMA FitsConfigureConfig == FitsBoth("configureConfig")
  <1>1. StepsFit("configureConfig", ConfigureConfigInput.required,
                 Fixed(SetToSeq(getConfigureConfigInstruction.defaults)))
    BY SetFits DEF FixedNames, Interface, configureConfig,
           getConfigureConfigInstruction, ToSet
  <1>2. StepFits("configureConfig", DeriveEventAuthority)
    BY DEF StepFits, Derive, DeriveEventAuthority, Interface, configureConfig,
           ToSet, At, Pda, EventAuthority
  <1>3. StepsFit("configureConfig", ConfigureConfigAsyncInput.required,
                 <<DeriveEventAuthority>>)
    <2>1. From(ConfigureConfigAsyncInput.required, DeriveEventAuthority)
      BY DEF From, Derive, DeriveEventAuthority, ConfigureConfigAsyncInput
    <2> QED  BY <2>1, <1>2, OneFits
  <1>4. StepsFit("configureConfig", ConfigureConfigAsyncInput.required,
                 getConfigureConfigInstructionAsync)
    BY <1>3, StepsJoin DEF getConfigureConfigInstructionAsync
  <1> QED  BY <1>1, <1>4
           DEF FitsBoth, Fits, WithAsync, WithoutAsync, Codama, Client,
               Interface, configureConfig, ConfigureConfigAsyncInput,
               ConfigureConfigInput, AndAlso, getConfigureConfigInstruction

LEMMA FitsEmergencyPause == FitsBoth("emergencyPause")
  <1>1. StepsFit("emergencyPause", EmergencyPauseInput.required,
                 Fixed(SetToSeq(getEmergencyPauseInstruction.defaults)))
    BY SetFits DEF FixedNames, Interface, emergencyPause,
           getEmergencyPauseInstruction, ToSet
  <1>2. StepFits("emergencyPause", DeriveEventAuthority)
    BY DEF StepFits, Derive, DeriveEventAuthority, Interface, emergencyPause,
           ToSet, At, Pda, EventAuthority
  <1>3. StepsFit("emergencyPause", EmergencyPauseAsyncInput.required,
                 <<DeriveEventAuthority>>)
    <2>1. From(EmergencyPauseAsyncInput.required, DeriveEventAuthority)
      BY DEF From, Derive, DeriveEventAuthority, EmergencyPauseAsyncInput
    <2> QED  BY <2>1, <1>2, OneFits
  <1>4. StepsFit("emergencyPause", EmergencyPauseAsyncInput.required,
                 getEmergencyPauseInstructionAsync)
    BY <1>3, StepsJoin DEF getEmergencyPauseInstructionAsync
  <1> QED  BY <1>1, <1>4
           DEF FitsBoth, Fits, WithAsync, WithoutAsync, Codama, Client,
               Interface, emergencyPause, EmergencyPauseAsyncInput,
               EmergencyPauseInput, AndAlso, getEmergencyPauseInstruction

LEMMA FitsEmergencyResume == FitsBoth("emergencyResume")
  <1>1. StepsFit("emergencyResume", EmergencyResumeInput.required,
                 Fixed(SetToSeq(getEmergencyResumeInstruction.defaults)))
    BY SetFits DEF FixedNames, Interface, emergencyResume,
           getEmergencyResumeInstruction, ToSet
  <1>2. StepFits("emergencyResume", DeriveEventAuthority)
    BY DEF StepFits, Derive, DeriveEventAuthority, Interface, emergencyResume,
           ToSet, At, Pda, EventAuthority
  <1>3. StepsFit("emergencyResume", EmergencyResumeAsyncInput.required,
                 <<DeriveEventAuthority>>)
    <2>1. From(EmergencyResumeAsyncInput.required, DeriveEventAuthority)
      BY DEF From, Derive, DeriveEventAuthority, EmergencyResumeAsyncInput
    <2> QED  BY <2>1, <1>2, OneFits
  <1>4. StepsFit("emergencyResume", EmergencyResumeAsyncInput.required,
                 getEmergencyResumeInstructionAsync)
    BY <1>3, StepsJoin DEF getEmergencyResumeInstructionAsync
  <1> QED  BY <1>1, <1>4
           DEF FitsBoth, Fits, WithAsync, WithoutAsync, Codama, Client,
               Interface, emergencyResume, EmergencyResumeAsyncInput,
               EmergencyResumeInput, AndAlso, getEmergencyResumeInstruction

LEMMA FitsFundBond == FitsBoth("fundBond")
  <1>1. StepsFit("fundBond", FundBondInput.required,
                 Fixed(SetToSeq(getFundBondInstruction.defaults)))
    BY SetFits DEF FixedNames, Interface, fundBond, getFundBondInstruction,
           ToSet
  <1>2. StepFits("fundBond", DeriveWithdrawer)
    BY DEF StepFits, Derive, DeriveWithdrawer, Interface, fundBond, ToSet, At,
           Pda, WithdrawerOfConfig
  <1>3. StepFits("fundBond", DeriveEventAuthority)
    BY DEF StepFits, Derive, DeriveEventAuthority, Interface, fundBond, ToSet,
           At, Pda, EventAuthority
  <1>4. StepsFit("fundBond", FundBondAsyncInput.required,
                 <<DeriveWithdrawer>>)
    <2>1. From(FundBondAsyncInput.required, DeriveWithdrawer)
      BY DEF From, Derive, DeriveWithdrawer, FundBondAsyncInput
    <2> QED  BY <2>1, <1>2, OneFits
  <1>5. StepsFit("fundBond", FundBondAsyncInput.required,
                 Fixed(<<"clock", "stakeHistory", "stakeProgram">>))
    <2>1. IsList(<<"clock", "stakeHistory", "stakeProgram">>)  BY Tuples
    <2> QED
      BY <2>1, FixedFit DEF Interface, fundBond, ToSet
  <1>6. StepsFit("fundBond", FundBondAsyncInput.required,
                 <<DeriveEventAuthority>>)
    <2>1. From(FundBondAsyncInput.required, DeriveEventAuthority)
      BY DEF From, Derive, DeriveEventAuthority, FundBondAsyncInput
    <2> QED  BY <2>1, <1>3, OneFits
  <1>7. StepsFit("fundBond", FundBondAsyncInput.required, getFundBondInstructionAsync)
    BY <1>4, <1>5, <1>6, StepsJoin DEF getFundBondInstructionAsync
  <1> QED  BY <1>1, <1>7
           DEF FitsBoth, Fits, WithAsync, WithoutAsync, Codama, Client,
               Interface, fundBond, FundBondAsyncInput, FundBondInput,
               AndAlso, getFundBondInstruction

LEMMA FitsFundSettlement == FitsBoth("fundSettlement")
  <1>1. StepsFit("fundSettlement", FundSettlementInput.required,
                 Fixed(SetToSeq(getFundSettlementInstruction.defaults)))
    BY SetFits DEF FixedNames, Interface, fundSettlement,
           getFundSettlementInstruction, ToSet
  <1>2. StepFits("fundSettlement", DeriveBond)
    BY DEF StepFits, Derive, DeriveBond, Interface, fundSettlement, ToSet, At,
           Pda, BondOfVote
  <1>3. StepFits("fundSettlement", DeriveStaker)
    BY DEF StepFits, Derive, DeriveStaker, Interface, fundSettlement, ToSet,
           At, Pda, StakerOfSettlement
  <1>4. StepFits("fundSettlement", DeriveWithdrawer)
    BY DEF StepFits, Derive, DeriveWithdrawer, Interface, fundSettlement,
           ToSet, At, Pda, WithdrawerOfConfig
  <1>5. StepFits("fundSettlement", DeriveEventAuthority)
    BY DEF StepFits, Derive, DeriveEventAuthority, Interface, fundSettlement,
           ToSet, At, Pda, EventAuthority
  <1>6. StepsFit("fundSettlement", FundSettlementAsyncInput.required,
                 <<DeriveBond, DeriveStaker, DeriveWithdrawer>>)
    <2>1. /\ From(FundSettlementAsyncInput.required, DeriveBond)
          /\ From(FundSettlementAsyncInput.required \cup {DeriveBond.account}, DeriveStaker)
          /\ From(FundSettlementAsyncInput.required
                    \cup {DeriveBond.account, DeriveStaker.account},
                  DeriveWithdrawer)
      BY DEF From, Derive, DeriveBond, DeriveStaker, DeriveWithdrawer,
             FundSettlementAsyncInput
    <2> QED  BY <2>1, <1>2, <1>3, <1>4, ThreeFit
  <1>7. StepsFit("fundSettlement", FundSettlementAsyncInput.required,
                 Fixed(<<"systemProgram", "stakeHistory", "clock",
                         "rent", "stakeProgram", "stakeConfig">>))
    <2>1. IsList(<<"systemProgram", "stakeHistory", "clock", "rent",
                    "stakeProgram", "stakeConfig">>)  BY Tuples
    <2> QED
      BY <2>1, FixedFit DEF Interface, fundSettlement, ToSet
  <1>8. StepsFit("fundSettlement", FundSettlementAsyncInput.required,
                 <<DeriveEventAuthority>>)
    <2>1. From(FundSettlementAsyncInput.required, DeriveEventAuthority)
      BY DEF From, Derive, DeriveEventAuthority, FundSettlementAsyncInput
    <2> QED  BY <2>1, <1>5, OneFits
  <1>9. StepsFit("fundSettlement", FundSettlementAsyncInput.required,
                 getFundSettlementInstructionAsync)
    BY <1>6, <1>7, <1>8, StepsJoin DEF getFundSettlementInstructionAsync
  <1> QED  BY <1>1, <1>9
           DEF FitsBoth, Fits, WithAsync, WithoutAsync, Codama, Client,
               Interface, fundSettlement, FundSettlementAsyncInput,
               FundSettlementInput, AndAlso, getFundSettlementInstruction

LEMMA FitsInitBond == FitsBoth("initBond")
  <1>1. StepsFit("initBond", InitBondInput.required,
                 Fixed(SetToSeq(getInitBondInstruction.defaults)))
    BY SetFits DEF FixedNames, Interface, initBond, getInitBondInstruction,
           ToSet
  <1>2. StepFits("initBond", DeriveBond)
    BY DEF StepFits, Derive, DeriveBond, Interface, initBond, ToSet, At, Pda,
           BondOfVote
  <1>3. StepFits("initBond", DeriveEventAuthority)
    BY DEF StepFits, Derive, DeriveEventAuthority, Interface, initBond, ToSet,
           At, Pda, EventAuthority
  <1>4. StepsFit("initBond", InitBondAsyncInput.required,
                 <<DeriveBond>>)
    <2>1. From(InitBondAsyncInput.required, DeriveBond)
      BY DEF From, Derive, DeriveBond, InitBondAsyncInput
    <2> QED  BY <2>1, <1>2, OneFits
  <1>5. StepsFit("initBond", InitBondAsyncInput.required,
                 Fixed(<<"systemProgram">>))
    <2>1. IsList(<<"systemProgram">>)  BY Tuples
    <2> QED
      BY <2>1, FixedFit DEF Interface, initBond, ToSet
  <1>6. StepsFit("initBond", InitBondAsyncInput.required,
                 <<DeriveEventAuthority>>)
    <2>1. From(InitBondAsyncInput.required, DeriveEventAuthority)
      BY DEF From, Derive, DeriveEventAuthority, InitBondAsyncInput
    <2> QED  BY <2>1, <1>3, OneFits
  <1>7. StepsFit("initBond", InitBondAsyncInput.required, getInitBondInstructionAsync)
    BY <1>4, <1>5, <1>6, StepsJoin DEF getInitBondInstructionAsync
  <1> QED  BY <1>1, <1>7
           DEF FitsBoth, Fits, WithAsync, WithoutAsync, Codama, Client,
               Interface, initBond, InitBondAsyncInput, InitBondInput,
               AndAlso, getInitBondInstruction

LEMMA FitsInitBondProduct == FitsBoth("initBondProduct")
  <1>1. StepsFit("initBondProduct", InitBondProductInput.required,
                 Fixed(SetToSeq(getInitBondProductInstruction.defaults)))
    BY SetFits DEF FixedNames, Interface, initBondProduct,
           getInitBondProductInstruction, ToSet
  <1>2. StepFits("initBondProduct", DeriveBond)
    BY DEF StepFits, Derive, DeriveBond, Interface, initBondProduct, ToSet,
           At, Pda, BondOfVote
  <1>3. StepFits("initBondProduct", DeriveEventAuthority)
    BY DEF StepFits, Derive, DeriveEventAuthority, Interface, initBondProduct,
           ToSet, At, Pda, EventAuthority
  <1>4. StepsFit("initBondProduct", InitBondProductAsyncInput.required,
                 <<DeriveBond>>)
    <2>1. From(InitBondProductAsyncInput.required, DeriveBond)
      BY DEF From, Derive, DeriveBond, InitBondProductAsyncInput
    <2> QED  BY <2>1, <1>2, OneFits
  <1>5. StepsFit("initBondProduct", InitBondProductAsyncInput.required,
                 Fixed(<<"systemProgram">>))
    <2>1. IsList(<<"systemProgram">>)  BY Tuples
    <2> QED
      BY <2>1, FixedFit DEF Interface, initBondProduct, ToSet
  <1>6. StepsFit("initBondProduct", InitBondProductAsyncInput.required,
                 <<DeriveEventAuthority>>)
    <2>1. From(InitBondProductAsyncInput.required, DeriveEventAuthority)
      BY DEF From, Derive, DeriveEventAuthority, InitBondProductAsyncInput
    <2> QED  BY <2>1, <1>3, OneFits
  <1>7. StepsFit("initBondProduct", InitBondProductAsyncInput.required,
                 getInitBondProductInstructionAsync)
    BY <1>4, <1>5, <1>6, StepsJoin DEF getInitBondProductInstructionAsync
  <1> QED  BY <1>1, <1>7
           DEF FitsBoth, Fits, WithAsync, WithoutAsync, Codama, Client,
               Interface, initBondProduct, InitBondProductAsyncInput,
               InitBondProductInput, AndAlso, getInitBondProductInstruction

LEMMA FitsInitConfig == FitsBoth("initConfig")
  <1>1. StepsFit("initConfig", InitConfigInput.required,
                 Fixed(SetToSeq(getInitConfigInstruction.defaults)))
    BY SetFits DEF FixedNames, Interface, initConfig,
           getInitConfigInstruction, ToSet
  <1>2. StepFits("initConfig", DeriveEventAuthority)
    BY DEF StepFits, Derive, DeriveEventAuthority, Interface, initConfig,
           ToSet, At, Pda, EventAuthority
  <1>3. StepsFit("initConfig", InitConfigAsyncInput.required,
                 Fixed(<<"systemProgram">>))
    <2>1. IsList(<<"systemProgram">>)  BY Tuples
    <2> QED
      BY <2>1, FixedFit DEF Interface, initConfig, ToSet
  <1>4. StepsFit("initConfig", InitConfigAsyncInput.required,
                 <<DeriveEventAuthority>>)
    <2>1. From(InitConfigAsyncInput.required, DeriveEventAuthority)
      BY DEF From, Derive, DeriveEventAuthority, InitConfigAsyncInput
    <2> QED  BY <2>1, <1>2, OneFits
  <1>5. StepsFit("initConfig", InitConfigAsyncInput.required, getInitConfigInstructionAsync)
    BY <1>3, <1>4, StepsJoin DEF getInitConfigInstructionAsync
  <1> QED  BY <1>1, <1>5
           DEF FitsBoth, Fits, WithAsync, WithoutAsync, Codama, Client,
               Interface, initConfig, InitConfigAsyncInput, InitConfigInput,
               AndAlso, getInitConfigInstruction

LEMMA FitsInitSettlement == FitsBoth("initSettlement")
  <1>1. StepsFit("initSettlement", InitSettlementInput.required,
                 Fixed(SetToSeq(getInitSettlementInstruction.defaults)))
    BY SetFits DEF FixedNames, Interface, initSettlement,
           getInitSettlementInstruction, ToSet
  <1>2. StepFits("initSettlement", DeriveClaims)
    BY DEF StepFits, Derive, DeriveClaims, Interface, initSettlement, ToSet,
           At, Pda, ClaimsOfSettlement
  <1>3. StepFits("initSettlement", DeriveEventAuthority)
    BY DEF StepFits, Derive, DeriveEventAuthority, Interface, initSettlement,
           ToSet, At, Pda, EventAuthority
  <1>4. StepsFit("initSettlement", InitSettlementAsyncInput.required,
                 <<DeriveClaims>>)
    <2>1. From(InitSettlementAsyncInput.required, DeriveClaims)
      BY DEF From, Derive, DeriveClaims, InitSettlementAsyncInput
    <2> QED  BY <2>1, <1>2, OneFits
  <1>5. StepsFit("initSettlement", InitSettlementAsyncInput.required,
                 Fixed(<<"systemProgram">>))
    <2>1. IsList(<<"systemProgram">>)  BY Tuples
    <2> QED
      BY <2>1, FixedFit DEF Interface, initSettlement, ToSet
  <1>6. StepsFit("initSettlement", InitSettlementAsyncInput.required,
                 <<DeriveEventAuthority>>)
    <2>1. From(InitSettlementAsyncInput.required, DeriveEventAuthority)
      BY DEF From, Derive, DeriveEventAuthority, InitSettlementAsyncInput
    <2> QED  BY <2>1, <1>3, OneFits
  <1>7. StepsFit("initSettlement", InitSettlementAsyncInput.required,
                 getInitSettlementInstructionAsync)
    BY <1>4, <1>5, <1>6, StepsJoin DEF getInitSettlementInstructionAsync
  <1> QED  BY <1>1, <1>7
           DEF FitsBoth, Fits, WithAsync, WithoutAsync, Codama, Client,
               Interface, initSettlement, InitSettlementAsyncInput,
               InitSettlementInput, AndAlso, getInitSettlementInstruction

LEMMA FitsInitWithdrawRequest == FitsBoth("initWithdrawRequest")
  <1>1. StepsFit("initWithdrawRequest", InitWithdrawRequestInput.required,
                 Fixed(SetToSeq(getInitWithdrawRequestInstruction.defaults)))
    BY SetFits DEF FixedNames, Interface, initWithdrawRequest,
           getInitWithdrawRequestInstruction, ToSet
  <1>2. StepFits("initWithdrawRequest", DeriveBond)
    BY DEF StepFits, Derive, DeriveBond, Interface, initWithdrawRequest,
           ToSet, At, Pda, BondOfVote
  <1>3. StepFits("initWithdrawRequest", DeriveRequest)
    BY DEF StepFits, Derive, DeriveRequest, Interface, initWithdrawRequest,
           ToSet, At, Pda, RequestOfBond
  <1>4. StepFits("initWithdrawRequest", DeriveEventAuthority)
    BY DEF StepFits, Derive, DeriveEventAuthority, Interface,
           initWithdrawRequest, ToSet, At, Pda, EventAuthority
  <1>5. StepsFit("initWithdrawRequest", InitWithdrawRequestAsyncInput.required,
                 <<DeriveBond, DeriveRequest>>)
    <2>1. /\ From(InitWithdrawRequestAsyncInput.required, DeriveBond)
          /\ From(InitWithdrawRequestAsyncInput.required \cup {DeriveBond.account},
                  DeriveRequest)
      BY DEF From, Derive, DeriveBond, DeriveRequest,
             InitWithdrawRequestAsyncInput
    <2> QED  BY <2>1, <1>2, <1>3, TwoFit
  <1>6. StepsFit("initWithdrawRequest", InitWithdrawRequestAsyncInput.required,
                 Fixed(<<"systemProgram">>))
    <2>1. IsList(<<"systemProgram">>)  BY Tuples
    <2> QED
      BY <2>1, FixedFit DEF Interface, initWithdrawRequest, ToSet
  <1>7. StepsFit("initWithdrawRequest", InitWithdrawRequestAsyncInput.required,
                 <<DeriveEventAuthority>>)
    <2>1. From(InitWithdrawRequestAsyncInput.required, DeriveEventAuthority)
      BY DEF From, Derive, DeriveEventAuthority, InitWithdrawRequestAsyncInput
    <2> QED  BY <2>1, <1>4, OneFits
  <1>8. StepsFit("initWithdrawRequest", InitWithdrawRequestAsyncInput.required,
                 getInitWithdrawRequestInstructionAsync)
    BY <1>5, <1>6, <1>7, StepsJoin DEF getInitWithdrawRequestInstructionAsync
  <1> QED  BY <1>1, <1>8
           DEF FitsBoth, Fits, WithAsync, WithoutAsync, Codama, Client,
               Interface, initWithdrawRequest, InitWithdrawRequestAsyncInput,
               InitWithdrawRequestInput, AndAlso,
               getInitWithdrawRequestInstruction

LEMMA FitsMergeStake == FitsBoth("mergeStake")
  <1>1. StepsFit("mergeStake", MergeStakeInput.required,
                 Fixed(SetToSeq(getMergeStakeInstruction.defaults)))
    BY SetFits DEF FixedNames, Interface, mergeStake,
           getMergeStakeInstruction, ToSet
  <1>2. StepFits("mergeStake", DeriveEventAuthority)
    BY DEF StepFits, Derive, DeriveEventAuthority, Interface, mergeStake,
           ToSet, At, Pda, EventAuthority
  <1>3. StepsFit("mergeStake", MergeStakeAsyncInput.required,
                 Fixed(<<"stakeHistory", "clock", "stakeProgram">>))
    <2>1. IsList(<<"stakeHistory", "clock", "stakeProgram">>)  BY Tuples
    <2> QED
      BY <2>1, FixedFit DEF Interface, mergeStake, ToSet
  <1>4. StepsFit("mergeStake", MergeStakeAsyncInput.required,
                 <<DeriveEventAuthority>>)
    <2>1. From(MergeStakeAsyncInput.required, DeriveEventAuthority)
      BY DEF From, Derive, DeriveEventAuthority, MergeStakeAsyncInput
    <2> QED  BY <2>1, <1>2, OneFits
  <1>5. StepsFit("mergeStake", MergeStakeAsyncInput.required, getMergeStakeInstructionAsync)
    BY <1>3, <1>4, StepsJoin DEF getMergeStakeInstructionAsync
  <1> QED  BY <1>1, <1>5
           DEF FitsBoth, Fits, WithAsync, WithoutAsync, Codama, Client,
               Interface, mergeStake, MergeStakeAsyncInput, MergeStakeInput,
               AndAlso, getMergeStakeInstruction

LEMMA FitsMintBond == FitsBoth("mintBond")
  <1>1. StepsFit("mintBond", MintBondInput.required,
                 Fixed(SetToSeq(getMintBondInstruction.defaults)))
    BY SetFits DEF FixedNames, Interface, mintBond, getMintBondInstruction,
           ToSet
  <1>2. StepFits("mintBond", DeriveBond)
    BY DEF StepFits, Derive, DeriveBond, Interface, mintBond, ToSet, At, Pda,
           BondOfVote
  <1>3. StepFits("mintBond", DeriveMint)
    BY DEF StepFits, Derive, DeriveMint, Interface, mintBond, ToSet, At, Pda,
           MintOfIdentity
  <1>4. StepFits("mintBond", DeriveTokenAccount)
    BY DEF StepFits, Derive, DeriveTokenAccount, Interface, mintBond, ToSet,
           At, Pda, TokensOfIdentity
  <1>5. StepFits("mintBond", DeriveEventAuthority)
    BY DEF StepFits, Derive, DeriveEventAuthority, Interface, mintBond, ToSet,
           At, Pda, EventAuthority
  <1>6. StepsFit("mintBond", MintBondAsyncInput.required,
                 <<DeriveBond, DeriveMint, DeriveTokenAccount>>)
    <2>1. /\ From(MintBondAsyncInput.required, DeriveBond)
          /\ From(MintBondAsyncInput.required \cup {DeriveBond.account}, DeriveMint)
          /\ From(MintBondAsyncInput.required \cup {DeriveBond.account, DeriveMint.account},
                  DeriveTokenAccount)
      BY DEF From, Derive, DeriveBond, DeriveMint, DeriveTokenAccount,
             MintBondAsyncInput
    <2> QED  BY <2>1, <1>2, <1>3, <1>4, ThreeFit
  <1>7. StepsFit("mintBond", MintBondAsyncInput.required,
                 Fixed(<<"systemProgram", "tokenProgram", "associatedTokenProgram",
                         "metadataProgram", "rent">>))
    <2>1. IsList(<<"systemProgram", "tokenProgram", "associatedTokenProgram",
                    "metadataProgram", "rent">>)  BY Tuples
    <2> QED
      BY <2>1, FixedFit DEF Interface, mintBond, ToSet
  <1>8. StepsFit("mintBond", MintBondAsyncInput.required,
                 <<DeriveEventAuthority>>)
    <2>1. From(MintBondAsyncInput.required, DeriveEventAuthority)
      BY DEF From, Derive, DeriveEventAuthority, MintBondAsyncInput
    <2> QED  BY <2>1, <1>5, OneFits
  <1>9. StepsFit("mintBond", MintBondAsyncInput.required, getMintBondInstructionAsync)
    BY <1>6, <1>7, <1>8, StepsJoin DEF getMintBondInstructionAsync
  <1> QED  BY <1>1, <1>9
           DEF FitsBoth, Fits, WithAsync, WithoutAsync, Codama, Client,
               Interface, mintBond, MintBondAsyncInput, MintBondInput,
               AndAlso, getMintBondInstruction

LEMMA FitsResetStake == FitsBoth("resetStake")
  <1>1. StepsFit("resetStake", ResetStakeInput.required,
                 Fixed(SetToSeq(getResetStakeInstruction.defaults)))
    BY SetFits DEF FixedNames, Interface, resetStake,
           getResetStakeInstruction, ToSet
  <1>2. StepFits("resetStake", DeriveBond)
    BY DEF StepFits, Derive, DeriveBond, Interface, resetStake, ToSet, At,
           Pda, BondOfVote
  <1>3. StepFits("resetStake", DeriveWithdrawer)
    BY DEF StepFits, Derive, DeriveWithdrawer, Interface, resetStake, ToSet,
           At, Pda, WithdrawerOfConfig
  <1>4. StepFits("resetStake", DeriveEventAuthority)
    BY DEF StepFits, Derive, DeriveEventAuthority, Interface, resetStake,
           ToSet, At, Pda, EventAuthority
  <1>5. StepsFit("resetStake", ResetStakeAsyncInput.required,
                 <<DeriveBond, DeriveWithdrawer>>)
    <2>1. /\ From(ResetStakeAsyncInput.required, DeriveBond)
          /\ From(ResetStakeAsyncInput.required \cup {DeriveBond.account}, DeriveWithdrawer)
      BY DEF From, Derive, DeriveBond, DeriveWithdrawer, ResetStakeAsyncInput
    <2> QED  BY <2>1, <1>2, <1>3, TwoFit
  <1>6. StepsFit("resetStake", ResetStakeAsyncInput.required,
                 Fixed(<<"stakeHistory", "stakeConfig", "clock", "stakeProgram">>))
    <2>1. IsList(<<"stakeHistory", "stakeConfig", "clock", "stakeProgram">>)  BY Tuples
    <2> QED
      BY <2>1, FixedFit DEF Interface, resetStake, ToSet
  <1>7. StepsFit("resetStake", ResetStakeAsyncInput.required,
                 <<DeriveEventAuthority>>)
    <2>1. From(ResetStakeAsyncInput.required, DeriveEventAuthority)
      BY DEF From, Derive, DeriveEventAuthority, ResetStakeAsyncInput
    <2> QED  BY <2>1, <1>4, OneFits
  <1>8. StepsFit("resetStake", ResetStakeAsyncInput.required, getResetStakeInstructionAsync)
    BY <1>5, <1>6, <1>7, StepsJoin DEF getResetStakeInstructionAsync
  <1> QED  BY <1>1, <1>8
           DEF FitsBoth, Fits, WithAsync, WithoutAsync, Codama, Client,
               Interface, resetStake, ResetStakeAsyncInput, ResetStakeInput,
               AndAlso, getResetStakeInstruction

LEMMA FitsUpsizeSettlementClaims == FitsBoth("upsizeSettlementClaims")
  <1>1. StepsFit("upsizeSettlementClaims", UpsizeSettlementClaimsInput.required,
                 Fixed(SetToSeq(getUpsizeSettlementClaimsInstruction.defaults)))
    BY SetFits DEF FixedNames, Interface, upsizeSettlementClaims,
           getUpsizeSettlementClaimsInstruction, ToSet
  <1> QED  BY <1>1
           DEF FitsBoth, Fits, WithAsync, WithoutAsync, Codama, Client,
               Interface, upsizeSettlementClaims, UpsizeSettlementClaimsInput,
               AndAlso, getUpsizeSettlementClaimsInstruction

LEMMA FitsWithdrawStake == FitsBoth("withdrawStake")
  <1>1. StepsFit("withdrawStake", WithdrawStakeInput.required,
                 Fixed(SetToSeq(getWithdrawStakeInstruction.defaults)))
    BY SetFits DEF FixedNames, Interface, withdrawStake,
           getWithdrawStakeInstruction, ToSet
  <1>2. StepFits("withdrawStake", DeriveWithdrawer)
    BY DEF StepFits, Derive, DeriveWithdrawer, Interface, withdrawStake,
           ToSet, At, Pda, WithdrawerOfConfig
  <1>3. StepFits("withdrawStake", DeriveEventAuthority)
    BY DEF StepFits, Derive, DeriveEventAuthority, Interface, withdrawStake,
           ToSet, At, Pda, EventAuthority
  <1>4. StepsFit("withdrawStake", WithdrawStakeAsyncInput.required,
                 <<DeriveWithdrawer>>)
    <2>1. From(WithdrawStakeAsyncInput.required, DeriveWithdrawer)
      BY DEF From, Derive, DeriveWithdrawer, WithdrawStakeAsyncInput
    <2> QED  BY <2>1, <1>2, OneFits
  <1>5. StepsFit("withdrawStake", WithdrawStakeAsyncInput.required,
                 Fixed(<<"stakeHistory", "clock", "stakeProgram">>))
    <2>1. IsList(<<"stakeHistory", "clock", "stakeProgram">>)  BY Tuples
    <2> QED
      BY <2>1, FixedFit DEF Interface, withdrawStake, ToSet
  <1>6. StepsFit("withdrawStake", WithdrawStakeAsyncInput.required,
                 <<DeriveEventAuthority>>)
    <2>1. From(WithdrawStakeAsyncInput.required, DeriveEventAuthority)
      BY DEF From, Derive, DeriveEventAuthority, WithdrawStakeAsyncInput
    <2> QED  BY <2>1, <1>3, OneFits
  <1>7. StepsFit("withdrawStake", WithdrawStakeAsyncInput.required,
                 getWithdrawStakeInstructionAsync)
    BY <1>4, <1>5, <1>6, StepsJoin DEF getWithdrawStakeInstructionAsync
  <1> QED  BY <1>1, <1>7
           DEF FitsBoth, Fits, WithAsync, WithoutAsync, Codama, Client,
               Interface, withdrawStake, WithdrawStakeAsyncInput,
               WithdrawStakeInput, AndAlso, getWithdrawStakeInstruction

LEMMA EveryClientFits ==
  ASSUME NEW ix \in Instructions
  PROVE  FitsBoth(ix)
  BY InstructionNames, FitsCancelSettlement, FitsCancelWithdrawRequest,
     FitsClaimSettlementV1, FitsClaimSettlementV2, FitsClaimWithdrawRequest,
     FitsCloseSettlementV2, FitsConfigureBond, FitsConfigureBondProduct,
     FitsConfigureBondWithMint, FitsConfigureConfig, FitsEmergencyPause,
     FitsEmergencyResume, FitsFundBond, FitsFundSettlement, FitsInitBond,
     FitsInitBondProduct, FitsInitConfig, FitsInitSettlement,
     FitsInitWithdrawRequest, FitsMergeStake, FitsMintBond, FitsResetStake,
     FitsUpsizeSettlementClaims, FitsWithdrawStake

-----------------------------------------------------------------------------
(* The generated client, given what it requires and cannot derive of the   *)
(* accounts of a transaction that the program takes, sends what the SDK    *)
(* sent: the same addresses in the same order, and the same roles.         *)
THEOREM ClientsSendTheSame ==
  ASSUME Apart
  PROVE  Spec => []ClientsAgree
  <1>1. ASSUME ClientInv PROVE ClientsAgree
    <2> SUFFICES ASSUME phase = "accepted", NEW i \in DOMAIN tx,
                        NEW variant \in {WithAsync(tx[i].ix), WithoutAsync(tx[i].ix)}
                 PROVE  CodamaWire(tx[i].ix, variant, GivenOf(i, Needed(tx[i].ix, variant)))
                           = tx[i].wire
      BY DEF ClientsAgree
    <2>1. tx[i].ix \in Instructions /\ ProperlyBuilt(tx[i])
      BY <1>1 DEF ClientInv, TypeOK, ProperlyMade
    <2>2. Takes(KeysBefore(live, tx, i), tx[i])
      BY <1>1 DEF ClientInv, Accepts
    <2>3. AddressesMatch(KeysBefore(live, tx, i), Interface[tx[i].ix], Sent(i), tx[i].args)
      BY <2>2 DEF Takes, AccountsMatch, Sent
    <2>4. AsDerived(tx[i].ix, Sent(i))  BY <2>3, TakenIsDerived
    <2>5. Fits(tx[i].ix, variant)  BY <2>1, EveryClientFits DEF FitsBoth
    <2> QED  BY <2>1, <2>4, <2>5, WireAgrees
  <1> QED  BY <1>1, ClientInvariant, PTL
=============================================================================
