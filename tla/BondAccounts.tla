---------------------------- MODULE BondAccounts ----------------------------
(***************************************************************************)
(* The accounts a client of the validator-bonds program works with: their  *)
(* addresses, and what the accounts hold that clients read and the program *)
(* compares.  An address derived from a prefix and seeds is the tuple of   *)
(* them: two derivations meet only if they agree on all of it, which is    *)
(* what a hash gives.                                                      *)
(*                                                                         *)
(* A family is a bond with what belongs to it: the vote account it is      *)
(* created for, under a config, its settlements, withdraw request, product *)
(* and stake accounts.                                                     *)
(***************************************************************************)
EXTENDS Naturals, SequencesExt

CONSTANTS
    Null,                        \* not given, not found
    ProgramId,                   \* the program; also what stands for None
    Configs, Votes,
    MARINADE_CONFIG_ADDRESS,     \* the config used by default
    Families,                    \* the bonds that exist
    WithCommission               \* those that have a commission product

ASSUME AccountsAssumption ==
    /\ MARINADE_CONFIG_ADDRESS \in Configs
    /\ Families \subseteq Configs \X Votes
    /\ WithCommission \subseteq Families

FixedAddress(name) == <<"address", name>>
Fresh(name) == <<"fresh", name>>             \* Keypair.generate()
Key(role, owner) == <<"key", role, owner>>
Spare == <<"key", "spare">>

(* sdk.ts                                                                  *)
bondAddress(config, voteAccount) == <<"bond_account", config, voteAccount>>
bondProductAddress(bond, productType) == <<"bond_product", bond, productType>>
bondsWithdrawerAuthority(config) == <<"bonds_authority", config>>
settlementAddress(bond, merkleRoot, epoch) ==
    <<"settlement_account", bond, merkleRoot, epoch>>
settlementStakerAuthority(settlement) == <<"settlement_authority", settlement>>
settlementClaimsAddress(settlement) == <<"claims_account", settlement>>
withdrawRequestAddress(bond) == <<"withdraw_account", bond>>
bondMintAddress(bond, validatorIdentity) == <<"bond_mint", bond, validatorIdentity>>
eventAuthorityAddress == <<"__event_authority">>

(* of the token and the metadata program                                   *)
getAssociatedTokenAddressSync(mint, owner) == <<"associated_token", owner, mint>>
tokenMetadataAddress(mint) == <<"metadata", mint>>

-----------------------------------------------------------------------------
(* A family has a settlement that is open, one closed before, and one that *)
(* is about to be created.                                                 *)
Roots == {"open", "closed", "new"}
Epoch == 7

BondAt(f) == bondAddress(f[1], f[2])
SettlementAt(f, root) == settlementAddress(BondAt(f), root, Epoch)
StakeAt(f, kind) == <<"stake_account", kind, BondAt(f)>>

(* What does not change of an account                                      *)
Bond(f) == [config |-> f[1], voteAccount |-> f[2]]

Settlement(f) ==
    [bond            |-> BondAt(f),
     stakerAuthority |-> settlementStakerAuthority(SettlementAt(f, "open")),
     merkleRoot      |-> "open",
     epochCreatedFor |-> Epoch]

SettlementClaims(f) == [settlement |-> SettlementAt(f, "open")]

WithdrawRequest(f) == [voteAccount |-> f[2], bond |-> BondAt(f)]

BondProduct(f, type) ==
    [config |-> f[1], bond |-> BondAt(f), voteAccount |-> f[2], productType |-> type]

StakeAccount(staker, withdrawer, voter) ==
    [staker |-> staker, withdrawer |-> withdrawer, voter |-> voter]

(* A validator's own stake account, two deposited ones, one funded to the  *)
(* open settlement, two left by the closed one, deactivated or not, and    *)
(* that of a creditor                                                      *)
StakeAccounts(f) ==
    LET bonds == bondsWithdrawerAuthority(f[1])
        former == settlementStakerAuthority(SettlementAt(f, "closed"))
        funded == settlementStakerAuthority(SettlementAt(f, "open"))
        own == Key("owner", f)
    IN  (StakeAt(f, "own") :> StakeAccount(own, own, f[2]))
        @@ (StakeAt(f, "deposit") :> StakeAccount(bonds, bonds, f[2]))
        @@ (StakeAt(f, "small") :> StakeAccount(bonds, bonds, f[2]))
        @@ (StakeAt(f, "funded") :> StakeAccount(funded, bonds, f[2]))
        @@ (StakeAt(f, "unreset") :> StakeAccount(former, bonds, f[2]))
        @@ (StakeAt(f, "undelegated") :> StakeAccount(former, bonds, Null))
        @@ (StakeAt(f, "creditor") :>
                StakeAccount(Key("staker", f), Key("creditor", f), f[2]))

AccountsOf(f) ==
    (BondAt(f) :> Bond(f))
    @@ (SettlementAt(f, "open") :> Settlement(f))
    @@ (settlementClaimsAddress(SettlementAt(f, "open")) :> SettlementClaims(f))
    @@ (withdrawRequestAddress(BondAt(f)) :> WithdrawRequest(f))
    @@ (IF f \notin WithCommission THEN <<>>
        ELSE bondProductAddress(BondAt(f), "commission") :> BondProduct(f, "commission"))
    @@ (bondProductAddress(BondAt(f), "custom") :> BondProduct(f, "custom"))
    @@ StakeAccounts(f)

Ledger ==
    FoldSet(LAMBDA f, accounts : AccountsOf(f) @@ accounts, <<>>, Families)

(* The program is none of these accounts, and none of them names it.       *)
ASSUME ProgramAssumption ==
    /\ ProgramId \notin {Null} \cup Configs \cup Votes \cup DOMAIN Ledger
    /\ \A address \in DOMAIN Ledger : \A field \in DOMAIN Ledger[address] :
          Ledger[address][field] # ProgramId

(* What does: <<address, field>> -> key                                    *)
ConfigKeys(c) ==
    [field \in {"adminAuthority", "operatorAuthority", "pauseAuthority"} |->
        Key(field, c)]

FirstKey(account, field) ==
    CASE field \in DOMAIN ConfigKeys(account) -> ConfigKeys(account)[field]
      [] field = "nodePubkey"                 -> Key("identity", account)
      [] field = "authority"                  -> Key("bond", account)
      [] field = "rentCollector"              -> Key("rent", account)
      [] field = "splitRentCollector"         -> Null

FirstKeys ==
    LET settlements == {SettlementAt(f, "open") : f \in Families}
    IN  [k \in (Configs \X DOMAIN ConfigKeys(MARINADE_CONFIG_ADDRESS))
                \cup (Votes \X {"nodePubkey"})
                \cup ({BondAt(f) : f \in Families} \X {"authority"})
                \cup (settlements \X {"rentCollector", "splitRentCollector"}) |->
            FirstKey(k[1], k[2])]

(* A field of an account as it is now, Null if there is no such account    *)
Data(live, address, field) ==
    IF <<address, field>> \in DOMAIN live THEN live[<<address, field>>]
    ELSE IF address \in DOMAIN Ledger /\ field \in DOMAIN Ledger[address]
         THEN Ledger[address][field]
         ELSE Null
=============================================================================
