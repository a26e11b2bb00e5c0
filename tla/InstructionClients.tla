-------------------------- MODULE InstructionClients --------------------------
(***************************************************************************)
(* The clients of the program at work.  A caller knows some accounts of a  *)
(* bond and calls a builder of the SDK or a command of the CLI, which      *)
(* reads what it lacks; the transaction is sent later, and the program     *)
(* takes or refuses it.                                                    *)
(* Meanwhile an authority, a validator identity or the rent collector of a *)
(* settlement may change.  One account that the caller gives may be that   *)
(* of another bond.                                                        *)
(*                                                                         *)
(* In the same state the generated client is asked for the same            *)
(* instruction, and an observer parses what was sent.                      *)
(***************************************************************************)
EXTENDS CliCommands, CodamaClients

CONSTANT Offers
    \* what callers give: records of a builder or a command, the kinds of
    \* address it takes, the parameters it requires, those that it may be
    \* given, and the sets of facts that tell which bond, config or
    \* settlement is meant

Builders ==
    {"cancelSettlement", "cancelWithdrawRequest", "claimSettlementV2", "claimWithdrawRequest",
     "closeSettlementV2", "configureBond", "configureCommissionProduct",
     "configureCustomProduct", "configureBondWithMint", "configureConfig", "emergencyPause",
     "emergencyResume", "fundBond", "fundSettlement", "initBond", "initCommissionProduct",
     "initCustomProduct", "initConfig", "initSettlement", "initWithdrawRequest", "mergeStake",
     "mintBond", "resetStake", "upsizeSettlementClaims", "withdrawStake"}

Commands ==
    {"manageCancelWithdrawRequest", "manageClaimWithdrawRequest", "manageCloseSettlement",
     "manageConfigureBond", "manageConfigureConfig", "pause", "resume", "manageFundBond",
     "manageInitBond", "manageInitConfig", "manageInitWithdrawRequest", "manageMerge",
     "manageMintBond", "manageResetStake"}

Kinds == {"by nothing", "by bond", "by request", "by vote", "by identity", "by stake"}

ASSUME OffersAssumption ==
    \A o \in Offers : o.builder \in Builders \cup Commands /\ o.kinds \subseteq Kinds

VARIABLES
    live,      \* the fields that change: <<address, field>> -> key
    changed,   \* one of them changed since the call
    call,      \* the offer, the family, what is given of it
    tx,        \* what was made of it, a sequence of instructions
    phase      \* called, thrown, built, accepted, refused

vars == <<live, changed, call, tx, phase>>

BuiltBy(builder, in) ==
    CASE builder = "cancelSettlement"      -> cancelSettlementInstruction(live, in)
      [] builder = "cancelWithdrawRequest" -> cancelWithdrawRequestInstruction(live, in)
      [] builder = "claimSettlementV2"     -> claimSettlementV2Instruction(live, in)
      [] builder = "claimWithdrawRequest"  -> claimWithdrawRequestInstruction(live, in)
      [] builder = "closeSettlementV2"     -> closeSettlementV2Instruction(live, in)
      [] builder = "configureBond"         -> configureBondInstruction(live, in)
      [] builder = "configureCommissionProduct" ->
            configureCommissionProductInstruction(live, in)
      [] builder = "configureCustomProduct" -> configureCustomProductInstruction(live, in)
      [] builder = "configureBondWithMint" -> configureBondWithMintInstruction(live, in)
      [] builder = "configureConfig"       -> configureConfigInstruction(live, in)
      [] builder = "emergencyPause"        -> emergencyPauseInstruction(live, in)
      [] builder = "emergencyResume"       -> emergencyResumeInstruction(live, in)
      [] builder = "fundBond"              -> fundBondInstruction(live, in)
      [] builder = "fundSettlement"        -> fundSettlementInstruction(live, in)
      [] builder = "initBond"              -> initBondInstruction(live, in)
      [] builder = "initCommissionProduct" -> initCommissionProductInstruction(live, in)
      [] builder = "initCustomProduct"     -> initCustomProductInstruction(live, in)
      [] builder = "initConfig"            -> initConfigInstruction(live, in)
      [] builder = "initSettlement"        -> initSettlementInstruction(live, in)
      [] builder = "initWithdrawRequest"   -> initWithdrawRequestInstruction(live, in)
      [] builder = "mergeStake"            -> mergeStakeInstruction(live, in)
      [] builder = "mintBond"              -> mintBondInstruction(live, in)
      [] builder = "resetStake"            -> resetStakeInstruction(live, in)
      [] builder = "upsizeSettlementClaims" -> upsizeSettlementClaimsInstruction(live, in)
      [] builder = "withdrawStake"         -> withdrawStakeInstruction(live, in)

MadeBy(builder, in) ==
    CASE builder = "manageCancelWithdrawRequest" -> manageCancelWithdrawRequest(live, in)
      [] builder = "manageClaimWithdrawRequest"  -> manageClaimWithdrawRequest(live, in)
      [] builder = "manageCloseSettlement"       -> manageCloseSettlement(live, in)
      [] builder = "manageConfigureBond"         -> manageConfigureBond(live, in)
      [] builder = "manageConfigureConfig"       -> manageConfigureConfig(live, in)
      [] builder \in {"pause", "resume"} -> manageEmergencyPauseAndResume(live, in, builder)
      [] builder = "manageFundBond"              -> manageFundBond(live, in)
      [] builder = "manageInitBond"              -> manageInitBond(live, in)
      [] builder = "manageInitConfig"            -> manageInitConfig(live, in)
      [] builder = "manageInitWithdrawRequest"   -> manageInitWithdrawRequest(live, in)
      [] builder = "manageMerge"                 -> manageMerge(live, in)
      [] builder = "manageMintBond"              -> manageMintBond(live, in)
      [] builder = "manageResetStake"            -> manageResetStake(live, in)
      [] OTHER                                   -> Single(BuiltBy(builder, in))

-----------------------------------------------------------------------------
(* What a caller who acts on family f knows                                *)
Known(f) ==
    LET settlement == SettlementAt(f, "open")
    IN  [address                |-> Null,
         config                 |-> f[1],
         voteAccount            |-> f[2],
         bond                   |-> BondAt(f),
         withdrawRequest        |-> withdrawRequestAddress(BondAt(f)),
         bondProduct            |-> bondProductAddress(BondAt(f), "commission"),
         productType            |-> "commission",
         settlement             |-> settlement,
         settlementClaims       |-> settlementClaimsAddress(settlement),
         merkleRoot             |-> "open",
         epoch                  |-> Epoch,
         rentCollector          |-> Key("rent", settlement),
         splitRentCollector     |-> Key("payer", settlement),
         splitRentRefundAccount |-> StakeAt(f, "funded"),
         splitStakeAccount      |-> Fresh("given"),
         stakeAccount           |-> StakeAt(f, "deposit"),
         sourceStake            |-> StakeAt(f, "small"),
         destinationStake       |-> StakeAt(f, "deposit"),
         stakerAuthority        |-> bondsWithdrawerAuthority(f[1]),
         stakeAccountFrom       |-> StakeAt(f, "funded"),
         stakeAccountTo         |-> StakeAt(f, "creditor"),
         stakeAccountStaker     |-> Key("staker", f),
         stakeAccountWithdrawer |-> Key("creditor", f),
         stakeAuthority         |-> Key("owner", f),
         authority              |-> Key("bond", BondAt(f)),
         newBondAuthority       |-> <<"key", "new">>,
         withToken              |-> "yes",
         commission             |-> "yes",
         adminAuthority         |-> Key("adminAuthority", f[1]),
         operatorAuthority      |-> Key("operatorAuthority", f[1]),
         pauseAuthority         |-> Key("pauseAuthority", f[1]),
         validatorIdentity      |-> Key("identity", f[2]),
         tokenAuthority         |-> Key("holder", f),
         tokenAccount           |-> Key("tokens", f),
         metadata               |->
            tokenMetadataAddress(bondMintAddress(BondAt(f), Key("identity", f[2]))),
         withdrawer             |-> Key("owner", f),
         withdrawTo             |-> Key("owner", f),
         wallet                 |-> Key("bond", BondAt(f))]

(* ... as far as it depends on the builder                                 *)
KnownFor(builder, f) ==
    CASE builder \in {"fundBond", "manageFundBond"} ->
            [Known(f) EXCEPT !.stakeAccount = StakeAt(f, "own"), !.wallet = Key("owner", f)]
      [] builder \in {"resetStake", "manageResetStake"} ->
            [Known(f) EXCEPT !.settlement = SettlementAt(f, "closed"),
                             !.stakeAccount = StakeAt(f, "unreset")]
      [] builder = "withdrawStake" ->
            [Known(f) EXCEPT !.settlement = SettlementAt(f, "closed"),
                             !.stakeAccount = StakeAt(f, "undelegated")]
      [] builder = "initSettlement" -> [Known(f) EXCEPT !.merkleRoot = "new"]
      [] builder \in {"initCustomProduct", "configureCustomProduct"} ->
            [Known(f) EXCEPT !.productType = "custom",
                             !.bondProduct = bondProductAddress(BondAt(f), "custom")]
      [] builder = "cancelSettlement" ->
            [Known(f) EXCEPT !.authority = Key("operatorAuthority", f[1]),
                             !.wallet = Key("operatorAuthority", f[1])]
      [] builder = "manageConfigureConfig" ->
            [Known(f) EXCEPT !.wallet = Key("adminAuthority", f[1])]
      [] builder \in {"pause", "resume"} ->
            [Known(f) EXCEPT !.wallet = Key("pauseAuthority", f[1])]
      [] OTHER -> Known(f)

(* The kinds of an address that is given to a command                      *)
AddressOf(kind, f) ==
    CASE kind = "by nothing"  -> Null
      [] kind = "by bond"     -> BondAt(f)
      [] kind = "by request"  -> withdrawRequestAddress(BondAt(f))
      [] kind = "by vote"     -> f[2]
      [] kind = "by identity" -> Key("identity", f[2])
      [] kind = "by stake"    -> StakeAt(f, "deposit")

(* the validator may act for a bond by its identity                        *)
Value(c, f, name) ==
    IF c.asIdentity /\ name = "authority" THEN Key("identity", f[2])
    ELSE KnownFor(c.offer.builder, f)[name]

(* What is given; foreign is <<>> or the parameter that another family's   *)
(* account is given for, and that family.                                  *)
Input(c) ==
    [n \in DOMAIN Known(c.family) |->
        IF n = "wallet" THEN Value(c, c.family, n)
        ELSE IF n = "address" THEN AddressOf(c.kind, c.family)
        ELSE IF n \notin c.names THEN Null
        ELSE IF c.foreign # <<>> /\ n = c.foreign[1] THEN Value(c, c.foreign[2], n)
        ELSE Value(c, c.family, n)]

-----------------------------------------------------------------------------
Funded(keys) ==
    [k \in DOMAIN keys |-> IF k[2] = "splitRentCollector" THEN Key("payer", k[1]) ELSE keys[k]]

Calls ==
    UNION {[offer : {o}, family : Families, names : {o.always \cup some : some \in SUBSET o.maybe},
            foreign : {<<>>} \cup ((o.always \cup o.maybe) \X Families),
            kind : o.kinds, asIdentity : BOOLEAN] : o \in Offers}

Sensible(c) ==
    /\ c.asIdentity => "authority" \in c.names /\ c.offer.builder # "cancelSettlement"
    /\ c.foreign # <<>> =>
          /\ c.foreign[1] \in c.names
          /\ Value(c, c.family, c.foreign[1]) # Value(c, c.foreign[2], c.foreign[1])

Init ==
    /\ live \in {FirstKeys, Funded(FirstKeys)}
    /\ changed = FALSE
    /\ call \in {c \in Calls : Sensible(c)}
    /\ tx = Null
    /\ phase = "called"

Build ==
    /\ phase = "called"
    /\ tx' = MadeBy(call.offer.builder, Input(call))
    /\ phase' = IF tx' = Null THEN "thrown" ELSE "built"
    /\ UNCHANGED <<live, changed, call>>

(* A key of the family is replaced; a settlement gets a collector of split *)
(* rent once, when it is funded by a split.                                *)
Change ==
    /\ phase \in {"called", "built"}
    /\ ~changed
    /\ call.foreign = <<>>
    /\ \E k \in DOMAIN live :
          /\ k[1] \in {call.family[1], call.family[2], BondAt(call.family),
                       SettlementAt(call.family, "open")}
          /\ k[2] # "rentCollector"
          /\ k[2] = "splitRentCollector" => live[k] = Null
          /\ live' = [live EXCEPT ![k] = Spare]
    /\ changed' = TRUE
    /\ UNCHANGED <<call, tx, phase>>

Send ==
    /\ phase = "built"
    /\ phase' = IF Accepts(live, tx) THEN "accepted" ELSE "refused"
    /\ UNCHANGED <<live, changed, call, tx>>

Next == Build \/ Change \/ Send

Spec == Init /\ [][Next]_vars

-----------------------------------------------------------------------------
TypeOK ==
    /\ changed \in BOOLEAN
    /\ call.offer \in Offers /\ call.family \in Families
    /\ phase \in {"called", "thrown", "built", "accepted", "refused"}
    /\ phase \in {"built", "accepted", "refused"} <=> tx # Null
    /\ tx # Null => \A i \in DOMAIN tx :
          /\ tx[i].ix \in Instructions
          /\ \A k \in DOMAIN tx[i].wire : tx[i].wire[k].address # Null

Sent(i) == Addresses(Received(tx[i].ix, tx[i].wire))

(* The accounts that are of one family alone; a stake account before it is *)
(* deposited is of none.                                                   *)
BelongingTo(f) ==
    {BondAt(f), withdrawRequestAddress(BondAt(f)),
     bondProductAddress(BondAt(f), "commission"), bondProductAddress(BondAt(f), "custom")}
    \cup {SettlementAt(f, root) : root \in Roots}
    \cup {settlementClaimsAddress(SettlementAt(f, root)) : root \in Roots}
    \cup {StakeAt(f, kind) : kind \in {"deposit", "small", "funded", "unreset", "undelegated"}}

(* Whatever a caller mixes up and whatever changes in between, the program *)
(* takes no transaction that acts on two bonds: the config, the vote       *)
(* account, the bond, and every product, request, settlement, claims and   *)
(* deposited stake account in it are of one family.  (When there is no     *)
(* split rent to return the account to return it from is arbitrary:        *)
(* closeSettlementV2.ts 127-129.)                                          *)
OneFamily ==
    phase = "accepted" =>
        \E f \in Configs \X Votes : \A i \in DOMAIN tx :
            \A n \in DOMAIN Sent(i) \ {"splitRentRefundAccount"} :
                /\ Sent(i)[n] \in Configs => Sent(i)[n] = f[1]
                /\ Sent(i)[n] \in Votes => Sent(i)[n] = f[2]
                /\ \A g \in Families : Sent(i)[n] \in BelongingTo(g) => g = f

Speakers(now, ix, acc, name) ==
    IF name \in {"adminAuthority", "operatorAuthority", "pauseAuthority"}
    THEN {Data(now, acc.config, name)}
    ELSE IF ix = "cancelSettlement"
    THEN {Data(now, acc.config, "operatorAuthority"), Data(now, acc.config, "pauseAuthority")}
    ELSE {Data(now, acc.bond, "authority"),
          Data(now, Data(now, acc.bond, "voteAccount"), "nodePubkey"), ProgramId}

(* An authority that a taken transaction names speaks for the very config  *)
(* or bond that it acts on when it is taken, though it was read, or given, *)
(* earlier: a bond authority and an identity that have been replaced, be   *)
(* it by the instruction before, and the identity of another validator,    *)
(* are refused.                                                            *)
SpokenFor ==
    phase = "accepted" =>
        \A i \in DOMAIN tx :
            \A n \in DOMAIN Sent(i) \cap {"authority", "adminAuthority", "operatorAuthority",
                                          "pauseAuthority"} :
                Sent(i)[n] \in Speakers(KeysBefore(live, tx, i), tx[i].ix, Sent(i), n)

(* A new bond authority is in force when the commission is configured next *)
OneChange(c) == c.asIdentity \/ ~({"newBondAuthority", "commission"} \subseteq c.names)

Identified(c) ==
    LET facts == c.names \cup {c.kind}
                 \cup When(c.family[1] = MARINADE_CONFIG_ADDRESS, "the default config")
                 \cup When("adminAuthority" \notin c.names, "no admin")
                 \cup When(c.family \in WithCommission, "a commission product")
                 \cup When(~({"withToken", "commission"} \subseteq c.names), "token or commission")
                 \cup When(OneChange(c), "one change or the identity's")
    IN  \E enough \in c.offer.enough : enough \subseteq facts

(* Whichever of the accounts of one bond a caller gives, if they tell      *)
(* which is meant, the builder or the command derives and fetches the rest *)
(* and the program takes what it makes, provided nothing changes meanwhile.*)
FreshIsAccepted ==
    phase \in {"thrown", "refused"} => call.foreign # <<>> \/ changed \/ ~Identified(call)

(* The generated client, given only what it requires and cannot derive, of *)
(* the accounts of a transaction of the SDK that is taken, sends the same  *)
(* accounts in the same order and the same roles; both variants of it do.  *)
Needed(ix, variant) ==
    variant.input.required
    \cup (ToSet(Codama[ix].sent.accounts)
          \ {variant.steps[k].account : k \in DOMAIN variant.steps})

GivenOf(i, needed) ==
    [n \in DOMAIN Sent(i) |->
        IF n \in needed /\ (Sent(i)[n] # ProgramId \/ n = "program") THEN Sent(i)[n] ELSE Null]

ClientsAgree ==
    phase = "accepted" =>
        \A i \in DOMAIN tx :
            \A variant \in {WithAsync(tx[i].ix), WithoutAsync(tx[i].ix)} :
                CodamaWire(tx[i].ix, variant, GivenOf(i, Needed(tx[i].ix, variant))) = tx[i].wire

(* An observer that parses a taken transaction with the generated client   *)
(* gives every account the name under which the program used it.           *)
ObserverReads ==
    phase = "accepted" =>
        \A i \in DOMAIN tx : ParsedAccounts(tx[i].ix, tx[i].wire) = Sent(i)
=============================================================================
