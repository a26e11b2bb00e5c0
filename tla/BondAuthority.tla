--------------------------- MODULE BondAuthority ---------------------------
(***************************************************************************)
(* Who may change what.  A bond is configured by its authority or by the   *)
(* validator identity of its vote account, by signature or by burning a    *)
(* bond token that was minted to that identity; bonds, bond products and   *)
(* tokens are also created permissionlessly, by anybody, for any           *)
(* validator.  The Config account names the admin, operator and pause      *)
(* authorities.  Identities are rotated outside of the program, and tokens *)
(* are ordinary SPL tokens that can be handed on.                          *)
(*                                                                         *)
(* Signers are explicit here: an action's signer is the key that signs.    *)
(***************************************************************************)
EXTENDS Integers, FiniteSets

CONSTANTS
    Votes,        \* vote accounts, each with one bond address
    Keys,         \* public keys
    Insiders,     \* the keys of validators and Marinade; the rest is anybody
    Nobody,       \* no optional signer
    Keep,         \* an Option argument that is None
    Bids,         \* per key: the cpmpe values and product settings it asks for
    Wanted,       \* max_stake_wanted values
    Floors,       \* min_bond_max_stake_wanted values
    MAX_BASIS_POINTS,  \* limit of a product's setting
    MaxTokens     \* bound on the tokens minted per bond and identity

ASSUME KeysAssumption ==
    /\ Insiders \subseteq Keys /\ Insiders # {}
    /\ Nobody \notin Keys /\ Keep \notin Keys

ASSUME ValuesAssumption ==
    /\ Bids \in [Keys -> SUBSET Nat]
    /\ Wanted \subseteq Nat /\ Floors \subseteq Nat
    /\ Keep \notin Nat
    /\ MAX_BASIS_POINTS \in Nat /\ MaxTokens \in Nat

VARIABLES
    config,    \* the Config account: its authorities, pause and floor
    identity,  \* node identity in each vote account
    bonds,     \* the Bond accounts
    tokens,    \* balances: bond, identity the mint belongs to, holder
    products   \* the commission BondProduct of each bond; Nobody: no account

vars == <<config, identity, bonds, tokens, products>>

NoBond == [exists |-> FALSE, authority |-> Nobody, cpmpe |-> 0, max_stake_wanted |-> 0]

(* init_config: the admin is the pause authority to begin with *)
Init ==
    /\ \E admin, operator \in Insiders :
          config = [admin_authority |-> admin, operator_authority |-> operator,
                    pause_authority |-> admin, paused |-> FALSE,
                    min_bond_max_stake_wanted |-> 0]
    /\ identity \in [Votes -> Insiders]
    /\ bonds = [v \in Votes |-> NoBond]
    /\ tokens = [v \in Votes |-> [i \in Keys |-> [h \in Keys |-> 0]]]
    /\ products = [v \in Votes |-> Nobody]

Running == ~config.paused

(* An insider names insiders only, and hands tokens to insiders only. *)
Trusts(p) == IF p \in Insiders THEN Insiders ELSE Keys

-----------------------------------------------------------------------------
(* Config *)

(* Deliberately not gated by the pause. *)
ConfigureConfig(signer, admin, operator, pauser, floor) ==
    /\ signer = config.admin_authority
    /\ config' = [config EXCEPT !.admin_authority = IF admin = Keep THEN @ ELSE admin,
                                !.operator_authority = IF operator = Keep THEN @ ELSE operator,
                                !.pause_authority = IF pauser = Keep THEN @ ELSE pauser,
                                !.min_bond_max_stake_wanted = IF floor = Keep THEN @ ELSE floor]
    /\ UNCHANGED <<identity, bonds, tokens, products>>

EmergencyPause(signer) ==
    /\ signer = config.pause_authority /\ ~config.paused
    /\ config' = [config EXCEPT !.paused = TRUE]
    /\ UNCHANGED <<identity, bonds, tokens, products>>

EmergencyResume(signer) ==
    /\ signer = config.pause_authority /\ config.paused
    /\ config' = [config EXCEPT !.paused = FALSE]
    /\ UNCHANGED <<identity, bonds, tokens, products>>

-----------------------------------------------------------------------------
(* Bonds *)

(* InitBondArgs and ConfigureBondArgs as p would fill them in *)
Args(p) == [bond_authority : Trusts(p), cpmpe : Bids[p], max_stake_wanted : Wanted]

OptionalArgs(p) ==
    [bond_authority : {Keep} \cup Trusts(p), cpmpe : {Keep} \cup Bids[p],
     max_stake_wanted : {Keep} \cup Wanted]

(* Variant: anything from zero up. *)
AnyStakeWanted(max_stake_wanted) == max_stake_wanted >= 0

verify_max_stake_wanted(max_stake_wanted) ==
    max_stake_wanted # 0 => max_stake_wanted >= config.min_bond_max_stake_wanted

check_bond_authority(v, key) == key = bonds[v].authority \/ key = identity[v]

(* Variant: the arguments are applied without the identity's signature. *)
InitialBondAsAsked(v, signer, args) ==
    [exists |-> TRUE, authority |-> args.bond_authority, cpmpe |-> args.cpmpe,
     max_stake_wanted |-> args.max_stake_wanted]

(* permission-ed: as asked; permission-less: defaults, under the identity *)
InitialBond(v, signer, args) ==
    IF signer # Nobody
    THEN [exists |-> TRUE, authority |-> args.bond_authority, cpmpe |-> args.cpmpe,
          max_stake_wanted |-> args.max_stake_wanted]
    ELSE [exists |-> TRUE, authority |-> identity[v], cpmpe |-> 0,
          max_stake_wanted |-> 0]

InitBond(v, signer, args) ==
    /\ Running
    /\ ~bonds[v].exists
    /\ signer # Nobody => /\ signer = identity[v]
                          /\ verify_max_stake_wanted(args.max_stake_wanted)
    /\ bonds' = [bonds EXCEPT ![v] = InitialBond(v, signer, args)]
    /\ UNCHANGED <<config, identity, tokens, products>>

(* configure_bond(): shared by the two instructions below.  The limit is   *)
(* checked on what results, also when max_stake_wanted is not an argument. *)
Configured(v, args) ==
    [bonds[v] EXCEPT
        !.authority = IF args.bond_authority = Keep THEN @ ELSE args.bond_authority,
        !.cpmpe = IF args.cpmpe = Keep THEN @ ELSE args.cpmpe,
        !.max_stake_wanted =
            IF args.max_stake_wanted = Keep THEN @ ELSE args.max_stake_wanted]

configure_bond(v, args) ==
    /\ bonds[v].exists
    /\ verify_max_stake_wanted(Configured(v, args).max_stake_wanted)
    /\ bonds' = [bonds EXCEPT ![v] = Configured(v, args)]

ConfigureBond(v, signer, args) ==
    /\ Running
    /\ check_bond_authority(v, signer)
    /\ configure_bond(v, args)
    /\ UNCHANGED <<config, identity, tokens, products>>

(* Permissionless; the token goes to the identity, of whichever mint the   *)
(* current identity selects.                                               *)
MintBond(v) ==
    LET i == identity[v]
    IN  /\ Running
        /\ bonds[v].exists
        /\ tokens[v][i][i] < MaxTokens
        /\ tokens' = [tokens EXCEPT ![v][i][i] = @ + 1]
        /\ UNCHANGED <<config, identity, bonds, products>>

(* Variant: a token of any identity of the bond will do. *)
MintOfAnyIdentity(v, i) == TRUE

MintOfIdentity(v, i) == i = identity[v]

(* The burn CPI succeeds; variant: whether it does is ignored. *)
BurnIgnored(v, i, holder) == TRUE

CanBurn(v, i, holder) == tokens[v][i][holder] > 0

(* No authority signs: the token account's owner does, and loses a token. *)
ConfigureBondWithMint(v, i, holder, args) ==
    /\ Running
    /\ MintOfIdentity(v, i)
    /\ configure_bond(v, args)
    /\ CanBurn(v, i, holder)
    /\ tokens' = [tokens EXCEPT ![v][i][holder] = @ - 1]
    /\ UNCHANGED <<config, identity, products>>

-----------------------------------------------------------------------------
(* Bond products; a commission setting is its basis points *)

ProductDefault == 0

InitBondProduct(v, signer, bps) ==
    /\ Running
    /\ bonds[v].exists
    /\ products[v] = Nobody
    /\ signer # Nobody => check_bond_authority(v, signer)
    /\ bps <= MAX_BASIS_POINTS
    /\ products' = [products EXCEPT ![v] = IF signer # Nobody THEN bps ELSE ProductDefault]
    /\ UNCHANGED <<config, identity, bonds, tokens>>

ConfigureBondProduct(v, signer, bps) ==
    /\ Running
    /\ bonds[v].exists
    /\ products[v] # Nobody
    /\ check_bond_authority(v, signer)
    /\ bps <= MAX_BASIS_POINTS
    /\ products' = [products EXCEPT ![v] = bps]
    /\ UNCHANGED <<config, identity, bonds, tokens>>

-----------------------------------------------------------------------------
(* Outside of the program *)

(* The validator changes the node identity of its vote account. *)
RotateIdentity(v, i) ==
    /\ identity[v] # i
    /\ identity' = [identity EXCEPT ![v] = i]
    /\ UNCHANGED <<config, bonds, tokens, products>>

TransferToken(v, i, from, to) ==
    /\ from # to /\ tokens[v][i][from] > 0 /\ tokens[v][i][to] < MaxTokens
    /\ tokens' = [tokens EXCEPT ![v][i][from] = @ - 1, ![v][i][to] = @ + 1]
    /\ UNCHANGED <<config, identity, bonds, products>>

-----------------------------------------------------------------------------
Next ==
    \/ \E p \in Keys :
        \/ EmergencyPause(p)
        \/ EmergencyResume(p)
        \/ \E admin, operator, pauser \in {Keep} \cup Trusts(p), floor \in {Keep} \cup Floors :
              ConfigureConfig(p, admin, operator, pauser, floor)
    \/ \E v \in Votes :
        \/ MintBond(v)
        \/ \E i \in Insiders : RotateIdentity(v, i)
        \/ \E p \in Keys :
            \/ \E signer \in {p, Nobody}, args \in Args(p) : InitBond(v, signer, args)
            \/ \E args \in OptionalArgs(p) :
                \/ ConfigureBond(v, p, args)
                \/ \E i \in Keys : ConfigureBondWithMint(v, i, p, args)
            \/ \E bps \in Bids[p] :
                \/ \E signer \in {p, Nobody} : InitBondProduct(v, signer, bps)
                \/ ConfigureBondProduct(v, p, bps)
            \/ \E i \in Keys, to \in Trusts(p) : TransferToken(v, i, p, to)

Spec == Init /\ [][Next]_vars

-----------------------------------------------------------------------------
(* Properties *)

Bond == [exists : BOOLEAN, authority : Keys \cup {Nobody}, cpmpe : Nat,
         max_stake_wanted : Nat]

(* Every account holds values of its type; a token balance never goes      *)
(* below zero.                                                             *)
TypeOK ==
    /\ config \in [admin_authority : Keys, operator_authority : Keys,
                   pause_authority : Keys, paused : BOOLEAN,
                   min_bond_max_stake_wanted : Nat]
    /\ identity \in [Votes -> Keys]
    /\ bonds \in [Votes -> Bond]
    /\ tokens \in [Votes -> [Keys -> [Keys -> Nat]]]
    /\ products \in [Votes -> Nat \cup {Nobody}]

(* What insiders ask for, or the default of a permissionless call *)
Agreed == {0} \cup UNION {Bids[p] : p \in Insiders}

(* Whatever an outsider calls, before or after the validator does: no bond *)
(* ends up under an outsider's authority, no bid or commission binds a     *)
(* validator that neither it nor somebody it trusts has asked for, and no  *)
(* token that can change a bond reaches an outsider.                       *)
OutsidersGainNothing ==
    /\ \A v \in Votes :
        /\ bonds[v].exists => bonds[v].authority \in Insiders
        /\ bonds[v].cpmpe \in Agreed
        /\ products[v] \in Agreed \cup {Nobody}
        /\ \A i \in Keys, h \in Keys \ Insiders : tokens[v][i][h] = 0
    /\ {config.admin_authority, config.operator_authority, config.pause_authority}
          \subseteq Insiders

(* configure_bond_with_mint.rs:84-90: a token left over from a former      *)
(* identity is of no use; only tokens of the current identity are burned.  *)
StaleTokensUseless ==
    [][\A v \in Votes, i \in Keys :
          (\E h \in Keys : tokens'[v][i][h] < tokens[v][i][h]) =>
              \/ i = identity[v]
              \/ bonds'[v] = bonds[v]]_vars

(* Once the administrator has raised min_bond_max_stake_wanted, a bond     *)
(* below it cannot be changed in any way that leaves it below: the limit   *)
(* is caught up with at the next change, whichever argument that is about. *)
MinimumTakesHold ==
    [][\A v \in Votes :
          bonds'[v] # bonds[v] =>
              \/ bonds'[v].max_stake_wanted = 0
              \/ bonds'[v].max_stake_wanted >= config.min_bond_max_stake_wanted]_vars
=============================================================================
