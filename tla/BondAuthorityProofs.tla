------------------------- MODULE BondAuthorityProofs -------------------------
(***************************************************************************)
(* Outsiders gain nothing, for any number of keys, validators, tokens and  *)
(* calls.  The invariant is inductive together with the types and with the *)
(* fact that identities are insiders' keys.                                *)
(***************************************************************************)
EXTENDS BondAuthority, TLAPS

IdentitiesInside == \A v \in Votes : identity[v] \in Insiders

IInv == TypeOK /\ IdentitiesInside /\ OutsidersGainNothing

LEMMA InitInv == Init => IInv
  <1> SUFFICES ASSUME Init PROVE IInv  OBVIOUS
  <1>1. TypeOK
    <2>1. bonds \in [Votes -> Bond]  BY DEF Init, NoBond, Bond
    <2>2. identity \in [Votes -> Keys]  BY KeysAssumption DEF Init
    <2>3. /\ tokens \in [Votes -> [Keys -> [Keys -> Nat]]]
          /\ products \in [Votes -> Nat \cup {Nobody}]
      BY DEF Init
    <2>4. config \in [admin_authority : Keys, operator_authority : Keys,
                      pause_authority : Keys, paused : BOOLEAN,
                      min_bond_max_stake_wanted : Nat]
      BY KeysAssumption DEF Init
    <2> QED BY <2>1, <2>2, <2>3, <2>4 DEF TypeOK
  <1>2. IdentitiesInside  BY DEF Init, IdentitiesInside
  <1>3. OutsidersGainNothing
    BY KeysAssumption DEF Init, NoBond, OutsidersGainNothing, Agreed
  <1> QED BY <1>1, <1>2, <1>3 DEF IInv

(* One bond is replaced by a good one. *)
GoodBond(b) == /\ b \in Bond
               /\ b.exists => b.authority \in Insiders
               /\ b.cpmpe \in Agreed

LEMMA ReplaceBond ==
  ASSUME TypeOK, OutsidersGainNothing, NEW v \in Votes, NEW b, GoodBond(b),
         bonds' = [bonds EXCEPT ![v] = b]
  PROVE  /\ bonds' \in [Votes -> Bond]
         /\ \A w \in Votes : /\ bonds'[w].exists => bonds'[w].authority \in Insiders
                             /\ bonds'[w].cpmpe \in Agreed
  <1>1. \A w \in Votes : bonds'[w] = IF w = v THEN b ELSE bonds[w]
    BY DEF TypeOK
  <1>2. bonds' \in [Votes -> Bond]  BY DEF TypeOK, GoodBond
  <1> QED BY <1>1, <1>2 DEF GoodBond, OutsidersGainNothing

LEMMA AgreedNat == Agreed \subseteq Nat
  BY KeysAssumption, ValuesAssumption DEF Agreed

LEMMA ConfiguredGood ==
  ASSUME IInv, NEW v \in Votes, bonds[v].exists, NEW p \in Insiders,
         NEW args \in OptionalArgs(p)
  PROVE  GoodBond(Configured(v, args))
  <1>1. /\ bonds[v] \in Bond /\ bonds[v].authority \in Insiders
        /\ bonds[v].cpmpe \in Agreed
    BY DEF IInv, TypeOK, OutsidersGainNothing
  <1>2. /\ args.bond_authority \in {Keep} \cup Insiders
        /\ args.cpmpe \in {Keep} \cup Bids[p]
        /\ args.max_stake_wanted \in {Keep} \cup Wanted
    BY DEF OptionalArgs, Trusts
  <1>3. Bids[p] \subseteq Agreed /\ Insiders \subseteq Keys /\ Wanted \subseteq Nat
    BY KeysAssumption, ValuesAssumption DEF Agreed
  <1> DEFINE a == IF args.bond_authority = Keep THEN bonds[v].authority ELSE args.bond_authority
             c == IF args.cpmpe = Keep THEN bonds[v].cpmpe ELSE args.cpmpe
             m == IF args.max_stake_wanted = Keep THEN bonds[v].max_stake_wanted
                                                  ELSE args.max_stake_wanted
             b == Configured(v, args)
  <1>4. a \in Insiders /\ c \in Agreed /\ m \in Nat
    BY <1>1, <1>2, <1>3 DEF Bond
  <1>5. b = [bonds[v] EXCEPT !.authority = a, !.cpmpe = c, !.max_stake_wanted = m]
    BY DEF Configured
  <1> HIDE DEF a, c, m, b
  <1>6. b \in Bond /\ b.authority = a /\ b.cpmpe = c
    BY <1>1, <1>3, <1>4, <1>5, AgreedNat DEF Bond
  <1>7. GoodBond(b)  BY <1>4, <1>6 DEF GoodBond
  <1> QED BY <1>7 DEF b

LEMMA InitialGood ==
  ASSUME IInv, NEW v \in Votes, NEW p \in Keys, NEW signer \in {p, Nobody},
         NEW args \in Args(p), InitBond(v, signer, args)
  PROVE  GoodBond(InitialBond(v, signer, args))
  <1>1. identity[v] \in Insiders  BY DEF IInv, IdentitiesInside
  <1>2. Insiders \subseteq Keys /\ Wanted \subseteq Nat /\ 0 \in Agreed
    BY KeysAssumption, ValuesAssumption DEF Agreed
  <1> DEFINE b == InitialBond(v, signer, args)
  <1>3. CASE signer = Nobody
    <2>1. b = [exists |-> TRUE, authority |-> identity[v], cpmpe |-> 0,
               max_stake_wanted |-> 0]
      BY <1>3 DEF InitialBond
    <2> QED BY <1>1, <1>2, <2>1 DEF GoodBond, Bond
  <1>4. CASE signer # Nobody
    <2>1. p \in Insiders  BY <1>1, <1>4 DEF InitBond
    <2>2. /\ args.bond_authority \in Insiders /\ args.max_stake_wanted \in Wanted
          /\ args.cpmpe \in Bids[p]
      BY <2>1 DEF Args, Trusts
    <2>3. args.cpmpe \in Agreed  BY <2>1, <2>2 DEF Agreed
    <2>4. b = [exists |-> TRUE, authority |-> args.bond_authority,
               cpmpe |-> args.cpmpe, max_stake_wanted |-> args.max_stake_wanted]
      BY <1>4 DEF InitialBond
    <2>5. args.cpmpe \in Nat /\ args.max_stake_wanted \in Nat
      BY <1>2, <2>2, <2>3, AgreedNat
    <2>6. b \in Bond  BY <1>2, <2>2, <2>4, <2>5 DEF Bond
    <2> QED BY <2>2, <2>3, <2>4, <2>6 DEF GoodBond
  <1> QED BY <1>3, <1>4

(* Steps that write bonds *)
LEMMA BondSteps ==
  ASSUME IInv, NEW v \in Votes, NEW p \in Keys,
         \/ \E signer \in {p, Nobody}, args \in Args(p) : InitBond(v, signer, args)
         \/ \E args \in OptionalArgs(p) : ConfigureBond(v, p, args)
  PROVE  IInv'
  <1>0. TypeOK /\ OutsidersGainNothing  BY DEF IInv
  <1>1. PICK b : GoodBond(b) /\ bonds' = [bonds EXCEPT ![v] = b]
    <2>1. CASE \E signer \in {p, Nobody}, args \in Args(p) : InitBond(v, signer, args)
      <3>1. PICK signer \in {p, Nobody}, args \in Args(p) : InitBond(v, signer, args)
        BY <2>1
      <3> QED BY <3>1, InitialGood DEF InitBond
    <2>2. CASE \E args \in OptionalArgs(p) : ConfigureBond(v, p, args)
      <3>1. PICK args \in OptionalArgs(p) : ConfigureBond(v, p, args)  BY <2>2
      <3>2. /\ bonds[v].exists /\ check_bond_authority(v, p)
            /\ bonds' = [bonds EXCEPT ![v] = Configured(v, args)]
        BY <3>1 DEF ConfigureBond, configure_bond
      <3>3. p \in Insiders
        BY <3>2 DEF check_bond_authority, IInv, IdentitiesInside, OutsidersGainNothing
      <3> QED BY <3>2, <3>3, ConfiguredGood
    <2> QED BY <2>1, <2>2
  <1>2. UNCHANGED <<config, identity, tokens, products>>
    BY DEF InitBond, ConfigureBond
  <1>3. /\ bonds' \in [Votes -> Bond]
        /\ \A w \in Votes : /\ bonds'[w].exists => bonds'[w].authority \in Insiders
                            /\ bonds'[w].cpmpe \in Agreed
    BY <1>0, <1>1, ReplaceBond
  <1> QED BY <1>2, <1>3 DEF IInv, TypeOK, IdentitiesInside, OutsidersGainNothing

(* Steps that write tokens *)
Held(t) == /\ t \in [Votes -> [Keys -> [Keys -> Nat]]]
           /\ \A v \in Votes, i \in Keys, h \in Keys \ Insiders : t[v][i][h] = 0

LEMMA ReplaceBalance ==
  ASSUME NEW t, Held(t), NEW v \in Votes, NEW i \in Keys, NEW h \in Insiders,
         NEW n \in Nat
  PROVE  Held([t EXCEPT ![v][i][h] = n])
  <1>1. h \in Keys  BY KeysAssumption
  <1> DEFINE u == [t EXCEPT ![v][i][h] = n]
  <1>2. u \in [Votes -> [Keys -> [Keys -> Nat]]]  BY <1>1 DEF Held
  <1>3. \A w \in Votes, j \in Keys, k \in Keys :
           u[w][j][k] = IF w = v /\ j = i /\ k = h THEN n ELSE t[w][j][k]
    BY <1>1 DEF Held
  <1> QED BY <1>2, <1>3 DEF Held

LEMMA TokenSteps ==
  ASSUME IInv, NEW v \in Votes,
         \/ MintBond(v)
         \/ \E p \in Keys : \/ \E args \in OptionalArgs(p), i \in Keys :
                                  ConfigureBondWithMint(v, i, p, args)
                            \/ \E i \in Keys, to \in Trusts(p) :
                                  TransferToken(v, i, p, to)
  PROVE  IInv'
  <1>0. Held(tokens) /\ TypeOK /\ OutsidersGainNothing
    BY DEF IInv, TypeOK, OutsidersGainNothing, Held
  <1>1. CASE MintBond(v)
    <2> DEFINE i == identity[v]
    <2>1. i \in Insiders /\ i \in Keys  BY KeysAssumption DEF IInv, IdentitiesInside
    <2>2. /\ tokens' = [tokens EXCEPT ![v][i][i] = @ + 1]
          /\ UNCHANGED <<config, identity, bonds, products>>
      BY <1>1 DEF MintBond
    <2> HIDE DEF i
    <2>3. tokens[v][i][i] + 1 \in Nat  BY <1>0, <2>1 DEF Held
    <2>4. tokens' = [tokens EXCEPT ![v][i][i] = tokens[v][i][i] + 1]
      BY <1>0, <2>1, <2>2 DEF Held
    <2>5. Held(tokens')  BY <1>0, <2>1, <2>3, <2>4, ReplaceBalance
    <2> QED BY <2>2, <2>5 DEF Held, IInv, TypeOK, IdentitiesInside, OutsidersGainNothing
  <1>2. ASSUME NEW p \in Keys, NEW args \in OptionalArgs(p), NEW i \in Keys,
               ConfigureBondWithMint(v, i, p, args)
        PROVE  IInv'
    <2>1. /\ tokens[v][i][p] > 0 /\ bonds[v].exists
          /\ tokens' = [tokens EXCEPT ![v][i][p] = @ - 1]
          /\ bonds' = [bonds EXCEPT ![v] = Configured(v, args)]
          /\ UNCHANGED <<config, identity, products>>
      BY <1>2 DEF ConfigureBondWithMint, configure_bond, CanBurn
    <2>2. p \in Insiders  BY <1>0, <2>1 DEF Held
    <2>3. tokens[v][i][p] - 1 \in Nat  BY <1>0, <2>1 DEF Held
    <2>4. tokens' = [tokens EXCEPT ![v][i][p] = tokens[v][i][p] - 1]
      BY <1>0, <2>1 DEF Held
    <2>5. Held(tokens')  BY <1>0, <2>2, <2>3, <2>4, ReplaceBalance
    <2>6. GoodBond(Configured(v, args))  BY <2>1, <2>2, ConfiguredGood
    <2>7. /\ bonds' \in [Votes -> Bond]
          /\ \A w \in Votes : /\ bonds'[w].exists => bonds'[w].authority \in Insiders
                              /\ bonds'[w].cpmpe \in Agreed
      BY <1>0, <2>1, <2>6, ReplaceBond
    <2> QED BY <2>1, <2>5, <2>7
            DEF Held, IInv, TypeOK, IdentitiesInside, OutsidersGainNothing
  <1>3. ASSUME NEW p \in Keys, NEW i \in Keys, NEW to \in Trusts(p),
               TransferToken(v, i, p, to)
        PROVE  IInv'
    <2>1. /\ p # to /\ tokens[v][i][p] > 0
          /\ tokens' = [tokens EXCEPT ![v][i][p] = @ - 1, ![v][i][to] = @ + 1]
          /\ UNCHANGED <<config, identity, bonds, products>>
      BY <1>3 DEF TransferToken
    <2>2. p \in Insiders  BY <1>0, <2>1 DEF Held
    <2>3. to \in Insiders /\ to \in Keys  BY <2>2, KeysAssumption DEF Trusts
    <2> DEFINE u == [tokens EXCEPT ![v][i][p] = tokens[v][i][p] - 1]
    <2>4. tokens[v][i][p] - 1 \in Nat /\ tokens[v][i][to] + 1 \in Nat
      BY <1>0, <2>1, <2>3 DEF Held
    <2>5. tokens' = [u EXCEPT ![v][i][to] = tokens[v][i][to] + 1]
      BY <1>0, <2>1, <2>3 DEF Held
    <2>6. Held(u)  BY <1>0, <2>2, <2>4, ReplaceBalance
    <2> HIDE DEF u
    <2>7. Held(tokens')  BY <2>3, <2>4, <2>5, <2>6, ReplaceBalance
    <2> QED BY <2>1, <2>7 DEF Held, IInv, TypeOK, IdentitiesInside, OutsidersGainNothing
  <1> QED BY <1>1, <1>2, <1>3

(* Steps that write a product *)
LEMMA ProductSteps ==
  ASSUME IInv, NEW v \in Votes, NEW p \in Keys, NEW bps \in Bids[p],
         \/ \E signer \in {p, Nobody} : InitBondProduct(v, signer, bps)
         \/ ConfigureBondProduct(v, p, bps)
  PROVE  IInv'
  <1>1. check_bond_authority(v, p) /\ bonds[v].exists => p \in Insiders
    BY DEF check_bond_authority, IInv, IdentitiesInside, OutsidersGainNothing
  <1>2. p \in Insiders => bps \in Agreed  BY DEF Agreed
  <1>3. 0 \in Agreed  BY DEF Agreed
  <1>4. PICK n \in Agreed : products' = [products EXCEPT ![v] = n]
    BY <1>1, <1>2, <1>3 DEF InitBondProduct, ConfigureBondProduct, ProductDefault
  <1>5. products \in [Votes -> Nat \cup {Nobody}]  BY DEF IInv, TypeOK
  <1>6. /\ products' \in [Votes -> Nat \cup {Nobody}]
        /\ \A w \in Votes : products'[w] = IF w = v THEN n ELSE products[w]
    BY <1>4, <1>5, AgreedNat
  <1>7. UNCHANGED <<config, identity, bonds, tokens>>
    BY DEF InitBondProduct, ConfigureBondProduct
  <1> QED BY <1>6, <1>7 DEF IInv, TypeOK, IdentitiesInside, OutsidersGainNothing

LEMMA ConfigSteps ==
  ASSUME IInv, NEW p \in Keys,
         \/ EmergencyPause(p) \/ EmergencyResume(p)
         \/ \E admin, operator, pauser \in {Keep} \cup Trusts(p), floor \in {Keep} \cup Floors :
               ConfigureConfig(p, admin, operator, pauser, floor)
  PROVE  IInv'
  <1> DEFINE ConfigType == [admin_authority : Keys, operator_authority : Keys,
                            pause_authority : Keys, paused : BOOLEAN,
                            min_bond_max_stake_wanted : Nat]
             Inside(c) == {c.admin_authority, c.operator_authority, c.pause_authority}
                             \subseteq Insiders
  <1>0. config \in ConfigType /\ Inside(config)
    BY DEF IInv, TypeOK, OutsidersGainNothing
  <1>1. UNCHANGED <<identity, bonds, tokens, products>>
    BY DEF EmergencyPause, EmergencyResume, ConfigureConfig
  <1>2. CASE EmergencyPause(p) \/ EmergencyResume(p)
    <2>1. config' \in ConfigType /\ Inside(config')
      BY <1>0, <1>2 DEF EmergencyPause, EmergencyResume
    <2> QED BY <1>1, <2>1 DEF IInv, TypeOK, IdentitiesInside, OutsidersGainNothing
  <1>3. ASSUME NEW admin \in {Keep} \cup Trusts(p), NEW operator \in {Keep} \cup Trusts(p),
               NEW pauser \in {Keep} \cup Trusts(p), NEW floor \in {Keep} \cup Floors,
               ConfigureConfig(p, admin, operator, pauser, floor)
        PROVE  IInv'
    <2>1. p \in Insiders  BY <1>0, <1>3 DEF ConfigureConfig
    <2>2. Trusts(p) = Insiders /\ Insiders \subseteq Keys /\ Floors \subseteq Nat
      BY <2>1, KeysAssumption, ValuesAssumption DEF Trusts
    <2> DEFINE a == IF admin = Keep THEN config.admin_authority ELSE admin
               o == IF operator = Keep THEN config.operator_authority ELSE operator
               u == IF pauser = Keep THEN config.pause_authority ELSE pauser
               f == IF floor = Keep THEN config.min_bond_max_stake_wanted ELSE floor
    <2>3. a \in Insiders /\ o \in Insiders /\ u \in Insiders /\ f \in Nat
      BY <1>0, <2>2
    <2>4. config' = [config EXCEPT !.admin_authority = a, !.operator_authority = o,
                                   !.pause_authority = u, !.min_bond_max_stake_wanted = f]
      BY <1>3 DEF ConfigureConfig
    <2> HIDE DEF a, o, u, f
    <2>5. config' \in ConfigType  BY <1>0, <2>2, <2>3, <2>4
    <2>6. Inside(config')  BY <1>0, <2>3, <2>4
    <2> QED BY <1>1, <2>5, <2>6 DEF IInv, TypeOK, IdentitiesInside, OutsidersGainNothing
  <1> QED BY <1>2, <1>3

LEMMA RotateStep ==
  ASSUME IInv, NEW v \in Votes, NEW i \in Insiders, RotateIdentity(v, i)
  PROVE  IInv'
  <1>1. /\ identity' \in [Votes -> Keys]
        /\ \A w \in Votes : identity'[w] \in Insiders
    BY KeysAssumption DEF RotateIdentity, IInv, TypeOK, IdentitiesInside
  <1>2. UNCHANGED <<config, bonds, tokens, products>>  BY DEF RotateIdentity
  <1> QED BY <1>1, <1>2 DEF IInv, TypeOK, IdentitiesInside, OutsidersGainNothing

LEMMA NextInv == IInv /\ [Next]_vars => IInv'
  <1> SUFFICES ASSUME IInv, [Next]_vars PROVE IInv'  OBVIOUS
  <1>1. CASE UNCHANGED vars
    BY <1>1 DEF vars, IInv, TypeOK, IdentitiesInside, OutsidersGainNothing
  <1>2. CASE Next
    BY <1>2, ConfigSteps, RotateStep, BondSteps, TokenSteps, ProductSteps DEF Next
  <1> QED BY <1>1, <1>2

(* Whatever keys that are neither a validator's nor Marinade's call, the   *)
(* authorities, bids, product settings and tokens of every bond stay with  *)
(* insiders, however often identities are rotated and tokens handed on.    *)
THEOREM OutsidersNeverGain == Spec => []OutsidersGainNothing
  <1>1. IInv => OutsidersGainNothing  BY DEF IInv
  <1> QED BY <1>1, InitInv, NextInv, PTL DEF Spec

(* Every account holds values of its type, and no token is burned that     *)
(* does not exist: part of the same invariant, since only the keys of      *)
(* insiders ever reach the fields that are typed.                          *)
THEOREM TypeCorrect == Spec => []TypeOK
  <1>1. IInv => TypeOK  BY DEF IInv
  <1> QED BY <1>1, InitInv, NextInv, PTL DEF Spec

-----------------------------------------------------------------------------
(* What a single step may not do *)

LEMMA StepsOnBonds ==
  ASSUME Next, bonds' # bonds
  PROVE  \E v \in Votes, p \in Keys :
           \/ \E signer \in {p, Nobody}, args \in Args(p) : InitBond(v, signer, args)
           \/ \E args \in OptionalArgs(p) :
                \/ ConfigureBond(v, p, args)
                \/ \E i \in Keys : ConfigureBondWithMint(v, i, p, args)
  <1>1. ASSUME NEW p \in Keys,
               \/ EmergencyPause(p) \/ EmergencyResume(p)
               \/ \E admin, operator, pauser \in {Keep} \cup Trusts(p),
                     floor \in {Keep} \cup Floors :
                     ConfigureConfig(p, admin, operator, pauser, floor)
        PROVE  FALSE
    BY <1>1 DEF EmergencyPause, EmergencyResume, ConfigureConfig
  <1>2. ASSUME NEW v \in Votes, MintBond(v) \/ \E i \in Insiders : RotateIdentity(v, i)
        PROVE  FALSE
    BY <1>2 DEF MintBond, RotateIdentity
  <1>3. ASSUME NEW v \in Votes, NEW p \in Keys,
               \/ \E bps \in Bids[p] :
                     \/ \E signer \in {p, Nobody} : InitBondProduct(v, signer, bps)
                     \/ ConfigureBondProduct(v, p, bps)
               \/ \E i \in Keys, to \in Trusts(p) : TransferToken(v, i, p, to)
        PROVE  FALSE
    BY <1>3 DEF InitBondProduct, ConfigureBondProduct, TransferToken
  <1> QED BY <1>1, <1>2, <1>3 DEF Next

(* Whichever field a bond is changed in, afterwards it has no limit on its *)
(* stake or one that is not below the administrator's floor.               *)
THEOREM MinimumHolds == Spec => MinimumTakesHold
  <1> DEFINE Holds == \A v \in Votes :
                        bonds'[v] # bonds[v] =>
                           \/ bonds'[v].max_stake_wanted = 0
                           \/ bonds'[v].max_stake_wanted >= config.min_bond_max_stake_wanted
  <1>1. ASSUME TypeOK, Next  PROVE Holds
    <2> SUFFICES ASSUME NEW w \in Votes, bonds'[w] # bonds[w]
                 PROVE  \/ bonds'[w].max_stake_wanted = 0
                        \/ bonds'[w].max_stake_wanted >= config.min_bond_max_stake_wanted
      OBVIOUS
    <2>1. bonds \in [Votes -> Bond]  BY <1>1 DEF TypeOK
    <2>2. ASSUME NEW v \in Votes, NEW b, bonds' = [bonds EXCEPT ![v] = b]
          PROVE  bonds'[w] = b
      BY <2>1, <2>2
    <2>3. ASSUME NEW v \in Votes, NEW p \in Keys, NEW signer \in {p, Nobody},
                 NEW args \in Args(p), InitBond(v, signer, args)
          PROVE  \/ bonds'[w].max_stake_wanted = 0
                 \/ bonds'[w].max_stake_wanted >= config.min_bond_max_stake_wanted
      <3>1. bonds'[w] = InitialBond(v, signer, args)  BY <2>2, <2>3 DEF InitBond
      <3> QED BY <2>3, <3>1 DEF InitBond, InitialBond, verify_max_stake_wanted
    <2>4. ASSUME NEW v \in Votes, NEW p \in Keys, NEW args \in OptionalArgs(p),
                 \/ ConfigureBond(v, p, args)
                 \/ \E i \in Keys : ConfigureBondWithMint(v, i, p, args)
          PROVE  \/ bonds'[w].max_stake_wanted = 0
                 \/ bonds'[w].max_stake_wanted >= config.min_bond_max_stake_wanted
      <3>1. configure_bond(v, args)  BY <2>4 DEF ConfigureBond, ConfigureBondWithMint
      <3>2. bonds'[w] = Configured(v, args)  BY <2>2, <3>1 DEF configure_bond
      <3> QED BY <3>1, <3>2 DEF configure_bond, verify_max_stake_wanted
    <2> QED BY <1>1, <2>3, <2>4, StepsOnBonds
  <1>2. TypeOK /\ [Next]_vars => [Holds]_vars  BY <1>1
  <1> QED BY <1>2, TypeCorrect, PTL DEF Spec, MinimumTakesHold

(* A token counts only for the identity that the vote account names at     *)
(* that moment: no step that uses up a token of another one touches a bond.*)
THEOREM StaleTokensAreUseless == Spec => StaleTokensUseless
  <1> DEFINE Useless == \A v \in Votes, i \in Keys :
                          (\E h \in Keys : tokens'[v][i][h] < tokens[v][i][h]) =>
                              \/ i = identity[v]
                              \/ bonds'[v] = bonds[v]
  <1>1. ASSUME TypeOK, Next  PROVE Useless
    <2> SUFFICES ASSUME NEW w \in Votes, NEW j \in Keys, NEW h \in Keys,
                        tokens'[w][j][h] < tokens[w][j][h], bonds' # bonds
                 PROVE  j = identity[w] \/ bonds'[w] = bonds[w]
      OBVIOUS
    <2>1. /\ tokens \in [Votes -> [Keys -> [Keys -> Nat]]]
          /\ bonds \in [Votes -> Bond]
      BY <1>1 DEF TypeOK
    <2>2. ASSUME UNCHANGED tokens  PROVE FALSE  BY <2>1, <2>2
    <2>3. PICK v \in Votes, i \in Keys, p \in Keys :
             \E args \in OptionalArgs(p) : ConfigureBondWithMint(v, i, p, args)
      BY <1>1, <2>2, StepsOnBonds DEF InitBond, ConfigureBond
    <2>4. /\ i = identity[v]
          /\ tokens' = [tokens EXCEPT ![v][i][p] = @ - 1]
      BY <2>3 DEF ConfigureBondWithMint, MintOfIdentity, configure_bond
    <2>5. CASE w = v /\ j = i  BY <2>4, <2>5
    <2>6. CASE ~(w = v /\ j = i)
      <3>1. tokens'[w][j] = tokens[w][j]  BY <2>1, <2>4, <2>6
      <3> QED BY <2>1, <3>1
    <2> QED BY <2>5, <2>6
  <1>2. TypeOK /\ [Next]_vars => [Useless]_vars  BY <1>1
  <1> QED BY <1>2, TypeCorrect, PTL DEF Spec, StaleTokensUseless
=============================================================================
