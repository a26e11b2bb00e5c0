-------------------------- MODULE MCValidatorBonds --------------------------
(***************************************************************************)
(* Instances of ValidatorBonds for TLC.  Lamports are scaled down: a rent  *)
(* exemption of 2, a minimum stake of 3, so that a stake account has a     *)
(* minimal size of 5.                                                      *)
(***************************************************************************)
EXTENDS ValidatorBonds, TLC

CONSTANTS v1, v2, s1, s2

Symmetric == Permutations(StakeIds)

Account(staker, withdrawer, voter, n) ==
    [staker |-> staker, withdrawer |-> withdrawer, voter |-> voter,
     lamports |-> n, locked |-> FALSE]
Own(v, n) == Account(Owner, Owner, v, n)            \* a validator's own
Bonded(v, n) == Account(Bonds, Bonds, v, n)         \* deposited by hand
Marinade(s, n) == Account(s, Bonds, Nobody, n)      \* Marinade's share

(* One settlement of two records, an account large enough to be split and  *)
(* one that is not, and Marinade's share.                                  *)
OneBondOf == s1 :> v1
OneEpochOf == s1 :> 0
OneTree == s1 :> (0 :> 3 @@ 1 :> 2)
SettlementDeposits == {Bonded(v1, 18), Bonded(v1, 7), Marinade(s1, 6)}

(* An account that is split, one that is not, and a validator's own. *)
ResetDeposits == {Bonded(v1, 18), Bonded(v1, 7), Own(v1, 9)}

(* Two settlements of the same validator. *)
TwoEpochOf == s1 :> 0 @@ s2 :> 0
TwoTree == s1 :> (0 :> 2) @@ s2 :> (0 :> 2)
SameBondOf == s1 :> v1 @@ s2 :> v1
SameDeposits == {Bonded(v1, 18)}
=============================================================================
