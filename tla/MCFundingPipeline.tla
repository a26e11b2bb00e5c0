------------------------- MODULE MCFundingPipeline -------------------------
(***************************************************************************)
(* Instances of FundingPipeline for TLC: rent exemption 2, minimal size 5. *)
(***************************************************************************)
EXTENDS FundingPipeline

CONSTANTS v1, s1, s2, m1, k1, k2, k3

Account(staker, withdrawer, voter, n) ==
    [staker |-> staker, withdrawer |-> withdrawer, voter |-> voter,
     lamports |-> n, locked |-> FALSE]

TheOrder == <<s1, m1, s2>>
TheKeys == <<k1, k2, k3>>
ThePayers == s1 :> "ValidatorBond" @@ s2 :> "ValidatorBond" @@ m1 :> "Marinade"
AllBondOf == s1 :> v1 @@ s2 :> v1 @@ m1 :> v1
AllEpochOf == s1 :> 0 @@ s2 :> 0 @@ m1 :> 0
MarinadesTree == s1 :> <<>> @@ s2 :> <<>> @@ m1 :> (0 :> 3 @@ 1 :> 2)

(* A second bond settlement of the bond is all it takes. *)
OneDeposit == {Account(Bonds, Bonds, v1, 24)}
=============================================================================
