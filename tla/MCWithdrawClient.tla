-------------------------- MODULE MCWithdrawClient --------------------------
(* Instances of WithdrawClient for TLC: rent exemption 2, minimal size 5.  *)
EXTENDS WithdrawClient

CONSTANTS v1, v2

Account(staker, withdrawer, voter, n) ==
    [staker |-> staker, withdrawer |-> withdrawer, voter |-> voter,
     lamports |-> n, locked |-> FALSE]

NoBondOf == <<>>

(* Two deposits of different sizes, made active or deactivated, and the    *)
(* deposit of another validator                                            *)
TheDeposits == {Account(Owner, Owner, v1, 11), Account(Owner, Owner, v1, 6),
                Account(Bonds, Bonds, v2, 6)}
=============================================================================
