---------------------------- MODULE StakeProgram ----------------------------
(***************************************************************************)
(* The native Solana stake program, as far as the validator-bonds program  *)
(* uses it: what a stake account holds and what the CPIs authorize,        *)
(* withdraw, split, merge, deactivate and delegate_stake require of it and *)
(* do to it.  The program is not part of the repository; the operators     *)
(* follow how the instructions of programs/validator-bonds call it, and    *)
(* the conditions the repository's comments and bankrun tests rely on.     *)
(*                                                                         *)
(* Abstractions: activation and deactivation take exactly one epoch (the   *)
(* network-wide warm-up and cool-down rate is left out), every account has *)
(* the same rent exemption Rent, and a lockup either is in force or not.   *)
(***************************************************************************)
EXTENDS Integers

CONSTANTS Rent,           \* rent_exempt_reserve of a stake account
          MinDelegation   \* the runtime's minimum delegation

ASSUME RentAssumption == Rent \in Nat \ {0}
(* The runtime's value today is a single lamport. *)
ASSUME MinDelegationAssumption == MinDelegation = 1

NEVER == -1               \* deactivation_epoch = u64::MAX
Nobody == "nobody"        \* no voter, no authority

(* An address that holds no stake account. *)
NoAccount == [state |-> "none", lamports |-> 0, staker |-> Nobody,
              withdrawer |-> Nobody, voter |-> Nobody, delegated |-> 0,
              act |-> 0, deact |-> NEVER, locked |-> FALSE]

Exists(x) == x.state # "none"
IsDelegated(x) == x.state = "stake"

(* Delegation::stake_activating_and_deactivating at epoch e, one epoch per *)
(* transition; an account deactivated in its activation epoch was never    *)
(* effective.                                                              *)
Effective(x, e) == /\ IsDelegated(x)
                   /\ x.act < e
                   /\ x.deact = NEVER \/ e <= x.deact
Activating(x, e) == IsDelegated(x) /\ x.deact = NEVER /\ e <= x.act
Deactivating(x, e) == Effective(x, e) /\ x.deact = e

(* ---- withdraw ---- *)
Staked(x, e) ==
    IF ~IsDelegated(x) \/ (x.deact # NEVER /\ x.deact <= e /\ ~Effective(x, e))
    THEN 0
    ELSE x.delegated

CanWithdraw(x, amount, e) ==
    /\ Exists(x)
    /\ ~x.locked
    /\ \/ amount + Staked(x, e) + Rent <= x.lamports
       \/ amount = x.lamports /\ Staked(x, e) = 0

Withdrawn(x, amount) ==
    IF amount = x.lamports THEN NoAccount
                           ELSE [x EXCEPT !.lamports = @ - amount]

(* ---- split: `amount' moves to a fresh account that already holds        *)
(* `prefund' lamports, at least its rent ---- *)
CanSplit(x, amount, prefund) ==
    /\ IsDelegated(x)
    /\ amount >= MinDelegation
    /\ amount + prefund >= Rent + MinDelegation
    /\ x.lamports - amount >= Rent + MinDelegation
    /\ x.delegated - amount >= MinDelegation

SplitSource(x, amount) == [x EXCEPT !.lamports = @ - amount,
                                    !.delegated = @ - amount]
SplitTarget(x, amount, prefund) == [x EXCEPT !.lamports = prefund + amount,
                                             !.delegated = amount]

(* ---- merge ---- *)
MergeKind(x, e) ==
    IF Deactivating(x, e) THEN "transient"
    ELSE IF Effective(x, e) THEN "active"
    ELSE IF Activating(x, e) THEN "activating"
    ELSE "inactive"

CanMerge(dst, src, e) ==
    /\ Exists(dst) /\ Exists(src)
    /\ dst.staker = src.staker /\ dst.withdrawer = src.withdrawer
    /\ dst.locked = src.locked
    /\ <<MergeKind(dst, e), MergeKind(src, e)>> \in
            {<<"inactive", "inactive">>, <<"activating", "inactive">>,
             <<"activating", "activating">>, <<"active", "active">>}

MergedDelegation(dst, src, e) ==
    IF MergeKind(dst, e) = "inactive" THEN dst.delegated
    ELSE IF MergeKind(dst, e) = "active" THEN dst.delegated + src.delegated
    ELSE IF MergeKind(src, e) = "inactive" THEN dst.delegated + src.lamports
    ELSE dst.delegated + src.delegated + Rent

Merged(dst, src, e) == [dst EXCEPT !.lamports = @ + src.lamports,
                                   !.delegated = MergedDelegation(dst, src, e)]

(* ---- deactivate, delegate_stake ---- *)
Deactivated(x, e) == [x EXCEPT !.deact = IF @ = NEVER THEN e ELSE @]

CanDelegate(x, vote, e) ==
    /\ Exists(x)
    /\ x.lamports - Rent >= MinDelegation
    /\ Effective(x, e) => x.voter = vote /\ x.deact = e

(* A still effective account only has its deactivation rescinded. *)
Delegated(x, vote, e) ==
    IF Effective(x, e)
    THEN [x EXCEPT !.deact = NEVER]
    ELSE [x EXCEPT !.state = "stake", !.voter = vote,
                   !.delegated = x.lamports - Rent,
                   !.act = e, !.deact = NEVER]
=============================================================================
