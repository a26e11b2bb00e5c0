-------------------------- MODULE MCResetScenarios --------------------------
(***************************************************************************)
(* Three scopes around one settlement and one withdraw request, so that    *)
(* none has to be checked with the emergencies and deposits of the others. *)
(***************************************************************************)
EXTENDS MCValidatorBonds

CONSTANTS x1, x2, x3     \* addresses of stake accounts

(* An account that is split keeps at least the minimum stake on top of its *)
(* rent; one refund of a split rent leaves enough of it to be delegated.   *)
ASSUME MinimumCoversRefund == \A m \in Minimums : m >= Rent + MinDelegation

NoSettlements == \A s \in Settlements : settlements[s] = NoSettlement
NoRequests == \A v \in Votes : requests[v] = NoRequest
OneDeposit == Supply - wallet <= 18 + Rent /\ Fresh(x3)

(* The lockup, which matters to requests only, keeps the second scope      *)
(* apart from the others.                                                  *)
Lockup == config.withdraw_lockup_epochs

(* The request of a validator, its lockup reconfigured.                    *)
RequestScope ==
    /\ Lockup \in {0, 1}
    /\ NoSettlements /\ OneDeposit
    /\ config.epochs_to_claim_settlement = 1

(* The pause, votes that are closed, the minimum stake and the claim       *)
(* window reconfigured, around one deposit.                                *)
PauseScope ==
    /\ Lockup = 2
    /\ NoRequests /\ OneDeposit

(* Two deposits, of which one is funded whole and the other split, so that *)
(* closing refunds out of the one or the other; the settlement is created  *)
(* in the first slot, which leaves time to claim, close and reset.         *)
RefundScope ==
    /\ Lockup = 0
    /\ NoRequests /\ ~config.paused
    /\ \A s \in Settlements : settlements[s].slot_created_at = 0
    /\ config.epochs_to_claim_settlement = 1
    /\ config.minimum_stake_lamports = 3
    /\ \A v \in Votes : voteLive[v]
    /\ \A x \in StakeIds : stakes[x].withdrawer # Owner

(* The states that are looked at *)
InScope == RequestScope \/ PauseScope \/ RefundScope

Appears(x) == Fresh(x) /\ Exists(stakes'[x])
Put == wallet - wallet'

(* The steps that are looked at.  Addresses are alike: the first ones are  *)
(* for deposits, the last one is for what is split off.  A second deposit  *)
(* is made before the settlement.                                          *)
Second == NoSettlements /\ Exists(stakes[x1]) /\ wallet = Supply - 18

Placed ==
    /\ Lockup' = Lockup \/ {Lockup, Lockup'} = {0, 1}
    /\ Appears(x1) => Put # Rent
    /\ Appears(x2) => \/ Put = Rent /\ (Lockup = 0 => NoSettlements)
                      \/ Put = 7 /\ Lockup = 0 /\ Second
    /\ Appears(x3) => Put = Rent
=============================================================================
