--------------------------- MODULE WithdrawClient ---------------------------
(***************************************************************************)
(* The command that claims a withdraw request (claim-withdraw-request) on  *)
(* top of the program it drives, when its user leaves the choice of stake  *)
(* accounts to it.  It reads the request and the stake accounts of the     *)
(* bond, plans which to merge and which to claim, and sends that in        *)
(* transactions that take effect as a whole or not at all, while everybody *)
(* else goes on using the program.  It ends with the first transaction     *)
(* that fails or gets lost; its user runs it again.                        *)
(***************************************************************************)
EXTENDS ValidatorBonds, SequencesExt

CONSTANTS
    User,               \* the validator that uses the command
    TransactionSize     \* instructions that fit in a transaction

ASSUME ClientAssumption == User \in Votes /\ TransactionSize \in Nat \ {0}

VARIABLES
    phase,     \* "idle", "planned", "executing" (a transaction)
    plan,      \* the instructions that are not executed yet
    left,      \* how many of them are left of the transaction
    before,    \* what the transaction may have to restore
    promised   \* the request could be met when it was planned, and nobody
               \* else has acted since

client == <<phase, plan, left, before, promised>>
clientVars == <<vars, client>>

Chain == <<stakes, requests, wallet>>

ClientInit ==
    /\ Init
    /\ phase = "idle" /\ plan = <<>> /\ left = 0 /\ before = <<>> /\ promised = FALSE

-----------------------------------------------------------------------------
(* Planning: orchestrateWithdrawDeposit                                    *)

stakeAccountsFunded(v) ==
    {x \in StakeIds : InCustody(x) /\ stakes[x].staker = Bonds /\ DelegatedTo(x, v)}

(* The smallest first; equal ones come as the RPC node lists them.         *)
Sorted(accounts) ==
    {order \in SetToSeqs(accounts) :
        \A i, j \in DOMAIN order : i < j => stakes[order[i]].lamports <= stakes[order[j]].lamports}

isFullyActive(x) == stakes[x].act < Epoch /\ stakes[x].deact = NEVER

Merge(v, x, y) == [kind |-> "merge", vote |-> v, source |-> x, account |-> y]
Claim(v, x) == [kind |-> "claim", vote |-> v, source |-> x, account |-> x]

(* All other accounts are merged into the first one, or claimed on their   *)
(* own when that is not possible; the first one is claimed at last.  All   *)
(* are taken as long as something is left to withdraw: the sum that should *)
(* end the selection stays 0, for BN.add does not change its object.       *)
(* Variant: the first one is merged into the others.                       *)
FirstIntoOthers(v, order) ==
    LET first == Head(order)
        Handle(x) == IF isFullyActive(x) = isFullyActive(first) THEN Merge(v, first, x)
                     ELSE Claim(v, x)
    IN  [i \in 1..Len(order) - 1 |-> Handle(order[i + 1])] \o <<Claim(v, first)>>

Instructions(v, order) ==
    LET first == Head(order)
        Handle(x) == IF isFullyActive(x) = isFullyActive(first) THEN Merge(v, x, first)
                     ELSE Claim(v, x)
    IN  [i \in 1..Len(order) - 1 |-> Handle(order[i + 1])] \o <<Claim(v, first)>>

(* The accounts are in one state that allows for merging, none is under a  *)
(* lockup, and together they can be taken whole or split.  Accounts that   *)
(* are inactive are left out: they are merged but keep the delegation of   *)
(* one, which may not cover a split.                                       *)
CanBeMet(v) ==
    LET accounts == stakeAccountsFunded(v)
        kinds    == {MergeKind(stakes[x], Epoch) : x \in accounts}
        total    == MapThenSumSet(LAMBDA x : stakes[x].lamports, accounts)
        staked   == MapThenSumSet(LAMBDA x : stakes[x].delegated, accounts)
        amount   == amount_to_fulfill_withdraw(v)
    IN  /\ Running /\ voteLive[v] /\ requests[v].exists
        /\ WithdrawRequestReady(v)
        /\ amount > 0
        /\ kinds \in {{"active"}, {"activating"}}
        /\ \A x \in accounts : ~stakes[x].locked
        /\ \/ total <= amount
           \/ /\ amount >= MinSize /\ total - amount >= MinSize
              /\ staked - (total - amount) >= MinDelegation

Orchestrate(v) ==
    /\ phase = "idle"
    /\ requests[v].exists /\ amount_to_fulfill_withdraw(v) > 0
    /\ stakeAccountsFunded(v) # {}
    /\ \E order \in Sorted(stakeAccountsFunded(v)) : plan' = Instructions(v, order)
    /\ phase' = "planned"
    /\ promised' = CanBeMet(v)
    /\ UNCHANGED <<vars, left, before>>

-----------------------------------------------------------------------------
(* Sending                                                                 *)

Unused == {y \in StakeIds : Fresh(y) /\ \A i \in DOMAIN plan : plan[i].source # y}
NewKey == CHOOSE y \in Unused : TRUE

(* The two bounds of the instance that a split may run into *)
Exhausted == wallet < Rent \/ Unused = {}

(* The program accepts the instruction. *)
Accepted(t) ==
    LET x == t.source
        y == t.account
        v == t.vote
        amount == amount_to_fulfill_withdraw(v)
    IN  IF t.kind = "merge"
        THEN /\ Running /\ x # y /\ InCustody(x) /\ InCustody(y)
             /\ stakes[x].staker = stakes[y].staker /\ stakes[x].voter = stakes[y].voter
             /\ CanMerge(stakes[y], stakes[x], Epoch)
        ELSE /\ ClaimWithdrawChecks(v, x)
             /\ \/ stakes[x].lamports <= amount
                \/ /\ BigEnoughToSplit(x, amount)
                   /\ CanSplit(stakes[x], stakes[x].lamports - amount, Rent)

Begin ==
    /\ phase = "planned" /\ ~Exhausted
    /\ phase' = "executing"
    /\ left' = IF Len(plan) < TransactionSize THEN Len(plan) ELSE TransactionSize
    /\ before' = Chain
    /\ UNCHANGED <<vars, plan, promised>>

Done == /\ plan' = Tail(plan)
        /\ left' = left - 1
        /\ phase' = IF left > 1 THEN "executing" ELSE IF Len(plan) > 1 THEN "planned" ELSE "idle"
        /\ before' = IF left > 1 THEN before ELSE <<>>
        /\ promised' = (promised /\ Len(plan) > 1)

Ended == /\ phase' = "idle" /\ plan' = <<>> /\ left' = 0 /\ before' = <<>>
         /\ promised' = FALSE

MergeExecuted ==
    LET t == Head(plan)
    IN  /\ phase = "executing" /\ t.kind = "merge"
        /\ MergeStake(t.source, t.account)
        /\ Done

ClaimExecuted ==
    LET t == Head(plan)
    IN  /\ phase = "executing" /\ t.kind = "claim"
        /\ \/ ClaimWithdrawWhole(t.vote, t.source)
           \/ ~Exhausted /\ ClaimWithdrawSplit(t.vote, t.source, NewKey)
        /\ Done

(* An instruction fails: the transaction has changed nothing. *)
Fails ==
    /\ phase = "executing" /\ ~Accepted(Head(plan))
    /\ stakes' = before[1] /\ requests' = before[2] /\ wallet' = before[3]
    /\ UNCHANGED <<slot, config, voteLive, paid, settlements, claims>>
    /\ Ended

Lost ==
    /\ phase = "planned"
    /\ Ended /\ UNCHANGED vars

Execute == MergeExecuted \/ ClaimExecuted \/ Fails

-----------------------------------------------------------------------------
(* Everybody else, between two transactions: the validator himself and     *)
(* whoever merges stake accounts of the bond or runs another claim.        *)

OtherCall ==
    \/ Tick
    \/ CancelWithdrawRequest(User)
    \/ \E amount \in Amounts : InitWithdrawRequest(User, amount)
    \/ Unused # {} /\ \E d \in Deposits : CreateStake(NewKey, d)
    \/ \E x \in StakeIds : FundBond(x, User) \/ ClaimWithdrawWhole(User, x)
    \/ \E x \in StakeIds : OwnerDeactivates(x) \/ ManualDeposit(x)
    \/ \E x, y \in StakeIds : MergeStake(x, y)

Elsewhere ==
    /\ phase # "executing" /\ OtherCall
    /\ promised' = FALSE
    /\ UNCHANGED <<phase, plan, left, before>>

ClientNext ==
    \/ Orchestrate(User)
    \/ Begin \/ Execute \/ Lost
    \/ Elsewhere

ClientSpec == ClientInit /\ [][ClientNext]_clientVars

(* The validator repeats the command until nothing is left to claim; not   *)
(* every transaction is lost.                                              *)
FairClientSpec ==
    /\ ClientSpec
    /\ SF_clientVars(Orchestrate(User))
    /\ SF_clientVars(Begin)
    /\ WF_clientVars(Execute)

-----------------------------------------------------------------------------
(* Properties *)

(* Comment at orchestrateWithdrawRequest.ts:178: merging is possible only  *)
(* for accounts of the same state.  A plan made when all accounts are in   *)
(* one state and can pay, be it after the merges and claims before, in one *)
(* transaction or in several, fails at no instruction while nobody else    *)
(* acts.                                                                   *)
PromiseKept ==
    phase = "executing" /\ promised => Accepted(Head(plan))

(* A request that the bond can meet does not stay unmet: repeated runs of  *)
(* the command, lost, interleaved with other claims, merges and deposits,  *)
(* fulfil it, unless it is cancelled or the accounts fall apart.           *)
WithdrawCompletes ==
    CanBeMet(User) ~> (~CanBeMet(User) \/ Exhausted)
=============================================================================
