------------------------ MODULE WithdrawClientProofs ------------------------
(***************************************************************************)
(* The command in several transactions, each of them rolled back as a      *)
(* whole when one of its instructions fails, does not overdraw a withdraw  *)
(* request either, nor does it leave an account of the wrong shape: not in *)
(* the middle of a transaction, not after a roll-back, and whoever calls   *)
(* the program between two transactions.                                   *)
(***************************************************************************)
EXTENDS WithdrawClient, FundingProofs, FiniteSetTheorems

-----------------------------------------------------------------------------
(* Sequences *)

LEMMA TailOf ==
    ASSUME NEW S, NEW s \in Seq(S), s # <<>>
    PROVE  Head(s) \in S /\ Tail(s) \in Seq(S) /\ Len(Tail(s)) = Len(s) - 1
  OBVIOUS

LEMMA NotEmpty ==
    ASSUME NEW S, NEW s \in Seq(S)
    PROVE  s # <<>> <=> Len(s) >= 1
  OBVIOUS

-----------------------------------------------------------------------------
(* What is planned *)

Step == [kind : {"merge", "claim"}, vote : Votes, source : StakeIds, account : StakeIds]

LEMMA StepOf ==
    ASSUME NEW v \in Votes, NEW x \in StakeIds, NEW y \in StakeIds
    PROVE  Merge(v, x, y) \in Step /\ Claim(v, x) \in Step
  BY DEF Merge, Claim, Step

(* An order of accounts lists some, if there are any.                      *)
LEMMA OrderOf ==
    ASSUME NEW S \in SUBSET StakeIds, S # {}, NEW order \in SetToSeqs(S)
    PROVE  order \in Seq(StakeIds) /\ Len(order) >= 1
  <1>1. IsFiniteSet(S)
    BY StakeIdsAssumption, FS_Subset
  <1>2. Cardinality(S) \in Nat /\ Cardinality(S) # 0
    BY <1>1, FS_CardinalityType, FS_EmptySet
  <1>3. order \in [1 .. Cardinality(S) -> S]
    BY DEF SetToSeqs
  <1>4. order \in [1 .. Cardinality(S) -> StakeIds]
    BY <1>3
  <1> QED BY <1>2, <1>4

(* A plan is never empty and names accounts of the program only.           *)
LEMMA PlanOf ==
    ASSUME NEW v \in Votes, NEW order \in Seq(StakeIds), Len(order) >= 1
    PROVE  Instructions(v, order) \in Seq(Step) /\ Len(Instructions(v, order)) >= 1
  <1> DEFINE first == Head(order)
             Handle(x) == IF isFullyActive(x) = isFullyActive(first) THEN Merge(v, x, first)
                          ELSE Claim(v, x)
             others == [i \in 1 .. Len(order) - 1 |-> Handle(order[i + 1])]
  <1>1. first \in StakeIds
    BY TailOf, NotEmpty
  <1>2. ASSUME NEW x \in StakeIds PROVE Handle(x) \in Step
    BY <1>1, StepOf
  <1>3. ASSUME NEW i \in 1 .. Len(order) - 1 PROVE order[i + 1] \in StakeIds
    OBVIOUS
  <1>4. ASSUME NEW i \in 1 .. Len(order) - 1 PROVE Handle(order[i + 1]) \in Step
    BY <1>2, <1>3
  <1> HIDE DEF Handle
  <1>5. others \in [1 .. Len(order) - 1 -> Step]
    BY <1>4
  <1>6. Len(order) - 1 \in Nat
    OBVIOUS
  <1> HIDE DEF others
  <1>7. others \in Seq(Step)
    BY <1>5, <1>6
  <1>8. Claim(v, first) \in Step
    BY <1>1, StepOf
  <1> HIDE DEF first
  <1>9. others \o <<Claim(v, first)>> \in Seq(Step)
        /\ Len(others \o <<Claim(v, first)>>) = Len(others) + 1
    BY <1>7, <1>8
  <1>10. Instructions(v, order) = others \o <<Claim(v, first)>>
    BY DEF Instructions, others, Handle, first
  <1>11. Len(others) \in Nat
    BY <1>7
  <1> QED BY <1>9, <1>10, <1>11

-----------------------------------------------------------------------------
(* The inductive invariant *)

(* There is an instruction to execute whenever one is due.                 *)
PlanLasts ==
    /\ plan \in Seq(Step)
    /\ phase \in {"idle", "planned", "executing"}
    /\ phase = "planned" => plan # <<>>
    /\ phase = "executing" => left \in 1 .. Len(plan)

(* What a transaction may have to restore is as good as what it found.     *)
Restorable ==
    phase = "executing" =>
        /\ before[1] \in [StakeIds -> StakeAccount]
        /\ before[2] \in [Votes -> WithdrawRequest]
        /\ before[3] \in Nat
        /\ \A v \in Votes : before[2][v].withdrawn_amount <= before[2][v].requested_amount

IInv == TypeOK /\ RequestNotOverdrawn /\ PlanLasts /\ Restorable

LEMMA ClientInitInv == ClientInit => IInv
  <1> SUFFICES ASSUME ClientInit PROVE IInv
    OBVIOUS
  <1>1. TypeOK
    BY InitType DEF ClientInit
  <1>2. RequestNotOverdrawn
    BY DEF ClientInit, Init, RequestNotOverdrawn, NoRequest
  <1>3. PlanLasts /\ Restorable
    BY DEF ClientInit, PlanLasts, Restorable
  <1> QED BY <1>1, <1>2, <1>3 DEF IInv

(* The program's own invariants survive everything but a roll-back.        *)
LEMMA ProgramStep ==
    ASSUME IInv, [Next]_vars
    PROVE  TypeOK' /\ RequestNotOverdrawn'
  BY NextType, NextRequest DEF IInv

(* An instruction is executed: it was the first of the plan.               *)
LEMMA DoneKeeps ==
    ASSUME IInv, phase = "executing", Done
    PROVE  PlanLasts' /\ Restorable'
  <1>1. plan \in Seq(Step) /\ left \in 1 .. Len(plan) /\ plan # <<>>
    BY NotEmpty DEF IInv, PlanLasts
  <1>2. Tail(plan) \in Seq(Step) /\ Len(Tail(plan)) = Len(plan) - 1
    BY <1>1, TailOf
  <1>3. Len(plan) \in Nat
    BY <1>1
  <1>4. PlanLasts'
    <2>1. phase' = "planned" => plan' # <<>>
      <3> SUFFICES ASSUME phase' = "planned" PROVE plan' # <<>>
        OBVIOUS
      <3>1. Len(plan) > 1
        BY DEF Done
      <3>2. Len(Tail(plan)) >= 1
        BY <1>2, <1>3, <3>1
      <3> QED BY <1>2, <3>2, NotEmpty DEF Done
    <2>2. phase' = "executing" => left' \in 1 .. Len(plan')
      <3> SUFFICES ASSUME phase' = "executing" PROVE left' \in 1 .. Len(plan')
        OBVIOUS
      <3>1. left > 1
        BY DEF Done
      <3> QED BY <1>1, <1>2, <1>3, <3>1 DEF Done
    <2> QED BY <1>2, <2>1, <2>2 DEF PlanLasts, Done
  <1>5. Restorable'
    <2> SUFFICES ASSUME phase' = "executing" PROVE before' = before
      BY DEF Restorable, IInv
    <2>1. left > 1
      BY DEF Done
    <2> QED BY <2>1 DEF Done
  <1> QED BY <1>4, <1>5

(* An address that nobody has used, when there is one *)
LEMMA NewKeyType ==
    ASSUME Unused # {}
    PROVE  NewKey \in StakeIds
  <1>1. NewKey \in Unused
    BY DEF NewKey
  <1> QED BY <1>1 DEF Unused

LEMMA MergeExecutedIsStep ==
    ASSUME IInv, MergeExecuted
    PROVE  Next
  <1>1. Head(plan) \in Step
    BY TailOf, NotEmpty DEF IInv, PlanLasts, MergeExecuted
  <1>2. \E x, y \in StakeIds : MergeStake(x, y)
    BY <1>1 DEF MergeExecuted, Step
  <1> QED BY <1>2 DEF Next

LEMMA ClaimExecutedIsStep ==
    ASSUME IInv, ClaimExecuted
    PROVE  Next
  <1>1. Head(plan) \in Step
    BY TailOf, NotEmpty DEF IInv, PlanLasts, ClaimExecuted
  <1>2. CASE ClaimWithdrawWhole(Head(plan).vote, Head(plan).source)
    <2>1. \E v \in Votes, x \in StakeIds : ClaimWithdrawWhole(v, x)
      BY <1>1, <1>2 DEF Step
    <2> QED BY <2>1 DEF Next
  <1>3. CASE ~Exhausted /\ ClaimWithdrawSplit(Head(plan).vote, Head(plan).source, NewKey)
    <2>1. NewKey \in StakeIds
      BY <1>3, NewKeyType DEF Exhausted
    <2>2. \E v \in Votes, x, y \in StakeIds : ClaimWithdrawSplit(v, x, y)
      BY <1>1, <1>3, <2>1 DEF Step
    <2> QED BY <2>2 DEF Next
  <1> QED BY <1>2, <1>3 DEF ClaimExecuted

LEMMA OtherCallIsStep ==
    ASSUME OtherCall
    PROVE  Next
  <1>1. CASE Tick
    BY <1>1 DEF Next
  <1>2. CASE CancelWithdrawRequest(User)
    BY <1>2, ClientAssumption DEF Next
  <1>3. CASE \E amount \in Amounts : InitWithdrawRequest(User, amount)
    BY <1>3, ClientAssumption DEF Next
  <1>4. CASE Unused # {} /\ \E d \in Deposits : CreateStake(NewKey, d)
    BY <1>4, NewKeyType DEF Next
  <1>5. CASE \E x \in StakeIds : FundBond(x, User) \/ ClaimWithdrawWhole(User, x)
    BY <1>5, ClientAssumption DEF Next
  <1>6. CASE \E x \in StakeIds : OwnerDeactivates(x) \/ ManualDeposit(x)
    BY <1>6 DEF Next
  <1>7. CASE \E x, y \in StakeIds : MergeStake(x, y)
    BY <1>7 DEF Next
  <1> QED BY <1>1, <1>2, <1>3, <1>4, <1>5, <1>6, <1>7 DEF OtherCall

LEMMA EndedKeeps == Ended => PlanLasts' /\ Restorable'
  BY DEF Ended, PlanLasts, Restorable

LEMMA ClientNextInv == IInv /\ [ClientNext]_clientVars => IInv'
  <1> SUFFICES ASSUME IInv, [ClientNext]_clientVars PROVE IInv'
    OBVIOUS
  <1>1. CASE Orchestrate(User)
    <2>1. TypeOK' /\ RequestNotOverdrawn'
      BY <1>1, ProgramStep DEF Orchestrate
    <2>2. PICK order \in SetToSeqs(stakeAccountsFunded(User)) :
              plan' = Instructions(User, order)
      BY <1>1 DEF Orchestrate, Sorted
    <2>3. plan' \in Seq(Step) /\ Len(plan') >= 1
      <3>1. stakeAccountsFunded(User) \in SUBSET StakeIds
        BY DEF stakeAccountsFunded
      <3>2. order \in Seq(StakeIds) /\ Len(order) >= 1
        BY <1>1, <3>1, OrderOf DEF Orchestrate
      <3> QED BY <2>2, <3>2, ClientAssumption, PlanOf
    <2>4. PlanLasts' /\ Restorable'
      BY <1>1, <2>3, NotEmpty DEF Orchestrate, PlanLasts, Restorable
    <2> QED BY <2>1, <2>4 DEF IInv
  <1>2. CASE Begin
    <2>1. TypeOK' /\ RequestNotOverdrawn'
      BY <1>2, ProgramStep DEF Begin
    <2>2. PlanLasts'
      <3>1. plan \in Seq(Step) /\ Len(plan) >= 1 /\ Len(plan) \in Nat
        BY <1>2, NotEmpty DEF Begin, IInv, PlanLasts
      <3> QED BY <1>2, <3>1, ClientAssumption DEF Begin, PlanLasts
    <2>3. Restorable'
      BY <1>2 DEF Begin, Restorable, Chain, IInv, TypeOK, RequestNotOverdrawn
    <2> QED BY <2>1, <2>2, <2>3 DEF IInv
  <1>3. CASE MergeExecuted
    <2>1. TypeOK' /\ RequestNotOverdrawn'
      BY <1>3, MergeExecutedIsStep, ProgramStep
    <2> QED BY <1>3, <2>1, DoneKeeps DEF MergeExecuted, IInv
  <1>4. CASE ClaimExecuted
    <2>1. TypeOK' /\ RequestNotOverdrawn'
      BY <1>4, ClaimExecutedIsStep, ProgramStep
    <2> QED BY <1>4, <2>1, DoneKeeps DEF ClaimExecuted, IInv
  <1>5. CASE Fails
    <2>1. /\ stakes' \in [StakeIds -> StakeAccount]
          /\ requests' \in [Votes -> WithdrawRequest]
          /\ wallet' \in Nat
      BY <1>5 DEF Fails, IInv, Restorable
    <2>2. TypeOK'
      BY <1>5, <2>1 DEF Fails, IInv, TypeOK
    <2>3. RequestNotOverdrawn'
      BY <1>5 DEF Fails, IInv, Restorable, RequestNotOverdrawn
    <2> QED BY <1>5, <2>2, <2>3, EndedKeeps DEF Fails, IInv
  <1>6. CASE Lost
    <2>1. TypeOK' /\ RequestNotOverdrawn'
      BY <1>6, ProgramStep DEF Lost
    <2> QED BY <1>6, <2>1, EndedKeeps DEF Lost, IInv
  <1>7. CASE Elsewhere
    <2>1. TypeOK' /\ RequestNotOverdrawn'
      BY <1>7, OtherCallIsStep, ProgramStep DEF Elsewhere
    <2>2. PlanLasts' /\ Restorable'
      BY <1>7 DEF Elsewhere, IInv, PlanLasts, Restorable
    <2> QED BY <2>1, <2>2 DEF IInv
  <1>8. CASE UNCHANGED clientVars
    <2>1. TypeOK' /\ RequestNotOverdrawn'
      BY <1>8, ProgramStep DEF clientVars
    <2>2. PlanLasts' /\ Restorable'
      BY <1>8 DEF clientVars, client, IInv, PlanLasts, Restorable
    <2> QED BY <2>1, <2>2 DEF IInv
  <1> QED
    BY <1>1, <1>2, <1>3, <1>4, <1>5, <1>6, <1>7, <1>8 DEF ClientNext, Execute

-----------------------------------------------------------------------------
(* However often the command is repeated, cut short or rolled back, and    *)
(* whoever else claims the request meanwhile, no more leaves the bond than *)
(* was requested.                                                          *)
THEOREM CommandNeverOverdraws == ClientSpec => []RequestNotOverdrawn
  <1>1. IInv => RequestNotOverdrawn
    BY DEF IInv
  <1> QED BY <1>1, ClientInitInv, ClientNextInv, PTL DEF ClientSpec

-----------------------------------------------------------------------------
(* Sizes of the stake accounts *)

(* No account of the program or of its users is below the minimal size.    *)
MinimalSizes == \A x \in StakeIds : Exists(stakes[x]) => stakes[x].lamports >= MinSize

(* Nor is one of those a transaction may have to restore.                  *)
RestoresMinimal ==
    phase = "executing" =>
        \A x \in StakeIds : Exists(before[1][x]) => before[1][x].lamports >= MinSize

MinimalDeposits ==
    \A d \in Deposits, m \in Minimums : d.lamports >= Rent + m

(* The calls of the program that the command and its environment make      *)
Call ==
    \/ Tick
    \/ \E v \in Votes :
          \/ CancelWithdrawRequest(v)
          \/ \E amount \in Amounts : InitWithdrawRequest(v, amount)
    \/ \E x \in StakeIds, d \in Deposits : CreateStake(x, d)
    \/ \E v \in Votes, x \in StakeIds : FundBond(x, v) \/ ClaimWithdrawWhole(v, x)
    \/ \E v \in Votes, x, y \in StakeIds : ClaimWithdrawSplit(v, x, y)
    \/ \E x \in StakeIds : OwnerDeactivates(x) \/ ManualDeposit(x)
    \/ \E x, y \in StakeIds : MergeStake(x, y)

(* Only the lamports of an account matter, and most calls keep them.       *)
LEMMA OneOfMinimalSize ==
  ASSUME TypeOK, MinimalSizes, config' = config, NEW x \in StakeIds, NEW a,
         stakes' = [stakes EXCEPT ![x] = a], Exists(a) => a.lamports >= MinSize
  PROVE  MinimalSizes'
  BY DEF MinimalSizes, MinSize, TypeOK

LEMMA TwoOfMinimalSize ==
  ASSUME TypeOK, MinimalSizes, config' = config, NEW x \in StakeIds, NEW y \in StakeIds,
         NEW a, NEW b, stakes' = [stakes EXCEPT ![x] = a, ![y] = b],
         Exists(a) => a.lamports >= MinSize, Exists(b) => b.lamports >= MinSize
  PROVE  MinimalSizes'
  BY DEF MinimalSizes, MinSize, TypeOK

LEMMA CreatedOfMinimalSize ==
  ASSUME TypeOK, MinimalSizes, MinimalDeposits, NEW x \in StakeIds, NEW d \in Deposits,
         CreateStake(x, d)
  PROVE  MinimalSizes' /\ config' = config
  <1> DEFINE acc == [NoAccount EXCEPT !.state = "initialized", !.lamports = d.lamports,
                                      !.staker = d.staker, !.withdrawer = d.withdrawer,
                                      !.locked = d.locked]
             a == IF d.voter = Nobody THEN acc ELSE Delegated(acc, d.voter, Epoch)
  <1>1. stakes' = [stakes EXCEPT ![x] = a] /\ config' = config
    BY DEF CreateStake
  <1>2. acc.lamports = d.lamports /\ Delegated(acc, d.voter, Epoch).lamports = d.lamports
    BY DEF NoAccount, Delegated
  <1>3. a.lamports = d.lamports  BY <1>2
  <1>4. d.lamports >= MinSize  BY DEF MinimalDeposits, TypeOK, Config, MinSize
  <1> HIDE DEF a
  <1> QED BY <1>1, <1>3, <1>4, OneOfMinimalSize

LEMMA SplitOfMinimalSize ==
  ASSUME TypeOK, MinimalSizes, NEW v \in Votes, NEW x \in StakeIds, NEW y \in StakeIds,
         ClaimWithdrawSplit(v, x, y)
  PROVE  MinimalSizes' /\ config' = config
  <1> DEFINE amount == amount_to_fulfill_withdraw(v)
             leftover == stakes[x].lamports - amount
             a == Released(SplitSource(stakes[x], leftover))
             b == SplitTarget(stakes[x], leftover, Rent)
  <1>1. /\ stakes' = [stakes EXCEPT ![x] = a, ![y] = b] /\ config' = config
        /\ leftover >= MinSize /\ amount >= MinSize
    BY DEF ClaimWithdrawSplit, BigEnoughToSplit
  <1>2. stakes[x] \in StakeAccount /\ stakes[x].lamports \in Nat /\ amount \in Nat
    BY AmountToFulfill DEF TypeOK, StakeAccount
  <1>3. a.lamports = stakes[x].lamports - leftover /\ b.lamports = Rent + leftover
    BY <1>2 DEF Released, SplitSource, SplitTarget, StakeAccount
  <1> HIDE DEF a, b, amount
  <1>4. MinSize \in Nat  BY MinSizeNat DEF TypeOK
  <1>5. a.lamports >= MinSize /\ b.lamports >= MinSize
    BY <1>1, <1>2, <1>3, <1>4, RentAssumption
  <1> QED BY <1>1, <1>5, TwoOfMinimalSize

LEMMA MergedOfMinimalSize ==
  ASSUME TypeOK, MinimalSizes, NEW x \in StakeIds, NEW y \in StakeIds, MergeStake(x, y)
  PROVE  MinimalSizes' /\ config' = config
  <1> DEFINE a == Merged(stakes[y], stakes[x], Epoch)
  <1>1. /\ stakes' = [stakes EXCEPT ![y] = a, ![x] = NoAccount] /\ config' = config
        /\ Exists(stakes[y])
    BY DEF MergeStake, InCustody
  <1>2. stakes[x].lamports \in Nat /\ stakes[y].lamports \in Nat /\ stakes[y] \in StakeAccount
    BY DEF TypeOK, StakeAccount
  <1>3. a.lamports = stakes[y].lamports + stakes[x].lamports
    BY <1>2 DEF Merged, StakeAccount
  <1> HIDE DEF a
  <1>4. MinSize \in Nat /\ stakes[y].lamports >= MinSize
    BY <1>1, MinSizeNat DEF TypeOK, MinimalSizes
  <1>5. a.lamports >= MinSize  BY <1>2, <1>3, <1>4
  <1>6. ~Exists(NoAccount)  BY DEF NoAccount, Exists
  <1> QED BY <1>1, <1>5, <1>6, TwoOfMinimalSize

LEMMA CallOfMinimalSize ==
  ASSUME TypeOK, MinimalSizes, MinimalDeposits, Call
  PROVE  MinimalSizes' /\ config' = config
  <1>1. CASE \/ Tick
             \/ \E v \in Votes :
                   \/ CancelWithdrawRequest(v)
                   \/ \E amount \in Amounts : InitWithdrawRequest(v, amount)
    <2>1. stakes' = stakes /\ config' = config
      BY <1>1 DEF Tick, CancelWithdrawRequest, InitWithdrawRequest
    <2> QED BY <2>1 DEF MinimalSizes, MinSize
  <1>2. CASE \E x \in StakeIds, d \in Deposits : CreateStake(x, d)
    BY <1>2, CreatedOfMinimalSize
  <1>3. ASSUME NEW x \in StakeIds,
               \/ \E v \in Votes : FundBond(x, v) \/ ClaimWithdrawWhole(v, x)
               \/ OwnerDeactivates(x) \/ ManualDeposit(x)
        PROVE  MinimalSizes' /\ config' = config
    <2> DEFINE a == [stakes[x] EXCEPT !.staker = Bonds, !.withdrawer = Bonds]
               b == Released(stakes[x])
               c == Deactivated(stakes[x], Epoch)
    <2>1. /\ config' = config
          /\ \/ stakes' = [stakes EXCEPT ![x] = a]
             \/ stakes' = [stakes EXCEPT ![x] = b]
             \/ stakes' = [stakes EXCEPT ![x] = c]
      BY <1>3 DEF FundBond, ClaimWithdrawWhole, OwnerDeactivates, ManualDeposit, TypeOK
    <2>2. /\ a.lamports = stakes[x].lamports /\ a.state = stakes[x].state
          /\ b.lamports = stakes[x].lamports /\ b.state = stakes[x].state
          /\ c.lamports = stakes[x].lamports /\ c.state = stakes[x].state
      BY DEF TypeOK, StakeAccount, Released, Deactivated
    <2>3. Exists(stakes[x]) => stakes[x].lamports >= MinSize  BY DEF MinimalSizes
    <2> HIDE DEF a, b, c
    <2> QED BY <2>1, <2>2, <2>3, OneOfMinimalSize DEF Exists
  <1>4. CASE \E v \in Votes, x, y \in StakeIds : ClaimWithdrawSplit(v, x, y)
    BY <1>4, SplitOfMinimalSize
  <1>5. CASE \E x, y \in StakeIds : MergeStake(x, y)
    BY <1>5, MergedOfMinimalSize
  <1> QED BY <1>1, <1>2, <1>3, <1>4, <1>5 DEF Call

(* What the command executes, and what others do, are such calls.          *)
LEMMA ClientCalls ==
  ASSUME IInv, MergeExecuted \/ ClaimExecuted \/ OtherCall
  PROVE  Call
  <1>1. CASE MergeExecuted \/ ClaimExecuted
    <2>1. Head(plan) \in Step
      BY <1>1, TailOf, NotEmpty DEF IInv, PlanLasts, MergeExecuted, ClaimExecuted
    <2>2. CASE MergeExecuted
      <3>1. \E x, y \in StakeIds : MergeStake(x, y)
        BY <2>1, <2>2 DEF MergeExecuted, Step
      <3> QED BY <3>1 DEF Call
    <2>3. CASE ClaimExecuted
      <3>1. \/ ClaimWithdrawWhole(Head(plan).vote, Head(plan).source)
            \/ ~Exhausted /\ ClaimWithdrawSplit(Head(plan).vote, Head(plan).source, NewKey)
        BY <2>3 DEF ClaimExecuted
      <3>2. ~Exhausted => NewKey \in StakeIds  BY NewKeyType DEF Exhausted
      <3>3. \/ \E v \in Votes, x \in StakeIds : ClaimWithdrawWhole(v, x)
            \/ \E v \in Votes, x, y \in StakeIds : ClaimWithdrawSplit(v, x, y)
        BY <2>1, <3>1, <3>2 DEF Step
      <3> QED BY <3>3 DEF Call
    <2> QED BY <1>1, <2>2, <2>3
  <1>2. CASE OtherCall
    <2>1. CASE \/ Tick \/ CancelWithdrawRequest(User)
               \/ \E amount \in Amounts : InitWithdrawRequest(User, amount)
      BY <2>1, ClientAssumption DEF Call
    <2>2. CASE Unused # {} /\ \E d \in Deposits : CreateStake(NewKey, d)
      BY <2>2, NewKeyType DEF Call
    <2>3. CASE \E x \in StakeIds : FundBond(x, User) \/ ClaimWithdrawWhole(User, x)
      BY <2>3, ClientAssumption DEF Call
    <2>4. CASE \/ \E x \in StakeIds : OwnerDeactivates(x) \/ ManualDeposit(x)
               \/ \E x, y \in StakeIds : MergeStake(x, y)
      BY <2>4 DEF Call
    <2> QED BY <1>2, <2>1, <2>2, <2>3, <2>4 DEF OtherCall
  <1> QED BY <1>1, <1>2

SizeInv == MinimalSizes /\ RestoresMinimal

LEMMA ClientNextSizes ==
  ASSUME MinimalDeposits, IInv, SizeInv, [ClientNext]_clientVars
  PROVE  SizeInv'
  <1>0. TypeOK /\ MinimalSizes /\ RestoresMinimal  BY DEF IInv, SizeInv
  <1>1. CASE \/ Orchestrate(User) \/ Begin \/ Lost \/ UNCHANGED clientVars
    <2>1. stakes' = stakes /\ config' = config
      BY <1>1 DEF Orchestrate, Begin, Lost, clientVars, vars
    <2>2. MinimalSizes'  BY <1>0, <2>1 DEF MinimalSizes, MinSize
    <2>3. RestoresMinimal'
      <3>1. CASE Orchestrate(User) \/ Lost
        BY <3>1 DEF Orchestrate, Lost, Ended, RestoresMinimal
      <3>2. CASE Begin
        <4>1. before'[1] = stakes  BY <3>2 DEF Begin, Chain
        <4> QED BY <1>0, <2>1, <4>1 DEF RestoresMinimal, MinimalSizes, MinSize
      <3>3. CASE UNCHANGED clientVars
        BY <1>0, <2>1, <3>3 DEF RestoresMinimal, MinSize, clientVars, client
      <3> QED BY <1>1, <3>1, <3>2, <3>3
    <2> QED BY <2>2, <2>3 DEF SizeInv
  <1>2. CASE MergeExecuted \/ ClaimExecuted
    <2>1. MinimalSizes' /\ config' = config
      BY <1>0, <1>2, ClientCalls, CallOfMinimalSize
    <2>2. phase = "executing" /\ (phase' = "executing" => before' = before)
      BY <1>2 DEF MergeExecuted, ClaimExecuted, Done
    <2>3. RestoresMinimal'  BY <1>0, <2>1, <2>2 DEF RestoresMinimal, MinSize
    <2> QED BY <2>1, <2>3 DEF SizeInv
  <1>3. CASE Fails
    <2>1. phase = "executing" /\ stakes' = before[1] /\ config' = config /\ phase' = "idle"
      BY <1>3 DEF Fails, Ended
    <2> QED BY <1>0, <2>1 DEF SizeInv, RestoresMinimal, MinimalSizes, MinSize
  <1>4. CASE Elsewhere
    <2>1. MinimalSizes' /\ config' = config
      BY <1>0, <1>4, ClientCalls, CallOfMinimalSize DEF Elsewhere
    <2>2. phase' # "executing"  BY <1>4 DEF Elsewhere
    <2> QED BY <2>1, <2>2 DEF SizeInv, RestoresMinimal
  <1> QED BY <1>1, <1>2, <1>3, <1>4 DEF ClientNext, Execute

(* As long as deposits are of minimal size, neither claims in whole and in *)
(* part nor merges nor a transaction rolled back in between leave a bond   *)
(* with an account below it.                                               *)
THEOREM CommandKeepsMinimalSizes ==
  ASSUME MinimalDeposits
  PROVE  ClientSpec => []BondStakesOfMinimalSize
  <1>1. ClientInit => SizeInv
    BY DEF ClientInit, Init, SizeInv, MinimalSizes, RestoresMinimal, NoAccount, Exists
  <1>2. IInv /\ SizeInv /\ [ClientNext]_clientVars => SizeInv'
    BY ClientNextSizes
  <1>3. SizeInv => BondStakesOfMinimalSize
    BY DEF SizeInv, MinimalSizes, BondStakesOfMinimalSize, InCustody
  <1> QED BY <1>1, <1>2, <1>3, ClientInitInv, ClientNextInv, PTL DEF ClientSpec

-----------------------------------------------------------------------------
(* A plan whose accounts can pay *)

Lamports == [x \in StakeIds |-> stakes[x].lamports]
Delegations == [x \in StakeIds |-> stakes[x].delegated]

(* The accounts that the rest of the plan is about, and the one that all   *)
(* others are merged into                                                  *)
Listed == {plan[i].source : i \in DOMAIN plan}
Target == plan[Len(plan)].source

(* The rest of the plan merges one account after the other into the last   *)
(* one, which is claimed.                                                  *)
MergesAndClaims ==
    /\ phase \in {"planned", "executing"} /\ plan # <<>>
    /\ plan[Len(plan)] = Claim(User, Target)
    /\ \A i \in 1 .. Len(plan) - 1 : plan[i] = Merge(User, plan[i].source, Target)
    /\ \A i, j \in DOMAIN plan : plan[i].source = plan[j].source => i = j

(* An account of the user's bond in state kind, not under a lockup         *)
Usable(x, kind) ==
    /\ InCustody(x) /\ stakes[x].staker = Bonds /\ DelegatedTo(x, User)
    /\ ~stakes[x].locked
    /\ MergeKind(stakes[x], Epoch) = kind

(* What the accounts S hold together can be taken whole or split.          *)
CanPay(S) ==
    LET amount == amount_to_fulfill_withdraw(User)
        rest == Sum(Lamports, S) - amount
    IN  \/ rest <= 0
        \/ amount >= MinSize /\ rest >= MinSize /\ Sum(Delegations, S) - rest >= MinDelegation

RequestIsReady ==
    /\ Running /\ voteLive[User] /\ requests[User].exists /\ WithdrawRequestReady(User)
    /\ amount_to_fulfill_withdraw(User) > 0

(* What keeps a promise from one instruction to the next                   *)
Promise ==
    promised =>
       /\ MergesAndClaims
       /\ RequestIsReady
       /\ \E kind \in {"active", "activating"} : \A x \in Listed : Usable(x, kind)
       /\ CanPay(Listed)

(* No delegation counts that is not covered by lamports, in the accounts   *)
(* and in those a transaction may have to restore.                         *)
RestoresBacked ==
    phase = "executing" => \A x \in StakeIds : Backed(before[1][x], Epoch)

LEMMA HoldingsType ==
  ASSUME TypeOK
  PROVE  Lamports \in [StakeIds -> Int] /\ Delegations \in [StakeIds -> Int]
  BY DEF TypeOK, StakeAccount, Lamports, Delegations

(* An order of a set lists each of its elements once.                      *)
LEMMA OrderListsAll ==
  ASSUME NEW S \in SUBSET StakeIds, S # {}, NEW order \in SetToSeqs(S)
  PROVE  /\ order \in Seq(StakeIds) /\ Len(order) >= 1
         /\ {order[i] : i \in 1 .. Len(order)} = S
         /\ \A i, j \in 1 .. Len(order) : order[i] = order[j] => i = j
  <1> DEFINE n == Cardinality(S)
  <1>1. IsFiniteSet(S) /\ n \in Nat
    BY StakeIdsAssumption, FS_Subset, FS_CardinalityType
  <1>2. order \in Seq(StakeIds) /\ Len(order) >= 1
    BY OrderOf
  <1>3. order \in [1 .. n -> S] /\ \A i, j \in 1 .. n : i # j => order[i] # order[j]
    BY DEF SetToSeqs
  <1> HIDE DEF n
  <1>4. Len(order) = n
    BY <1>1, <1>2, <1>3
  <1>5. order \in Injection(1 .. n, S)
    BY <1>3 DEF Injection, IsInjective
  <1>6. IsFiniteSet(1 .. n) /\ Cardinality(1 .. n) = n
    BY <1>1, FS_Interval
  <1>7. order \in Surjection(1 .. n, S)
    BY <1>1, <1>5, <1>6, FS_Injection DEF n
  <1>8. {order[i] : i \in 1 .. n} = S
    BY <1>3, <1>7 DEF Surjection
  <1> QED BY <1>2, <1>3, <1>4, <1>8

(* Accounts that are active, or activating, are merged by the plan.        *)
LEMMA KindTells ==
  ASSUME TypeOK, DelegationsBacked, NEW x \in StakeIds
  PROVE  /\ MergeKind(stakes[x], Epoch) = "active" => isFullyActive(x)
         /\ MergeKind(stakes[x], Epoch) = "activating" => ~isFullyActive(x)
  <1>1. stakes[x] \in StakeAccount /\ Epoch \in Nat /\ stakes[x].deact <= Epoch
    BY EpochNat DEF TypeOK, DelegationsBacked, Backed
  <1> QED BY <1>1 DEF MergeKind, Effective, Deactivating, Activating, isFullyActive,
                      StakeAccount, NEVER

(* The sums of CanBeMet are sums of these functions.                       *)
LEMMA HoldingsAddUp ==
  ASSUME NEW S \in SUBSET StakeIds
  PROVE  /\ MapThenSumSet(LAMBDA x : stakes[x].lamports, S) = Sum(Lamports, S)
         /\ MapThenSumSet(LAMBDA x : stakes[x].delegated, S) = Sum(Delegations, S)
  <1>1. MapThenSumSet(LAMBDA x : stakes[x].lamports, S) = Sum(Lamports, S)
    BY DEF Sum, MapThenSumSet, MapThenFoldSet, Lamports
  <1>2. MapThenSumSet(LAMBDA x : stakes[x].delegated, S) = Sum(Delegations, S)
    BY DEF Sum, MapThenSumSet, MapThenFoldSet, Delegations
  <1> QED BY <1>1, <1>2

(* If the accounts can pay, they are in one of two states.                 *)
LEMMA MetBy ==
  ASSUME TypeOK, CanBeMet(User)
  PROVE  LET S == stakeAccountsFunded(User)
         IN  /\ RequestIsReady /\ CanPay(S)
             /\ \E kind \in {"active", "activating"} : \A x \in S : Usable(x, kind)
  <1> DEFINE S == stakeAccountsFunded(User)
             kinds == {MergeKind(stakes[x], Epoch) : x \in S}
             total == MapThenSumSet(LAMBDA x : stakes[x].lamports, S)
             staked == MapThenSumSet(LAMBDA x : stakes[x].delegated, S)
             amount == amount_to_fulfill_withdraw(User)
  <1>1. /\ RequestIsReady
        /\ kinds \in {{"active"}, {"activating"}} /\ \A x \in S : ~stakes[x].locked
        /\ \/ total <= amount
           \/ /\ amount >= MinSize /\ total - amount >= MinSize
              /\ staked - (total - amount) >= MinDelegation
    BY Zenon DEF CanBeMet, RequestIsReady
  <1>2. \A x \in S : InCustody(x) /\ stakes[x].staker = Bonds /\ DelegatedTo(x, User)
    BY DEF stakeAccountsFunded
  <1>3. \E kind \in {"active", "activating"} : \A x \in S : MergeKind(stakes[x], Epoch) = kind
    BY <1>1
  <1>4. total = Sum(Lamports, S) /\ staked = Sum(Delegations, S)
    BY HoldingsAddUp DEF stakeAccountsFunded
  <1>5. Sum(Lamports, S) \in Int /\ Sum(Delegations, S) \in Int
    <2>1. S \in SUBSET StakeIds  BY DEF stakeAccountsFunded
    <2> HIDE DEF S
    <2>2. IsFiniteSet(S)  BY <2>1, StakeIdsAssumption, FS_Subset
    <2> QED BY <2>1, <2>2, HoldingsType, SumInt
  <1>6. amount \in Nat  BY AmountToFulfill, ClientAssumption
  <1> HIDE DEF total, staked, amount, S
  <1>7. CanPay(S)  BY <1>1, <1>4, <1>5, <1>6 DEF CanPay, amount
  <1> QED BY <1>1, <1>2, <1>3, <1>7 DEF Usable, S

(* The plan that is made of accounts that can pay                          *)
LEMMA PlanPromises ==
  ASSUME IInv, DelegationsBacked, Orchestrate(User)
  PROVE  Promise'
  <1> SUFFICES ASSUME promised'
               PROVE  /\ MergesAndClaims' /\ RequestIsReady' /\ CanPay(Listed)'
                      /\ (\E kind \in {"active", "activating"} :
                             \A x \in Listed : Usable(x, kind))'
    BY DEF Promise
  <1> DEFINE S == stakeAccountsFunded(User)
  <1>0. TypeOK /\ S \in SUBSET StakeIds /\ S # {} /\ CanBeMet(User) /\ UNCHANGED vars
    BY DEF IInv, Orchestrate, stakeAccountsFunded
  <1>1. PICK order \in SetToSeqs(S) : plan' = Instructions(User, order)
    BY DEF Orchestrate, Sorted
  <1>2. PICK kind \in {"active", "activating"} : \A x \in S : Usable(x, kind)
    BY <1>0, MetBy
  <1> HIDE DEF S
  <1> DEFINE n == Len(order)
             first == order[1]
  <1>3. /\ order \in Seq(StakeIds) /\ n \in Nat /\ n >= 1 /\ first \in S
        /\ {order[i] : i \in 1 .. n} = S
        /\ \A i, j \in 1 .. n : order[i] = order[j] => i = j
    BY <1>0, OrderListsAll
  <1>4. \A x \in S : isFullyActive(x) = isFullyActive(first)
    <2> SUFFICES ASSUME NEW x \in S PROVE isFullyActive(x) = isFullyActive(first)
      OBVIOUS
    <2>1. x \in StakeIds /\ first \in StakeIds  BY <1>0, <1>3
    <2>2. MergeKind(stakes[x], Epoch) = kind /\ MergeKind(stakes[first], Epoch) = kind
      BY <1>2, <1>3 DEF Usable
    <2>3. isFullyActive(x) \in BOOLEAN /\ isFullyActive(first) \in BOOLEAN
      BY DEF isFullyActive
    <2> QED BY <1>0, <2>1, <2>2, <2>3, KindTells
  <1>5. plan' = [i \in 1 .. n - 1 |-> Merge(User, order[i + 1], first)] \o <<Claim(User, first)>>
    <2>1. \A i \in 1 .. n - 1 : order[i + 1] \in S  BY <1>3
    <2>2. \A i \in 1 .. n - 1 : isFullyActive(order[i + 1]) = isFullyActive(first)
      BY <1>4, <2>1
    <2>3. first = Head(order)  BY <1>3
    <2> QED BY <1>1, <2>2, <2>3 DEF Instructions
  <1>6. /\ Len(plan') = n /\ DOMAIN plan' = 1 .. n
        /\ plan'[n] = Claim(User, first)
        /\ \A i \in 1 .. n - 1 : plan'[i] = Merge(User, order[i + 1], first)
    <2> DEFINE T == {Merge(User, order[i + 1], first) : i \in 1 .. n - 1}
               others == [i \in 1 .. n - 1 |-> Merge(User, order[i + 1], first)]
    <2>1. n - 1 \in Nat  BY <1>3
    <2>2. others \in [1 .. n - 1 -> T]  OBVIOUS
    <2>3. \A i \in 1 .. n - 1 : others[i] = Merge(User, order[i + 1], first)  OBVIOUS
    <2>4. plan' = others \o <<Claim(User, first)>>  BY <1>5
    <2> HIDE DEF others, T
    <2>5. others \in Seq(T) /\ Len(others) = n - 1  BY <2>1, <2>2
    <2> DEFINE U == T \cup {Claim(User, first)}
    <2>6. others \in Seq(U) /\ <<Claim(User, first)>> \in Seq(U)  BY <2>1, <2>2
    <2> HIDE DEF U
    <2>7. Len(plan') = n /\ DOMAIN plan' = 1 .. n  BY <1>3, <2>1, <2>4, <2>5, <2>6
    <2>8. plan'[n] = Claim(User, first)  BY <1>3, <2>1, <2>4, <2>5, <2>6
    <2>9. \A i \in 1 .. n - 1 : plan'[i] = others[i]  BY <1>3, <2>1, <2>4, <2>5, <2>6
    <2> QED BY <2>3, <2>7, <2>8, <2>9
  <1>7. /\ plan'[n].source = first
        /\ \A i \in 1 .. n - 1 : plan'[i].source = order[i + 1]
    <2>1. \A x, y : Merge(User, x, y).source = x /\ Claim(User, x).source = x
      BY DEF Merge, Claim
    <2> QED BY <1>6, <2>1
  <1>8. Target' = first  BY <1>6, <1>7 DEF Target
  <1>9. MergesAndClaims'
    <2>1. phase' \in {"planned", "executing"}  BY DEF Orchestrate
    <2>2. plan' # <<>>  BY <1>3, <1>6
    <2>3. \A i, j \in 1 .. n : plan'[i].source = plan'[j].source => i = j
      <3> SUFFICES ASSUME NEW i \in 1 .. n, NEW j \in 1 .. n,
                          plan'[i].source = plan'[j].source
                   PROVE  i = j
        OBVIOUS
      <3>1. CASE i = n /\ j # n  BY <1>3, <1>7, <3>1
      <3>2. CASE i # n /\ j = n  BY <1>3, <1>7, <3>2
      <3>3. CASE i # n /\ j # n  BY <1>3, <1>7, <3>3
      <3> QED BY <3>1, <3>2, <3>3
    <2>4. plan'[Len(plan')] = Claim(User, Target')  BY <1>6, <1>8
    <2>5. \A i \in 1 .. Len(plan') - 1 : plan'[i] = Merge(User, plan'[i].source, Target')
      BY <1>6, <1>7, <1>8
    <2>6. \A i, j \in DOMAIN plan' : plan'[i].source = plan'[j].source => i = j
      BY <1>6, <2>3
    <2> QED BY <2>1, <2>2, <2>4, <2>5, <2>6 DEF MergesAndClaims
  <1>10. Listed' = S
    <2>1. Listed' = {plan'[i].source : i \in 1 .. n}  BY <1>6 DEF Listed
    <2>2. \A i \in 1 .. n : plan'[i].source \in S  BY <1>3, <1>7
    <2>3. ASSUME NEW i \in 1 .. n PROVE order[i] \in Listed'
      <3>1. CASE i = 1  BY <1>3, <1>7, <2>1, <3>1
      <3>2. CASE i # 1
        <4>1. i - 1 \in 1 .. n - 1 /\ i - 1 \in 1 .. n /\ (i - 1) + 1 = i  BY <1>3, <3>2
        <4>2. plan'[i - 1].source = order[i]  BY <1>7, <4>1
        <4> QED BY <2>1, <4>1, <4>2
      <3> QED BY <3>1, <3>2
    <2> QED BY <1>3, <2>1, <2>2, <2>3
  <1>11. RequestIsReady' /\ CanPay(S)'
    <2>1. RequestIsReady /\ CanPay(S)  BY <1>0, MetBy DEF S
    <2>2. S' = S  BY <1>0 DEF S, stakeAccountsFunded, InCustody, DelegatedTo, vars
    <2> QED BY <1>0, <2>1, <2>2
         DEF vars, RequestIsReady, Running, WithdrawRequestReady, Epoch, CanPay,
             amount_to_fulfill_withdraw, Lamports, Delegations, MinSize
  <1>12. CanPay(Listed)'
    <2>1. S' = S  BY <1>0 DEF S, stakeAccountsFunded, InCustody, DelegatedTo, vars
    <2>2. Listed' = S'  BY <1>10, <2>1
    <2> QED BY <1>11, <2>2 DEF CanPay
  <1>13. \A x \in Listed' : Usable(x, kind)'
    BY <1>0, <1>2, <1>10 DEF Usable, vars, InCustody, DelegatedTo, Epoch
  <1> QED BY <1>9, <1>11, <1>12, <1>13

(* One instruction of the plan is executed: the rest is still such a plan, *)
(* about all other accounts.                                               *)
LEMMA RestOfPlan ==
  ASSUME IInv, MergesAndClaims, Done, phase = "executing", Head(plan).kind = "merge"
  PROVE  /\ MergesAndClaims' /\ Target' = Target /\ Listed' = Listed \ {Head(plan).source}
         /\ Head(plan) = Merge(User, Head(plan).source, Target)
         /\ Head(plan).source \in Listed /\ Target \in Listed
         /\ Head(plan).source # Target /\ Listed \in SUBSET StakeIds
  <1> DEFINE n == Len(plan)
             x == Head(plan).source
  <1>1. /\ plan \in Seq(Step) /\ n \in Nat /\ n >= 1 /\ DOMAIN plan = 1 .. n
        /\ Head(plan) = plan[1] /\ left \in 1 .. n
    <2>1. plan \in Seq(Step) /\ plan # <<>> /\ left \in 1 .. n
      BY DEF IInv, PlanLasts, MergesAndClaims
    <2> QED BY <2>1, NotEmpty
  <1>2. Claim(User, Target).kind = "claim"  BY DEF Claim
  <1>3. n > 1
    BY <1>1, <1>2 DEF MergesAndClaims
  <1>4. /\ plan' = Tail(plan) /\ Len(Tail(plan)) = n - 1 /\ DOMAIN Tail(plan) = 1 .. n - 1
        /\ \A i \in 1 .. n - 1 : Tail(plan)[i] = plan[i + 1]
    BY <1>1, <1>3 DEF Done
  <1>5. Target' = Target
    BY <1>1, <1>3, <1>4 DEF Target
  <1>6. Listed' = {plan[i].source : i \in 2 .. n}
    <2>1. Listed' = {Tail(plan)[i].source : i \in 1 .. n - 1}  BY <1>4 DEF Listed
    <2>2. Listed' = {plan[i + 1].source : i \in 1 .. n - 1}  BY <1>4, <2>1
    <2>3. ASSUME NEW i \in 2 .. n PROVE i - 1 \in 1 .. n - 1 /\ (i - 1) + 1 = i
      BY <1>1
    <2>4. ASSUME NEW i \in 1 .. n - 1 PROVE i + 1 \in 2 .. n
      BY <1>1
    <2> QED BY <2>2, <2>3, <2>4
  <1>7. \A i, j \in 1 .. n : plan[i].source = plan[j].source => i = j
    BY <1>1 DEF MergesAndClaims
  <1>8. Listed' = Listed \ {x}
    <2>1. Listed = {plan[i].source : i \in 1 .. n}  BY <1>1 DEF Listed
    <2>2. \A i \in 1 .. n : plan[i].source = x <=> i = 1  BY <1>1, <1>7
    <2>3. \A i \in 1 .. n : i = 1 \/ i \in 2 .. n  BY <1>1
    <2>4. \A i \in 2 .. n : i \in 1 .. n /\ i # 1  BY <1>1
    <2> QED BY <1>6, <2>1, <2>2, <2>3, <2>4
  <1>9. MergesAndClaims'
    <2>1. phase' \in {"planned", "executing"}  BY <1>3 DEF Done
    <2>2. Tail(plan) # <<>>
      <3>1. Tail(plan) \in Seq(Step) /\ Len(Tail(plan)) >= 1  BY <1>1, <1>3, TailOf
      <3> QED BY <3>1, NotEmpty
    <2>3. Tail(plan)[n - 1] = Claim(User, Target)  BY <1>1, <1>3, <1>4 DEF MergesAndClaims
    <2>4. \A i \in 1 .. n - 2 : Tail(plan)[i] = Merge(User, Tail(plan)[i].source, Target)
      <3> SUFFICES ASSUME NEW i \in 1 .. n - 2
                   PROVE  Tail(plan)[i] = Merge(User, Tail(plan)[i].source, Target)
        OBVIOUS
      <3>1. i + 1 \in 1 .. n - 1 /\ i \in 1 .. n - 1  BY <1>1
      <3>2. plan[i + 1] = Merge(User, plan[i + 1].source, Target)  BY <3>1 DEF MergesAndClaims
      <3> QED BY <1>4, <3>1, <3>2
    <2>5. \A i, j \in 1 .. n - 1 : Tail(plan)[i].source = Tail(plan)[j].source => i = j
      <3> SUFFICES ASSUME NEW i \in 1 .. n - 1, NEW j \in 1 .. n - 1,
                          Tail(plan)[i].source = Tail(plan)[j].source
                   PROVE  i = j
        OBVIOUS
      <3>1. i + 1 \in 1 .. n /\ j + 1 \in 1 .. n  BY <1>1
      <3>2. i + 1 = j + 1  BY <1>4, <1>7, <3>1
      <3> QED BY <3>2
    <2>6. (n - 1) - 1 = n - 2  BY <1>1
    <2> QED BY <1>4, <1>5, <2>1, <2>2, <2>3, <2>4, <2>5, <2>6 DEF MergesAndClaims
  <1>10. Head(plan) = Merge(User, x, Target)
    <2>1. 1 \in 1 .. n - 1  BY <1>1, <1>3
    <2> QED BY <1>1, <2>1 DEF MergesAndClaims
  <1>11. x # Target /\ x \in Listed /\ Target \in Listed
    <2>1. 1 \in 1 .. n /\ n \in 1 .. n /\ n # 1  BY <1>1, <1>3
    <2> QED BY <1>1, <1>7, <2>1 DEF Target, Listed
  <1>12. Listed \in SUBSET StakeIds
    <2>1. \A i \in 1 .. n : plan[i] \in Step  BY <1>1
    <2> QED BY <1>1, <2>1 DEF Listed, Step
  <1> QED BY <1>5, <1>8, <1>9, <1>10, <1>11, <1>12

(* What x counted is now counted by y, or more.                            *)
LEMMA SumMerged ==
  ASSUME NEW D, NEW f \in [D -> Int], NEW g \in [D -> Int], NEW S \in SUBSET D,
         IsFiniteSet(S), NEW x \in S, NEW y \in S, x # y,
         \A z \in S \ {x, y} : f[z] = g[z]
  PROVE  Sum(g, S \ {x}) = Sum(f, S) - f[x] - f[y] + g[y]
  <1> DEFINE R == (S \ {x}) \ {y}
  <1>1. /\ IsFiniteSet(S \ {x}) /\ IsFiniteSet(R) /\ S \ {x} \in SUBSET D
        /\ R \in SUBSET D /\ y \in S \ {x}
    BY FS_Subset
  <1>2. Sum(f, S) = f[x] + Sum(f, S \ {x})  BY SumRemove
  <1>3. Sum(f, S \ {x}) = f[y] + Sum(f, R)  BY <1>1, SumRemove
  <1>4. Sum(g, S \ {x}) = g[y] + Sum(g, R)  BY <1>1, SumRemove
  <1>5. R \in SUBSET (D \cap D) /\ \A z \in R : f[z] = g[z]  BY <1>1
  <1> HIDE DEF R
  <1>6. Sum(f, R) = Sum(g, R)  BY <1>1, <1>5, SumSame
  <1>7. Sum(g, R) \in Int  BY <1>1, SumInt
  <1>8. f[x] \in Int /\ f[y] \in Int /\ g[y] \in Int  OBVIOUS
  <1> QED BY <1>2, <1>3, <1>4, <1>6, <1>7, <1>8

(* Two accounts of one state, active or activating, make one of that state *)
(* that holds all their lamports and no less than their delegations.       *)
LEMMA MergedHoldings ==
  ASSUME NEW dst \in StakeAccount, NEW src \in StakeAccount, NEW e \in Nat,
         NEW kind \in {"active", "activating"},
         MergeKind(dst, e) = kind, MergeKind(src, e) = kind
  PROVE  LET a == Merged(dst, src, e)
         IN  /\ a.lamports = dst.lamports + src.lamports
             /\ a.delegated >= dst.delegated + src.delegated
             /\ a.state = dst.state /\ a.staker = dst.staker
             /\ a.withdrawer = dst.withdrawer /\ a.voter = dst.voter
             /\ a.locked = dst.locked /\ MergeKind(a, e) = kind
  <1> DEFINE a == Merged(dst, src, e)
             D == MergedDelegation(dst, src, e)
  <1>1. D \in Int /\ D >= dst.delegated + src.delegated
    BY RentAssumption DEF MergedDelegation, StakeAccount
  <1>2. /\ a.lamports = dst.lamports + src.lamports /\ a.delegated = D
        /\ a.state = dst.state /\ a.staker = dst.staker
        /\ a.withdrawer = dst.withdrawer /\ a.voter = dst.voter
        /\ a.locked = dst.locked /\ a.act = dst.act /\ a.deact = dst.deact
    BY DEF Merged, StakeAccount
  <1> HIDE DEF a, D
  <1>3. MergeKind(a, e) = MergeKind(dst, e)
    BY <1>2 DEF MergeKind, Deactivating, Activating, Effective, IsDelegated
  <1> QED BY <1>1, <1>2, <1>3 DEF a

(* A merge of the plan keeps the promise.                                  *)
LEMMA MergeKeepsPromise ==
  ASSUME IInv, Promise, promised, MergeExecuted
  PROVE  Promise'
  <1> DEFINE x == Head(plan).source
             y == Target
             a == Merged(stakes[y], stakes[x], Epoch)
  <1>1. /\ MergesAndClaims /\ RequestIsReady /\ CanPay(Listed) /\ TypeOK
        /\ MergeStake(Head(plan).source, Head(plan).account)
        /\ phase = "executing" /\ Head(plan).kind = "merge" /\ Done
    BY DEF Promise, IInv, MergeExecuted
  <1>2. PICK kind \in {"active", "activating"} : \A z \in Listed : Usable(z, kind)
    BY DEF Promise
  <1>3. /\ MergesAndClaims' /\ Listed' = Listed \ {x}
        /\ Head(plan) = Merge(User, x, y)
        /\ x \in Listed /\ y \in Listed /\ x # y /\ Listed \in SUBSET StakeIds
    BY <1>1, RestOfPlan
  <1>4. Head(plan).account = y
    <2>1. Merge(User, x, y).account = y  BY DEF Merge
    <2> QED BY <1>3, <2>1
  <1> HIDE DEF x, y
  <1>5. /\ stakes' = [stakes EXCEPT ![y] = a, ![x] = NoAccount]
        /\ UNCHANGED <<slot, config, voteLive, requests>>
    BY <1>1, <1>4 DEF MergeStake, x
  <1>6. stakes[x] \in StakeAccount /\ stakes[y] \in StakeAccount /\ x \in StakeIds
        /\ y \in StakeIds /\ stakes \in [StakeIds -> StakeAccount]
    BY <1>1, <1>3 DEF TypeOK
  <1>7. /\ MergeKind(stakes[x], Epoch) = kind /\ MergeKind(stakes[y], Epoch) = kind
        /\ Usable(y, kind)
    BY <1>2, <1>3 DEF Usable
  <1>8. /\ a.lamports = stakes[y].lamports + stakes[x].lamports
        /\ a.delegated >= stakes[y].delegated + stakes[x].delegated
        /\ a.state = stakes[y].state /\ a.staker = stakes[y].staker
        /\ a.withdrawer = stakes[y].withdrawer /\ a.voter = stakes[y].voter
        /\ a.locked = stakes[y].locked /\ MergeKind(a, Epoch) = kind
    <2>1. Epoch \in Nat  BY <1>1, EpochNat DEF TypeOK
    <2> QED BY <1>6, <1>7, <2>1, MergedHoldings
  <1> HIDE DEF a
  <1>9. /\ stakes'[y] = a
        /\ \A z \in StakeIds \ {x, y} : stakes'[z] = stakes[z]
    BY <1>3, <1>5, <1>6
  <1>10. Epoch' = Epoch  BY <1>5 DEF Epoch
  <1>11. \A z \in Listed \ {x} : Usable(z, kind)'
    <2> SUFFICES ASSUME NEW z \in Listed \ {x} PROVE Usable(z, kind)'
      OBVIOUS
    <2>1. CASE z = y
      BY <1>7, <1>8, <1>9, <1>10, <2>1
         DEF Usable, InCustody, DelegatedTo, Exists, IsDelegated
    <2>2. CASE z # y
      <3>1. stakes'[z] = stakes[z] /\ Usable(z, kind)  BY <1>2, <1>3, <1>9, <2>2
      <3> QED BY <1>10, <3>1 DEF Usable, InCustody, DelegatedTo
    <2> QED BY <2>1, <2>2
  <1>12. RequestIsReady'
    BY <1>1, <1>5, <1>10 DEF RequestIsReady, Running, WithdrawRequestReady,
                              amount_to_fulfill_withdraw
  <1>13. CanPay(Listed)'
    <2> DEFINE amount == amount_to_fulfill_withdraw(User)
    <2>1. IsFiniteSet(Listed)  BY <1>3, StakeIdsAssumption, FS_Subset
    <2>2. /\ Lamports \in [StakeIds -> Int] /\ Delegations \in [StakeIds -> Int]
          /\ Lamports' \in [StakeIds -> Int] /\ Delegations' \in [StakeIds -> Int]
      <3>1. TypeOK'  BY MergeExecutedIsStep, ProgramStep
      <3> QED BY <1>1, <3>1, HoldingsType DEF TypeOK, StakeAccount, Lamports, Delegations
    <2>3. \A z \in Listed \ {x, y} : /\ Lamports[z] = Lamports'[z]
                                     /\ Delegations[z] = Delegations'[z]
      BY <1>3, <1>9 DEF Lamports, Delegations
    <2>4. /\ Lamports'[y] = Lamports[y] + Lamports[x]
          /\ Delegations'[y] >= Delegations[y] + Delegations[x]
      BY <1>6, <1>8, <1>9 DEF Lamports, Delegations
    <2>5. /\ Sum(Lamports', Listed \ {x})
               = Sum(Lamports, Listed) - Lamports[x] - Lamports[y] + Lamports'[y]
          /\ Sum(Delegations', Listed \ {x})
               = Sum(Delegations, Listed) - Delegations[x] - Delegations[y] + Delegations'[y]
      BY <1>3, <2>1, <2>2, <2>3, SumMerged
    <2>6. Sum(Lamports, Listed) \in Int /\ Sum(Delegations, Listed) \in Int
      BY <1>3, <2>1, <2>2, SumInt
    <2>7. /\ Lamports[x] \in Int /\ Lamports[y] \in Int /\ Lamports'[y] \in Int
          /\ Delegations[x] \in Int /\ Delegations[y] \in Int /\ Delegations'[y] \in Int
      BY <1>6, <2>2
    <2>8. /\ Sum(Lamports', Listed \ {x}) = Sum(Lamports, Listed)
          /\ Sum(Delegations', Listed \ {x}) >= Sum(Delegations, Listed)
          /\ Sum(Delegations', Listed \ {x}) \in Int
      BY <2>4, <2>5, <2>6, <2>7
    <2>9. amount' = amount /\ MinSize' = MinSize /\ amount \in Nat /\ MinSize \in Nat
      BY <1>1, <1>5, AmountToFulfill, ClientAssumption, MinSizeNat
         DEF amount_to_fulfill_withdraw, MinSize, TypeOK
    <2> HIDE DEF amount
    <2>10. \/ Sum(Lamports, Listed) - amount <= 0
           \/ /\ amount >= MinSize /\ Sum(Lamports, Listed) - amount >= MinSize
              /\ Sum(Delegations, Listed) - (Sum(Lamports, Listed) - amount) >= MinDelegation
      BY <1>1 DEF CanPay, amount
    <2>11. \/ Sum(Lamports', Listed') - amount' <= 0
           \/ /\ amount' >= MinSize' /\ Sum(Lamports', Listed') - amount' >= MinSize'
              /\ Sum(Delegations', Listed') - (Sum(Lamports', Listed') - amount')
                    >= MinDelegation
      BY <1>3, <2>6, <2>8, <2>9, <2>10, MinDelegationAssumption
    <2> QED BY <2>11 DEF CanPay, amount
  <1>14. (\E k \in {"active", "activating"} : \A z \in Listed : Usable(z, k))'
    BY <1>3, <1>11
  <1> QED BY <1>3, <1>12, <1>13, <1>14 DEF Promise

(* A promise is worth something: the program accepts the next instruction. *)
LEMMA PromisedIsAccepted ==
  ASSUME IInv, DelegationsBacked, Promise, promised
  PROVE  Accepted(Head(plan))
  <1> DEFINE n == Len(plan)
             t == Head(plan)
  <1>1. /\ MergesAndClaims /\ RequestIsReady /\ CanPay(Listed) /\ TypeOK
    BY DEF Promise, IInv
  <1>2. PICK kind \in {"active", "activating"} : \A z \in Listed : Usable(z, kind)
    BY DEF Promise
  <1>3. /\ plan \in Seq(Step) /\ n \in Nat /\ n >= 1 /\ DOMAIN plan = 1 .. n /\ t = plan[1]
    <2>1. plan \in Seq(Step) /\ plan # <<>>
      BY <1>1 DEF IInv, PlanLasts, MergesAndClaims
    <2> QED BY <2>1, NotEmpty
  <1>4. t.source \in Listed /\ Target \in Listed /\ Listed \in SUBSET StakeIds
    <2>1. 1 \in 1 .. n /\ n \in 1 .. n  BY <1>3
    <2>2. \A i \in 1 .. n : plan[i] \in Step  BY <1>3
    <2> QED BY <1>3, <2>1, <2>2 DEF Listed, Target, Step
  <1>5. CASE n > 1
    <2> DEFINE x == t.source
    <2>1. t = Merge(User, x, Target) /\ x # Target
      <3>1. 1 \in 1 .. n - 1 /\ 1 \in 1 .. n /\ n \in 1 .. n  BY <1>3, <1>5
      <3> QED BY <1>1, <1>3, <1>5, <3>1 DEF MergesAndClaims, Target
    <2>2. t.kind = "merge" /\ t.account = Target
      <3>1. Merge(User, x, Target).kind = "merge" /\ Merge(User, x, Target).account = Target
        BY DEF Merge
      <3> QED BY <2>1, <3>1
    <2>3. Usable(x, kind) /\ Usable(Target, kind)  BY <1>2, <1>4
    <2>4. stakes[x].locked = stakes[Target].locked
      BY <1>1, <1>4, <2>3 DEF Usable, TypeOK, StakeAccount
    <2>5. CanMerge(stakes[Target], stakes[x], Epoch)
      BY <2>3, <2>4 DEF CanMerge, Usable, InCustody
    <2>6. Running  BY <1>1 DEF RequestIsReady
    <2> QED BY <2>1, <2>2, <2>3, <2>5, <2>6 DEF Accepted, Usable, DelegatedTo
  <1>6. CASE n = 1
    <2> DEFINE x == Target
               amount == amount_to_fulfill_withdraw(User)
               rest == stakes[x].lamports - amount
    <2>1. t = Claim(User, x)  BY <1>1, <1>3, <1>6 DEF MergesAndClaims
    <2>2. t.kind = "claim" /\ t.vote = User /\ t.source = x
      <3>1. Claim(User, x).kind = "claim" /\ Claim(User, x).vote = User
            /\ Claim(User, x).source = x
        BY DEF Claim
      <3> QED BY <2>1, <3>1
    <2>3. Listed = {x}  BY <1>3, <1>6 DEF Listed, Target
    <2>4. x \in StakeIds /\ Usable(x, kind)  BY <1>2, <1>4
    <2> HIDE DEF t, x
    <2>5. stakes[x] \in StakeAccount /\ Lamports[x] = stakes[x].lamports
          /\ Delegations[x] = stakes[x].delegated
      BY <1>1, <2>4 DEF TypeOK, Lamports, Delegations
    <2>6. Sum(Lamports, {x}) = stakes[x].lamports /\ Sum(Delegations, {x}) = stakes[x].delegated
      <3>1. Lamports \in [StakeIds -> Int] /\ Delegations \in [StakeIds -> Int]
        BY <1>1, HoldingsType
      <3>2. /\ Sum(Lamports, {x}) = Lamports[x] + Sum(Lamports, {x} \ {x})
            /\ Sum(Delegations, {x}) = Delegations[x] + Sum(Delegations, {x} \ {x})
        <4>1. IsFiniteSet({x})  BY FS_Singleton, Zenon
        <4>2. {x} \in SUBSET StakeIds /\ x \in {x}  BY <2>4
        <4> QED BY <3>1, <4>1, <4>2, SumRemove
      <3>3. {x} \ {x} = {}  OBVIOUS
      <3>4. Sum(Lamports, {}) = 0 /\ Sum(Delegations, {}) = 0  BY <3>1, SumEmpty
      <3> QED BY <2>5, <3>2, <3>3, <3>4 DEF StakeAccount
    <2>7. \/ rest <= 0
          \/ amount >= MinSize /\ rest >= MinSize /\ stakes[x].delegated - rest >= MinDelegation
      BY <1>1, <2>3, <2>6 DEF CanPay
    <2>8. amount \in Nat /\ MinSize \in Nat /\ MinSize >= Rent
      <3>1. amount \in Nat  BY <1>1, AmountToFulfill, ClientAssumption
      <3>2. MinSize \in Nat  BY <1>1, MinSizeNat DEF TypeOK
      <3>3. config.minimum_stake_lamports \in Nat
        BY <1>1, ConfigAssumption DEF TypeOK, Config
      <3>4. MinSize >= Rent  BY <3>3, RentAssumption DEF MinSize
      <3> QED BY <3>1, <3>2, <3>4
    <2> HIDE DEF amount
    <2>9. ClaimWithdrawChecks(User, x)
      BY <1>1, <2>4 DEF ClaimWithdrawChecks, RequestIsReady, Usable
    <2>10. \/ stakes[x].lamports <= amount
           \/ BigEnoughToSplit(x, amount) /\ CanSplit(stakes[x], rest, Rent)
      <3>1. CASE rest <= 0
        BY <2>5, <2>8, <3>1 DEF StakeAccount
      <3>2. CASE /\ amount >= MinSize /\ rest >= MinSize
                 /\ stakes[x].delegated - rest >= MinDelegation
        <4>1. stakes[x].lamports >= stakes[x].delegated + Rent
          <5>1. Backed(stakes[x], Epoch) /\ MergeKind(stakes[x], Epoch) = kind
            BY <2>4 DEF DelegationsBacked, Usable
          <5>2. Counts(stakes[x], Epoch)
            BY <5>1, <2>5 DEF Counts, MergeKind, Deactivating, Activating, Effective,
                              IsDelegated, StakeAccount, NEVER
          <5> QED BY <5>1, <5>2 DEF Backed
        <4>2. IsDelegated(stakes[x])  BY <2>4 DEF Usable, DelegatedTo
        <4>3. stakes[x].lamports \in Nat /\ stakes[x].delegated \in Nat
          BY <2>5 DEF StakeAccount
        <4>4. BigEnoughToSplit(x, amount)
          BY <3>2 DEF BigEnoughToSplit
        <4>5. amount >= Rent + MinDelegation /\ rest >= MinDelegation
              /\ rest + Rent >= Rent + MinDelegation
              /\ stakes[x].lamports - rest >= Rent + MinDelegation
          BY <2>8, <3>2, <4>1, <4>3, RentAssumption, MinDelegationAssumption
        <4>6. CanSplit(stakes[x], rest, Rent)
          BY <3>2, <4>2, <4>5 DEF CanSplit
        <4> QED BY <4>4, <4>6
      <3> QED BY <2>7, <3>1, <3>2
    <2> QED BY <2>2, <2>9, <2>10 DEF Accepted, amount, t
  <1> QED BY <1>3, <1>5, <1>6

PromiseInv == DelegationsBacked /\ RestoresBacked /\ Promise

(* The delegations are covered whatever is executed or rolled back.        *)
LEMMA ClientNextBacked ==
  ASSUME IInv, DelegationsBacked, RestoresBacked, [ClientNext]_clientVars
  PROVE  DelegationsBacked' /\ RestoresBacked'
  <1>0. TypeOK  BY DEF IInv
  <1>1. CASE \/ Orchestrate(User) \/ Begin \/ Lost \/ UNCHANGED clientVars
    <2>1. stakes' = stakes /\ slot' = slot
      BY <1>1 DEF Orchestrate, Begin, Lost, clientVars, vars
    <2>2. DelegationsBacked'  BY <2>1, ReplaceNone
    <2>3. Epoch' = Epoch  BY <2>1 DEF Epoch
    <2>4. RestoresBacked'
      <3>1. CASE Orchestrate(User) \/ Lost
        BY <3>1 DEF Orchestrate, Lost, Ended, RestoresBacked
      <3>2. CASE Begin
        <4>1. before'[1] = stakes  BY <3>2 DEF Begin, Chain
        <4> QED BY <2>3, <4>1 DEF RestoresBacked, DelegationsBacked
      <3>3. CASE UNCHANGED clientVars
        BY <2>3, <3>3 DEF RestoresBacked, clientVars, client
      <3> QED BY <1>1, <3>1, <3>2, <3>3
    <2> QED BY <2>2, <2>4
  <1>2. CASE MergeExecuted \/ ClaimExecuted
    <2>1. DelegationsBacked'
      BY <1>0, <1>2, MergeExecutedIsStep, ClaimExecutedIsStep, NextBacked
    <2>2. phase = "executing" /\ (phase' = "executing" => before' = before)
      BY <1>2 DEF MergeExecuted, ClaimExecuted, Done
    <2>3. slot' = slot
      BY <1>2 DEF MergeExecuted, ClaimExecuted, MergeStake, ClaimWithdrawWhole, ClaimWithdrawSplit
    <2>4. Epoch' = Epoch  BY <2>3 DEF Epoch
    <2> QED BY <2>1, <2>2, <2>4 DEF RestoresBacked
  <1>3. CASE Fails
    <2>1. phase = "executing" /\ stakes' = before[1] /\ slot' = slot /\ phase' = "idle"
      BY <1>3 DEF Fails, Ended
    <2>2. Epoch' = Epoch  BY <2>1 DEF Epoch
    <2> QED BY <2>1, <2>2 DEF RestoresBacked, DelegationsBacked
  <1>4. CASE Elsewhere
    <2>1. DelegationsBacked'
      BY <1>0, <1>4, OtherCallIsStep, NextBacked DEF Elsewhere
    <2>2. phase' # "executing"  BY <1>4 DEF Elsewhere
    <2> QED BY <2>1, <2>2 DEF RestoresBacked
  <1> QED BY <1>1, <1>2, <1>3, <1>4 DEF ClientNext, Execute

(* The claim is the last instruction of such a plan.                       *)
LEMMA ClaimEndsPlan ==
  ASSUME IInv, Promise, promised, ClaimExecuted
  PROVE  ~promised'
  <1>1. MergesAndClaims /\ plan \in Seq(Step) /\ plan # <<>>
    BY DEF Promise, IInv, PlanLasts, MergesAndClaims
  <1>2. Len(plan) \in Nat /\ Len(plan) >= 1 /\ Head(plan) = plan[1]
    BY <1>1, NotEmpty
  <1>3. Head(plan).kind = "claim" /\ Done  BY DEF ClaimExecuted
  <1>4. Len(plan) = 1
    <2> SUFFICES ASSUME Len(plan) > 1 PROVE FALSE
      BY <1>2
    <2>1. 1 \in 1 .. Len(plan) - 1  BY <1>2
    <2>2. Head(plan) = Merge(User, plan[1].source, Target)
      BY <1>1, <1>2, <2>1 DEF MergesAndClaims
    <2>3. Merge(User, plan[1].source, Target).kind = "merge"  BY DEF Merge
    <2> QED BY <1>3, <2>2, <2>3
  <1>5. ~(Len(plan) > 1)  BY <1>4
  <1> QED BY <1>3, <1>5, Zenon DEF Done

LEMMA ClientNextPromise ==
  ASSUME IInv, DelegationsBacked, Promise, [ClientNext]_clientVars
  PROVE  Promise'
  <1>1. CASE Orchestrate(User)
    BY <1>1, PlanPromises
  <1>2. CASE Begin
    <2> SUFFICES ASSUME promised' PROVE Promise'
      BY DEF Promise
    <2>1. promised /\ UNCHANGED <<vars, plan>> /\ phase' = "executing"
      BY <1>2 DEF Begin
    <2>2. MergesAndClaims'
      BY <2>1 DEF Promise, MergesAndClaims, Target
    <2>3. RequestIsReady' /\ CanPay(Listed)'
      BY <2>1 DEF Promise, vars, RequestIsReady, Running, WithdrawRequestReady, Epoch, CanPay,
                  amount_to_fulfill_withdraw, Lamports, Delegations, MinSize, Listed
    <2>4. (\E kind \in {"active", "activating"} : \A x \in Listed : Usable(x, kind))'
      BY <2>1 DEF Promise, Listed, vars, Usable, InCustody, DelegatedTo, Epoch
    <2> QED BY <2>2, <2>3, <2>4 DEF Promise
  <1>3. CASE MergeExecuted
    <2>1. promised' => promised  BY <1>3 DEF MergeExecuted, Done
    <2>2. CASE promised  BY <1>3, <2>2, MergeKeepsPromise
    <2>3. CASE ~promised'  BY <2>3 DEF Promise
    <2> QED BY <2>1, <2>2, <2>3
  <1>4. CASE ClaimExecuted
    <2>1. promised' => promised  BY <1>4 DEF ClaimExecuted, Done
    <2>2. ~promised'  BY <1>4, <2>1, ClaimEndsPlan
    <2> QED BY <2>2 DEF Promise
  <1>5. CASE Fails \/ Lost \/ Elsewhere
    <2>1. ~promised'  BY <1>5 DEF Fails, Lost, Elsewhere, Ended
    <2> QED BY <2>1 DEF Promise
  <1>6. CASE UNCHANGED clientVars
    <2>1. UNCHANGED vars /\ plan' = plan /\ phase' = phase /\ promised' = promised
      BY <1>6 DEF clientVars, client
    <2> SUFFICES ASSUME promised' PROVE Promise'
      BY DEF Promise
    <2>2. MergesAndClaims'
      BY <2>1 DEF Promise, MergesAndClaims, Target
    <2>3. RequestIsReady' /\ CanPay(Listed)'
      BY <2>1 DEF Promise, vars, RequestIsReady, Running, WithdrawRequestReady, Epoch, CanPay,
                  amount_to_fulfill_withdraw, Lamports, Delegations, MinSize, Listed
    <2>4. (\E kind \in {"active", "activating"} : \A x \in Listed : Usable(x, kind))'
      BY <2>1 DEF Promise, Listed, vars, Usable, InCustody, DelegatedTo, Epoch
    <2> QED BY <2>2, <2>3, <2>4 DEF Promise
  <1> QED BY <1>1, <1>2, <1>3, <1>4, <1>5, <1>6 DEF ClientNext, Execute

(* A plan that was made of accounts in one state that can pay is accepted  *)
(* instruction by instruction, however it is cut into transactions and     *)
(* whatever has happened before, as long as nobody else acts in between.   *)
THEOREM PlansAreAccepted == ClientSpec => []PromiseKept
  <1>1. ClientInit => PromiseInv
    <2> SUFFICES ASSUME ClientInit PROVE PromiseInv
      OBVIOUS
    <2>1. DelegationsBacked
      BY InitBacked DEF ClientInit
    <2> QED BY <2>1 DEF ClientInit, PromiseInv, RestoresBacked, Promise
  <1>2. IInv /\ PromiseInv /\ [ClientNext]_clientVars => PromiseInv'
    BY ClientNextBacked, ClientNextPromise DEF PromiseInv
  <1>3. IInv /\ PromiseInv => PromiseKept
    BY PromisedIsAccepted DEF PromiseInv, PromiseKept
  <1> QED BY <1>1, <1>2, <1>3, ClientInitInv, ClientNextInv, PTL DEF ClientSpec

=============================================================================
