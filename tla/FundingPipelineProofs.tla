----------------------- MODULE FundingPipelineProofs -----------------------
(***************************************************************************)
(* Marinade does not fund a settlement twice: however often the pipeline   *)
(* is run, wherever a run is cut short and whoever claims, deposits or     *)
(* merges in between, what Marinade has put into a settlement is no more   *)
(* than the settlement's total and what was claimed between the two reads  *)
(* of a run.                                                               *)
(*                                                                         *)
(* The argument: a lamport that Marinade has put is still there or has     *)
(* been claimed, because merges only add to what claims can take.  A run   *)
(* reads what has been claimed before it reads what is there, so it finds  *)
(* all that was put except what was claimed in between; and it sends what  *)
(* is missing once.  That the plan has what is missing once is read off    *)
(* the fold over the files: the least position at which it went wrong      *)
(* would follow one at which it did not.                                   *)
(***************************************************************************)
EXTENDS FundingPipeline, FundingProofs, SequenceTheorems

(* The files name a settlement once.                                       *)
ListedOnce == \A i, j \in DOMAIN Order : Order[i] = Order[j] => i = j

(* What was claimed of s, and what can still be claimed                    *)
Held(s) == settlements[s].lamports_claimed + Sum(Pots(s), StakeIds)

(* Marinade puts something into settlements that exist, where it stays     *)
(* until it is claimed.                                                    *)
PutIsHeld(s) ==
    /\ put[s] <= Held(s)
    /\ ~settlements[s].exists => put[s] = 0

(* With amount more, Marinade has not paid more than it should.            *)
NotTooMuch(s, amount) ==
    settlements[s].exists => put[s] + amount <= settlements[s].max_total_claim + slipped[s]

(* What a run has read is still true, but for the claims since.            *)
ReadBefore(s) ==
    phase = "loaded" /\ loaded[s].exists =>
        /\ settlements[s].exists
        /\ loaded[s].max_total_claim = settlements[s].max_total_claim
        /\ settlements[s].lamports_claimed <= loaded[s].lamports_claimed + slipped[s]

IsList(q) == q \in Seq(ToSet(q))

(* The i-th instruction of q pays Marinade's share of s.                   *)
Pays(q, i, s) == q[i].kind = "marinade" /\ q[i].settlement = s

(* What is still to be sent is missing, and is sent once.                  *)
StillMissing(s) ==
    phase = "sending" =>
        /\ \A i \in DOMAIN queue : Pays(queue, i, s) =>
              /\ queue[i].lamports \in Nat \ {0}
              /\ settlements[s].exists
              /\ NotTooMuch(s, queue[i].lamports)
        /\ \A i, j \in DOMAIN queue : Pays(queue, i, s) /\ Pays(queue, j, s) => i = j

RunTypeOK ==
    /\ TypeOK
    /\ phase \in {"idle", "loaded", "sending"}
    /\ loaded \in [Settlements -> Settlement]
    /\ slipped \in [Settlements -> Nat] /\ put \in [Settlements -> Nat]
    /\ IsList(queue)

PutInv ==
    /\ RunTypeOK
    /\ \A s \in Settlements :
          PutIsHeld(s) /\ NotTooMuch(s, 0) /\ ReadBefore(s) /\ StillMissing(s)

-----------------------------------------------------------------------------
(* What is held for a settlement is only added to *)

HeldKept(s) == Held(s)' >= Held(s)

(* A step that does not touch the accounts, or changes one or two of them  *)
LEMMA HeldNone ==
  ASSUME TypeOK, TypeOK', config' = config, stakes' = stakes, NEW s \in Settlements,
         settlements'[s].lamports_claimed = settlements[s].lamports_claimed
  PROVE  HeldKept(s)
  <1>1. PotsAreFunds  BY PotsSum
  <1>2. Pots(s)' = Pots(s)  BY DEF Pots, PotOf, PayableOf, MinSize
  <1>3. Sum(Pots(s), StakeIds)' = Sum(Pots(s), StakeIds)  BY <1>2
  <1>4. Sum(Pots(s), StakeIds) \in Int /\ settlements[s].lamports_claimed \in Int
    BY <1>1 DEF PotsAreFunds, TypeOK, Settlement
  <1> QED BY <1>3, <1>4 DEF HeldKept, Held

LEMMA HeldOne ==
  ASSUME TypeOK, TypeOK', config' = config,
         NEW x \in StakeIds, NEW a, stakes' = [stakes EXCEPT ![x] = a],
         NEW s \in Settlements,
         settlements'[s].lamports_claimed - settlements[s].lamports_claimed
            >= PotOf(stakes[x], s) - PotOf(a, s)
  PROVE  HeldKept(s)
  <1>1. /\ Sum(Pots(s), StakeIds)' - PotOf(a, s) = Sum(Pots(s), StakeIds) - PotOf(stakes[x], s)
        /\ Sum(Pots(s), StakeIds) \in Int /\ Sum(Pots(s), StakeIds)' \in Int
        /\ PotOf(stakes[x], s) \in Int /\ PotOf(a, s) \in Int
    BY PotsOne
  <1>2. settlements[s].lamports_claimed \in Int /\ settlements'[s].lamports_claimed \in Int
    BY DEF TypeOK, Settlement
  <1> QED BY <1>1, <1>2 DEF HeldKept, Held

LEMMA HeldTwo ==
  ASSUME TypeOK, TypeOK', config' = config,
         NEW x \in StakeIds, NEW y \in StakeIds, x # y, NEW a, NEW b,
         stakes' = [stakes EXCEPT ![x] = a, ![y] = b],
         NEW s \in Settlements,
         settlements'[s].lamports_claimed = settlements[s].lamports_claimed,
         PotOf(a, s) - PotOf(stakes[x], s) + PotOf(b, s) - PotOf(stakes[y], s) >= 0
  PROVE  HeldKept(s)
  <1>1. /\ Sum(Pots(s), StakeIds)' - PotOf(a, s) - PotOf(b, s)
              = Sum(Pots(s), StakeIds) - PotOf(stakes[x], s) - PotOf(stakes[y], s)
        /\ Sum(Pots(s), StakeIds) \in Int /\ Sum(Pots(s), StakeIds)' \in Int
        /\ PotOf(stakes[x], s) \in Int /\ PotOf(a, s) \in Int
        /\ PotOf(stakes[y], s) \in Int /\ PotOf(b, s) \in Int
    BY PotsTwo
  <1>2. settlements[s].lamports_claimed \in Int /\ settlements'[s].lamports_claimed \in Int
    BY DEF TypeOK, Settlement
  <1> QED BY <1>1, <1>2 DEF HeldKept, Held

(* The changed account held nothing for the settlement.                    *)
LEMMA HeldElsewhere ==
  ASSUME TypeOK, TypeOK', config' = config,
         NEW x \in StakeIds, NEW a, stakes' = [stakes EXCEPT ![x] = a],
         NEW s \in Settlements, PotOf(stakes[x], s) = 0,
         settlements'[s].lamports_claimed = settlements[s].lamports_claimed
  PROVE  HeldKept(s)
  <1>1. stakes'[x] = a  BY DEF TypeOK
  <1>2. a \in StakeAccount /\ config \in Config  BY <1>1 DEF TypeOK
  <1>3. PotOf(a, s) \in Nat  BY <1>2, PotNat
  <1>4. settlements[s].lamports_claimed \in Int  BY DEF TypeOK, Settlement
  <1>5. settlements'[s].lamports_claimed - settlements[s].lamports_claimed
            >= PotOf(stakes[x], s) - PotOf(a, s)
    BY <1>3, <1>4
  <1> QED BY <1>5, HeldOne

LEMMA OwnerHeld ==
  ASSUME TypeOK, TypeOK', NEW s \in Settlements, NEW x \in StakeIds,
         \/ ManualDeposit(x) \/ OwnerDeactivates(x) \/ \E v \in Votes : FundBond(x, v)
  PROVE  HeldKept(s)
  <1>1. \E a : stakes' = [stakes EXCEPT ![x] = a]
    BY DEF ManualDeposit, OwnerDeactivates, FundBond, TypeOK
  <1>2. /\ config' = config /\ settlements' = settlements
        /\ stakes[x].withdrawer = Owner \/ stakes[x].staker = Owner
    BY DEF ManualDeposit, OwnerDeactivates, FundBond
  <1>3. PotOf(stakes[x], s) = 0  BY <1>2, AuthoritiesAssumption DEF PotOf
  <1> QED BY <1>1, <1>2, <1>3, HeldElsewhere

LEMMA CreateHeld ==
  ASSUME TypeOK, TypeOK', NEW s \in Settlements, NEW x \in StakeIds, NEW d, CreateStake(x, d)
  PROVE  HeldKept(s)
  <1>1. \E a : stakes' = [stakes EXCEPT ![x] = a]
    BY DEF CreateStake
  <1>2. config' = config /\ settlements' = settlements /\ ~Exists(stakes[x])
    BY DEF CreateStake, Fresh
  <1>3. PotOf(stakes[x], s) = 0  BY <1>2 DEF PotOf
  <1> QED BY <1>1, <1>2, <1>3, HeldElsewhere

LEMMA MergeHeld ==
  ASSUME TypeOK, TypeOK', NEW s \in Settlements,
         NEW src \in StakeIds, NEW dst \in StakeIds, MergeStake(src, dst)
  PROVE  HeldKept(s)
  <1> DEFINE a == Merged(stakes[dst], stakes[src], Epoch)
  <1>1. /\ config' = config /\ settlements' = settlements /\ dst # src
        /\ stakes' = [stakes EXCEPT ![dst] = a, ![src] = NoAccount]
        /\ InCustody(src) /\ InCustody(dst) /\ stakes[src].staker = stakes[dst].staker
    BY DEF MergeStake
  <1>2. PotOf(a, s) - PotOf(stakes[dst], s) + PotOf(NoAccount, s) - PotOf(stakes[src], s) >= 0
    BY <1>1, MergePot
  <1> HIDE DEF a
  <1> QED BY <1>1, <1>2, HeldTwo

(* Funding counts in lamports_funded alone.                                *)
SameClaims(t) ==
    /\ settlements'[t].exists = settlements[t].exists
    /\ settlements'[t].max_total_claim = settlements[t].max_total_claim
    /\ settlements'[t].lamports_claimed = settlements[t].lamports_claimed

Funds(s, x) == \/ FundWhole(s, x)
               \/ \E y \in StakeIds, payer \in Payers : FundSplit(s, x, y, payer)

LEMMA FundCounts ==
  ASSUME TypeOK, NEW t \in Settlements, NEW s \in Settlements, NEW x \in StakeIds, Funds(s, x)
  PROVE  SameClaims(t)
  <1>1. settlements[s] \in Settlement /\ settlements \in [Settlements -> Settlement]
    BY DEF TypeOK
  <1>2. CASE FundWhole(s, x)
    <2>1. settlements' = [settlements EXCEPT ![s].lamports_funded =
                             @ + (stakes[x].lamports - MinSize)]
      BY <1>2 DEF FundWhole
    <2> QED BY <1>1, <2>1 DEF Settlement, SameClaims
  <1>3. ASSUME NEW y \in StakeIds, NEW payer \in Payers, FundSplit(s, x, y, payer)
        PROVE  SameClaims(t)
    <2>1. settlements' = [settlements EXCEPT ![s].lamports_funded = @ + Lacking(s),
                             ![s].split_rent_collector = payer,
                             ![s].split_rent_amount = Rent]
      BY <1>3 DEF FundSplit
    <2> QED BY <1>1, <2>1 DEF Settlement, SameClaims
  <1> QED BY <1>2, <1>3 DEF Funds

LEMMA FundHeld ==
  ASSUME TypeOK, TypeOK', NEW t \in Settlements, NEW s \in Settlements, NEW x \in StakeIds,
         Funds(s, x)
  PROVE  HeldKept(t)
  <1>0. settlements'[t].lamports_claimed = settlements[t].lamports_claimed
    BY FundCounts DEF SameClaims
  <1>1. config' = config /\ InCustody(x) /\ stakes[x].staker = Bonds
    BY DEF Funds, FundWhole, FundSplit, FundChecks
  <1>2. PotOf(stakes[x], t) = 0  BY <1>1, AuthoritiesAssumption DEF PotOf
  <1>3. CASE FundWhole(s, x)
    <2>1. \E a : stakes' = [stakes EXCEPT ![x] = a]
      BY <1>3 DEF FundWhole
    <2> QED BY <1>0, <1>1, <1>2, <2>1, HeldElsewhere
  <1>4. ASSUME NEW y \in StakeIds, NEW payer \in Payers, FundSplit(s, x, y, payer)
        PROVE  HeldKept(t)
    <2>1. PICK a, b : stakes' = [stakes EXCEPT ![x] = a, ![y] = b]
      BY <1>4 DEF FundSplit
    <2>2. ~Exists(stakes[y]) /\ Exists(stakes[x])
      BY <1>1, <1>4 DEF FundSplit, Fresh, InCustody
    <2>3. x # y /\ PotOf(stakes[y], t) = 0  BY <2>2 DEF PotOf
    <2>4. a \in StakeAccount /\ b \in StakeAccount /\ config \in Config
      BY <2>1, <2>3 DEF TypeOK
    <2>5. PotOf(a, t) \in Nat /\ PotOf(b, t) \in Nat  BY <2>4, PotNat
    <2>6. PotOf(a, t) - PotOf(stakes[x], t) + PotOf(b, t) - PotOf(stakes[y], t) >= 0
      BY <1>2, <2>3, <2>5
    <2> QED BY <1>0, <1>1, <2>1, <2>3, <2>6, HeldTwo
  <1> QED BY <1>3, <1>4 DEF Funds

(* What a claim takes out is counted as claimed.                           *)
LEMMA ClaimHeld ==
  ASSUME TypeOK, TypeOK', NEW t \in Settlements, NEW s \in Settlements, NEW x \in StakeIds,
         NEW i \in DOMAIN Tree[s], ClaimSettlementV2(s, i, x)
  PROVE  HeldKept(t)
  <1> DEFINE claim == Tree[s][i]
             a == Withdrawn(stakes[x], claim)
  <1>1. /\ config' = config /\ stakes' = [stakes EXCEPT ![x] = a]
        /\ settlements' = [settlements EXCEPT ![s].lamports_claimed = @ + claim,
                                              ![s].merkle_nodes_claimed = @ + 1]
        /\ InCustody(x) /\ stakes[x].staker = s /\ SufficientFor(x, claim)
    BY DEF ClaimSettlementV2
  <1>2. claim \in Nat  BY TreeAssumption
  <1>3. CASE t # s
    <2>1. settlements'[t] = settlements[t] /\ PotOf(stakes[x], t) = 0
      BY <1>1, <1>3 DEF TypeOK, PotOf
    <2> QED BY <1>1, <2>1, HeldElsewhere
  <1>4. CASE t = s
    <2> HIDE DEF claim
    <2>1. PotOf(a, s) >= PotOf(stakes[x], s) - claim
      BY <1>1, <1>2, ClaimPot
    <2>2. PotOf(a, s) \in Nat /\ PotOf(stakes[x], s) \in Nat
      <3>1. a \in StakeAccount /\ stakes[x] \in StakeAccount /\ config \in Config
        BY <1>1 DEF TypeOK
      <3> HIDE DEF a
      <3> QED BY <3>1, PotNat
    <2>3. /\ settlements'[s].lamports_claimed = settlements[s].lamports_claimed + claim
          /\ settlements[s].lamports_claimed \in Nat
      BY <1>1 DEF TypeOK, Settlement
    <2> HIDE DEF a
    <2>4. settlements'[s].lamports_claimed - settlements[s].lamports_claimed
            >= PotOf(stakes[x], s) - PotOf(a, s)
      BY <1>2, <2>1, <2>2, <2>3
    <2> QED BY <1>1, <1>4, <2>4, HeldOne
  <1> QED BY <1>3, <1>4

-----------------------------------------------------------------------------
(* What a step does to the program and to the history of s *)

SlippedMore(s) ==
    /\ slipped'[s] >= slipped[s]
    /\ phase = "loaded" /\ settlements[s].exists =>
          settlements'[s].lamports_claimed - settlements[s].lamports_claimed
             <= slipped'[s] - slipped[s]

(* A settlement that exists stays as it was made and keeps what it holds;  *)
(* Marinade adds nothing to it.                                            *)
NothingPut(s) ==
    /\ put'[s] = put[s]
    /\ settlements[s].exists =>
          /\ settlements'[s].exists
          /\ settlements'[s].max_total_claim = settlements[s].max_total_claim
          /\ HeldKept(s)
    /\ SlippedMore(s)

LEMMA NewKeyUnused ==
  ASSUME Unused # {}
  PROVE  NewKey \in StakeIds /\ Fresh(NewKey)
  BY DEF NewKey, Unused

LEMMA ProgramStep == PipelineNext => [Next]_vars \/ \E s \in Settlements : MarinadeLands(s)
  <1> SUFFICES ASSUME PipelineNext PROVE [Next]_vars \/ \E s \in Settlements : MarinadeLands(s)
    OBVIOUS
  <1>1. CASE LoadSettlements \/ PrepareFunding \/ NotLanded \/ FinishRun
    BY <1>1 DEF LoadSettlements, PrepareFunding, NotLanded, FinishRun
  <1>2. ASSUME NEW s \in Settlements, MergeLands(s) PROVE Next
    BY <1>2 DEF MergeLands, Next
  <1>3. ASSUME NEW s \in Settlements, FundingLands(s) PROVE [Next]_vars
    <2>1. Head(queue).source \in StakeIds  BY <1>3 DEF FundingLands
    <2>2. CASE UNCHANGED vars  BY <2>2
    <2>3. CASE FundWhole(s, Head(queue).source)  BY <2>1, <2>3 DEF Next
    <2>4. ASSUME Unused # {}, NEW payer \in Payers,
                 FundSplit(s, Head(queue).source, NewKey, payer)
          PROVE  Next
      <3>1. NewKey \in StakeIds  BY <2>4, NewKeyUnused
      <3> QED BY <2>1, <2>4, <3>1 DEF Next
    <2> QED BY <1>3, <2>2, <2>3, <2>4 DEF FundingLands
  <1>4. ASSUME NEW s \in Settlements, NEW x \in StakeIds, NEW i \in DOMAIN Tree[s],
               ClaimElsewhere(s, i, x)
        PROVE  Next
    BY <1>4 DEF ClaimElsewhere, Next
  <1>5. CASE OtherCall
    <2>1. ASSUME Unused # {}, NEW d \in Deposits, CreateStake(NewKey, d) PROVE Next
      <3>1. NewKey \in StakeIds  BY <2>1, NewKeyUnused
      <3> QED BY <2>1, <3>1 DEF Next
    <2>2. CASE Tick \/ \E s \in Settlements, total \in MaxTotals, nodes \in MaxNodes :
                         InitSettlement(s, total, nodes)
      BY <2>2 DEF Next
    <2>3. CASE \/ \E x \in StakeIds, v \in Votes : FundBond(x, v)
               \/ \E x \in StakeIds : OwnerDeactivates(x) \/ ManualDeposit(x)
               \/ \E x, y \in StakeIds : MergeStake(x, y)
      BY <2>3 DEF Next
    <2> QED BY <1>5, <2>1, <2>2, <2>3 DEF OtherCall
  <1> QED BY <1>1, <1>2, <1>3, <1>4, <1>5 DEF PipelineNext, Send, Lands

(* Marinade's account is as good as a deposit.                             *)
MarinadesAccount(s, amount) ==
    [NoAccount EXCEPT !.state = "initialized", !.lamports = amount + MinSize,
                      !.staker = s, !.withdrawer = Bonds, !.locked = FALSE]

LEMMA MarinadesType ==
  ASSUME TypeOK, NEW s \in Settlements, NEW amount \in Nat
  PROVE  /\ MarinadesAccount(s, amount) \in StakeAccount
         /\ PotOf(MarinadesAccount(s, amount), s) = amount
  <1> DEFINE acc == MarinadesAccount(s, amount)
  <1>1. MinSize \in Nat  BY MinSizeNat DEF TypeOK
  <1>2. acc = [NoAccount EXCEPT !.state = "initialized", !.lamports = amount + MinSize,
                                !.staker = s, !.withdrawer = Bonds, !.locked = FALSE]
    BY DEF MarinadesAccount
  <1>3. NoAccount \in StakeAccount  BY NoAccountType
  <1>4. /\ acc.state = "initialized" /\ acc.lamports = amount + MinSize
        /\ acc.staker = s /\ acc.withdrawer = Bonds
    BY <1>2, <1>3 DEF StakeAccount
  <1>5. acc \in StakeAccount
    <2>1. amount + MinSize \in Nat  BY <1>1
    <2> QED BY <1>2, <1>3, <2>1 DEF StakeAccount
  <1> HIDE DEF acc
  <1>6. PayableOf(acc) = amount  BY <1>1, <1>4 DEF PayableOf
  <1>7. PotOf(acc, s) = amount  BY <1>4, <1>6 DEF PotOf, Exists
  <1> QED BY <1>5, <1>7 DEF acc

LEMMA MarinadeCreates ==
  ASSUME TypeOK, NEW s \in Settlements, MarinadeLands(s), Head(queue).lamports \in Nat
  PROVE  /\ NewKey \in StakeIds /\ Fresh(NewKey)
         /\ stakes' = [stakes EXCEPT ![NewKey] = MarinadesAccount(s, Head(queue).lamports)]
         /\ wallet' \in Nat
         /\ UNCHANGED <<slot, config, voteLive, paid, settlements, claims, requests>>
  <1> DEFINE d == [staker |-> s, withdrawer |-> Bonds, voter |-> Nobody,
                   lamports |-> Head(queue).lamports + MinSize, locked |-> FALSE]
             amount == Head(queue).lamports
  <1>1. Unused # {} /\ CreateStake(NewKey, d)
    BY DEF MarinadeLands
  <1>2. /\ d.staker = s /\ d.withdrawer = Bonds /\ d.voter = Nobody
        /\ d.lamports = amount + MinSize /\ d.locked = FALSE
    OBVIOUS
  <1>3. MinSize \in Nat  BY MinSizeNat DEF TypeOK
  <1> HIDE DEF d, amount
  <1>4. /\ stakes' = [stakes EXCEPT ![NewKey] = MarinadesAccount(s, amount)]
        /\ wallet >= d.lamports /\ wallet' = wallet - d.lamports
        /\ UNCHANGED <<slot, config, voteLive, paid, settlements, claims, requests>>
    BY <1>1, <1>2 DEF CreateStake, MarinadesAccount
  <1>5. amount \in Nat  BY DEF amount
  <1>6. wallet' \in Nat  BY <1>2, <1>3, <1>4, <1>5 DEF TypeOK
  <1> QED BY <1>1, <1>4, <1>6, NewKeyUnused DEF amount

LEMMA MarinadeType ==
  ASSUME TypeOK, NEW s \in Settlements, MarinadeLands(s), Head(queue).lamports \in Nat
  PROVE  TypeOK'
  <1> DEFINE a == MarinadesAccount(s, Head(queue).lamports)
  <1>1. /\ NewKey \in StakeIds /\ stakes' = [stakes EXCEPT ![NewKey] = a]
        /\ wallet' \in Nat
        /\ UNCHANGED <<slot, config, voteLive, paid, settlements, claims, requests>>
    BY MarinadeCreates
  <1>2. a \in StakeAccount  BY MarinadesType
  <1> HIDE DEF a
  <1>3. stakes' \in [StakeIds -> StakeAccount]  BY <1>1, <1>2 DEF TypeOK
  <1> QED BY <1>1, <1>3 DEF TypeOK

(* What Marinade puts is there for the claims.                             *)
LEMMA MarinadeHeld ==
  ASSUME TypeOK, TypeOK', NEW s \in Settlements, MarinadeLands(s), Head(queue).lamports \in Nat
  PROVE  Held(s)' = Held(s) + Head(queue).lamports
  <1> DEFINE amount == Head(queue).lamports
             a == MarinadesAccount(s, amount)
             x == NewKey
  <1>1. /\ x \in StakeIds /\ Fresh(x) /\ stakes' = [stakes EXCEPT ![x] = a]
        /\ config' = config /\ settlements' = settlements
    BY MarinadeCreates
  <1>2. PotOf(a, s) = amount  BY MarinadesType
  <1>3. PotOf(stakes[x], s) = 0  BY <1>1 DEF PotOf, Fresh
  <1>4. amount \in Nat  OBVIOUS
  <1> HIDE DEF a, x, amount
  <1>5. /\ Sum(Pots(s), StakeIds)' - PotOf(a, s) = Sum(Pots(s), StakeIds) - PotOf(stakes[x], s)
        /\ Sum(Pots(s), StakeIds) \in Int /\ Sum(Pots(s), StakeIds)' \in Int
    BY <1>1, PotsOne
  <1>6. settlements[s].lamports_claimed \in Int  BY DEF TypeOK, Settlement
  <1>7. Held(s)' = Held(s) + amount
    BY <1>1, <1>2, <1>3, <1>4, <1>5, <1>6 DEF Held
  <1> QED BY <1>7 DEF amount

LEMMA QuietStep ==
  ASSUME RunTypeOK, NEW s \in Settlements, put'[s] = put[s], slipped' = slipped,
         SameClaims(s), HeldKept(s)
  PROVE  NothingPut(s)
  <1>1. slipped[s] \in Nat /\ settlements[s].lamports_claimed \in Nat
    BY DEF RunTypeOK, TypeOK, Settlement
  <1> QED BY <1>1 DEF NothingPut, SlippedMore, SameClaims

LEMMA LandedEffects ==
  ASSUME RunTypeOK, TypeOK', NEW s \in Settlements, NEW t \in Settlements, Lands(t)
  PROVE  NothingPut(s) \/ MarinadeLands(s)
  <1>0. TypeOK /\ put \in [Settlements -> Nat]  BY DEF RunTypeOK
  <1>1. CASE MergeLands(t)
    <2> DEFINE src == Head(queue).source
               dst == Head(queue).account
    <2>1. /\ src \in StakeIds /\ dst \in StakeIds /\ MergeStake(src, dst)
          /\ put' = put /\ slipped' = slipped
      BY <1>1 DEF MergeLands, Sent
    <2> HIDE DEF src, dst
    <2>2. HeldKept(s)  BY <1>0, <2>1, MergeHeld
    <2>3. SameClaims(s)  BY <2>1 DEF MergeStake, SameClaims
    <2> QED BY <2>1, <2>2, <2>3, QuietStep
  <1>2. CASE FundingLands(t)
    <2> DEFINE x == Head(queue).source
    <2>1. x \in StakeIds /\ put' = put /\ slipped' = slipped
      BY <1>2 DEF FundingLands, Sent
    <2>2. CASE UNCHANGED vars
      <3>1. SameClaims(s)  BY <2>2 DEF SameClaims, vars
      <3>2. config' = config /\ stakes' = stakes  BY <2>2 DEF vars
      <3>3. HeldKept(s)  BY <1>0, <3>1, <3>2, HeldNone DEF SameClaims
      <3> QED BY <2>1, <3>1, <3>3, QuietStep
    <2>3. CASE Funds(t, x)
      <3> HIDE DEF x
      <3>1. HeldKept(s) /\ SameClaims(s)  BY <1>0, <2>1, <2>3, FundHeld, FundCounts
      <3> QED BY <2>1, <3>1, QuietStep
    <2>4. UNCHANGED vars \/ Funds(t, x)
      <3>1. ASSUME Unused # {}, NEW payer \in Payers, FundSplit(t, x, NewKey, payer)
            PROVE  Funds(t, x)
        BY <3>1, NewKeyUnused DEF Funds
      <3> QED BY <1>2, <3>1 DEF FundingLands, Funds
    <2> QED BY <2>2, <2>3, <2>4
  <1>3. CASE MarinadeLands(t) /\ t # s
    <2> DEFINE d == [staker |-> t, withdrawer |-> Bonds, voter |-> Nobody,
                     lamports |-> Head(queue).lamports + MinSize, locked |-> FALSE]
    <2>1. /\ Unused # {} /\ CreateStake(NewKey, d)
          /\ put'[s] = put[s] /\ slipped' = slipped
      BY <1>0, <1>3 DEF MarinadeLands, Sent
    <2> HIDE DEF d
    <2>2. HeldKept(s)  BY <1>0, <2>1, NewKeyUnused, CreateHeld
    <2>3. SameClaims(s)  BY <2>1 DEF CreateStake, SameClaims
    <2> QED BY <2>1, <2>2, <2>3, QuietStep
  <1> QED BY <1>1, <1>2, <1>3 DEF Lands

LEMMA ElsewhereEffects ==
  ASSUME RunTypeOK, TypeOK', NEW s \in Settlements,
         OtherCall /\ Elsewhere /\ UNCHANGED slipped
  PROVE  NothingPut(s)
  <1>0. TypeOK /\ put' = put /\ slipped' = slipped  BY DEF RunTypeOK, Elsewhere
  <1>1. CASE Tick
    <2>1. config' = config /\ stakes' = stakes /\ SameClaims(s)
      BY <1>1 DEF Tick, SameClaims
    <2> QED BY <1>0, <2>1, HeldNone, QuietStep DEF SameClaims
  <1>2. ASSUME NEW t \in Settlements, NEW total \in MaxTotals, NEW nodes \in MaxNodes,
               InitSettlement(t, total, nodes)
        PROVE  NothingPut(s)
    <2>1. /\ config' = config /\ stakes' = stakes /\ ~settlements[t].exists
          /\ settlements[s].exists => s # t /\ settlements'[s] = settlements[s]
      BY <1>0, <1>2 DEF InitSettlement, TypeOK
    <2>2. CASE ~settlements[s].exists
      <3>1. slipped[s] \in Nat  BY DEF RunTypeOK
      <3> QED BY <1>0, <2>2, <3>1 DEF NothingPut, SlippedMore
    <2>3. CASE settlements[s].exists
      <3>1. SameClaims(s)  BY <2>1, <2>3 DEF SameClaims
      <3> QED BY <1>0, <2>1, <3>1, HeldNone, QuietStep DEF SameClaims
    <2> QED BY <2>2, <2>3
  <1>3. ASSUME Unused # {}, NEW d \in Deposits, CreateStake(NewKey, d)
        PROVE  NothingPut(s)
    <2>1. SameClaims(s)  BY <1>3 DEF CreateStake, SameClaims
    <2> QED BY <1>0, <1>3, <2>1, NewKeyUnused, CreateHeld, QuietStep
  <1>4. ASSUME NEW x \in StakeIds,
               \/ ManualDeposit(x) \/ OwnerDeactivates(x) \/ \E v \in Votes : FundBond(x, v)
        PROVE  NothingPut(s)
    <2>1. SameClaims(s)
      BY <1>4 DEF ManualDeposit, OwnerDeactivates, FundBond, SameClaims
    <2> QED BY <1>0, <1>4, <2>1, OwnerHeld, QuietStep
  <1>5. ASSUME NEW x \in StakeIds, NEW y \in StakeIds, MergeStake(x, y)
        PROVE  NothingPut(s)
    <2>1. SameClaims(s)  BY <1>5 DEF MergeStake, SameClaims
    <2> QED BY <1>0, <1>5, <2>1, MergeHeld, QuietStep
  <1> QED BY <1>1, <1>2, <1>3, <1>4, <1>5 DEF OtherCall

(* Between its two reads a run counts what is claimed.                     *)
LEMMA ClaimEffects ==
  ASSUME RunTypeOK, TypeOK', NEW s \in Settlements, NEW t \in Settlements,
         NEW x \in StakeIds, NEW i \in DOMAIN Tree[t], ClaimElsewhere(t, i, x)
  PROVE  NothingPut(s)
  <1> DEFINE claim == Tree[t][i]
  <1>0. TypeOK /\ put' = put /\ slipped \in [Settlements -> Nat]
    BY DEF RunTypeOK, ClaimElsewhere, Elsewhere
  <1>1. /\ ClaimSettlementV2(t, i, x)
        /\ slipped' = IF phase = "loaded" THEN [slipped EXCEPT ![t] = @ + claim] ELSE slipped
        /\ settlements' = [settlements EXCEPT ![t].lamports_claimed = @ + claim,
                                              ![t].merkle_nodes_claimed = @ + 1]
    BY DEF ClaimElsewhere, ClaimSettlementV2
  <1>2. claim \in Nat  BY TreeAssumption
  <1>3. HeldKept(s)  BY <1>0, <1>1, ClaimHeld
  <1> HIDE DEF claim
  <1>4. /\ settlements \in [Settlements -> Settlement]
        /\ settlements[s].lamports_claimed \in Nat /\ slipped[s] \in Nat
    BY <1>0 DEF TypeOK, Settlement
  <1>5. /\ settlements'[s].exists = settlements[s].exists
        /\ settlements'[s].max_total_claim = settlements[s].max_total_claim
        /\ settlements'[s].lamports_claimed
              = settlements[s].lamports_claimed + (IF s = t THEN claim ELSE 0)
    BY <1>1, <1>2, <1>4 DEF Settlement
  <1>6. slipped'[s] = slipped[s] + (IF phase = "loaded" /\ s = t THEN claim ELSE 0)
    BY <1>0, <1>1, <1>2, <1>4
  <1>7. SlippedMore(s)  BY <1>2, <1>4, <1>5, <1>6 DEF SlippedMore
  <1> QED BY <1>0, <1>3, <1>5, <1>7 DEF NothingPut

LEMMA StepEffects ==
  ASSUME RunTypeOK, TypeOK', NEW s \in Settlements, PipelineNext
  PROVE  NothingPut(s) \/ MarinadeLands(s)
  <1>1. CASE LoadSettlements \/ PrepareFunding \/ NotLanded \/ FinishRun
    <2>1. UNCHANGED vars /\ put' = put /\ slipped' = slipped
      BY <1>1 DEF LoadSettlements, PrepareFunding, NotLanded, FinishRun, Sent
    <2>2. SameClaims(s) /\ config' = config /\ stakes' = stakes
      BY <2>1 DEF SameClaims, vars
    <2>3. HeldKept(s)  BY <2>2, HeldNone DEF RunTypeOK, SameClaims
    <2> QED BY <2>1, <2>2, <2>3, QuietStep
  <1> QED BY <1>1, LandedEffects, ElsewhereEffects, ClaimEffects DEF PipelineNext, Send

-----------------------------------------------------------------------------
(* What a plan consists of *)

LEMMA IsAList ==
  ASSUME NEW n \in Nat, NEW q, q = [k \in 1 .. n |-> q[k]]
  PROVE  IsList(q) /\ DOMAIN q = 1 .. n /\ Len(q) = n
  <1>1. DOMAIN q = 1 .. n  BY Zenon
  <1>2. \A k \in 1 .. n : q[k] \in ToSet(q)  BY <1>1 DEF ToSet
  <1>3. q \in [1 .. n -> ToSet(q)]  BY <1>2
  <1> QED BY <1>1, <1>3 DEF IsList

LEMMA ListIs ==
  ASSUME NEW q, IsList(q)
  PROVE  Len(q) \in Nat /\ DOMAIN q = 1 .. Len(q) /\ q = [k \in 1 .. Len(q) |-> q[k]]
  BY DEF IsList

LEMMA ListsJoined ==
  ASSUME NEW a, NEW b, IsList(a), IsList(b)
  PROVE  /\ IsList(a \o b) /\ Len(a \o b) = Len(a) + Len(b)
         /\ \A i \in 1 .. Len(a) + Len(b) :
               (a \o b)[i] = IF i <= Len(a) THEN a[i] ELSE b[i - Len(a)]
  <1> DEFINE E == ToSet(a) \cup ToSet(b)
             c == a \o b
  <1>1. a \in Seq(E) /\ b \in Seq(E)
    BY SeqMonotonic DEF IsList
  <1> HIDE DEF E
  <1>2. /\ c \in Seq(E) /\ Len(c) = Len(a) + Len(b)
        /\ \A i \in 1 .. Len(a) + Len(b) :
              c[i] = IF i <= Len(a) THEN a[i] ELSE b[i - Len(a)]
    BY <1>1, ConcatProperties
  <1> HIDE DEF c
  <1>3. IsList(c)
    <2>1. Len(c) \in Nat /\ c = [k \in 1 .. Len(c) |-> c[k]]  BY <1>2
    <2> QED BY <2>1, IsAList
  <1> QED BY <1>2, <1>3 DEF c

LEMMA AtIsList ==
  ASSUME NEW seq, NEW P, IsFiniteSet(P)
  PROVE  IsList(At(seq, P)) /\ Len(At(seq, P)) = Cardinality(P) /\ Cardinality(P) \in Nat
  <1> DEFINE position == SetToSortSeq(P, LAMBDA i, j : i < j)
             q == [k \in 1 .. Cardinality(P) |-> seq[position[k]]]
  <1>1. At(seq, P) = q  BY DEF At
  <1>2. Cardinality(P) \in Nat  BY FS_CardinalityType
  <1> HIDE DEF position
  <1>3. q = [k \in 1 .. Cardinality(P) |-> q[k]]  OBVIOUS
  <1> HIDE DEF q
  <1> QED BY <1>1, <1>2, <1>3, IsAList

LEMMA ListFinite ==
  ASSUME NEW q, IsList(q)
  PROVE  IsFiniteSet(DOMAIN q)
  BY ListIs, FS_Interval

(* A pool of accounts can be taken apart.                                  *)
IsPool(pool) == IsFiniteSet(DOMAIN pool)

(* A pool is sorted without loss, and what is taken and left are lists.    *)
LEMMA TakenFromPool ==
  ASSUME NEW pool, IsPool(pool), NEW needed
  PROVE  LET part == take_stake_accounts_to_fund(BiggestUndelegatedFirst(pool), needed)
         IN  IsList(part.taken) /\ IsList(part.left)
  <1> DEFINE sorted == BiggestUndelegatedFirst(pool)
             able   == {i \in DOMAIN sorted : ~IsUnderwater(sorted[i], needed)}
             T      == {i \in able :
                          SumOfLamports(At(sorted, {j \in able : j < i})) < needed}
             part   == take_stake_accounts_to_fund(sorted, needed)
  <1>1. DOMAIN sorted = DOMAIN pool  BY DEF BiggestUndelegatedFirst
  <1>2. part = [taken |-> At(sorted, T), left |-> At(sorted, DOMAIN sorted \ T)]
    BY DEF take_stake_accounts_to_fund
  <1>3. T \subseteq DOMAIN pool  BY <1>1
  <1> HIDE DEF T, sorted
  <1>4. IsFiniteSet(T) /\ IsFiniteSet(DOMAIN sorted \ T)
    BY <1>1, <1>3, FS_Subset DEF IsPool
  <1>5. part.taken = At(sorted, T) /\ part.left = At(sorted, DOMAIN sorted \ T)
    BY <1>2
  <1> HIDE DEF part
  <1>6. IsList(part.taken) /\ IsList(part.left)  BY <1>4, <1>5, AtIsList
  <1> QED BY <1>6 DEF part, sorted

IsPlan(p) ==
    /\ p = [pools |-> p.pools, keys |-> p.keys, merges |-> p.merges, funds |-> p.funds]
    /\ p.pools = [v \in Votes |-> p.pools[v]]
    /\ \A v \in Votes : IsPool(p.pools[v])
    /\ IsList(p.merges) /\ IsList(p.funds)

(* Nothing of q is paid by Marinade.                                       *)
BondPays(q) == IsList(q) /\ \A i \in DOMAIN q : q[i].kind # "marinade"

(* q is the plan p with more instructions of the bond.                     *)
PaidByBond(p, q) ==
    /\ IsPlan(q)
    /\ \E m, f : /\ BondPays(m) /\ BondPays(f)
                 /\ q.merges = p.merges \o m /\ q.funds = p.funds \o f

LEMMA NothingMore ==
  ASSUME NEW q, IsList(q)
  PROVE  q = q \o <<>> /\ BondPays(<<>>)
  <1>1. q = q \o <<>>  BY ConcatEmptySeq DEF IsList
  <1>2. IsList(<<>>)  BY DEF IsList
  <1> QED BY <1>1, <1>2 DEF BondPays

LEMMA BondInstructions ==
  ASSUME NEW q, IsList(q), NEW s, NEW dst
  PROVE  /\ BondPays([i \in DOMAIN q |-> MergeInstruction(s, q[i], dst)])
         /\ BondPays([i \in DOMAIN q |-> FundInstruction(s, q[i])])
  <1> DEFINE m == [i \in DOMAIN q |-> MergeInstruction(s, q[i], dst)]
             f == [i \in DOMAIN q |-> FundInstruction(s, q[i])]
  <1>1. Len(q) \in Nat /\ DOMAIN q = 1 .. Len(q)  BY ListIs
  <1>2. \A i \in DOMAIN q : m[i].kind = "merge" /\ f[i].kind = "fund"
    BY DEF MergeInstruction, FundInstruction
  <1>3. DOMAIN m = DOMAIN q /\ DOMAIN f = DOMAIN q  OBVIOUS
  <1>4. m = [i \in 1 .. Len(q) |-> m[i]] /\ f = [i \in 1 .. Len(q) |-> f[i]]
    BY <1>1
  <1> HIDE DEF m, f
  <1>5. IsList(m) /\ IsList(f)  BY <1>1, <1>4, IsAList
  <1>6. BondPays(m) /\ BondPays(f)  BY <1>2, <1>3, <1>5 DEF BondPays
  <1> QED BY <1>6 DEF m, f

(* What the bond pays for a settlement are two lists of its accounts       *)
OfBond(plan, s, pool, keys, m, dst, f) ==
    [plan EXCEPT !.pools[BondOf[s]] = pool, !.keys = keys,
        !.merges = @ \o [i \in DOMAIN m |-> MergeInstruction(s, m[i], dst)],
        !.funds = @ \o [i \in DOMAIN f |-> FundInstruction(s, f[i])]]

BondPlans(plan, q, s) ==
    \/ \E pool : IsPool(pool) /\ q = [plan EXCEPT !.pools[BondOf[s]] = pool]
    \/ \E pool, keys, m, dst, f : /\ IsPool(pool) /\ IsList(m) /\ IsList(f)
                                  /\ q = OfBond(plan, s, pool, keys, m, dst, f)

LEMMA PlanFromBondIs ==
  ASSUME NEW plan, IsPlan(plan), NEW s \in Settlements, NEW amount
  PROVE  BondPlans(plan, PlanFromBond(plan, s, amount), s)
  <1> DEFINE v        == BondOf[s]
             needed   == amount + MinSize
             part     == take_stake_accounts_to_fund(BiggestUndelegatedFirst(plan.pools[v]), needed)
             total    == SumOfLamports(part.taken)
             dst      == Head(part.taken)
             others   == 2 .. Len(part.taken)
             same     == {i \in others : SameState(part.taken[i], dst)}
             merged   == At(part.taken, same)
             apartAt  == {i \in others \ same : part.taken[i].lamports > MinSize}
             apart    == At(part.taken, apartAt)
             size     == dst.lamports + SumOfLamports(merged)
             fundable == (IF size > MinSize THEN <<dst>> ELSE <<>>) \o apart
             leftover == [dst EXCEPT !.stake_account = PlannedKeys[plan.keys + 1],
                                     !.lamports = size - amount - MinSize]
             reusable == /\ total > needed
                         /\ size > MinSize
                         /\ leftover.lamports >= MinSize
             pool     == IF reusable THEN Append(part.left, leftover) ELSE part.left
             keys     == IF reusable THEN plan.keys + 1 ELSE plan.keys
  <1>1. v \in Votes /\ IsPool(plan.pools[v])
    BY SettlementsAssumption DEF IsPlan
  <1>2. PlanFromBond(plan, s, amount) =
           IF ~WorthFunding(total, needed)
           THEN [plan EXCEPT !.pools[v] = part.left]
           ELSE OfBond(plan, s, pool, keys, merged, dst, fundable)
    BY DEF PlanFromBond, OfBond
  <1>3. IsList(part.taken) /\ IsList(part.left)
    BY <1>1, TakenFromPool
  <1>4. IsFiniteSet(same) /\ IsFiniteSet(apartAt)
    <2>1. IsFiniteSet(others)
      <3> DEFINE n == Len(part.taken)
      <3>1. n \in Nat  BY <1>3, ListIs
      <3> HIDE DEF n
      <3>2. IsFiniteSet(2 .. n)  BY <3>1, FS_Interval
      <3> QED BY <3>2 DEF n
    <2> HIDE DEF others
    <2>2. same \subseteq others /\ apartAt \subseteq others  OBVIOUS
    <2> HIDE DEF same, apartAt
    <2> QED BY <2>1, <2>2, FS_Subset
  <1> HIDE DEF part, same, apartAt, leftover, reusable, size, dst, v
  <1>5. IsList(merged) /\ IsList(apart)
    BY <1>4, AtIsList
  <1>6. IsList(fundable)
    <2> DEFINE first == IF size > MinSize THEN <<dst>> ELSE <<>>
    <2>1. IsList(first)
      <3>1. IsList(<<dst>>) /\ IsList(<<>>)  BY DEF IsList, ToSet
      <3> QED BY <3>1
    <2> HIDE DEF first, apart
    <2>2. IsList(first \o apart)  BY <1>5, <2>1, ListsJoined
    <2> QED BY <2>2 DEF first
  <1>7. IsPool(part.left) /\ IsPool(pool)
    <2>1. IsPool(part.left)  BY <1>3, ListFinite DEF IsPool
    <2>2. IsPool(Append(part.left, leftover))
      <3>1. part.left \in Seq(ToSet(part.left) \cup {leftover})
        BY <1>3, SeqMonotonic DEF IsList
      <3>2. Append(part.left, leftover) \in Seq(ToSet(part.left) \cup {leftover})
        BY <3>1, AppendProperties
      <3>3. /\ Len(Append(part.left, leftover)) \in Nat
            /\ DOMAIN Append(part.left, leftover) = 1 .. Len(Append(part.left, leftover))
        BY <3>2, LenProperties
      <3> QED BY <3>3, FS_Interval DEF IsPool
    <2> QED BY <2>1, <2>2
  <1> HIDE DEF merged, fundable, pool, keys, total, needed
  <1> QED BY <1>2, <1>5, <1>6, <1>7, Zenon DEF BondPlans, v

LEMMA BondPlansPaid ==
  ASSUME NEW plan, IsPlan(plan), NEW s \in Settlements, NEW q, BondPlans(plan, q, s)
  PROVE  PaidByBond(plan, q)
  <1>0. /\ plan = [pools |-> plan.pools, keys |-> plan.keys, merges |-> plan.merges,
                   funds |-> plan.funds]
        /\ plan.pools = [v \in Votes |-> plan.pools[v]]
        /\ \A v \in Votes : IsPool(plan.pools[v])
        /\ IsList(plan.merges) /\ IsList(plan.funds) /\ BondOf[s] \in Votes
    BY SettlementsAssumption DEF IsPlan
  <1>1. ASSUME NEW pool, IsPool(pool), q.pools = [plan.pools EXCEPT ![BondOf[s]] = pool]
        PROVE  /\ q.pools = [v \in Votes |-> q.pools[v]]
               /\ \A v \in Votes : IsPool(q.pools[v])
    <2>1. q.pools = [v \in Votes |-> IF v = BondOf[s] THEN pool ELSE plan.pools[v]]
      BY <1>0, <1>1
    <2> QED BY <1>0, <1>1, <2>1
  <1>2. ASSUME NEW pool, IsPool(pool), q = [plan EXCEPT !.pools[BondOf[s]] = pool]
        PROVE  PaidByBond(plan, q)
    <2>1. /\ q = [pools |-> q.pools, keys |-> q.keys, merges |-> q.merges, funds |-> q.funds]
          /\ q.pools = [plan.pools EXCEPT ![BondOf[s]] = pool]
          /\ q.merges = plan.merges /\ q.funds = plan.funds
      BY <1>0, <1>2
    <2>2. IsPlan(q)  BY <1>0, <1>1, <1>2, <2>1 DEF IsPlan
    <2> QED BY <1>0, <2>1, <2>2, NothingMore DEF PaidByBond
  <1>3. ASSUME NEW pool, NEW keys, NEW m, NEW dst, NEW f, IsPool(pool), IsList(m), IsList(f),
               q = OfBond(plan, s, pool, keys, m, dst, f)
        PROVE  PaidByBond(plan, q)
    <2> DEFINE merges == [i \in DOMAIN m |-> MergeInstruction(s, m[i], dst)]
               funds == [i \in DOMAIN f |-> FundInstruction(s, f[i])]
    <2>1. BondPays(merges) /\ BondPays(funds)  BY <1>3, BondInstructions
    <2>2. q = [plan EXCEPT !.pools[BondOf[s]] = pool, !.keys = keys,
                           !.merges = @ \o merges, !.funds = @ \o funds]
      BY <1>3 DEF OfBond
    <2> HIDE DEF merges, funds
    <2>3. /\ q = [pools |-> q.pools, keys |-> q.keys, merges |-> q.merges, funds |-> q.funds]
          /\ q.pools = [plan.pools EXCEPT ![BondOf[s]] = pool]
          /\ q.merges = plan.merges \o merges /\ q.funds = plan.funds \o funds
      BY <1>0, <2>2
    <2>4. IsList(q.merges) /\ IsList(q.funds)
      BY <1>0, <2>1, <2>3, ListsJoined DEF BondPays
    <2>5. IsPlan(q)  BY <1>1, <1>3, <2>3, <2>4 DEF IsPlan
    <2> QED BY <2>1, <2>3, <2>5 DEF PaidByBond
  <1> QED BY <1>2, <1>3 DEF BondPlans

(* What Marinade still has to pay for s, from what the run has read        *)
Missing(s) == loaded[s].max_total_claim - (loaded[s].lamports_claimed + ClaimableFunds(s))

Share(s) == MarinadeInstruction(s, Missing(s))

(* q is the plan p with Marinade's share of s.                             *)
PaidByMarinade(p, q, s) ==
    /\ loaded[s].exists /\ ~(Missing(s) <= 0)
    /\ IsPlan(q)
    /\ q.merges = p.merges /\ q.funds = p.funds \o <<Share(s)>>

LEMMA PlanStep ==
  ASSUME NEW plan, IsPlan(plan), NEW s \in Settlements
  PROVE  \/ PaidByBond(plan, PlanSettlement(plan, s))
         \/ PaidByMarinade(plan, PlanSettlement(plan, s), s)
  <1> DEFINE amount == loaded[s].max_total_claim - already_funded(s)
             q == PlanSettlement(plan, s)
  <1>1. CASE ~loaded[s].exists \/ Expired(s) \/ amount <= 0
    <2>1. q = plan  BY <1>1 DEF PlanSettlement
    <2>2. PaidByBond(plan, plan)
      BY NothingMore DEF PaidByBond, IsPlan
    <2> QED BY <2>1, <2>2
  <1>2. CASE /\ ~(~loaded[s].exists \/ Expired(s) \/ amount <= 0)
             /\ PaidBy[s] = "Marinade"
    <2>1. amount = Missing(s)  BY <1>2 DEF already_funded, Missing
    <2>2. q = [plan EXCEPT !.funds = Append(@, Share(s))]
      BY <1>2, <2>1 DEF PlanSettlement, Share
    <2>3. /\ plan = [pools |-> plan.pools, keys |-> plan.keys, merges |-> plan.merges,
                     funds |-> plan.funds]
          /\ IsList(plan.funds)
      BY DEF IsPlan
    <2>4. Append(plan.funds, Share(s)) = plan.funds \o <<Share(s)>>
      <3>1. plan.funds \in Seq(ToSet(plan.funds) \cup {Share(s)})
        BY <2>3, SeqMonotonic DEF IsList
      <3> HIDE DEF Share
      <3> QED BY <3>1, AppendIsConcat
    <2> HIDE DEF q
    <2>5. /\ q = [pools |-> q.pools, keys |-> q.keys, merges |-> q.merges, funds |-> q.funds]
          /\ q.pools = plan.pools
          /\ q.merges = plan.merges /\ q.funds = plan.funds \o <<Share(s)>>
      BY <2>2, <2>3, <2>4
    <2>6. IsList(q.funds)
      <3>1. IsList(<<Share(s)>>)  BY DEF IsList, ToSet
      <3> QED BY <2>3, <2>5, <3>1, ListsJoined
    <2>7. IsPlan(q)  BY <2>5, <2>6 DEF IsPlan
    <2>8. PaidByMarinade(plan, q, s)
      BY <1>2, <2>1, <2>5, <2>7 DEF PaidByMarinade
    <2> QED BY <2>8 DEF q
  <1>3. CASE /\ ~(~loaded[s].exists \/ Expired(s) \/ amount <= 0)
             /\ PaidBy[s] # "Marinade"
    <2>1. q = PlanFromBond(plan, s, amount)  BY <1>3 DEF PlanSettlement
    <2> HIDE DEF amount
    <2>2. BondPlans(plan, q, s)  BY <2>1, PlanFromBondIs
    <2> HIDE DEF q
    <2>3. PaidByBond(plan, q)  BY <2>2, BondPlansPaid
    <2> QED BY <2>3 DEF q
  <1> QED BY <1>1, <1>2, <1>3

-----------------------------------------------------------------------------
(* The plan of a run goes through the settlements of the files in order    *)

(* h plans for every part of the positions up to k.                        *)
PlansUp(h, start, k) ==
    \A T \in SUBSET (1 .. k) :
        h[T] = IF T = {} THEN start ELSE PlanSettlement(h[T \ {Max(T)}], Order[Max(T)])

LEMMA PlanExists ==
  ASSUME NEW start, NEW n, n = Len(Order)
  PROVE  \E h : h = [T \in SUBSET (1 .. n) |-> h[T]] /\ PlansUp(h, start, n)
  <1> DEFINE P == SUBSET (1 .. n)
             Good(k) == \E h : h = [T \in P |-> h[T]] /\ PlansUp(h, start, k)
             Bad == {k \in 0 .. n : ~ Good(k)}
  <1>0. n \in Nat  BY PipelineAssumption
  <1>1. SUFFICES ASSUME Bad # {} PROVE FALSE
    <2>1. n \in 0 .. n  BY <1>0
    <2> SUFFICES ASSUME Bad = {} PROVE Good(n)  OBVIOUS
    <2> QED BY <2>1
  <1>2. PICK k \in Bad : \A j \in Bad : k <= j
    <2>1. Bad \in SUBSET Nat  BY <1>0
    <2> HIDE DEF Bad
    <2> QED BY <1>1, <2>1, LeastNumber
  <1>3. k # 0
    <2> DEFINE c == [T \in P |-> start]
    <2>1. c = [T \in P |-> c[T]]  OBVIOUS
    <2>2. PlansUp(c, start, 0)  BY DEF PlansUp
    <2>3. Good(0)  BY <2>1, <2>2
    <2> QED BY <2>3
  <1>4. k \in 1 .. n /\ k - 1 \in 0 .. n /\ k - 1 \notin Bad
    <2>1. k \in 0 .. n  OBVIOUS
    <2>2. ~ (k <= k - 1)  BY <1>0, <2>1
    <2> HIDE DEF Bad
    <2> QED BY <1>0, <1>2, <1>3, <2>1, <2>2
  <1>5. PICK h : h = [T \in P |-> h[T]] /\ PlansUp(h, start, k - 1)
    BY <1>4
  <1> HIDE DEF Bad
  <1> DEFINE g == [T \in P |-> IF T \in SUBSET (1 .. k - 1) THEN h[T]
                               ELSE PlanSettlement(h[T \ {Max(T)}], Order[Max(T)])]
  <1>6. ASSUME NEW T \in SUBSET (1 .. k)
        PROVE  g[T] = IF T = {} THEN start
                      ELSE PlanSettlement(g[T \ {Max(T)}], Order[Max(T)])
    <2>1. CASE T = {}
      <3>1. T \in P /\ T \in SUBSET (1 .. k - 1)  BY <2>1
      <3>2. g[T] = h[T]  BY <3>1
      <3> HIDE DEF g
      <3> QED BY <1>5, <2>1, <3>1, <3>2 DEF PlansUp
    <2>2. CASE T # {}
      <3> DEFINE R == T \ {Max(T)}
      <3>1. T \in P /\ R \in P /\ R \in SUBSET (1 .. k - 1)
        BY <1>0, <1>4, <2>2, LargestLeft
      <3>2. g[R] = h[R]  BY <3>1
      <3>3. CASE T \in SUBSET (1 .. k - 1)
        <4>1. h[T] = PlanSettlement(h[R], Order[Max(T)])
          BY <1>5, <2>2, <3>3 DEF PlansUp
        <4>2. g[T] = h[T]  BY <3>1, <3>3
        <4> HIDE DEF g, R
        <4>3. g[T] = PlanSettlement(g[R], Order[Max(T)])  BY <3>2, <4>1, <4>2
        <4> QED BY <2>2, <4>3 DEF R
      <3>4. CASE T \notin SUBSET (1 .. k - 1)
        <4>1. g[T] = PlanSettlement(h[R], Order[Max(T)])  BY <3>1, <3>4
        <4> HIDE DEF g, R
        <4>2. g[T] = PlanSettlement(g[R], Order[Max(T)])  BY <3>2, <4>1
        <4> QED BY <2>2, <4>2 DEF R
      <3> QED BY <3>3, <3>4
    <2> QED BY <2>1, <2>2
  <1>7. g = [T \in P |-> g[T]]  OBVIOUS
  <1> HIDE DEF g
  <1>8. PlansUp(g, start, k)  BY <1>6 DEF PlansUp
  <1>9. Good(k)  BY <1>7, <1>8
  <1> QED BY <1>9 DEF Bad

ByMarinade(q, i) == q[i].kind = "marinade"

(* q[i] is Marinade's share of a settlement among the first k files.       *)
IsShare(q, i, k) ==
    \E j \in 1 .. k : /\ q[i] = Share(Order[j])
                      /\ loaded[Order[j]].exists /\ ~(Missing(Order[j]) <= 0)

(* A plan for the first k settlements has Marinade's share of each at most *)
(* once.                                                                   *)
PaysOnce(p, k) ==
    /\ IsPlan(p)
    /\ \A i \in DOMAIN p.merges : ~ByMarinade(p.merges, i)
    /\ \A i \in DOMAIN p.funds : ByMarinade(p.funds, i) => IsShare(p.funds, i, k)
    /\ \A i, j \in DOMAIN p.funds :
          ByMarinade(p.funds, i) /\ ByMarinade(p.funds, j) =>
             (p.funds[i].settlement = p.funds[j].settlement => i = j)

LEMMA BondJoins ==
  ASSUME NEW a, NEW b, IsList(a), BondPays(b)
  PROVE  /\ DOMAIN a \subseteq DOMAIN (a \o b)
         /\ \A i \in DOMAIN (a \o b) :
               ByMarinade(a \o b, i) => i \in DOMAIN a /\ (a \o b)[i] = a[i]
  <1> DEFINE c == a \o b
  <1>1. /\ IsList(c) /\ Len(c) = Len(a) + Len(b)
        /\ \A i \in 1 .. Len(a) + Len(b) :
              c[i] = IF i <= Len(a) THEN a[i] ELSE b[i - Len(a)]
    BY ListsJoined DEF BondPays
  <1>2. /\ Len(a) \in Nat /\ Len(b) \in Nat /\ DOMAIN a = 1 .. Len(a) /\ DOMAIN b = 1 .. Len(b)
        /\ DOMAIN c = 1 .. Len(a) + Len(b)
    BY <1>1, ListIs DEF BondPays
  <1> HIDE DEF c
  <1>3. ASSUME NEW i \in DOMAIN c, ByMarinade(c, i) PROVE i \in DOMAIN a /\ c[i] = a[i]
    <2>1. CASE i <= Len(a)  BY <1>1, <1>2, <2>1
    <2>2. CASE ~(i <= Len(a))
      <3>1. c[i] = b[i - Len(a)] /\ i - Len(a) \in DOMAIN b  BY <1>1, <1>2, <2>2
      <3>2. c[i].kind # "marinade"  BY <3>1 DEF BondPays
      <3> QED BY <1>3, <3>2 DEF ByMarinade
    <2> QED BY <2>1, <2>2
  <1>4. DOMAIN a \subseteq DOMAIN c  BY <1>2
  <1> QED BY <1>3, <1>4 DEF c

LEMMA PaidByBondOnce ==
  ASSUME NEW k \in Nat, NEW p, NEW q, PaysOnce(p, k), PaidByBond(p, q)
  PROVE  PaysOnce(q, k + 1)
  <1>1. PICK m, f : /\ BondPays(m) /\ BondPays(f)
                    /\ q.merges = p.merges \o m /\ q.funds = p.funds \o f
    BY DEF PaidByBond
  <1>2. IsPlan(q) /\ IsList(p.merges) /\ IsList(p.funds)
    BY DEF PaidByBond, PaysOnce, IsPlan
  <1>3. \A i \in DOMAIN q.merges : ~ByMarinade(q.merges, i)
    <2>1. ASSUME NEW i \in DOMAIN q.merges, ByMarinade(q.merges, i)
          PROVE  i \in DOMAIN p.merges /\ q.merges[i] = p.merges[i]
      BY <1>1, <1>2, <2>1, BondJoins
    <2> QED BY <2>1 DEF PaysOnce, ByMarinade
  <1>4. \A i \in DOMAIN q.funds :
           ByMarinade(q.funds, i) => /\ i \in DOMAIN p.funds /\ q.funds[i] = p.funds[i]
                                     /\ ByMarinade(p.funds, i)
    <2>1. ASSUME NEW i \in DOMAIN q.funds, ByMarinade(q.funds, i)
          PROVE  i \in DOMAIN p.funds /\ q.funds[i] = p.funds[i]
      BY <1>1, <1>2, <2>1, BondJoins
    <2> QED BY <2>1 DEF ByMarinade
  <1>5. \A j \in 1 .. k : j \in 1 .. k + 1
    OBVIOUS
  <1>6. \A i \in DOMAIN q.funds : ByMarinade(q.funds, i) => IsShare(q.funds, i, k + 1)
    <2>1. ASSUME NEW i \in DOMAIN q.funds, ByMarinade(q.funds, i)
          PROVE  IsShare(q.funds, i, k + 1)
      <3>1. IsShare(p.funds, i, k) /\ q.funds[i] = p.funds[i]
        BY <1>4, <2>1 DEF PaysOnce
      <3> QED BY <1>5, <3>1 DEF IsShare
    <2> QED BY <2>1
  <1> QED BY <1>2, <1>3, <1>4, <1>6 DEF PaysOnce

LEMMA PaidByMarinadeOnce ==
  ASSUME ListedOnce, NEW k \in Nat, k + 1 \in 1 .. Len(Order), NEW p, NEW q,
         PaysOnce(p, k), PaidByMarinade(p, q, Order[k + 1])
  PROVE  PaysOnce(q, k + 1)
  <1> DEFINE s == Order[k + 1]
             f == p.funds
             g == q.funds
             n == Len(f)
  <1>1. /\ IsPlan(q) /\ q.merges = p.merges /\ g = f \o <<Share(s)>>
        /\ loaded[s].exists /\ ~(Missing(s) <= 0) /\ IsList(f)
    BY DEF PaidByMarinade, PaysOnce, IsPlan
  <1>2. Share(s).kind = "marinade" /\ Share(s).settlement = s
    BY DEF Share, MarinadeInstruction
  <1>3. /\ n \in Nat /\ DOMAIN f = 1 .. n /\ DOMAIN g = 1 .. n + 1
        /\ \A i \in 1 .. n : g[i] = f[i]
        /\ g[n + 1] = Share(s)
    <2> DEFINE one == <<Share(s)>>
    <2>1. IsList(one) /\ Len(one) = 1 /\ one[1] = Share(s)  BY DEF IsList, ToSet
    <2> HIDE DEF one
    <2>2. g = f \o one  BY <1>1 DEF one
    <2> HIDE DEF s, g, f
    <2>3. /\ IsList(g) /\ Len(g) = n + 1
          /\ \A i \in 1 .. n + 1 : g[i] = IF i <= n THEN f[i] ELSE one[i - n]
      <3>1. /\ IsList(g) /\ Len(g) = n + Len(one)
            /\ \A i \in 1 .. n + Len(one) : g[i] = IF i <= n THEN f[i] ELSE one[i - n]
        <4>1. IsList(f) /\ IsList(one)  BY <1>1, <2>1
        <4>2. /\ IsList(f \o one) /\ Len(f \o one) = n + Len(one)
              /\ \A i \in 1 .. n + Len(one) :
                    (f \o one)[i] = IF i <= n THEN f[i] ELSE one[i - n]
          BY <4>1, ListsJoined
        <4> QED BY <2>2, <4>2, Zenon
      <3> QED BY <2>1, <3>1
    <2>4. n \in Nat /\ DOMAIN f = 1 .. n /\ DOMAIN g = 1 .. n + 1
      BY <1>1, <2>3, ListIs
    <2>5. g[n + 1] = Share(s)
      <3>1. n + 1 \in 1 .. n + 1 /\ ~(n + 1 <= n) /\ (n + 1) - n = 1  BY <2>4
      <3> QED BY <2>1, <2>3, <3>1
    <2>6. \A i \in 1 .. n : g[i] = f[i]  BY <2>3, <2>4
    <2> QED BY <2>4, <2>5, <2>6
  <1>4. \A i \in DOMAIN f : ByMarinade(f, i) => IsShare(f, i, k) /\ f[i].settlement # s
    <2> SUFFICES ASSUME NEW i \in DOMAIN f, ByMarinade(f, i)
                 PROVE  IsShare(f, i, k) /\ f[i].settlement # s
      OBVIOUS
    <2>1. IsShare(f, i, k)  BY DEF PaysOnce
    <2>2. PICK j \in 1 .. k : f[i] = Share(Order[j])  BY <2>1 DEF IsShare
    <2>3. f[i].settlement = Order[j]  BY <2>2 DEF Share, MarinadeInstruction
    <2>4. j \in DOMAIN Order /\ k + 1 \in DOMAIN Order /\ j # k + 1
      <3>1. Len(Order) \in Nat /\ DOMAIN Order = 1 .. Len(Order)  BY PipelineAssumption
      <3> QED BY <3>1
    <2> QED BY <2>1, <2>3, <2>4 DEF ListedOnce
  <1>5. k + 1 \in 1 .. k + 1 /\ \A j \in 1 .. k : j \in 1 .. k + 1
    OBVIOUS
  <1>6. \A i \in DOMAIN g : i \in DOMAIN f \/ i = n + 1
    BY <1>3
  <1> HIDE DEF s, f, g
  <1>7. ASSUME NEW i \in DOMAIN g, ByMarinade(g, i) PROVE IsShare(g, i, k + 1)
    <2>1. CASE i \in DOMAIN f
      <3>1. g[i] = f[i] /\ ByMarinade(f, i)  BY <1>3, <1>7, <2>1 DEF ByMarinade
      <3>2. IsShare(f, i, k)  BY <1>4, <2>1, <3>1
      <3> QED BY <1>5, <3>1, <3>2 DEF IsShare
    <2>2. CASE i = n + 1
      BY <1>1, <1>3, <1>5, <2>2 DEF IsShare, s
    <2> QED BY <1>6, <2>1, <2>2
  <1>8. ASSUME NEW i \in DOMAIN g, NEW j \in DOMAIN g, ByMarinade(g, i), ByMarinade(g, j),
               g[i].settlement = g[j].settlement
        PROVE  i = j
    <2>1. \A h \in DOMAIN f : ByMarinade(g, h) => ByMarinade(f, h) /\ g[h] = f[h]
      BY <1>3 DEF ByMarinade
    <2>2. CASE i \in DOMAIN f /\ j \in DOMAIN f
      BY <1>8, <2>1, <2>2 DEF PaysOnce, f
    <2>3. CASE i \in DOMAIN f /\ j = n + 1
      BY <1>2, <1>3, <1>4, <1>8, <2>1, <2>3
    <2>4. CASE i = n + 1 /\ j \in DOMAIN f
      BY <1>2, <1>3, <1>4, <1>8, <2>1, <2>4
    <2> QED BY <1>6, <2>2, <2>3, <2>4
  <1> QED BY <1>1, <1>7, <1>8 DEF PaysOnce, g

LEMMA PlansPayOnce ==
  ASSUME ListedOnce, NEW start, PaysOnce(start, 0), NEW h, PlansUp(h, start, Len(Order))
  PROVE  PaysOnce(h[1 .. Len(Order)], Len(Order))
  <1> DEFINE n == Len(Order)
             Good(k) == PaysOnce(h[1 .. k], k)
             Bad == {k \in 0 .. n : ~ Good(k)}
  <1>0. n \in Nat  BY PipelineAssumption
  <1>1. SUFFICES ASSUME Bad # {} PROVE FALSE
    <2>1. n \in 0 .. n  BY <1>0
    <2> SUFFICES ASSUME Bad = {} PROVE Good(n)  OBVIOUS
    <2> HIDE DEF Good, n
    <2> QED BY <2>1
  <1>2. PICK k \in Bad : \A j \in Bad : k <= j
    <2>1. Bad \in SUBSET Nat  BY <1>0
    <2> HIDE DEF Bad
    <2> QED BY <1>1, <2>1, LeastNumber
  <1>3. k # 0
    <2>1. 1 .. 0 = {} /\ {} \in SUBSET (1 .. n)  OBVIOUS
    <2>2. h[{}] = start  BY <2>1 DEF PlansUp
    <2>3. Good(0)  BY <2>1, <2>2
    <2> QED BY <2>3
  <1>4. k \in 1 .. n /\ k - 1 \in 0 .. n /\ k - 1 \notin Bad
    <2>1. k \in 0 .. n  OBVIOUS
    <2>2. ~ (k <= k - 1)  BY <1>0, <2>1
    <2> HIDE DEF Bad
    <2> QED BY <1>0, <1>2, <1>3, <2>1, <2>2
  <1>5. Good(k - 1)  BY <1>4
  <1>6. h[1 .. k] = PlanSettlement(h[1 .. k - 1], Order[k])
    <2> DEFINE T == 1 .. k
    <2>0. k \in Nat /\ 1 <= k /\ k <= n  BY <1>0, <1>4
    <2>1. T \in SUBSET (1 .. k) /\ T # {} /\ k \in T  BY <2>0
    <2>2. Max(T) \in T /\ \A m \in T : Max(T) >= m  BY <2>0, <2>1, LargestNumber
    <2>3. Max(T) = k  BY <2>0, <2>1, <2>2
    <2>4. T \ {k} = 1 .. k - 1  BY <2>0
    <2>5. T \in SUBSET (1 .. n)  BY <1>0, <2>0
    <2> HIDE DEF T
    <2>6. h[T] = PlanSettlement(h[T \ {Max(T)}], Order[Max(T)])
      BY <2>1, <2>5 DEF PlansUp
    <2> QED BY <2>3, <2>4, <2>6 DEF T
  <1>7. Good(k)
    <2> DEFINE p == h[1 .. k - 1]
               q == h[1 .. k]
               j == k - 1
    <2>1. j \in Nat /\ j + 1 = k /\ k \in 1 .. Len(Order)  BY <1>0, <1>4
    <2>2. Order[k] \in Settlements  BY <1>4, PipelineAssumption
    <2>3. PaysOnce(p, j) /\ IsPlan(p)  BY <1>5 DEF PaysOnce
    <2>4. q = PlanSettlement(p, Order[k])  BY <1>6
    <2> HIDE DEF p, q, j
    <2>5. PaidByBond(p, q) \/ PaidByMarinade(p, q, Order[j + 1])
      BY <2>1, <2>2, <2>3, <2>4, PlanStep
    <2>6. PaysOnce(q, j + 1)
      BY <2>1, <2>3, <2>5, PaidByBondOnce, PaidByMarinadeOnce
    <2> QED BY <2>1, <2>6 DEF q
  <1> QED BY <1>4, <1>7

(* The plan before the first settlement                                    *)
Start(listing) == [pools |-> get_on_chain_bond_stake_accounts(listing),
                   keys |-> 0, merges |-> <<>>, funds |-> <<>>]

LEMMA StartsWithNothing ==
  ASSUME NEW listing \in SetToSeqs(InSomeBond)
  PROVE  PaysOnce(Start(listing), 0)
  <1> DEFINE pools == get_on_chain_bond_stake_accounts(listing)
             start == Start(listing)
  <1>1. IsFiniteSet(DOMAIN listing)
    <2>1. IsFiniteSet(InSomeBond)
      BY StakeIdsAssumption, FS_Subset DEF InSomeBond
    <2>2. Cardinality(InSomeBond) \in Nat  BY <2>1, FS_CardinalityType
    <2>3. DOMAIN listing = 1 .. Cardinality(InSomeBond)  BY DEF SetToSeqs
    <2> QED BY <2>2, <2>3, FS_Interval
  <1>2. ASSUME NEW v \in Votes PROVE IsPool(pools[v])
    <2> DEFINE P == {i \in DOMAIN listing : InBond(listing[i], v)}
               own == At(listing, P)
    <2>1. pools[v] = [i \in DOMAIN own |-> [stake_account |-> own[i],
                                            lamports |-> stakes[own[i]].lamports,
                                            state |-> stakes[own[i]]]]
      BY DEF get_on_chain_bond_stake_accounts
    <2>2. P \subseteq DOMAIN listing  OBVIOUS
    <2> HIDE DEF P
    <2>3. IsList(own)  BY <1>1, <2>2, FS_Subset, AtIsList
    <2>4. IsFiniteSet(DOMAIN own)  BY <2>3, ListFinite
    <2> HIDE DEF own
    <2>5. DOMAIN pools[v] = DOMAIN own  BY <2>1
    <2> QED BY <2>4, <2>5 DEF IsPool
  <1>3. pools = [v \in Votes |-> pools[v]]
    BY DEF get_on_chain_bond_stake_accounts
  <1> HIDE DEF pools
  <1>4. start = [pools |-> pools, keys |-> 0, merges |-> <<>>, funds |-> <<>>]
    BY DEF Start, pools
  <1>5. IsList(<<>>) /\ DOMAIN <<>> = {}
    BY DEF IsList
  <1> HIDE DEF start
  <1>6. /\ start = [pools |-> start.pools, keys |-> start.keys,
                    merges |-> start.merges, funds |-> start.funds]
        /\ start.pools = pools /\ start.merges = <<>> /\ start.funds = <<>>
    BY <1>4
  <1>7. IsPlan(start)  BY <1>2, <1>3, <1>5, <1>6 DEF IsPlan
  <1> QED BY <1>5, <1>6, <1>7 DEF PaysOnce, start

LEMMA PlanFolds ==
  ASSUME ListedOnce, NEW listing \in SetToSeqs(InSomeBond)
  PROVE  PaysOnce(FoldLeft(PlanSettlement, Start(listing), Order), Len(Order))
  <1> DEFINE start == Start(listing)
             Positions == DOMAIN Order
             Fold(h) == h = [T \in SUBSET Positions |->
                               IF T = {} THEN start
                               ELSE PlanSettlement(h[T \ {Max(T)}], Order[Max(T)])]
             g == CHOOSE h : Fold(h)
  <1>1. FoldLeft(PlanSettlement, start, Order) = g[Positions]
    BY DEF FoldLeft, MapThenFoldSet
  <1>2. Positions = 1 .. Len(Order)  BY PipelineAssumption
  <1>3. PaysOnce(start, 0)  BY StartsWithNothing
  <1> HIDE DEF start
  <1>4. PICK h : h = [T \in SUBSET Positions |-> h[T]] /\ PlansUp(h, start, Len(Order))
    BY <1>2, PlanExists
  <1>5. Fold(h)  BY <1>2, <1>4, Zenon DEF PlansUp
  <1>6. Fold(g)  BY <1>5
  <1> HIDE DEF g
  <1>7. PlansUp(g, start, Len(Order))  BY <1>2, <1>6 DEF PlansUp
  <1>8. PaysOnce(g[1 .. Len(Order)], Len(Order))  BY <1>3, <1>7, PlansPayOnce
  <1> QED BY <1>1, <1>2, <1>8 DEF start

(* What is planned for Marinade is the share of a settlement, each once.   *)
SharesOnce(q) ==
    /\ \A i \in DOMAIN q : ByMarinade(q, i) =>
          \E s \in Settlements : q[i] = Share(s) /\ loaded[s].exists /\ ~(Missing(s) <= 0)
    /\ \A i, j \in DOMAIN q : ByMarinade(q, i) /\ ByMarinade(q, j) =>
          (q[i].settlement = q[j].settlement => i = j)

LEMMA Prepared ==
  ASSUME ListedOnce, PrepareFunding
  PROVE  IsList(queue') /\ SharesOnce(queue')
  <1>1. PICK listing \in SetToSeqs(InSomeBond) :
           LET plan == FoldLeft(PlanSettlement, Start(listing), Order)
           IN  queue' = plan.merges \o plan.funds
    BY DEF PrepareFunding, Start
  <1> DEFINE plan == FoldLeft(PlanSettlement, Start(listing), Order)
             a == plan.merges
             b == plan.funds
             q == a \o b
  <1>2. PaysOnce(plan, Len(Order))  BY PlanFolds
  <1> HIDE DEF plan
  <1>3. /\ IsList(a) /\ IsList(b)
        /\ \A i \in DOMAIN a : ~ByMarinade(a, i)
        /\ \A i \in DOMAIN b : ByMarinade(b, i) => IsShare(b, i, Len(Order))
        /\ \A i, j \in DOMAIN b : ByMarinade(b, i) /\ ByMarinade(b, j) =>
              (b[i].settlement = b[j].settlement => i = j)
    BY <1>2 DEF PaysOnce, IsPlan
  <1>4. queue' = q  BY <1>1 DEF plan
  <1> HIDE DEF a, b
  <1>5. /\ IsList(q) /\ Len(q) = Len(a) + Len(b)
        /\ \A i \in 1 .. Len(a) + Len(b) :
              q[i] = IF i <= Len(a) THEN a[i] ELSE b[i - Len(a)]
    BY <1>3, ListsJoined
  <1> HIDE DEF q
  <1>6. /\ Len(a) \in Nat /\ Len(b) \in Nat /\ DOMAIN a = 1 .. Len(a) /\ DOMAIN b = 1 .. Len(b)
        /\ DOMAIN q = 1 .. Len(a) + Len(b)
    BY <1>3, <1>5, ListIs
  <1>7. ASSUME NEW i \in DOMAIN q, ByMarinade(q, i)
        PROVE  /\ i \in Nat /\ i - Len(a) \in DOMAIN b /\ q[i] = b[i - Len(a)]
               /\ ByMarinade(b, i - Len(a))
    <2>1. CASE i <= Len(a)
      <3>1. i \in DOMAIN a /\ q[i] = a[i]  BY <1>5, <1>6, <2>1
      <3> QED BY <1>3, <1>7, <3>1 DEF ByMarinade
    <2>2. CASE ~(i <= Len(a))
      <3>1. i \in Nat /\ i - Len(a) \in DOMAIN b /\ q[i] = b[i - Len(a)]
        BY <1>5, <1>6, <2>2
      <3> QED BY <1>7, <3>1 DEF ByMarinade
    <2> QED BY <2>1, <2>2
  <1>8. ASSUME NEW i \in DOMAIN q, ByMarinade(q, i)
        PROVE  \E s \in Settlements :
                  q[i] = Share(s) /\ loaded[s].exists /\ ~(Missing(s) <= 0)
    <2>1. IsShare(b, i - Len(a), Len(Order)) /\ q[i] = b[i - Len(a)]
      BY <1>3, <1>7, <1>8
    <2>2. \A j \in 1 .. Len(Order) : Order[j] \in Settlements
      BY PipelineAssumption
    <2> QED BY <2>1, <2>2 DEF IsShare
  <1>9. ASSUME NEW i \in DOMAIN q, NEW j \in DOMAIN q, ByMarinade(q, i), ByMarinade(q, j),
               q[i].settlement = q[j].settlement
        PROVE  i = j
    <2>1. i - Len(a) = j - Len(a)  BY <1>3, <1>7, <1>9
    <2> QED BY <1>6, <1>7, <1>9, <2>1
  <1> QED BY <1>4, <1>5, <1>8, <1>9 DEF SharesOnce

LEMMA TailOfList ==
  ASSUME NEW q, IsList(q), q # <<>>
  PROVE  /\ IsList(Tail(q)) /\ 1 \in DOMAIN q /\ Head(q) = q[1]
         /\ \A i \in DOMAIN Tail(q) : i \in Nat \ {0} /\ i + 1 \in DOMAIN q /\ Tail(q)[i] = q[i + 1]
  <1> DEFINE t == Tail(q)
             S == ToSet(q)
  <1>1. q \in Seq(S)  BY DEF IsList
  <1> HIDE DEF S
  <1>2. /\ t \in Seq(S) /\ Len(t) = Len(q) - 1
        /\ \A i \in 1 .. Len(t) : t[i] = q[i + 1]
    BY <1>1, HeadTailProperties
  <1>3. Len(q) \in Nat \ {0} /\ DOMAIN q = 1 .. Len(q) /\ Head(q) = q[1]
    BY <1>1, EmptySeq, LenProperties
  <1> HIDE DEF t
  <1>4. Len(t) \in Nat /\ t = [k \in 1 .. Len(t) |-> t[k]] /\ DOMAIN t = 1 .. Len(t)
    BY <1>2
  <1>5. IsList(t)  BY <1>4, IsAList
  <1>6. \A i \in DOMAIN t : i \in Nat \ {0} /\ i + 1 \in DOMAIN q /\ t[i] = q[i + 1]
    BY <1>2, <1>3, <1>4
  <1> QED BY <1>3, <1>5, <1>6 DEF t

-----------------------------------------------------------------------------
(* Every step keeps what has been put bounded *)

LEMMA SentQueue ==
  ASSUME PipelineNext, phase = "sending", phase' = "sending"
  PROVE  queue' = queue \/ (queue # <<>> /\ queue' = Tail(queue))
  <1>1. CASE NotLanded  BY <1>1 DEF NotLanded, Sent
  <1>2. ASSUME NEW s \in Settlements, Lands(s)
        PROVE  queue # <<>> /\ queue' = Tail(queue)
    BY <1>2 DEF Lands, MergeLands, FundingLands, MarinadeLands, ToSend, Sent
  <1> QED BY <1>1, <1>2 DEF PipelineNext, LoadSettlements, PrepareFunding, Send, FinishRun,
                            ClaimElsewhere, Elsewhere

LEMMA HeadPays ==
  ASSUME RunTypeOK, NEW s \in Settlements, StillMissing(s), MarinadeLands(s)
  PROVE  /\ 1 \in DOMAIN queue /\ Pays(queue, 1, s) /\ queue # <<>>
         /\ Head(queue) = queue[1] /\ Head(queue).lamports \in Nat \ {0}
         /\ settlements[s].exists /\ NotTooMuch(s, Head(queue).lamports)
  <1>1. /\ phase = "sending" /\ queue # <<>>
        /\ Head(queue).kind = "marinade" /\ Head(queue).settlement = s
    BY DEF MarinadeLands, ToSend
  <1>2. 1 \in DOMAIN queue /\ Head(queue) = queue[1]
    BY <1>1, TailOfList DEF RunTypeOK
  <1>3. Pays(queue, 1, s)  BY <1>1, <1>2 DEF Pays
  <1> QED BY <1>1, <1>2, <1>3 DEF StillMissing

LEMMA StepType ==
  ASSUME RunTypeOK, \A s \in Settlements : StillMissing(s), PipelineNext
  PROVE  TypeOK'
  <1>1. ASSUME NEW s \in Settlements, MarinadeLands(s) PROVE TypeOK'
    <2>1. Head(queue).lamports \in Nat  BY <1>1, HeadPays
    <2> QED BY <1>1, <2>1, MarinadeType DEF RunTypeOK
  <1>2. CASE [Next]_vars  BY <1>2, NextType DEF RunTypeOK
  <1> QED BY <1>1, <1>2, ProgramStep

LEMMA StepRunType ==
  ASSUME ListedOnce, RunTypeOK, \A s \in Settlements : StillMissing(s), PipelineNext
  PROVE  RunTypeOK'
  <1>0. TypeOK'  BY StepType
  <1>1. TypeOK /\ phase \in {"idle", "loaded", "sending"} /\ IsList(queue)
        /\ loaded \in [Settlements -> Settlement]
        /\ slipped \in [Settlements -> Nat] /\ put \in [Settlements -> Nat]
    BY DEF RunTypeOK
  <1>2. CASE LoadSettlements
    BY <1>0, <1>1, <1>2 DEF LoadSettlements, RunTypeOK, TypeOK, IsList
  <1>3. CASE PrepareFunding
    <2>1. loaded' \in [Settlements -> Settlement]
      BY <1>3, NoSettlementType DEF PrepareFunding
    <2>2. IsList(queue')  BY <1>3, Prepared
    <2> QED BY <1>0, <1>1, <1>3, <2>1, <2>2 DEF PrepareFunding, RunTypeOK, IsList
  <1>4. CASE Send
    <2>1. queue # <<>> /\ queue' = Tail(queue) /\ UNCHANGED <<phase, loaded, slipped>>
      BY <1>4 DEF Send, NotLanded, Lands, MergeLands, FundingLands, MarinadeLands, ToSend, Sent
    <2>2. IsList(queue')  BY <1>1, <2>1, TailOfList
    <2>3. put' \in [Settlements -> Nat]
      <3>1. ASSUME NEW s \in Settlements, MarinadeLands(s) PROVE put' \in [Settlements -> Nat]
        <4>1. Head(queue).lamports \in Nat  BY <3>1, HeadPays
        <4> QED BY <1>1, <3>1, <4>1 DEF MarinadeLands
      <3> QED BY <1>1, <1>4, <3>1 DEF Send, NotLanded, Lands, MergeLands, FundingLands
    <2> QED BY <1>0, <1>1, <2>1, <2>2, <2>3 DEF RunTypeOK, IsList
  <1>5. CASE FinishRun
    BY <1>0, <1>1, <1>5 DEF FinishRun, RunTypeOK, IsList
  <1>6. ASSUME NEW s \in Settlements, NEW x \in StakeIds, NEW i \in DOMAIN Tree[s],
               ClaimElsewhere(s, i, x)
        PROVE  RunTypeOK'
    <2>1. Tree[s][i] \in Nat  BY TreeAssumption
    <2>2. slipped' \in [Settlements -> Nat]  BY <1>1, <1>6, <2>1 DEF ClaimElsewhere
    <2> QED BY <1>0, <1>1, <1>6, <2>2 DEF ClaimElsewhere, Elsewhere, RunTypeOK, IsList
  <1>7. CASE OtherCall /\ Elsewhere /\ UNCHANGED slipped
    BY <1>0, <1>1, <1>7 DEF Elsewhere, RunTypeOK, IsList
  <1> QED BY <1>2, <1>3, <1>4, <1>5, <1>6, <1>7 DEF PipelineNext

LEMMA HeldNat ==
  ASSUME TypeOK, NEW s \in Settlements
  PROVE  /\ Held(s) \in Nat /\ Sum(Pots(s), StakeIds) \in Nat
         /\ settlements[s].lamports_claimed \in Nat /\ settlements[s].max_total_claim \in Nat
         /\ ClaimableFunds(s) = Sum(Pots(s), StakeIds)
  <1>1. PotsAreFunds  BY PotsSum
  <1>2. /\ Sum(Pots(s), StakeIds) \in Nat
        /\ ClaimableFunds(s) = Sum(Pots(s), StakeIds)
    BY <1>1 DEF PotsAreFunds, ClaimableFunds
  <1>3. /\ settlements[s].lamports_claimed \in Nat /\ settlements[s].max_total_claim \in Nat
    BY DEF TypeOK, Settlement
  <1> QED BY <1>2, <1>3 DEF Held

(* What Marinade put stays bounded and accounted for.                      *)
LEMMA StepPut ==
  ASSUME RunTypeOK, RunTypeOK', NEW s \in Settlements, PipelineNext,
         PutIsHeld(s), NotTooMuch(s, 0), StillMissing(s)
  PROVE  PutIsHeld(s)' /\ NotTooMuch(s, 0)'
  <1>0. TypeOK /\ TypeOK' /\ put[s] \in Nat /\ slipped[s] \in Nat
        /\ put'[s] \in Nat /\ slipped'[s] \in Nat
    BY DEF RunTypeOK
  <1>1. /\ Held(s) \in Nat /\ settlements[s].max_total_claim \in Nat
    BY <1>0, HeldNat
  <1>2. Held(s)' \in Nat /\ settlements'[s].max_total_claim \in Nat
    <2>1. TypeOK => Held(s) \in Nat /\ settlements[s].max_total_claim \in Nat
      BY HeldNat
    <2>2. (TypeOK => Held(s) \in Nat /\ settlements[s].max_total_claim \in Nat)'
      BY <2>1, HeldNat, PTL
    <2> QED BY <1>0, <2>2
  <1>3. CASE NothingPut(s)
    <2>1. put'[s] = put[s] /\ slipped'[s] >= slipped[s]
      BY <1>3 DEF NothingPut, SlippedMore
    <2>2. CASE settlements[s].exists
      <3>1. /\ settlements'[s].exists
            /\ settlements'[s].max_total_claim = settlements[s].max_total_claim
            /\ Held(s)' >= Held(s)
        BY <1>3, <2>2 DEF NothingPut, HeldKept
      <3>2. /\ put[s] <= Held(s)
            /\ put[s] + 0 <= settlements[s].max_total_claim + slipped[s]
        BY <2>2 DEF PutIsHeld, NotTooMuch
      <3>3. put'[s] <= Held(s)'  BY <1>0, <1>1, <1>2, <2>1, <3>1, <3>2
      <3>4. put'[s] + 0 <= settlements'[s].max_total_claim + slipped'[s]
        BY <1>0, <1>1, <2>1, <3>1, <3>2
      <3> QED BY <3>1, <3>3, <3>4 DEF PutIsHeld, NotTooMuch
    <2>3. CASE ~settlements[s].exists
      <3>1. put'[s] = 0  BY <2>1, <2>3 DEF PutIsHeld
      <3> QED BY <1>0, <1>2, <3>1 DEF PutIsHeld, NotTooMuch
    <2> QED BY <2>2, <2>3
  <1>4. CASE MarinadeLands(s)
    <2> DEFINE amount == Head(queue).lamports
    <2>1. amount \in Nat /\ settlements[s].exists /\ NotTooMuch(s, amount)
      BY <1>4, HeadPays
    <2>2. Held(s)' = Held(s) + amount
      BY <1>0, <1>4, <2>1, MarinadeHeld
    <2>3. put'[s] = put[s] + amount /\ slipped' = slipped
      BY <1>4 DEF MarinadeLands, Sent, RunTypeOK
    <2>4. settlements' = settlements  BY <1>0, <1>4, <2>1, MarinadeCreates
    <2> HIDE DEF amount
    <2>5. put[s] <= Held(s)  BY DEF PutIsHeld
    <2>6. put'[s] <= Held(s)'  BY <1>0, <1>1, <2>1, <2>2, <2>3, <2>5
    <2>7. put'[s] + 0 <= settlements'[s].max_total_claim + slipped'[s]
      BY <1>0, <2>1, <2>3, <2>4 DEF NotTooMuch
    <2> QED BY <2>1, <2>4, <2>6, <2>7 DEF PutIsHeld, NotTooMuch
  <1> QED BY <1>0, <1>3, <1>4, StepEffects

LEMMA StepRead ==
  ASSUME RunTypeOK, RunTypeOK', NEW s \in Settlements, PipelineNext,
         StillMissing(s), ReadBefore(s)
  PROVE  ReadBefore(s)'
  <1>0. /\ TypeOK /\ TypeOK' /\ slipped[s] \in Nat /\ slipped'[s] \in Nat
        /\ settlements[s].lamports_claimed \in Nat
        /\ settlements'[s].lamports_claimed \in Nat /\ loaded[s].lamports_claimed \in Nat
    BY DEF RunTypeOK, TypeOK, Settlement
  <1> SUFFICES ASSUME phase' = "loaded", loaded'[s].exists
               PROVE  /\ settlements'[s].exists
                      /\ loaded'[s].max_total_claim = settlements'[s].max_total_claim
                      /\ settlements'[s].lamports_claimed
                            <= loaded'[s].lamports_claimed + slipped'[s]
    BY DEF ReadBefore
  <1>1. CASE LoadSettlements
    BY <1>0, <1>1 DEF LoadSettlements, vars
  <1>2. CASE ~LoadSettlements
    <2>1. phase = "loaded" /\ loaded' = loaded
      BY <1>2 DEF PipelineNext, PrepareFunding, Send, NotLanded, Lands, MergeLands,
                  FundingLands, MarinadeLands, ToSend, Sent, FinishRun, ClaimElsewhere, Elsewhere
    <2>2. NothingPut(s)
      <3>1. ~MarinadeLands(s)  BY <2>1 DEF MarinadeLands, ToSend
      <3> QED BY <1>0, <3>1, StepEffects
    <2>3. /\ settlements[s].exists
          /\ loaded[s].max_total_claim = settlements[s].max_total_claim
          /\ settlements[s].lamports_claimed <= loaded[s].lamports_claimed + slipped[s]
      BY <2>1 DEF ReadBefore
    <2>4. /\ settlements'[s].exists
          /\ settlements'[s].max_total_claim = settlements[s].max_total_claim
          /\ settlements'[s].lamports_claimed - settlements[s].lamports_claimed
                <= slipped'[s] - slipped[s]
      BY <2>1, <2>2, <2>3 DEF NothingPut, SlippedMore
    <2> QED BY <1>0, <2>1, <2>3, <2>4
  <1> QED BY <1>1, <1>2

(* What a run plans for Marinade is missing when it is planned.            *)
LEMMA PlannedMissing ==
  ASSUME ListedOnce, RunTypeOK, RunTypeOK', NEW s \in Settlements, PrepareFunding,
         PutIsHeld(s), ReadBefore(s)
  PROVE  StillMissing(s)'
  <1>0. /\ TypeOK /\ slipped[s] \in Nat /\ put[s] \in Nat
        /\ loaded[s].lamports_claimed \in Nat /\ loaded[s].max_total_claim \in Nat
    BY DEF RunTypeOK, TypeOK, Settlement
  <1>1. SharesOnce(queue')  BY Prepared
  <1>2. phase = "loaded" /\ settlements' = settlements /\ slipped' = slipped /\ put' = put
    BY DEF PrepareFunding, vars
  <1>3. ASSUME NEW i \in DOMAIN queue', Pays(queue', i, s)
        PROVE  /\ queue'[i].lamports \in Nat \ {0}
               /\ settlements'[s].exists
               /\ put'[s] + queue'[i].lamports <= settlements'[s].max_total_claim + slipped'[s]
    <2>1. ByMarinade(queue', i)  BY <1>3 DEF Pays, ByMarinade
    <2>2. PICK t \in Settlements :
             queue'[i] = Share(t) /\ loaded[t].exists /\ ~(Missing(t) <= 0)
      BY <1>1, <2>1 DEF SharesOnce
    <2>3. Share(t).settlement = t /\ Share(t).lamports = Missing(t)
      BY DEF Share, MarinadeInstruction
    <2>4. t = s /\ queue'[i].lamports = Missing(s)
      BY <1>3, <2>2, <2>3 DEF Pays
    <2>5. /\ settlements[s].exists
          /\ loaded[s].max_total_claim = settlements[s].max_total_claim
          /\ settlements[s].lamports_claimed <= loaded[s].lamports_claimed + slipped[s]
      BY <1>2, <2>2, <2>4 DEF ReadBefore
    <2> DEFINE pots == Sum(Pots(s), StakeIds)
               claimed == settlements[s].lamports_claimed
               max == settlements[s].max_total_claim
    <2>6. /\ pots \in Nat /\ claimed \in Nat /\ ClaimableFunds(s) = pots /\ max \in Nat
      BY <1>0, HeldNat
    <2>7. put[s] <= claimed + pots  BY DEF PutIsHeld, Held
    <2> HIDE DEF pots, claimed, max
    <2>8. Missing(s) = max - (loaded[s].lamports_claimed + pots)
      BY <2>5, <2>6 DEF Missing, max
    <2>9. Missing(s) \in Nat \ {0}
      BY <1>0, <2>2, <2>4, <2>6, <2>8
    <2>10. claimed <= loaded[s].lamports_claimed + slipped[s]  BY <2>5 DEF claimed
    <2>11. put[s] + Missing(s) <= max + slipped[s]
      BY <1>0, <2>6, <2>7, <2>8, <2>10
    <2> QED BY <1>2, <2>4, <2>5, <2>9, <2>11 DEF max
  <1>4. ASSUME NEW i \in DOMAIN queue', NEW j \in DOMAIN queue',
               Pays(queue', i, s), Pays(queue', j, s)
        PROVE  i = j
    BY <1>1, <1>4 DEF SharesOnce, Pays, ByMarinade
  <1> QED BY <1>3, <1>4 DEF StillMissing, NotTooMuch, Pays

LEMMA StepMissing ==
  ASSUME ListedOnce, RunTypeOK, RunTypeOK', NEW s \in Settlements, PipelineNext,
         PutIsHeld(s), ReadBefore(s), StillMissing(s)
  PROVE  StillMissing(s)'
  <1>0. /\ TypeOK /\ TypeOK' /\ IsList(queue) /\ slipped[s] \in Nat /\ slipped'[s] \in Nat
        /\ put[s] \in Nat /\ settlements[s].max_total_claim \in Nat
    BY DEF RunTypeOK, TypeOK, Settlement
  <1>1. CASE PrepareFunding  BY <1>1, PlannedMissing
  <1>2. CASE ~PrepareFunding /\ phase' # "sending"
    BY <1>2 DEF StillMissing
  <1>3. CASE ~PrepareFunding /\ phase' = "sending"
    <2>1. phase = "sending"
      BY <1>3 DEF PipelineNext, LoadSettlements, Send, NotLanded, Lands, MergeLands,
                  FundingLands, MarinadeLands, ToSend, Sent, FinishRun, ClaimElsewhere, Elsewhere
    <2>2. /\ \A i \in DOMAIN queue : Pays(queue, i, s) =>
                /\ queue[i].lamports \in Nat \ {0}
                /\ settlements[s].exists /\ NotTooMuch(s, queue[i].lamports)
          /\ \A i, j \in DOMAIN queue : Pays(queue, i, s) /\ Pays(queue, j, s) => i = j
      BY <2>1 DEF StillMissing
    <2>3. CASE MarinadeLands(s)
      <3>1. 1 \in DOMAIN queue /\ Pays(queue, 1, s) /\ queue # <<>>  BY <2>3, HeadPays
      <3>2. queue' = Tail(queue)  BY <2>3 DEF MarinadeLands, Sent
      <3>3. \A i \in DOMAIN queue' : ~Pays(queue', i, s)
        <4>1. ASSUME NEW i \in DOMAIN queue', Pays(queue', i, s) PROVE FALSE
          <5>1. /\ i \in Nat \ {0} /\ i + 1 \in DOMAIN queue
                /\ queue'[i] = queue[i + 1]
            BY <1>0, <3>1, <3>2, TailOfList
          <5>2. Pays(queue, i + 1, s)  BY <4>1, <5>1 DEF Pays
          <5>3. i + 1 = 1  BY <2>2, <3>1, <5>1, <5>2
          <5> QED BY <5>1, <5>3
        <4> QED BY <4>1
      <3> QED BY <3>3 DEF StillMissing, Pays
    <2>4. CASE NothingPut(s)
      <3>1. PICK c \in {0, 1} :
               \A i \in DOMAIN queue' : /\ i \in Nat /\ i + c \in DOMAIN queue
                                        /\ queue'[i] = queue[i + c]
        <4>1. CASE queue' = queue
          <5>1. \A i \in DOMAIN queue : i \in Nat /\ i + 0 = i  BY <1>0, ListIs
          <5> QED BY <4>1, <5>1
        <4>2. CASE queue # <<>> /\ queue' = Tail(queue)
          BY <1>0, <4>2, TailOfList
        <4> QED BY <1>3, <2>1, <4>1, <4>2, SentQueue
      <3>2. ASSUME NEW i \in DOMAIN queue', Pays(queue', i, s)
            PROVE  /\ queue'[i].lamports \in Nat \ {0}
                   /\ settlements'[s].exists
                   /\ put'[s] + queue'[i].lamports
                         <= settlements'[s].max_total_claim + slipped'[s]
        <4> DEFINE amount == queue[i + c].lamports
        <4>1. Pays(queue, i + c, s) /\ i + c \in DOMAIN queue /\ queue'[i].lamports = amount
          BY <3>1, <3>2 DEF Pays
        <4>2. /\ amount \in Nat \ {0} /\ settlements[s].exists
              /\ put[s] + amount <= settlements[s].max_total_claim + slipped[s]
          BY <2>2, <4>1 DEF NotTooMuch
        <4>3. /\ settlements'[s].exists /\ put'[s] = put[s] /\ slipped'[s] >= slipped[s]
              /\ settlements'[s].max_total_claim = settlements[s].max_total_claim
          BY <2>4, <4>2 DEF NothingPut, SlippedMore
        <4> HIDE DEF amount
        <4> QED BY <1>0, <4>1, <4>2, <4>3
      <3>3. ASSUME NEW i \in DOMAIN queue', NEW j \in DOMAIN queue',
                   Pays(queue', i, s), Pays(queue', j, s)
            PROVE  i = j
        <4>1. Pays(queue, i + c, s) /\ Pays(queue, j + c, s)
          BY <3>1, <3>3 DEF Pays
        <4>2. i + c = j + c  BY <2>2, <3>1, <4>1
        <4> QED BY <3>1, <4>2
      <3> QED BY <3>2, <3>3 DEF StillMissing, NotTooMuch, Pays
    <2> QED BY <1>0, <2>3, <2>4, StepEffects
  <1> QED BY <1>1, <1>2, <1>3

LEMMA StepPutInv ==
  ASSUME ListedOnce, PutInv, [PipelineNext]_pipelineVars
  PROVE  PutInv'
  <1>1. CASE UNCHANGED pipelineVars
    <2>1. \A s \in Settlements : Held(s)' = Held(s)
      BY <1>1 DEF pipelineVars, vars, Held, Pots, PotOf, PayableOf, MinSize
    <2> QED BY <1>1, <2>1 DEF pipelineVars, run, vars, PutInv, RunTypeOK, TypeOK, PutIsHeld,
                              NotTooMuch, ReadBefore, StillMissing, Pays, IsList
  <1>2. CASE PipelineNext
    <2>1. RunTypeOK /\ RunTypeOK'  BY <1>2, StepRunType DEF PutInv
    <2>2. ASSUME NEW s \in Settlements
          PROVE  (PutIsHeld(s) /\ NotTooMuch(s, 0) /\ ReadBefore(s) /\ StillMissing(s))'
      <3>1. PutIsHeld(s) /\ NotTooMuch(s, 0) /\ ReadBefore(s) /\ StillMissing(s)
        BY DEF PutInv
      <3> QED BY <1>2, <2>1, <3>1, StepPut, StepRead, StepMissing
    <2> QED BY <2>1, <2>2 DEF PutInv
  <1> QED BY <1>1, <1>2

LEMMA InitPutInv == PipelineInit => PutInv
  <1> SUFFICES ASSUME PipelineInit PROVE PutInv  OBVIOUS
  <1>1. TypeOK  BY InitType DEF PipelineInit
  <1>2. RunTypeOK
    BY <1>1, NoSettlementType DEF PipelineInit, None, RunTypeOK, IsList
  <1>3. ASSUME NEW s \in Settlements
        PROVE  PutIsHeld(s) /\ NotTooMuch(s, 0) /\ ReadBefore(s) /\ StillMissing(s)
    <2>1. Held(s) \in Nat  BY <1>1, HeldNat
    <2>2. settlements[s].exists = FALSE  BY DEF PipelineInit, Init, NoSettlement
    <2>3. put[s] = 0 /\ phase = "idle"  BY DEF PipelineInit, None
    <2> QED BY <2>1, <2>2, <2>3 DEF PutIsHeld, NotTooMuch, ReadBefore, StillMissing
  <1> QED BY <1>2, <1>3 DEF PutInv

(* fund_settlement.rs:294-297: Marinade does not fund a settlement twice,  *)
(* however many runs are cut short, repeated or interleaved with claims,   *)
(* deposits and merges, if the files name a settlement once.               *)
THEOREM MarinadePaysOnce ==
  ASSUME ListedOnce
  PROVE  PipelineSpec => []MarinadeFundsOnce
  <1>1. PutInv => MarinadeFundsOnce
    <2> SUFFICES ASSUME PutInv, NEW s \in Settlements, settlements[s].exists
                 PROVE  put[s] <= settlements[s].max_total_claim + slipped[s]
      BY DEF MarinadeFundsOnce
    <2>1. put[s] + 0 <= settlements[s].max_total_claim + slipped[s]
      BY DEF PutInv, NotTooMuch
    <2>2. put[s] \in Nat  BY DEF PutInv, RunTypeOK
    <2> QED BY <2>1, <2>2
  <1>2. PutInv /\ [PipelineNext]_pipelineVars => PutInv'
    BY StepPutInv
  <1> QED BY InitPutInv, <1>1, <1>2, PTL DEF PipelineSpec
=============================================================================
