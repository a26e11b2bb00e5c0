---------------------------- MODULE FundingProofs ----------------------------
(***************************************************************************)
(* What the instructions pay, count and owe, for every choice of the       *)
(* parameters of ValidatorBonds: whatever they do, the accounts hold       *)
(* values of their types.                                                  *)
(*                                                                         *)
(* fund_settlement can always split the account it decides to split.  The  *)
(* argument rests on an invariant of the stake accounts, Backed: as long   *)
(* as a delegation counts it is covered by lamports over and above the     *)
(* rent.  Withdraws, splits, merges and redelegations all have to keep it. *)
(*                                                                         *)
(* A withdraw request and the counters of a settlement stay within what    *)
(* was asked for, and claims are counted as the bitmap has them.           *)
(*                                                                         *)
(* A settlement can pay what it counted as funded, as long as the minimum  *)
(* stake is not raised and no rent is refunded out of its accounts.        *)
(*                                                                         *)
(* Who holds a stake account, and for whom.  Every step of the program     *)
(* changes an account in one of a few ways, Change; that an account moves  *)
(* only as StakeCustody allows, and that the vote account it stands for is *)
(* never exchanged, both follow from it.  Added up over all accounts, so   *)
(* does that a bond pays for its own validator only, and from that the     *)
(* solvency of settlements of different bonds.                             *)
(***************************************************************************)
EXTENDS ValidatorBonds, FiniteSums

-----------------------------------------------------------------------------
(* Lemmas about the helpers *)

(* The clock's epoch is a natural number. *)
LEMMA EpochNat == ASSUME slot \in Nat PROVE Epoch \in Nat
  BY ClockAssumption, SMT DEF Epoch

(* What the stake program hands back is a stake account again. *)
LEMMA NoAccountType == NoAccount \in StakeAccount
  BY DEF NoAccount, StakeAccount, Nobody, NEVER

LEMMA WithdrawnType ==
  ASSUME NEW acc \in StakeAccount, NEW amount \in Nat, NEW e \in Nat,
         CanWithdraw(acc, amount, e)
  PROVE  Withdrawn(acc, amount) \in StakeAccount
  <1>1. amount <= acc.lamports
    BY RentAssumption DEF CanWithdraw, Staked, StakeAccount
  <1>2. CASE amount = acc.lamports
    BY <1>2, NoAccountType DEF Withdrawn
  <1>3. CASE amount # acc.lamports
    BY <1>1, <1>3 DEF Withdrawn, StakeAccount
  <1> QED BY <1>2, <1>3

LEMMA SplitSourceType ==
  ASSUME NEW acc \in StakeAccount, NEW amount \in Nat, NEW prefund \in Nat,
         CanSplit(acc, amount, prefund)
  PROVE  SplitSource(acc, amount) \in StakeAccount
  <1> DEFINE a == [acc EXCEPT !.lamports = acc.lamports - amount]
             b == [a EXCEPT !.delegated = acc.delegated - amount]
  <1>1. acc.lamports - amount \in Nat /\ acc.delegated - amount \in Nat
    BY RentAssumption, MinDelegationAssumption DEF CanSplit, StakeAccount
  <1>2. a \in StakeAccount  BY <1>1 DEF StakeAccount
  <1> HIDE DEF a
  <1>3. b \in StakeAccount  BY <1>1, <1>2 DEF StakeAccount
  <1>4. SplitSource(acc, amount) = b  BY DEF SplitSource, a, StakeAccount
  <1> QED BY <1>3, <1>4

LEMMA SplitTargetType ==
  ASSUME NEW acc \in StakeAccount, NEW amount \in Nat, NEW prefund \in Nat
  PROVE  SplitTarget(acc, amount, prefund) \in StakeAccount
  <1> DEFINE a == [acc EXCEPT !.lamports = prefund + amount]
             b == [a EXCEPT !.delegated = amount]
  <1>1. a \in StakeAccount  BY DEF StakeAccount
  <1> HIDE DEF a
  <1>2. b \in StakeAccount  BY <1>1 DEF StakeAccount
  <1>3. SplitTarget(acc, amount, prefund) = b  BY DEF SplitTarget, a
  <1> QED BY <1>2, <1>3

LEMMA DeactivatedType ==
  ASSUME NEW acc \in StakeAccount, NEW e \in Nat
  PROVE  Deactivated(acc, e) \in StakeAccount
  BY DEF Deactivated, StakeAccount

LEMMA DelegatedType ==
  ASSUME NEW acc \in StakeAccount, NEW v \in Votes, NEW e \in Nat,
         acc.lamports - Rent >= MinDelegation
  PROVE  Delegated(acc, v, e) \in StakeAccount
  <1> DEFINE a == [acc EXCEPT !.state = "stake"]
             b == [a EXCEPT !.voter = v]
             c == [b EXCEPT !.delegated = acc.lamports - Rent]
             d == [c EXCEPT !.act = e]
             f == [d EXCEPT !.deact = NEVER]
  <1>1. a \in StakeAccount  BY DEF StakeAccount
  <1> HIDE DEF a
  <1>2. b \in StakeAccount  BY <1>1 DEF StakeAccount
  <1> HIDE DEF b
  <1>3. acc.lamports - Rent \in Nat
    BY RentAssumption, MinDelegationAssumption DEF StakeAccount
  <1>4. c \in StakeAccount  BY <1>2, <1>3 DEF StakeAccount
  <1> HIDE DEF c
  <1>5. d \in StakeAccount  BY <1>4 DEF StakeAccount
  <1> HIDE DEF d
  <1>6. f \in StakeAccount  BY <1>5 DEF StakeAccount
  <1>7. CASE Effective(acc, e)
    BY <1>7 DEF Delegated, StakeAccount
  <1>8. CASE ~Effective(acc, e)
    <2>1. Delegated(acc, v, e) = f  BY <1>8 DEF Delegated, a, b, c, d
    <2> QED BY <2>1, <1>6
  <1> QED BY <1>7, <1>8

LEMMA MergedType ==
  ASSUME NEW dst \in StakeAccount, NEW src \in StakeAccount, NEW e \in Nat
  PROVE  Merged(dst, src, e) \in StakeAccount
  <1> DEFINE D == MergedDelegation(dst, src, e)
             a == [dst EXCEPT !.lamports = dst.lamports + src.lamports]
             b == [a EXCEPT !.delegated = D]
  <1>1. D \in Nat
    BY RentAssumption DEF MergedDelegation, StakeAccount
  <1>2. a \in StakeAccount  BY DEF StakeAccount
  <1> HIDE DEF a, D
  <1>3. b \in StakeAccount  BY <1>1, <1>2 DEF StakeAccount
  <1>4. Merged(dst, src, e) = b  BY DEF Merged, a, D
  <1> QED BY <1>3, <1>4

LEMMA FundedToType ==
  ASSUME NEW acc \in StakeAccount, NEW s \in Settlements, slot \in Nat
  PROVE  FundedTo(s, acc) \in StakeAccount
  <1> DEFINE a == Deactivated(acc, Epoch)
  <1>1. a \in StakeAccount  BY EpochNat, DeactivatedType
  <1> HIDE DEF a
  <1>2. [a EXCEPT !.staker = s] \in StakeAccount  BY <1>1 DEF StakeAccount
  <1> QED BY <1>2 DEF FundedTo, a

LEMMA AuthorizedType ==
  ASSUME NEW acc \in StakeAccount, NEW w \in {Bonds, Owner}
  PROVE  [acc EXCEPT !.staker = w, !.withdrawer = w] \in StakeAccount
  <1> DEFINE a == [acc EXCEPT !.staker = w]
             b == [a EXCEPT !.withdrawer = w]
  <1>1. a \in StakeAccount  BY DEF StakeAccount
  <1> HIDE DEF a
  <1>2. b \in StakeAccount  BY <1>1 DEF StakeAccount
  <1>3. [acc EXCEPT !.staker = w, !.withdrawer = w] = b  BY DEF a
  <1> QED BY <1>2, <1>3

LEMMA AccountSizeNat ==
  ASSUME NEW n \in Nat
  PROVE  /\ account_size(n) \in Nat
         /\ account_initialization_size(n) \in Nat
  <1>1. n \div BITS_PER_BYTE \in Nat
    BY ClaimsAccountAssumption, SMT
  <1> QED BY <1>1, ClaimsAccountAssumption
          DEF account_size, bitmap_size_in_bytes, account_initialization_size

LEMMA MinSizeNat == ASSUME config \in Config PROVE MinSize \in Nat
  <1>1. config.minimum_stake_lamports \in Minimums  BY DEF Config
  <1>2. config.minimum_stake_lamports \in Nat  BY <1>1, ConfigAssumption
  <1> QED BY <1>2, RentAssumption DEF MinSize

(* Replacing the accounts at one or two addresses keeps a table's type. *)
LEMMA UpdateOne ==
  ASSUME NEW D, NEW R, NEW f \in [D -> R], NEW x \in D, NEW a \in R
  PROVE  [f EXCEPT ![x] = a] \in [D -> R]
  OBVIOUS

LEMMA UpdateTwo ==
  ASSUME NEW D, NEW R, NEW f \in [D -> R], NEW x \in D, NEW y \in D,
         NEW a \in R, NEW b \in R
  PROVE  [f EXCEPT ![x] = a, ![y] = b] \in [D -> R]
  OBVIOUS

LEMMA NoSettlementType == NoSettlement \in Settlement
  BY DEF NoSettlement, Settlement

(* What the split branch of fund_settlement leaves in the two accounts. *)
LEMMA SplitAmounts ==
  ASSUME TypeOK, NEW s \in Settlements, NEW x \in StakeIds,
         FundChecks(s, x), left_over_splittable(s, x), SplitCPIsSucceed(s, x)
  PROVE  /\ Lacking(s) \in Nat
         /\ lamports_to_transfer(s, x) \in Nat
         /\ fund_split_leftover(s, x) \in Nat
         /\ lamports_to_transfer(s, x) <= stakes[x].lamports
  <1> DEFINE lam == stakes[x].lamports
             del == stakes[x].delegated
             L == Lacking(s)
             M == MinSize
  <1>1. lam \in Nat /\ del \in Nat
    BY DEF TypeOK, StakeAccount
  <1>2. L \in Nat
    BY DEF TypeOK, Settlement, Lacking, FundChecks, NotFullyFunded
  <1>3. M \in Nat
    BY MinSizeNat DEF TypeOK
  <1>4. lam - (L + M) >= M + Rent
    BY DEF left_over_splittable, amount_needed
  <1>5. left_over(s, x) = lam - (L + M) - Rent
    BY DEF left_over, amount_needed
  <1>6. lamports_to_transfer(s, x) =
          IF (lam - del) - (L + Rent) <= 0 THEN 0
          ELSE IF left_over(s, x) >= (lam - del) - (L + Rent)
               THEN (lam - del) - (L + Rent) ELSE left_over(s, x)
    BY DEF lamports_to_transfer
  <1>7. fund_split_leftover(s, x) = left_over(s, x) - lamports_to_transfer(s, x)
    BY DEF fund_split_leftover
  <1> HIDE DEF lam, del, L, M
  <1>8. left_over(s, x) \in Nat /\ left_over(s, x) <= lam
    BY <1>1, <1>2, <1>3, <1>4, <1>5, RentAssumption
  <1>9. /\ lamports_to_transfer(s, x) \in Nat
        /\ lamports_to_transfer(s, x) <= left_over(s, x)
    BY <1>1, <1>2, <1>6, <1>8, RentAssumption
  <1> QED BY <1>1, <1>2, <1>7, <1>8, <1>9 DEF L, lam

(* The two accounts a split funding leaves are stake accounts. *)
LEMMA SplitAccountsType ==
  ASSUME TypeOK, NEW s \in Settlements, NEW x \in StakeIds,
         FundChecks(s, x), left_over_splittable(s, x), SplitCPIsSucceed(s, x)
  PROVE  /\ KeptForFunding(s, x) \in StakeAccount
         /\ SplitOff(s, x) \in StakeAccount
  <1> DEFINE T == lamports_to_transfer(s, x)
             F == fund_split_leftover(s, x)
             A == AfterTransfer(s, x)
             I == InitializedSplit(s, x)
  <1>1. /\ T \in Nat /\ F \in Nat /\ T <= stakes[x].lamports
        /\ stakes[x] \in StakeAccount /\ Epoch \in Nat
    BY SplitAmounts, EpochNat DEF TypeOK
  <1>2. A \in StakeAccount
    BY <1>1 DEF AfterTransfer, StakeAccount
  <1>3. /\ F > 0 => CanSplit(A, F, Rent + T)
        /\ F = 0 => CanDelegate(I, BondOf[s], Epoch)
    BY DEF SplitCPIsSucceed
  <1>4. Rent + T \in Nat
    BY <1>1, RentAssumption
  <1>5. CASE F > 0
    <2>1. KeptForFunding(s, x) = SplitSource(A, F)
      BY <1>5 DEF KeptForFunding
    <2>2. SplitOff(s, x) = SplitTarget(A, F, Rent + T)
      BY <1>5 DEF SplitOff
    <2> HIDE DEF T, F, A
    <2>3. SplitSource(A, F) \in StakeAccount
      BY <1>1, <1>2, <1>3, <1>4, <1>5, SplitSourceType
    <2>4. SplitTarget(A, F, Rent + T) \in StakeAccount
      BY <1>1, <1>2, <1>4, SplitTargetType
    <2> QED BY <2>1, <2>2, <2>3, <2>4
  <1>6. CASE ~(F > 0)
    <2>1. F = 0  BY <1>1, <1>6
    <2>2. KeptForFunding(s, x) = A
      BY <1>6 DEF KeptForFunding
    <2>3. SplitOff(s, x) = Delegated(I, BondOf[s], Epoch)
      BY <1>6 DEF SplitOff
    <2>4. I \in StakeAccount
      <3> DEFINE a == [NoAccount EXCEPT !.state = "initialized"]
                 b == [a EXCEPT !.staker = Bonds, !.withdrawer = Bonds]
                 c == [b EXCEPT !.lamports = Rent + T]
      <3>1. a \in StakeAccount  BY NoAccountType DEF StakeAccount
      <3>2. I = c
        BY DEF InitializedSplit, NoAccount
      <3> HIDE DEF a, T
      <3>3. b \in StakeAccount  BY <3>1, AuthorizedType
      <3> HIDE DEF b
      <3>4. c \in StakeAccount  BY <3>3, <1>4 DEF StakeAccount
      <3> QED BY <3>2, <3>4
    <2>5. I.lamports - Rent >= MinDelegation
      BY <2>1, <1>3 DEF CanDelegate
    <2>6. BondOf[s] \in Votes
      BY SettlementsAssumption
    <2> HIDE DEF I
    <2>7. Delegated(I, BondOf[s], Epoch) \in StakeAccount
      BY <2>4, <2>5, <2>6, <1>1, DelegatedType
    <2> QED BY <2>2, <2>3, <2>7, <1>2
  <1> QED BY <1>5, <1>6

-----------------------------------------------------------------------------
(* Type correctness *)

(* The parts of TypeOK that each group of instructions can disturb *)
LEMMA InitType == Init => TypeOK
  <1> SUFFICES ASSUME Init PROVE TypeOK  OBVIOUS
  <1>1. stakes \in [StakeIds -> StakeAccount]
    BY NoAccountType DEF Init
  <1>2. settlements \in [Settlements -> Settlement]
    BY NoSettlementType DEF Init
  <1>3. claims \in [Settlements -> [size : Nat, bits : SUBSET Nat]]
    BY DEF Init, NoClaims
  <1>4. requests \in [Votes -> WithdrawRequest]
    BY DEF Init, NoRequest, WithdrawRequest
  <1>5. /\ slot \in Nat /\ config \in Config /\ voteLive \in [Votes -> BOOLEAN]
        /\ wallet \in Nat /\ paid \in [Payers \cup {Owner} -> Nat]
    BY EnvironmentAssumption DEF Init
  <1> QED BY <1>1, <1>2, <1>3, <1>4, <1>5 DEF TypeOK

LEMMA ConfigSteps ==
  ASSUME TypeOK,
         \/ Tick \/ EmergencyPause \/ EmergencyResume
         \/ \E c \in Config : ConfigureConfig(c)
         \/ \E v \in Votes : CloseVoteAccount(v)
  PROVE  TypeOK'
  <1>1. CASE Tick  BY <1>1 DEF TypeOK, Tick
  <1>2. CASE EmergencyPause
    BY <1>2 DEF TypeOK, EmergencyPause, Config
  <1>3. CASE EmergencyResume
    BY <1>3 DEF TypeOK, EmergencyResume, Config
  <1>4. CASE \E c \in Config : ConfigureConfig(c)
    BY <1>4 DEF TypeOK, ConfigureConfig
  <1>5. CASE \E v \in Votes : CloseVoteAccount(v)
    BY <1>5 DEF TypeOK, CloseVoteAccount
  <1> QED BY <1>1, <1>2, <1>3, <1>4, <1>5

LEMMA AmountToFulfill ==
  ASSUME TypeOK, NEW v \in Votes
  PROVE  /\ amount_to_fulfill_withdraw(v) \in Nat
         /\ amount_to_fulfill_withdraw(v) > 0 =>
              requests[v].withdrawn_amount + amount_to_fulfill_withdraw(v)
                 = requests[v].requested_amount
  BY DEF TypeOK, WithdrawRequest, amount_to_fulfill_withdraw

LEMMA WithdrawSteps ==
  ASSUME TypeOK, NEW v \in Votes,
         \/ CancelWithdrawRequest(v)
         \/ \E amount \in Amounts : InitWithdrawRequest(v, amount)
         \/ \E x \in StakeIds : ClaimWithdrawWhole(v, x)
         \/ \E x, y \in StakeIds : ClaimWithdrawSplit(v, x, y)
  PROVE  TypeOK'
  <1>1. CASE CancelWithdrawRequest(v)
    <2>1. NoRequest \in WithdrawRequest  BY DEF NoRequest, WithdrawRequest
    <2> QED BY <1>1, <2>1, UpdateOne DEF TypeOK, CancelWithdrawRequest
  <1>2. CASE \E amount \in Amounts : InitWithdrawRequest(v, amount)
    <2>1. PICK amount \in Amounts : InitWithdrawRequest(v, amount)  BY <1>2
    <2>2. amount \in Nat /\ Epoch \in Nat
      BY EnvironmentAssumption, EpochNat DEF TypeOK
    <2>3. [exists |-> TRUE, epoch |-> Epoch, withdrawn_amount |-> 0,
           requested_amount |-> amount] \in WithdrawRequest
      BY <2>2 DEF WithdrawRequest
    <2> QED BY <2>1, <2>3, UpdateOne DEF TypeOK, InitWithdrawRequest
  <1>3. CASE \E x \in StakeIds : ClaimWithdrawWhole(v, x)
    <2>1. PICK x \in StakeIds : ClaimWithdrawWhole(v, x)  BY <1>3
    <2>2. stakes' \in [StakeIds -> StakeAccount]
      BY <2>1, AuthorizedType, UpdateOne DEF TypeOK, ClaimWithdrawWhole, Released
    <2>3. requests' \in [Votes -> WithdrawRequest]
      <3>1. stakes[x].lamports \in Nat  BY DEF TypeOK, StakeAccount
      <3>2. requests' = [requests EXCEPT ![v].withdrawn_amount = @ + stakes[x].lamports]
        BY <2>1 DEF ClaimWithdrawWhole
      <3> QED BY <3>1, <3>2 DEF TypeOK, WithdrawRequest
    <2> QED BY <2>1, <2>2, <2>3 DEF TypeOK, ClaimWithdrawWhole
  <1>4. CASE \E x, y \in StakeIds : ClaimWithdrawSplit(v, x, y)
    <2>1. PICK x \in StakeIds, y \in StakeIds : ClaimWithdrawSplit(v, x, y)
      BY <1>4
    <2> DEFINE amount == amount_to_fulfill_withdraw(v)
               leftover == stakes[x].lamports - amount
    <2>2. amount \in Nat  BY AmountToFulfill
    <2>3. stakes[x] \in StakeAccount  BY DEF TypeOK
    <2>4. /\ leftover \in Nat
          /\ CanSplit(stakes[x], leftover, Rent)
      BY <2>1, <2>2, <2>3 DEF ClaimWithdrawSplit, StakeAccount
    <2>5. /\ stakes' = [stakes EXCEPT
                         ![x] = Released(SplitSource(stakes[x], leftover)),
                         ![y] = SplitTarget(stakes[x], leftover, Rent)]
          /\ wallet' = wallet - Rent /\ wallet >= Rent
          /\ requests' = [requests EXCEPT ![v].withdrawn_amount = @ + amount]
          /\ UNCHANGED <<slot, config, voteLive, paid, settlements, claims>>
      BY <2>1 DEF ClaimWithdrawSplit
    <2> HIDE DEF amount, leftover
    <2>6. SplitSource(stakes[x], leftover) \in StakeAccount
      BY <2>3, <2>4, SplitSourceType, RentAssumption
    <2>7. Released(SplitSource(stakes[x], leftover)) \in StakeAccount
      BY <2>6, AuthorizedType DEF Released
    <2>8. SplitTarget(stakes[x], leftover, Rent) \in StakeAccount
      BY <2>3, <2>4, SplitTargetType, RentAssumption
    <2>9. stakes' \in [StakeIds -> StakeAccount]
      BY <2>5, <2>7, <2>8, UpdateTwo DEF TypeOK
    <2>10. requests' \in [Votes -> WithdrawRequest]
      BY <2>2, <2>5 DEF TypeOK, WithdrawRequest
    <2>11. wallet' \in Nat
      BY <2>5, RentAssumption DEF TypeOK
    <2> QED BY <2>5, <2>9, <2>10, <2>11 DEF TypeOK
  <1> QED BY <1>1, <1>2, <1>3, <1>4

LEMMA FundedMoreType ==
  ASSUME NEW st \in Settlement, NEW n \in Nat
  PROVE  [st EXCEPT !.lamports_funded = @ + n] \in Settlement
  <1>1. st.lamports_funded + n \in Nat  BY DEF Settlement
  <1> DEFINE m == st.lamports_funded + n
  <1>2. [st EXCEPT !.lamports_funded = @ + n] = [st EXCEPT !.lamports_funded = m]
    OBVIOUS
  <1> HIDE DEF m
  <1>3. [st EXCEPT !.lamports_funded = m] \in Settlement
    BY <1>1 DEF Settlement, m
  <1> QED BY <1>2, <1>3

LEMMA FundingSteps ==
  ASSUME TypeOK, NEW s \in Settlements,
         \/ \E total \in MaxTotals, nodes \in MaxNodes : InitSettlement(s, total, nodes)
         \/ UpsizeSettlementClaims(s)
         \/ \E x \in StakeIds : FundWhole(s, x)
         \/ \E x, y \in StakeIds, payer \in Payers : FundSplit(s, x, y, payer)
  PROVE  TypeOK'
  <1>1. CASE \E total \in MaxTotals, nodes \in MaxNodes : InitSettlement(s, total, nodes)
    <2>1. PICK total \in MaxTotals, nodes \in MaxNodes : InitSettlement(s, total, nodes)
      BY <1>1
    <2>2. total \in Nat /\ nodes \in Nat /\ slot \in Nat
      BY SettlementsAssumption DEF TypeOK
    <2>3. settlements' \in [Settlements -> Settlement]
      <3> DEFINE a == [NoSettlement EXCEPT !.exists = TRUE]
                 b == [a EXCEPT !.max_total_claim = total]
                 c == [b EXCEPT !.max_merkle_nodes = nodes]
                 d == [c EXCEPT !.slot_created_at = slot]
      <3>1. settlements' = [settlements EXCEPT ![s] = d]
        BY <2>1 DEF InitSettlement, NoSettlement
      <3>2. a \in Settlement  BY NoSettlementType DEF Settlement
      <3> HIDE DEF a
      <3>3. b \in Settlement  BY <2>2, <3>2 DEF Settlement
      <3> HIDE DEF b
      <3>4. c \in Settlement  BY <2>2, <3>3 DEF Settlement
      <3> HIDE DEF c
      <3>5. d \in Settlement  BY <2>2, <3>4 DEF Settlement
      <3> QED BY <3>1, <3>5, UpdateOne DEF TypeOK
    <2>4. claims' \in [Settlements -> [size : Nat, bits : SUBSET Nat]]
      <3>1. account_initialization_size(nodes) \in Nat  BY <2>2, AccountSizeNat
      <3> QED BY <2>1, <3>1 DEF TypeOK, InitSettlement
    <2> QED BY <2>1, <2>3, <2>4 DEF TypeOK, InitSettlement
  <1>2. CASE UpsizeSettlementClaims(s)
    <2> DEFINE n == settlements[s].max_merkle_nodes
               cur == claims[s].size
    <2>1. n \in Nat /\ cur \in Nat
      BY DEF TypeOK, Settlement
    <2>2. account_increase_size(n, cur) \in Nat
      <3> HIDE DEF n, cur
      <3> QED BY <2>1, AccountSizeNat, ClaimsAccountAssumption DEF account_increase_size
    <2>3. claims' = [claims EXCEPT ![s].size = account_increase_size(n, cur)]
      BY <1>2 DEF UpsizeSettlementClaims
    <2> HIDE DEF n, cur
    <2>4. claims' \in [Settlements -> [size : Nat, bits : SUBSET Nat]]
      BY <2>2, <2>3 DEF TypeOK
    <2> QED BY <1>2, <2>4 DEF TypeOK, UpsizeSettlementClaims
  <1>3. CASE \E x \in StakeIds : FundWhole(s, x)
    <2>1. PICK x \in StakeIds : FundWhole(s, x)  BY <1>3
    <2>2. stakes' \in [StakeIds -> StakeAccount]
      <3>1. FundedTo(s, stakes[x]) \in StakeAccount  BY FundedToType DEF TypeOK
      <3> QED BY <2>1, <3>1, UpdateOne DEF TypeOK, FundWhole
    <2>3. stakes[x].lamports - MinSize \in Nat
      <3>1. stakes[x].lamports \in Nat  BY DEF TypeOK, StakeAccount
      <3> QED BY <2>1, <3>1, MinSizeNat DEF TypeOK, FundWhole, CoversMinSize
    <2>4. settlements' \in [Settlements -> Settlement]
      <3> DEFINE n == stakes[x].lamports - MinSize
                 a == [settlements[s] EXCEPT !.lamports_funded = @ + n]
      <3>1. settlements' = [settlements EXCEPT ![s] = a]
        BY <2>1 DEF FundWhole, TypeOK
      <3> HIDE DEF n
      <3>2. a \in Settlement  BY <2>3, FundedMoreType DEF TypeOK, n
      <3> HIDE DEF a
      <3> QED BY <3>1, <3>2, UpdateOne DEF TypeOK
    <2> QED BY <2>1, <2>2, <2>4 DEF TypeOK, FundWhole
  <1>4. CASE \E x, y \in StakeIds, payer \in Payers : FundSplit(s, x, y, payer)
    <2>1. PICK x \in StakeIds, y \in StakeIds, payer \in Payers :
            FundSplit(s, x, y, payer)
      BY <1>4
    <2>2. /\ FundChecks(s, x) /\ left_over_splittable(s, x) /\ SplitCPIsSucceed(s, x)
          /\ wallet >= Rent /\ wallet' = wallet - Rent
      BY <2>1 DEF FundSplit
    <2>3. /\ FundedTo(s, KeptForFunding(s, x)) \in StakeAccount
          /\ SplitOff(s, x) \in StakeAccount
      BY <2>2, SplitAccountsType, FundedToType DEF TypeOK
    <2>4. stakes' \in [StakeIds -> StakeAccount]
      BY <2>1, <2>3, UpdateTwo DEF TypeOK, FundSplit
    <2>5. settlements' \in [Settlements -> Settlement]
      <3> DEFINE a == [settlements[s] EXCEPT !.lamports_funded = @ + Lacking(s)]
                 b == [a EXCEPT !.split_rent_collector = payer]
                 c == [b EXCEPT !.split_rent_amount = Rent]
      <3>1. Lacking(s) \in Nat  BY <2>2, SplitAmounts
      <3>2. settlements' = [settlements EXCEPT ![s] = c]
        BY <2>1 DEF FundSplit, TypeOK
      <3>3. a \in Settlement  BY <3>1, FundedMoreType DEF TypeOK
      <3> HIDE DEF a
      <3>4. b \in Settlement  BY <3>3 DEF Settlement
      <3> HIDE DEF b
      <3>5. c \in Settlement  BY <3>4, RentAssumption DEF Settlement
      <3> QED BY <3>2, <3>5, UpdateOne DEF TypeOK
    <2>6. wallet' \in Nat  BY <2>2, RentAssumption DEF TypeOK
    <2> QED BY <2>1, <2>4, <2>5, <2>6 DEF TypeOK, FundSplit
  <1> QED BY <1>1, <1>2, <1>3, <1>4

(* The refund of the split rent, shared by close and cancel *)
LEMMA RefundStep ==
  ASSUME TypeOK, NEW s \in Settlements, NEW receiver,
         receiver = settlements[s].split_rent_collector \/ receiver \in Payers,
         RefundSplitRent(s, receiver), RemoveSettlement(s)
  PROVE  /\ stakes' \in [StakeIds -> StakeAccount]
         /\ paid' \in [Payers \cup {Owner} -> Nat]
         /\ settlements' \in [Settlements -> Settlement]
         /\ claims' \in [Settlements -> [size : Nat, bits : SUBSET Nat]]
  <1> DEFINE R == settlements[s].split_rent_amount
  <1>1. R \in Nat  BY DEF TypeOK, Settlement
  <1>2. /\ settlements' \in [Settlements -> Settlement]
        /\ claims' \in [Settlements -> [size : Nat, bits : SUBSET Nat]]
    <2>1. NoClaims \in [size : Nat, bits : SUBSET Nat]  BY DEF NoClaims
    <2> QED BY <2>1, NoSettlementType, UpdateOne DEF RemoveSettlement, TypeOK
  <1>3. CASE settlements[s].split_rent_collector # Nobody
    <2>1. PICK x \in StakeIds :
            /\ CanWithdraw(stakes[x], R, Epoch)
            /\ stakes' = [stakes EXCEPT ![x] = Withdrawn(@, R)]
            /\ paid' = [paid EXCEPT ![receiver] = @ + R]
      BY <1>3 DEF RefundSplitRent, CanRefund
    <2> HIDE DEF R
    <2>2. Withdrawn(stakes[x], R) \in StakeAccount
      BY <2>1, <1>1, WithdrawnType, EpochNat DEF TypeOK
    <2>3. receiver \in Payers  BY <1>3 DEF TypeOK, Settlement
    <2>4. paid' \in [Payers \cup {Owner} -> Nat]
      BY <2>1, <2>3, <1>1 DEF TypeOK
    <2> QED BY <2>1, <2>2, <2>4, <1>2, UpdateOne DEF TypeOK
  <1>4. CASE settlements[s].split_rent_collector = Nobody
    BY <1>4, <1>2 DEF RefundSplitRent, TypeOK
  <1> QED BY <1>3, <1>4

LEMMA ClaimSteps ==
  ASSUME TypeOK, NEW s \in Settlements,
         \/ CloseSettlementV2(s)
         \/ \E receiver \in Payers : CancelSettlement(s, receiver)
         \/ \E x \in StakeIds : \E i \in DOMAIN Tree[s] : ClaimSettlementV2(s, i, x)
  PROVE  TypeOK'
  <1>1. CASE CloseSettlementV2(s)
    BY <1>1, RefundStep DEF CloseSettlementV2, TypeOK
  <1>2. CASE \E receiver \in Payers : CancelSettlement(s, receiver)
    BY <1>2, RefundStep DEF CancelSettlement, TypeOK
  <1>3. CASE \E x \in StakeIds : \E i \in DOMAIN Tree[s] : ClaimSettlementV2(s, i, x)
    <2>1. PICK x \in StakeIds, i \in DOMAIN Tree[s] : ClaimSettlementV2(s, i, x)
      BY <1>3
    <2> DEFINE claim == Tree[s][i]
    <2>2. i \in Nat /\ claim \in Nat  BY TreeAssumption
    <2>3. /\ CanWithdraw(stakes[x], claim, Epoch)
          /\ stakes' = [stakes EXCEPT ![x] = Withdrawn(@, claim)]
          /\ paid' = [paid EXCEPT ![Owner] = @ + claim]
          /\ claims' = [claims EXCEPT ![s].bits = @ \cup {i}]
          /\ settlements' = [settlements EXCEPT
                  ![s].lamports_claimed = @ + claim,
                  ![s].merkle_nodes_claimed = @ + 1]
          /\ UNCHANGED <<slot, config, voteLive, wallet, requests>>
      BY <2>1 DEF ClaimSettlementV2
    <2> HIDE DEF claim
    <2>4. stakes' \in [StakeIds -> StakeAccount]
      <3>1. Withdrawn(stakes[x], claim) \in StakeAccount
        BY <2>2, <2>3, WithdrawnType, EpochNat DEF TypeOK
      <3> QED BY <2>3, <3>1, UpdateOne DEF TypeOK
    <2>5. claims' \in [Settlements -> [size : Nat, bits : SUBSET Nat]]
      BY <2>2, <2>3 DEF TypeOK
    <2>6. settlements' \in [Settlements -> Settlement]
      <3> DEFINE a == [settlements[s] EXCEPT !.lamports_claimed = @ + claim]
                 b == [a EXCEPT !.merkle_nodes_claimed = @ + 1]
      <3>1. settlements' = [settlements EXCEPT ![s] = b]
        BY <2>3 DEF TypeOK
      <3>2. a \in Settlement
        <4>1. settlements[s] \in Settlement  BY DEF TypeOK
        <4> QED BY <2>2, <4>1 DEF Settlement
      <3> HIDE DEF a
      <3>3. b \in Settlement  BY <3>2 DEF Settlement
      <3> QED BY <3>1, <3>3, UpdateOne DEF TypeOK
    <2>7. paid' \in [Payers \cup {Owner} -> Nat]
      BY <2>2, <2>3 DEF TypeOK
    <2> QED BY <2>3, <2>4, <2>5, <2>6, <2>7 DEF TypeOK
  <1> QED BY <1>1, <1>2, <1>3

LEMMA StakeSteps ==
  ASSUME TypeOK, NEW x \in StakeIds,
         \/ \E v \in Votes : FundBond(x, v)
         \/ \E y \in StakeIds : MergeStake(x, y)
         \/ \E s \in Settlements, v \in Votes : ResetStake(s, v, x)
         \/ \E s \in Settlements : WithdrawStake(s, x)
  PROVE  TypeOK'
  <1> stakes[x] \in StakeAccount /\ Epoch \in Nat
    BY EpochNat DEF TypeOK
  <1>1. CASE \E v \in Votes : FundBond(x, v)
    <2>1. stakes' = [stakes EXCEPT
                       ![x] = [stakes[x] EXCEPT !.staker = Bonds, !.withdrawer = Bonds]]
      BY <1>1 DEF FundBond, TypeOK
    <2>2. stakes' \in [StakeIds -> StakeAccount]
      BY <2>1, AuthorizedType, UpdateOne DEF TypeOK
    <2> QED BY <1>1, <2>2 DEF FundBond, TypeOK
  <1>2. CASE \E y \in StakeIds : MergeStake(x, y)
    <2>1. PICK y \in StakeIds : MergeStake(x, y)  BY <1>2
    <2>2. stakes' \in [StakeIds -> StakeAccount]
      <3>1. Merged(stakes[y], stakes[x], Epoch) \in StakeAccount
        BY MergedType DEF TypeOK
      <3> QED BY <2>1, <3>1, NoAccountType, UpdateTwo DEF TypeOK, MergeStake
    <2> QED BY <2>1, <2>2 DEF MergeStake, TypeOK
  <1>3. CASE \E s \in Settlements, v \in Votes : ResetStake(s, v, x)
    <2>1. PICK s \in Settlements, v \in Votes : ResetStake(s, v, x)  BY <1>3
    <2> DEFINE reset == [stakes[x] EXCEPT !.staker = Bonds]
    <2>2. reset \in StakeAccount  BY DEF StakeAccount
    <2>3. /\ voteLive[v] => CanDelegate(reset, v, Epoch)
          /\ stakes' = [stakes EXCEPT ![x] =
                IF voteLive[v] THEN Delegated(reset, v, Epoch) ELSE reset]
      BY <2>1 DEF ResetStake
    <2> HIDE DEF reset
    <2>4. voteLive[v] => Delegated(reset, v, Epoch) \in StakeAccount
      BY <2>2, <2>3, DelegatedType DEF CanDelegate
    <2>5. stakes' \in [StakeIds -> StakeAccount]
      BY <2>2, <2>3, <2>4, UpdateOne DEF TypeOK
    <2> QED BY <2>1, <2>5 DEF ResetStake, TypeOK
  <1>4. CASE \E s \in Settlements : WithdrawStake(s, x)
    <2>1. PICK s \in Settlements : WithdrawStake(s, x)  BY <1>4
    <2>2. stakes[x].lamports \in Nat  BY DEF StakeAccount
    <2>3. Withdrawn(stakes[x], stakes[x].lamports) \in StakeAccount
      BY <2>1, <2>2, WithdrawnType DEF WithdrawStake
    <2>4. stakes' \in [StakeIds -> StakeAccount]
      BY <2>1, <2>3, UpdateOne DEF WithdrawStake, TypeOK
    <2>5. paid' \in [Payers \cup {Owner} -> Nat]
      BY <2>1, <2>2 DEF WithdrawStake, TypeOK
    <2> QED BY <2>1, <2>4, <2>5 DEF WithdrawStake, TypeOK
  <1> QED BY <1>1, <1>2, <1>3, <1>4

(* A stake account as its creator makes it *)
LEMMA CreatedType ==
  ASSUME NEW d \in Deposits, NEW e \in Nat
  PROVE  LET acc == [NoAccount EXCEPT !.state = "initialized", !.lamports = d.lamports,
                                 !.staker = d.staker, !.withdrawer = d.withdrawer,
                                 !.locked = d.locked]
         IN  (IF d.voter = Nobody THEN acc ELSE Delegated(acc, d.voter, e))
                \in StakeAccount
  <1> DEFINE a == [NoAccount EXCEPT !.state = "initialized"]
             b == [a EXCEPT !.lamports = d.lamports]
             c == [b EXCEPT !.staker = d.staker]
             f == [c EXCEPT !.withdrawer = d.withdrawer]
             acc == [f EXCEPT !.locked = d.locked]
  <1>1. /\ d.staker \in Settlements \cup {Bonds, Owner} /\ d.withdrawer \in {Bonds, Owner}
        /\ d.voter \in Votes \cup {Nobody} /\ d.lamports \in Nat /\ d.locked \in BOOLEAN
    BY DepositsAssumption DEF Deposit
  <1>2. d.lamports >= Rent + MinDelegation  BY DepositsAssumption
  <1>3. acc = [NoAccount EXCEPT !.state = "initialized", !.lamports = d.lamports,
                                 !.staker = d.staker, !.withdrawer = d.withdrawer,
                                 !.locked = d.locked]
    BY DEF NoAccount
  <1>4. acc.lamports = d.lamports  BY DEF NoAccount
  <1>5. a \in StakeAccount  BY NoAccountType DEF StakeAccount
  <1> HIDE DEF a
  <1>6. b \in StakeAccount  BY <1>1, <1>5 DEF StakeAccount
  <1> HIDE DEF b
  <1>7. c \in StakeAccount  BY <1>1, <1>6 DEF StakeAccount
  <1> HIDE DEF c
  <1>8. f \in StakeAccount  BY <1>1, <1>7 DEF StakeAccount
  <1> HIDE DEF f
  <1>9. acc \in StakeAccount  BY <1>1, <1>8 DEF StakeAccount
  <1> HIDE DEF acc
  <1>10. acc.lamports - Rent >= MinDelegation
    BY <1>1, <1>2, <1>4, RentAssumption, MinDelegationAssumption
  <1>11. d.voter # Nobody => Delegated(acc, d.voter, e) \in StakeAccount
    BY <1>1, <1>9, <1>10, DelegatedType
  <1> QED BY <1>3, <1>9, <1>11

LEMMA OutsideSteps ==
  ASSUME TypeOK, NEW x \in StakeIds,
         \/ \E d \in Deposits : CreateStake(x, d)
         \/ \E amount \in Tips : Tip(x, amount)
         \/ OwnerDeactivates(x)
         \/ ManualDeposit(x)
  PROVE  TypeOK'
  <1> stakes[x] \in StakeAccount /\ Epoch \in Nat
    BY EpochNat DEF TypeOK
  <1>1. CASE \E d \in Deposits : CreateStake(x, d)
    <2>1. PICK d \in Deposits : CreateStake(x, d)  BY <1>1
    <2>2. d.lamports \in Nat  BY DepositsAssumption DEF Deposit
    <2>3. stakes' \in [StakeIds -> StakeAccount]
      BY <2>1, CreatedType, UpdateOne DEF CreateStake, TypeOK
    <2>4. /\ wallet >= d.lamports /\ wallet' = wallet - d.lamports
          /\ UNCHANGED <<slot, config, voteLive, paid, settlements, claims, requests>>
      BY <2>1 DEF CreateStake
    <2> QED BY <2>2, <2>3, <2>4 DEF TypeOK
  <1>2. CASE \E amount \in Tips : Tip(x, amount)
    <2>1. PICK amount \in Tips : Tip(x, amount)  BY <1>2
    <2>2. amount \in Nat  BY EnvironmentAssumption
    <2>3. stakes' \in [StakeIds -> StakeAccount]
      BY <2>1, <2>2 DEF Tip, TypeOK, StakeAccount
    <2> QED BY <2>1, <2>2, <2>3 DEF Tip, TypeOK
  <1>3. CASE OwnerDeactivates(x)
    BY <1>3, DeactivatedType, UpdateOne DEF OwnerDeactivates, TypeOK
  <1>4. CASE ManualDeposit(x)
    <2>1. stakes' = [stakes EXCEPT
                       ![x] = [stakes[x] EXCEPT !.staker = Bonds, !.withdrawer = Bonds]]
      BY <1>4 DEF ManualDeposit, TypeOK
    <2>2. stakes' \in [StakeIds -> StakeAccount]
      BY <2>1, AuthorizedType, UpdateOne DEF TypeOK
    <2> QED BY <1>4, <2>2 DEF ManualDeposit, TypeOK
  <1> QED BY <1>1, <1>2, <1>3, <1>4

LEMMA NextType == TypeOK /\ [Next]_vars => TypeOK'
  <1> SUFFICES ASSUME TypeOK, [Next]_vars PROVE TypeOK'  OBVIOUS
  <1>1. CASE UNCHANGED vars  BY <1>1 DEF vars, TypeOK
  <1>2. CASE Next
    BY <1>2, ConfigSteps, WithdrawSteps, FundingSteps, ClaimSteps, StakeSteps,
       OutsideSteps DEF Next
  <1> QED BY <1>1, <1>2

(* Every account always holds values of its type: no instruction, in any   *)
(* interleaving and for any amounts, drives a lamports counter below zero. *)
THEOREM TypeCorrect == Spec => []TypeOK
  BY InitType, NextType, PTL DEF Spec

-----------------------------------------------------------------------------
(* Delegations *)

(* The delegation of the account matters to the stake program at epoch e. *)
Counts(acc, e) == IsDelegated(acc) /\ (acc.deact = NEVER \/ Effective(acc, e))

(* A stake account as the stake program leaves it at epoch e *)
Backed(acc, e) ==
    /\ acc.act <= e /\ acc.deact <= e
    /\ Counts(acc, e) => acc.lamports >= acc.delegated + Rent

(* The inductive invariant *)
DelegationsBacked == \A x \in StakeIds : Backed(stakes[x], Epoch)

-----------------------------------------------------------------------------
LEMMA DivNat == ASSUME NEW n \in Nat PROVE n \div SlotsPerEpoch \in Nat
  BY ClockAssumption, SMT

(* The clock never moves backwards. *)
LEMMA EpochMonotone ==
  ASSUME slot \in Nat, slot' = slot + 1
  PROVE  Epoch <= Epoch'
  BY ClockAssumption, SMT DEF Epoch

(* Time only makes delegations count less. *)
LEMMA BackedLater ==
  ASSUME NEW acc \in StakeAccount, NEW e \in Nat, NEW f \in Nat, e <= f, Backed(acc, e)
  PROVE  Backed(acc, f)
  BY DEF Backed, Counts, Effective, IsDelegated, StakeAccount, NEVER

LEMMA NoAccountBacked == ASSUME NEW e \in Nat PROVE Backed(NoAccount, e)
  BY DEF Backed, Counts, IsDelegated, NoAccount, NEVER

LEMMA WithdrawnBacked ==
  ASSUME NEW acc \in StakeAccount, NEW amount \in Nat, NEW e \in Nat,
         Backed(acc, e), CanWithdraw(acc, amount, e)
  PROVE  Backed(Withdrawn(acc, amount), e)
  <1>1. CASE amount = acc.lamports
    BY <1>1, NoAccountBacked DEF Withdrawn
  <1>2. CASE amount # acc.lamports
    <2> DEFINE b == [acc EXCEPT !.lamports = @ - amount]
    <2>1. /\ b.lamports = acc.lamports - amount /\ b.delegated = acc.delegated
          /\ b.state = acc.state /\ b.act = acc.act /\ b.deact = acc.deact
      BY DEF StakeAccount
    <2>2. Withdrawn(acc, amount) = b  BY <1>2 DEF Withdrawn
    <2>3. Counts(acc, e) => Staked(acc, e) = acc.delegated
      BY DEF Counts, Staked
    <2>4. Counts(acc, e) => amount + acc.delegated + Rent <= acc.lamports
      BY <1>2, <2>3 DEF CanWithdraw
    <2> HIDE DEF b
    <2>5. Backed(b, e)
      BY <2>1, <2>4, RentAssumption
         DEF Backed, Counts, Effective, IsDelegated, StakeAccount
    <2> QED BY <2>2, <2>5
  <1> QED BY <1>1, <1>2

(* Only what the predicate looks at matters. *)
LEMMA SameDelegation ==
  ASSUME NEW a, NEW b, NEW e \in Nat, Backed(a, e),
         b.lamports = a.lamports, b.delegated = a.delegated,
         b.state = a.state, b.act = a.act, b.deact = a.deact
  PROVE  Backed(b, e)
  BY DEF Backed, Counts, Effective, IsDelegated

LEMMA SplitBacked ==
  ASSUME NEW acc \in StakeAccount, NEW amount \in Nat, NEW prefund \in Nat,
         NEW e \in Nat, Backed(acc, e), prefund >= Rent
  PROVE  /\ Backed(SplitSource(acc, amount), e)
         /\ Backed(SplitTarget(acc, amount, prefund), e)
  <1> DEFINE a == SplitSource(acc, amount)
             b == SplitTarget(acc, amount, prefund)
  <1>1. /\ a.lamports = acc.lamports - amount /\ a.delegated = acc.delegated - amount
        /\ a.state = acc.state /\ a.act = acc.act /\ a.deact = acc.deact
    BY DEF StakeAccount, SplitSource
  <1>2. /\ b.lamports = prefund + amount /\ b.delegated = amount
        /\ b.state = acc.state /\ b.act = acc.act /\ b.deact = acc.deact
    BY DEF StakeAccount, SplitTarget
  <1> HIDE DEF a, b
  <1>3. Backed(a, e)
    BY <1>1, RentAssumption DEF Backed, Counts, Effective, IsDelegated, StakeAccount
  <1>4. Backed(b, e)
    BY <1>2, RentAssumption DEF Backed, Counts, Effective, IsDelegated, StakeAccount
  <1> QED BY <1>3, <1>4 DEF a, b

LEMMA DeactivatedBacked ==
  ASSUME NEW acc \in StakeAccount, NEW e \in Nat, Backed(acc, e)
  PROVE  Backed(Deactivated(acc, e), e)
  <1> DEFINE a == Deactivated(acc, e)
  <1>1. /\ a.lamports = acc.lamports /\ a.delegated = acc.delegated
        /\ a.state = acc.state /\ a.act = acc.act
        /\ a.deact = IF acc.deact = NEVER THEN e ELSE acc.deact
    BY DEF Deactivated, StakeAccount
  <1> HIDE DEF a
  <1>2. Backed(a, e)
    BY <1>1 DEF Backed, Counts, Effective, IsDelegated, StakeAccount, NEVER
  <1> QED BY <1>2 DEF a

LEMMA DelegatedBacked ==
  ASSUME NEW acc \in StakeAccount, NEW v \in Votes, NEW e \in Nat, Backed(acc, e)
  PROVE  Backed(Delegated(acc, v, e), e)
  <1> DEFINE a == Delegated(acc, v, e)
  <1>1. CASE Effective(acc, e)
    <2>1. /\ a.lamports = acc.lamports /\ a.delegated = acc.delegated
          /\ a.state = acc.state /\ a.act = acc.act /\ a.deact = NEVER
      BY <1>1 DEF Delegated, StakeAccount
    <2> HIDE DEF a
    <2>2. Backed(a, e)
      BY <1>1, <2>1 DEF Backed, Counts, Effective, IsDelegated, StakeAccount, NEVER
    <2> QED BY <2>2 DEF a
  <1>2. CASE ~Effective(acc, e)
    <2>1. /\ a.lamports = acc.lamports /\ a.delegated = acc.lamports - Rent
          /\ a.act = e /\ a.deact = NEVER
      BY <1>2 DEF Delegated, StakeAccount
    <2> HIDE DEF a
    <2>2. Backed(a, e)
      BY <2>1, RentAssumption DEF Backed, StakeAccount, NEVER
    <2> QED BY <2>2 DEF a
  <1> QED BY <1>1, <1>2

LEMMA MergedBacked ==
  ASSUME NEW dst \in StakeAccount, NEW src \in StakeAccount, NEW e \in Nat,
         Backed(dst, e), Backed(src, e), CanMerge(dst, src, e)
  PROVE  Backed(Merged(dst, src, e), e)
  <1> DEFINE a == Merged(dst, src, e)
             D == MergedDelegation(dst, src, e)
             kd == MergeKind(dst, e)
             ks == MergeKind(src, e)
  <1>1. /\ a.lamports = dst.lamports + src.lamports /\ a.delegated = D
        /\ a.state = dst.state /\ a.act = dst.act /\ a.deact = dst.deact
    BY DEF Merged, StakeAccount
  <1>2. Counts(dst, e) => kd # "inactive"
    BY DEF Counts, MergeKind, Deactivating, Activating, Effective, IsDelegated,
           StakeAccount, NEVER
  <1>3. ks \in {"active", "activating"} => Counts(src, e)
    BY DEF Counts, MergeKind, Deactivating, Activating, Effective, IsDelegated,
           StakeAccount, NEVER
  <1>4. <<kd, ks>> \in {<<"inactive", "inactive">>, <<"activating", "inactive">>,
             <<"activating", "activating">>, <<"active", "active">>}
    BY DEF CanMerge
  <1>5. Counts(dst, e) => dst.lamports + src.lamports >= D + Rent
    BY <1>2, <1>3, <1>4, RentAssumption DEF MergedDelegation, Backed, StakeAccount
  <1> HIDE DEF a, D
  <1>6. Counts(a, e) => Counts(dst, e)
    BY <1>1 DEF Counts, Effective, IsDelegated
  <1>7. Backed(a, e)
    BY <1>1, <1>5, <1>6 DEF Backed
  <1> QED BY <1>7 DEF a

-----------------------------------------------------------------------------
(* Every step keeps the delegations backed. *)

(* It is enough to look at the accounts a step replaces. *)
LEMMA ReplaceOne ==
  ASSUME TypeOK, DelegationsBacked, slot' = slot,
         NEW x \in StakeIds, NEW a, Backed(a, Epoch),
         stakes' = [stakes EXCEPT ![x] = a]
  PROVE  DelegationsBacked'
  <1>1. Epoch' = Epoch  BY DEF Epoch
  <1>2. \A z \in StakeIds : stakes'[z] = IF z = x THEN a ELSE stakes[z]
    BY DEF TypeOK
  <1> QED BY <1>1, <1>2 DEF DelegationsBacked

LEMMA ReplaceTwo ==
  ASSUME TypeOK, DelegationsBacked, slot' = slot,
         NEW x \in StakeIds, NEW y \in StakeIds, NEW a, NEW b,
         Backed(a, Epoch), Backed(b, Epoch),
         stakes' = [stakes EXCEPT ![x] = a, ![y] = b]
  PROVE  DelegationsBacked'
  <1>1. Epoch' = Epoch  BY DEF Epoch
  <1>2. \A z \in StakeIds : stakes'[z] = IF z = y THEN b ELSE
                                          IF z = x THEN a ELSE stakes[z]
    BY DEF TypeOK
  <1> QED BY <1>1, <1>2 DEF DelegationsBacked

LEMMA ReplaceNone ==
  ASSUME DelegationsBacked, slot' = slot, stakes' = stakes
  PROVE  DelegationsBacked'
  BY DEF DelegationsBacked, Epoch

LEMMA TickBacked ==
  ASSUME TypeOK, DelegationsBacked, Tick
  PROVE  DelegationsBacked'
  <1>1. slot' = slot + 1 /\ stakes' = stakes  BY DEF Tick
  <1>2. Epoch \in Nat /\ Epoch' \in Nat /\ Epoch <= Epoch'
    <2>1. slot \in Nat /\ slot' \in Nat  BY <1>1 DEF TypeOK
    <2>2. Epoch' \in Nat  BY <2>1, DivNat DEF Epoch
    <2> QED BY <1>1, <2>1, <2>2, EpochNat, EpochMonotone
  <1>3. \A x \in StakeIds : Backed(stakes[x], Epoch')
    BY <1>2, BackedLater DEF TypeOK, DelegationsBacked
  <1> QED BY <1>1, <1>3 DEF DelegationsBacked

LEMMA FundBondBacked ==
  ASSUME TypeOK, DelegationsBacked, NEW x \in StakeIds,
         ManualDeposit(x) \/ \E v \in Votes : FundBond(x, v)
  PROVE  DelegationsBacked'
  <1> DEFINE a == [stakes[x] EXCEPT !.staker = Bonds, !.withdrawer = Bonds]
  <1>1. slot' = slot /\ stakes' = [stakes EXCEPT ![x] = a]
    BY DEF FundBond, ManualDeposit, TypeOK
  <1>2. /\ a.lamports = stakes[x].lamports /\ a.delegated = stakes[x].delegated
        /\ a.state = stakes[x].state /\ a.act = stakes[x].act
        /\ a.deact = stakes[x].deact
    BY DEF TypeOK, StakeAccount
  <1>3. Backed(stakes[x], Epoch) /\ Epoch \in Nat
    BY EpochNat DEF DelegationsBacked, TypeOK
  <1> HIDE DEF a
  <1>4. Backed(a, Epoch)  BY <1>2, <1>3, SameDelegation
  <1> QED BY <1>1, <1>4, ReplaceOne

LEMMA ReleasedBacked ==
  ASSUME NEW acc \in StakeAccount, NEW e \in Nat, Backed(acc, e)
  PROVE  Backed(Released(acc), e)
  <1> DEFINE a == Released(acc)
  <1>1. /\ a.lamports = acc.lamports /\ a.delegated = acc.delegated
        /\ a.state = acc.state /\ a.act = acc.act /\ a.deact = acc.deact
    BY DEF Released, StakeAccount
  <1> HIDE DEF a
  <1>2. Backed(a, e)  BY <1>1, SameDelegation
  <1> QED BY <1>2 DEF a

LEMMA ClaimWithdrawBacked ==
  ASSUME TypeOK, DelegationsBacked, NEW v \in Votes,
         \/ \E x \in StakeIds : ClaimWithdrawWhole(v, x)
         \/ \E x, y \in StakeIds : ClaimWithdrawSplit(v, x, y)
  PROVE  DelegationsBacked'
  <1>1. CASE \E x \in StakeIds : ClaimWithdrawWhole(v, x)
    <2>1. PICK x \in StakeIds : ClaimWithdrawWhole(v, x)  BY <1>1
    <2>2. Backed(Released(stakes[x]), Epoch)
      BY EpochNat, ReleasedBacked DEF TypeOK, DelegationsBacked
    <2> QED BY <2>1, <2>2, ReplaceOne DEF ClaimWithdrawWhole
  <1>2. CASE \E x, y \in StakeIds : ClaimWithdrawSplit(v, x, y)
    <2>1. PICK x \in StakeIds, y \in StakeIds : ClaimWithdrawSplit(v, x, y)
      BY <1>2
    <2> DEFINE leftover == stakes[x].lamports - amount_to_fulfill_withdraw(v)
               a == SplitSource(stakes[x], leftover)
    <2>2. /\ stakes[x] \in StakeAccount /\ Epoch \in Nat /\ Rent \in Nat
          /\ Backed(stakes[x], Epoch)
      BY EpochNat, RentAssumption DEF TypeOK, DelegationsBacked
    <2>3. leftover \in Nat
      <3>1. stakes[x].lamports \in Nat  BY <2>2 DEF StakeAccount
      <3>2. stakes[x].lamports > amount_to_fulfill_withdraw(v)
        BY <2>1 DEF ClaimWithdrawSplit
      <3> QED BY <3>1, <3>2, AmountToFulfill
    <2>4. /\ slot' = slot
          /\ CanSplit(stakes[x], leftover, Rent)
          /\ stakes' = [stakes EXCEPT ![x] = Released(a),
                                      ![y] = SplitTarget(stakes[x], leftover, Rent)]
      BY <2>1 DEF ClaimWithdrawSplit
    <2> HIDE DEF leftover
    <2>5. Backed(a, Epoch) /\ Backed(SplitTarget(stakes[x], leftover, Rent), Epoch)
      BY <2>2, <2>3, SplitBacked
    <2>6. a \in StakeAccount
      BY <2>2, <2>3, <2>4, SplitSourceType
    <2> HIDE DEF a
    <2>7. Backed(Released(a), Epoch)  BY <2>2, <2>5, <2>6, ReleasedBacked
    <2> QED BY <2>4, <2>5, <2>7, ReplaceTwo
  <1> QED BY <1>1, <1>2

LEMMA FundWholeBacked ==
  ASSUME TypeOK, DelegationsBacked, NEW s \in Settlements, NEW acc \in StakeAccount,
         Backed(acc, Epoch)
  PROVE  Backed(FundedTo(s, acc), Epoch)
  <1> DEFINE d == Deactivated(acc, Epoch)
             a == FundedTo(s, acc)
  <1>1. Epoch \in Nat  BY EpochNat DEF TypeOK
  <1>2. Backed(d, Epoch) /\ d \in StakeAccount
    BY <1>1, DeactivatedBacked, DeactivatedType
  <1>3. a = [d EXCEPT !.staker = s]  BY DEF FundedTo
  <1> HIDE DEF d, a
  <1>4. /\ a.lamports = d.lamports /\ a.delegated = d.delegated
        /\ a.state = d.state /\ a.act = d.act /\ a.deact = d.deact
    BY <1>2, <1>3 DEF StakeAccount
  <1>5. Backed(a, Epoch)  BY <1>1, <1>2, <1>4, SameDelegation
  <1> QED BY <1>5 DEF a

(* The arithmetic of the split branch *)
LEMMA TransferBounds ==
  ASSUME TypeOK, NEW s \in Settlements, NEW x \in StakeIds,
         FundChecks(s, x), left_over_splittable(s, x)
  PROVE  /\ lamports_to_transfer(s, x) \in Nat
         /\ fund_split_leftover(s, x) \in Nat
         /\ lamports_to_transfer(s, x) < stakes[x].lamports
         /\ lamports_to_transfer(s, x) > 0 =>
              lamports_to_transfer(s, x) + stakes[x].delegated + Rent + 1
                 <= stakes[x].lamports
         /\ stakes[x].lamports - lamports_to_transfer(s, x) - fund_split_leftover(s, x)
               > Rent + 1
         /\ fund_split_leftover(s, x) > 0 =>
              stakes[x].delegated - fund_split_leftover(s, x) >= MinSize
         /\ fund_split_leftover(s, x) = 0 => lamports_to_transfer(s, x) >= MinSize
  <1> DEFINE lam == stakes[x].lamports
             del == stakes[x].delegated
             L == Lacking(s)
             M == MinSize
             LO == left_over(s, x)
             T == lamports_to_transfer(s, x)
             F == fund_split_leftover(s, x)
  <1>1. lam \in Nat /\ del \in Nat
    BY DEF TypeOK, StakeAccount
  <1>2. L \in Nat /\ L > 0
    BY DEF TypeOK, Settlement, Lacking, FundChecks, NotFullyFunded
  <1>3. M \in Nat /\ M >= Rent
    <2>1. config.minimum_stake_lamports \in Minimums  BY DEF Config, TypeOK
    <2>2. config.minimum_stake_lamports \in Nat  BY <2>1, ConfigAssumption
    <2> QED BY <2>2, RentAssumption DEF MinSize
  <1>4. lam - (L + M) >= M + Rent
    BY DEF left_over_splittable, amount_needed
  <1>5. LO = lam - (L + M) - Rent
    BY DEF left_over, amount_needed
  <1>6. T = IF (lam - del) - (L + Rent) <= 0 THEN 0
            ELSE IF LO >= (lam - del) - (L + Rent)
                 THEN (lam - del) - (L + Rent) ELSE LO
    BY DEF lamports_to_transfer
  <1>7. F = LO - T
    BY DEF fund_split_leftover
  <1> HIDE DEF lam, del, L, M, LO, T, F
  <1>8. LO \in Nat /\ LO >= M /\ LO < lam
    BY <1>1, <1>2, <1>3, <1>4, <1>5, RentAssumption
  <1>9. T \in Nat /\ T <= LO
    BY <1>1, <1>2, <1>6, <1>8, RentAssumption
  <1>10. F \in Nat /\ lam - T - F > Rent + 1
    BY <1>1, <1>2, <1>3, <1>5, <1>7, <1>8, <1>9, RentAssumption
  <1>11. T > 0 => T + del + Rent + 1 <= lam
    BY <1>1, <1>2, <1>6, <1>8, RentAssumption
  <1>12. F > 0 => del - F >= M
    BY <1>1, <1>2, <1>3, <1>5, <1>6, <1>7, <1>8, <1>9, RentAssumption
  <1>13. F = 0 => T >= M
    BY <1>7, <1>8, <1>9, <1>3
  <1> QED BY <1>1, <1>8, <1>9, <1>10, <1>11, <1>12, <1>13 DEF lam, del, M, T, F

LEMMA FundSplitBacked ==
  ASSUME TypeOK, DelegationsBacked, NEW s \in Settlements, NEW x \in StakeIds,
         FundChecks(s, x), left_over_splittable(s, x), SplitCPIsSucceed(s, x)
  PROVE  /\ Backed(KeptForFunding(s, x), Epoch)
         /\ Backed(SplitOff(s, x), Epoch)
  <1> DEFINE T == lamports_to_transfer(s, x)
             F == fund_split_leftover(s, x)
             A == AfterTransfer(s, x)
             I == InitializedSplit(s, x)
  <1>1. /\ T \in Nat /\ F \in Nat /\ T < stakes[x].lamports
        /\ stakes[x] \in StakeAccount /\ Epoch \in Nat /\ Backed(stakes[x], Epoch)
        /\ T > 0 => CanWithdraw(stakes[x], T, Epoch)
        /\ Rent + T \in Nat /\ Rent + T >= Rent
    BY TransferBounds, EpochNat, RentAssumption
       DEF TypeOK, DelegationsBacked, SplitCPIsSucceed
  <1>2. A \in StakeAccount
    BY <1>1 DEF AfterTransfer, StakeAccount
  <1>3. Backed(A, Epoch)
    <2>1. CASE T = 0
      <3>1. /\ A.lamports = stakes[x].lamports /\ A.delegated = stakes[x].delegated
            /\ A.state = stakes[x].state /\ A.act = stakes[x].act
            /\ A.deact = stakes[x].deact
        BY <1>1, <2>1 DEF AfterTransfer, StakeAccount
      <3> QED BY <1>1, <3>1, SameDelegation
    <2>2. CASE T > 0
      <3>1. A = Withdrawn(stakes[x], T)
        BY <1>1 DEF AfterTransfer, Withdrawn, StakeAccount
      <3> QED BY <1>1, <2>2, <3>1, WithdrawnBacked
    <2> QED BY <1>1, <2>1, <2>2
  <1>4. CASE F > 0
    <2>1. /\ KeptForFunding(s, x) = SplitSource(A, F)
          /\ SplitOff(s, x) = SplitTarget(A, F, Rent + T)
      BY <1>4 DEF KeptForFunding, SplitOff
    <2> HIDE DEF T, F, A
    <2> QED BY <1>1, <1>2, <1>3, <2>1, SplitBacked
  <1>5. CASE ~(F > 0)
    <2>1. /\ KeptForFunding(s, x) = A
          /\ SplitOff(s, x) = Delegated(I, BondOf[s], Epoch)
      BY <1>5 DEF KeptForFunding, SplitOff
    <2> DEFINE b == Delegated(I, BondOf[s], Epoch)
    <2>2. /\ b.lamports = Rent + T /\ b.delegated = (Rent + T) - Rent
          /\ b.act = Epoch /\ b.deact = NEVER
      BY DEF InitializedSplit, NoAccount, Delegated, Effective, IsDelegated
    <2> HIDE DEF b, T
    <2>3. Backed(b, Epoch)
      BY <1>1, <2>2, RentAssumption DEF Backed, NEVER
    <2> QED BY <1>3, <2>1, <2>3 DEF b
  <1> QED BY <1>4, <1>5

LEMMA FundingBacked ==
  ASSUME TypeOK, DelegationsBacked, NEW s \in Settlements,
         \/ \E x \in StakeIds : FundWhole(s, x)
         \/ \E x, y \in StakeIds, payer \in Payers : FundSplit(s, x, y, payer)
  PROVE  DelegationsBacked'
  <1>1. CASE \E x \in StakeIds : FundWhole(s, x)
    <2>1. PICK x \in StakeIds : FundWhole(s, x)  BY <1>1
    <2>2. Backed(FundedTo(s, stakes[x]), Epoch)
      BY FundWholeBacked DEF TypeOK, DelegationsBacked
    <2> QED BY <2>1, <2>2, ReplaceOne DEF FundWhole
  <1>2. CASE \E x, y \in StakeIds, payer \in Payers : FundSplit(s, x, y, payer)
    <2>1. PICK x \in StakeIds, y \in StakeIds, payer \in Payers :
            FundSplit(s, x, y, payer)
      BY <1>2
    <2>2. FundChecks(s, x) /\ left_over_splittable(s, x) /\ SplitCPIsSucceed(s, x)
      BY <2>1 DEF FundSplit
    <2>3. Backed(FundedTo(s, KeptForFunding(s, x)), Epoch)
      BY <2>2, FundSplitBacked, SplitAccountsType, FundWholeBacked
    <2>4. Backed(SplitOff(s, x), Epoch)  BY <2>2, FundSplitBacked
    <2> QED BY <2>1, <2>3, <2>4, ReplaceTwo DEF FundSplit
  <1> QED BY <1>1, <1>2

LEMMA ClaimBacked ==
  ASSUME TypeOK, DelegationsBacked, NEW s \in Settlements,
         \/ CloseSettlementV2(s) \/ \E receiver \in Payers : CancelSettlement(s, receiver)
         \/ \E x \in StakeIds : \E i \in DOMAIN Tree[s] : ClaimSettlementV2(s, i, x)
         \/ \E x \in StakeIds : WithdrawStake(s, x)
  PROVE  DelegationsBacked'
  <1>1. CASE CloseSettlementV2(s) \/ \E receiver \in Payers : CancelSettlement(s, receiver)
    <2>1. slot' = slot /\ \E receiver : RefundSplitRent(s, receiver)
      BY <1>1 DEF CloseSettlementV2, CancelSettlement
    <2>2. CASE settlements[s].split_rent_collector = Nobody
      BY <2>1, <2>2, ReplaceNone DEF RefundSplitRent
    <2>3. CASE settlements[s].split_rent_collector # Nobody
      <3> DEFINE R == settlements[s].split_rent_amount
      <3>1. PICK x \in StakeIds : /\ CanWithdraw(stakes[x], R, Epoch)
                                  /\ stakes' = [stakes EXCEPT ![x] = Withdrawn(@, R)]
        BY <2>1, <2>3 DEF RefundSplitRent, CanRefund
      <3>2. R \in Nat  BY DEF TypeOK, Settlement
      <3> HIDE DEF R
      <3>3. Backed(Withdrawn(stakes[x], R), Epoch)
        BY <3>1, <3>2, EpochNat, WithdrawnBacked DEF TypeOK, DelegationsBacked
      <3> QED BY <2>1, <3>1, <3>3, ReplaceOne
    <2> QED BY <2>2, <2>3
  <1>2. CASE \E x \in StakeIds : \E i \in DOMAIN Tree[s] : ClaimSettlementV2(s, i, x)
    <2>1. PICK x \in StakeIds, i \in DOMAIN Tree[s] : ClaimSettlementV2(s, i, x)
      BY <1>2
    <2> DEFINE claim == Tree[s][i]
    <2>2. claim \in Nat  BY TreeAssumption
    <2>3. /\ slot' = slot /\ CanWithdraw(stakes[x], claim, Epoch)
          /\ stakes' = [stakes EXCEPT ![x] = Withdrawn(@, claim)]
      BY <2>1 DEF ClaimSettlementV2
    <2> HIDE DEF claim
    <2>4. Backed(Withdrawn(stakes[x], claim), Epoch)
      BY <2>2, <2>3, EpochNat, WithdrawnBacked DEF TypeOK, DelegationsBacked
    <2> QED BY <2>3, <2>4, ReplaceOne
  <1>3. CASE \E x \in StakeIds : WithdrawStake(s, x)
    <2>1. PICK x \in StakeIds : WithdrawStake(s, x)  BY <1>3
    <2>2. Withdrawn(stakes[x], stakes[x].lamports) = NoAccount
      BY DEF Withdrawn
    <2>3. Backed(NoAccount, Epoch)
      BY NoAccountBacked, EpochNat DEF TypeOK
    <2> QED BY <2>1, <2>2, <2>3, ReplaceOne DEF WithdrawStake
  <1> QED BY <1>1, <1>2, <1>3

LEMMA StakeBacked ==
  ASSUME TypeOK, DelegationsBacked, NEW x \in StakeIds,
         \/ \E y \in StakeIds : MergeStake(x, y)
         \/ \E s \in Settlements, v \in Votes : ResetStake(s, v, x)
         \/ OwnerDeactivates(x)
         \/ \E amount \in Tips : Tip(x, amount)
         \/ \E d \in Deposits : CreateStake(x, d)
  PROVE  DelegationsBacked'
  <1> /\ stakes[x] \in StakeAccount /\ Epoch \in Nat /\ Backed(stakes[x], Epoch)
    BY EpochNat DEF TypeOK, DelegationsBacked
  <1>1. CASE \E y \in StakeIds : MergeStake(x, y)
    <2>1. PICK y \in StakeIds : MergeStake(x, y)  BY <1>1
    <2>2. Backed(Merged(stakes[y], stakes[x], Epoch), Epoch)
      BY <2>1, MergedBacked DEF MergeStake, TypeOK, DelegationsBacked
    <2> QED BY <2>1, <2>2, NoAccountBacked, ReplaceTwo DEF MergeStake
  <1>2. CASE \E s \in Settlements, v \in Votes : ResetStake(s, v, x)
    <2>1. PICK s \in Settlements, v \in Votes : ResetStake(s, v, x)  BY <1>2
    <2> DEFINE reset == [stakes[x] EXCEPT !.staker = Bonds]
    <2>2. reset \in StakeAccount  BY DEF StakeAccount
    <2>3. /\ slot' = slot
          /\ stakes' = [stakes EXCEPT ![x] =
                IF voteLive[v] THEN Delegated(reset, v, Epoch) ELSE reset]
      BY <2>1 DEF ResetStake
    <2>4. Backed(reset, Epoch)
      <3>1. /\ reset.lamports = stakes[x].lamports
            /\ reset.delegated = stakes[x].delegated /\ reset.state = stakes[x].state
            /\ reset.act = stakes[x].act /\ reset.deact = stakes[x].deact
        BY DEF StakeAccount
      <3> QED BY <3>1, SameDelegation
    <2> HIDE DEF reset
    <2>5. Backed(Delegated(reset, v, Epoch), Epoch)
      BY <2>2, <2>4, DelegatedBacked
    <2> QED BY <2>3, <2>4, <2>5, ReplaceOne
  <1>3. CASE OwnerDeactivates(x)
    BY <1>3, DeactivatedBacked, ReplaceOne DEF OwnerDeactivates
  <1>4. CASE \E amount \in Tips : Tip(x, amount)
    <2>1. PICK amount \in Tips : Tip(x, amount)  BY <1>4
    <2> DEFINE a == [stakes[x] EXCEPT !.lamports = @ + amount]
    <2>2. amount \in Nat  BY EnvironmentAssumption
    <2>3. slot' = slot /\ stakes' = [stakes EXCEPT ![x] = a]
      BY <2>1 DEF Tip, TypeOK
    <2>4. /\ a.lamports = stakes[x].lamports + amount
          /\ a.delegated = stakes[x].delegated /\ a.state = stakes[x].state
          /\ a.act = stakes[x].act /\ a.deact = stakes[x].deact
      BY DEF StakeAccount
    <2> HIDE DEF a
    <2>5. Backed(a, Epoch)
      BY <2>2, <2>4, RentAssumption
         DEF Backed, Counts, Effective, IsDelegated, StakeAccount
    <2> QED BY <2>3, <2>5, ReplaceOne
  <1>5. CASE \E d \in Deposits : CreateStake(x, d)
    <2>1. PICK d \in Deposits : CreateStake(x, d)  BY <1>5
    <2> DEFINE acc == [NoAccount EXCEPT !.state = "initialized", !.lamports = d.lamports,
                                 !.staker = d.staker, !.withdrawer = d.withdrawer,
                                 !.locked = d.locked]
               a == IF d.voter = Nobody THEN acc ELSE Delegated(acc, d.voter, Epoch)
    <2>2. slot' = slot /\ stakes' = [stakes EXCEPT ![x] = a]
      BY <2>1 DEF CreateStake
    <2>3. d.lamports \in Nat  BY DepositsAssumption DEF Deposit
    <2>4. Backed(acc, Epoch)
      BY DEF Backed, Counts, IsDelegated, NoAccount, NEVER
    <2>5. Backed(Delegated(acc, d.voter, Epoch), Epoch)
      <3> DEFINE b == Delegated(acc, d.voter, Epoch)
      <3>1. /\ b.lamports = d.lamports /\ b.delegated = d.lamports - Rent
            /\ b.act = Epoch /\ b.deact = NEVER
        BY DEF Delegated, Effective, IsDelegated, NoAccount
      <3> HIDE DEF b
      <3>2. Backed(b, Epoch)  BY <2>3, <3>1, RentAssumption DEF Backed, NEVER
      <3> QED BY <3>2 DEF b
    <2> HIDE DEF acc
    <2>6. Backed(a, Epoch)  BY <2>4, <2>5
    <2> HIDE DEF a
    <2> QED BY <2>2, <2>6, ReplaceOne
  <1> QED BY <1>1, <1>2, <1>3, <1>4, <1>5

LEMMA OtherBacked ==
  ASSUME DelegationsBacked,
         \/ EmergencyPause \/ EmergencyResume
         \/ \E c \in Config : ConfigureConfig(c)
         \/ \E v \in Votes : \/ CloseVoteAccount(v) \/ CancelWithdrawRequest(v)
                             \/ \E amount \in Amounts : InitWithdrawRequest(v, amount)
         \/ \E s \in Settlements :
                \/ UpsizeSettlementClaims(s)
                \/ \E total \in MaxTotals, nodes \in MaxNodes :
                      InitSettlement(s, total, nodes)
  PROVE  DelegationsBacked'
  <1>1. slot' = slot /\ stakes' = stakes
    BY DEF EmergencyPause, EmergencyResume, ConfigureConfig, CloseVoteAccount,
           CancelWithdrawRequest, InitWithdrawRequest, UpsizeSettlementClaims,
           InitSettlement
  <1> QED BY <1>1, ReplaceNone

LEMMA NextBacked == TypeOK /\ DelegationsBacked /\ [Next]_vars => DelegationsBacked'
  <1> SUFFICES ASSUME TypeOK, DelegationsBacked, [Next]_vars PROVE DelegationsBacked'
    OBVIOUS
  <1>1. CASE UNCHANGED vars  BY <1>1, ReplaceNone DEF vars
  <1>2. CASE Next
    BY <1>2, TickBacked, FundBondBacked, ClaimWithdrawBacked, FundingBacked, ClaimBacked,
       StakeBacked, OtherBacked DEF Next
  <1> QED BY <1>1, <1>2

LEMMA InitBacked == Init => DelegationsBacked
  <1> SUFFICES ASSUME Init PROVE DelegationsBacked  OBVIOUS
  <1>1. Epoch \in Nat  BY EpochNat DEF Init
  <1> QED BY <1>1, NoAccountBacked DEF Init, DelegationsBacked

(* As long as a delegation counts for the stake program, lamports over and *)
(* above the rent stand behind it: no claim, refund, split, merge or reset *)
(* of the program withdraws delegated lamports.                            *)
THEOREM DelegationsStayBacked == Spec => []DelegationsBacked
  BY TypeCorrect, InitBacked, NextBacked, PTL DEF Spec

-----------------------------------------------------------------------------
LEMMA BackedSplits == TypeOK /\ DelegationsBacked => FundingNeverStuck
  <1> SUFFICES ASSUME TypeOK, DelegationsBacked, NEW s \in Settlements,
                      NEW x \in StakeIds, FundChecks(s, x),
                      left_over_splittable(s, x), stakes[x].deact = NEVER
               PROVE  SplitCPIsSucceed(s, x)
    BY DEF FundingNeverStuck
  <1> DEFINE T == lamports_to_transfer(s, x)
             F == fund_split_leftover(s, x)
             A == AfterTransfer(s, x)
             I == InitializedSplit(s, x)
  <1>1. /\ stakes[x] \in StakeAccount
        /\ stakes[x].lamports \in Nat /\ stakes[x].delegated \in Nat
        /\ IsDelegated(stakes[x]) /\ ~stakes[x].locked
    BY DEF TypeOK, StakeAccount, FundChecks, DelegatedTo
  <1>2. stakes[x].lamports >= stakes[x].delegated + Rent
    BY <1>1 DEF DelegationsBacked, Backed, Counts
  <1>3. /\ T \in Nat /\ F \in Nat /\ T < stakes[x].lamports
        /\ T > 0 => T + stakes[x].delegated + Rent + 1 <= stakes[x].lamports
        /\ stakes[x].lamports - T - F > Rent + 1
        /\ F > 0 => stakes[x].delegated - F >= MinSize
        /\ F = 0 => T >= MinSize
    BY TransferBounds
  <1>4. MinSize >= 1 /\ MinSize \in Nat
    <2>1. config.minimum_stake_lamports \in Minimums  BY DEF Config, TypeOK
    <2>2. config.minimum_stake_lamports \in Nat  BY <2>1, ConfigAssumption
    <2> QED BY <2>2, RentAssumption DEF MinSize
  <1>5. T > 0 => CanWithdraw(stakes[x], T, Epoch)
    <2>1. Staked(stakes[x], Epoch) = stakes[x].delegated
      BY <1>1 DEF Staked
    <2> HIDE DEF T
    <2> QED BY <1>1, <1>3, <2>1, RentAssumption
            DEF CanWithdraw, Exists, IsDelegated
  <1>6. F > 0 => CanSplit(A, F, Rent + T)
    <2>1. /\ A.lamports = stakes[x].lamports - T /\ A.delegated = stakes[x].delegated
          /\ IsDelegated(A)
      BY <1>1 DEF AfterTransfer, StakeAccount, IsDelegated
    <2> HIDE DEF T, F, A
    <2> QED BY <1>1, <1>3, <1>4, <2>1, RentAssumption, MinDelegationAssumption
            DEF CanSplit
  <1>7. F = 0 => CanDelegate(I, BondOf[s], Epoch)
    <2>1. I.lamports = Rent + T /\ I.state = "initialized"
      BY DEF InitializedSplit, NoAccount
    <2> HIDE DEF T, F, I
    <2> QED BY <1>3, <1>4, <2>1, RentAssumption, MinDelegationAssumption
            DEF CanDelegate, Exists, Effective, IsDelegated
  <1>8. stakes[x].lamports >= stakes[x].delegated
    BY <1>1, <1>2, RentAssumption
  <1> QED BY <1>5, <1>6, <1>7, <1>8 DEF SplitCPIsSucceed

(* Whenever fund_settlement decides to split a stake account that has not  *)
(* been deactivated, its withdraw, split and delegate CPIs all succeed,    *)
(* whatever the amounts, the configuration and the history of the account. *)
THEOREM FundingIsNeverStuck == Spec => []FundingNeverStuck
  BY TypeCorrect, DelegationsStayBacked, BackedSplits, PTL

-----------------------------------------------------------------------------
(* Withdraw requests *)

LEMMA RequestSteps ==
  ASSUME TypeOK, RequestNotOverdrawn, NEW v \in Votes,
         \/ CancelWithdrawRequest(v)
         \/ \E amount \in Amounts : InitWithdrawRequest(v, amount)
         \/ \E x \in StakeIds : ClaimWithdrawWhole(v, x)
         \/ \E x, y \in StakeIds : ClaimWithdrawSplit(v, x, y)
  PROVE  RequestNotOverdrawn'
  <1> SUFFICES ASSUME NEW w \in Votes
               PROVE  requests'[w].withdrawn_amount <= requests'[w].requested_amount
    BY DEF RequestNotOverdrawn
  <1>0. /\ requests \in [Votes -> WithdrawRequest]
        /\ requests[w].withdrawn_amount <= requests[w].requested_amount
    BY DEF TypeOK, RequestNotOverdrawn
  <1>1. CASE CancelWithdrawRequest(v)
    BY <1>0, <1>1 DEF CancelWithdrawRequest, NoRequest
  <1>2. CASE \E amount \in Amounts : InitWithdrawRequest(v, amount)
    BY <1>0, <1>2, EnvironmentAssumption DEF InitWithdrawRequest
  <1>3. CASE \E x \in StakeIds : ClaimWithdrawWhole(v, x)
    <2>1. PICK x \in StakeIds : ClaimWithdrawWhole(v, x)  BY <1>3
    <2>2. /\ stakes[x].lamports <= amount_to_fulfill_withdraw(v)
          /\ amount_to_fulfill_withdraw(v) > 0
          /\ requests' = [requests EXCEPT ![v].withdrawn_amount = @ + stakes[x].lamports]
      BY <2>1 DEF ClaimWithdrawWhole, ClaimWithdrawChecks
    <2>3. stakes[x].lamports \in Nat  BY DEF TypeOK, StakeAccount
    <2> QED BY <1>0, <2>2, <2>3, AmountToFulfill DEF WithdrawRequest
  <1>4. CASE \E x, y \in StakeIds : ClaimWithdrawSplit(v, x, y)
    <2>1. /\ amount_to_fulfill_withdraw(v) > 0
          /\ requests' = [requests EXCEPT
                             ![v].withdrawn_amount = @ + amount_to_fulfill_withdraw(v)]
      BY <1>4 DEF ClaimWithdrawSplit, ClaimWithdrawChecks
    <2> QED BY <1>0, <2>1, AmountToFulfill DEF WithdrawRequest
  <1> QED BY <1>1, <1>2, <1>3, <1>4

(* Steps that leave the requests alone *)
LEMMA RequestsUntouched ==
  ASSUME [Next]_vars,
         ~ \E v \in Votes :
              \/ CancelWithdrawRequest(v)
              \/ \E amount \in Amounts : InitWithdrawRequest(v, amount)
              \/ \E x \in StakeIds : ClaimWithdrawWhole(v, x)
              \/ \E x, y \in StakeIds : ClaimWithdrawSplit(v, x, y)
  PROVE  requests' = requests
  <1>1. CASE UNCHANGED vars  BY <1>1 DEF vars
  <1>2. CASE Next
    <2>1. ASSUME NEW s \in Settlements,
                 \/ \E total \in MaxTotals, nodes \in MaxNodes :
                       InitSettlement(s, total, nodes)
                 \/ UpsizeSettlementClaims(s)
                 \/ CloseSettlementV2(s)
                 \/ \E receiver \in Payers : CancelSettlement(s, receiver)
                 \/ \E x \in StakeIds :
                       \/ FundWhole(s, x)
                       \/ \E y \in StakeIds, payer \in Payers : FundSplit(s, x, y, payer)
                       \/ \E i \in DOMAIN Tree[s] : ClaimSettlementV2(s, i, x)
                       \/ \E v \in Votes : ResetStake(s, v, x)
                       \/ WithdrawStake(s, x)
          PROVE  requests' = requests
      BY <2>1 DEF InitSettlement, UpsizeSettlementClaims, CloseSettlementV2,
         CancelSettlement, FundWhole, FundSplit, ClaimSettlementV2, ResetStake,
         WithdrawStake
    <2>2. ASSUME NEW x \in StakeIds,
                 \/ \E d \in Deposits : CreateStake(x, d)
                 \/ \E amount \in Tips : Tip(x, amount)
                 \/ \E y \in StakeIds : MergeStake(x, y)
                 \/ OwnerDeactivates(x)
                 \/ ManualDeposit(x)
                 \/ \E v \in Votes : FundBond(x, v)
          PROVE  requests' = requests
      BY <2>2 DEF CreateStake, Tip, MergeStake, OwnerDeactivates, ManualDeposit, FundBond
    <2>3. ASSUME \/ Tick \/ EmergencyPause \/ EmergencyResume
                 \/ \E c \in Config : ConfigureConfig(c)
                 \/ \E v \in Votes : CloseVoteAccount(v)
          PROVE  requests' = requests
      BY <2>3 DEF Tick, EmergencyPause, EmergencyResume, ConfigureConfig, CloseVoteAccount
    <2> QED BY <1>2, <2>1, <2>2, <2>3 DEF Next
  <1> QED BY <1>1, <1>2

LEMMA NextRequest == TypeOK /\ RequestNotOverdrawn /\ [Next]_vars => RequestNotOverdrawn'
  <1> SUFFICES ASSUME TypeOK, RequestNotOverdrawn, [Next]_vars
               PROVE  RequestNotOverdrawn'
    OBVIOUS
  <1>1. CASE requests' = requests
    BY <1>1 DEF RequestNotOverdrawn
  <1>2. CASE requests' # requests
    BY <1>2, RequestsUntouched, RequestSteps
  <1> QED BY <1>1, <1>2

(* However many stake accounts a withdraw request is claimed from, whole   *)
(* or split, no more leaves the bond through it than was requested.        *)
THEOREM RequestsAreNotOverdrawn == Spec => []RequestNotOverdrawn
  <1>1. Init => RequestNotOverdrawn
    BY DEF Init, RequestNotOverdrawn, NoRequest
  <1> QED BY <1>1, TypeCorrect, NextRequest, PTL DEF Spec

-----------------------------------------------------------------------------
(* Settlements *)

(* The steps that touch a Settlement account *)
SettlementStep(s) ==
    \/ \E total \in MaxTotals, nodes \in MaxNodes : InitSettlement(s, total, nodes)
    \/ CloseSettlementV2(s) \/ \E receiver \in Payers : CancelSettlement(s, receiver)
    \/ \E x \in StakeIds : FundWhole(s, x)
    \/ \E x, y \in StakeIds, payer \in Payers : FundSplit(s, x, y, payer)
    \/ \E x \in StakeIds : \E i \in DOMAIN Tree[s] : ClaimSettlementV2(s, i, x)

(* The others *)
OtherStep ==
    \/ Tick \/ EmergencyPause \/ EmergencyResume
    \/ \E c \in Config : ConfigureConfig(c)
    \/ \E v \in Votes :
          \/ CloseVoteAccount(v) \/ CancelWithdrawRequest(v)
          \/ \E amount \in Amounts : InitWithdrawRequest(v, amount)
          \/ \E x \in StakeIds :
                \/ FundBond(x, v) \/ ClaimWithdrawWhole(v, x)
                \/ \E y \in StakeIds : ClaimWithdrawSplit(v, x, y)
    \/ \E s \in Settlements, x \in StakeIds :
          \/ \E v \in Votes : ResetStake(s, v, x)
          \/ WithdrawStake(s, x)
    \/ \E x \in StakeIds :
          \/ \E d \in Deposits : CreateStake(x, d)
          \/ \E amount \in Tips : Tip(x, amount)
          \/ \E y \in StakeIds : MergeStake(x, y)
          \/ OwnerDeactivates(x) \/ ManualDeposit(x)

LEMMA StepIs ==
  ASSUME Next
  PROVE  \/ \E s \in Settlements : SettlementStep(s) \/ UpsizeSettlementClaims(s)
         \/ OtherStep
  BY DEF Next, SettlementStep, OtherStep

LEMMA OtherKeeps ==
  ASSUME OtherStep PROVE settlements' = settlements /\ claims' = claims
  <1>1. CASE \/ Tick \/ EmergencyPause \/ EmergencyResume
             \/ \E c \in Config : ConfigureConfig(c)
    BY <1>1 DEF Tick, ConfigureConfig, EmergencyPause, EmergencyResume
  <1>2. ASSUME NEW v \in Votes,
               \/ CloseVoteAccount(v) \/ CancelWithdrawRequest(v)
               \/ \E amount \in Amounts : InitWithdrawRequest(v, amount)
               \/ \E x \in StakeIds :
                     \/ FundBond(x, v) \/ ClaimWithdrawWhole(v, x)
                     \/ \E y \in StakeIds : ClaimWithdrawSplit(v, x, y)
        PROVE  settlements' = settlements /\ claims' = claims
    BY <1>2 DEF CloseVoteAccount, CancelWithdrawRequest, InitWithdrawRequest,
       FundBond, ClaimWithdrawWhole, ClaimWithdrawSplit
  <1>3. ASSUME NEW s \in Settlements, NEW x \in StakeIds,
               (\E v \in Votes : ResetStake(s, v, x)) \/ WithdrawStake(s, x)
        PROVE  settlements' = settlements /\ claims' = claims
    BY <1>3 DEF ResetStake, WithdrawStake
  <1>4. ASSUME NEW x \in StakeIds,
               \/ \E d \in Deposits : CreateStake(x, d)
               \/ \E amount \in Tips : Tip(x, amount)
               \/ \E y \in StakeIds : MergeStake(x, y)
               \/ OwnerDeactivates(x) \/ ManualDeposit(x)
        PROVE  settlements' = settlements /\ claims' = claims
    BY <1>4 DEF CreateStake, Tip, MergeStake, OwnerDeactivates, ManualDeposit
  <1> QED BY <1>1, <1>2, <1>3, <1>4 DEF OtherStep

(* They leave the settlements alone, and the bitmaps. *)
LEMMA SettlementsUntouched ==
  ASSUME [Next]_vars, ~ \E s \in Settlements : SettlementStep(s)
  PROVE  /\ settlements' = settlements
         /\ TypeOK => \A s \in Settlements : claims'[s].bits = claims[s].bits
  <1>1. CASE UNCHANGED vars  BY <1>1 DEF vars
  <1>2. CASE OtherStep  BY <1>2, OtherKeeps
  <1>3. ASSUME NEW s \in Settlements, UpsizeSettlementClaims(s)
        PROVE  /\ settlements' = settlements
               /\ TypeOK => \A t \in Settlements : claims'[t].bits = claims[t].bits
    BY <1>3 DEF UpsizeSettlementClaims, TypeOK
  <1> QED BY <1>1, <1>2, <1>3, StepIs

(* What fund_settlement adds to lamports_funded when it takes the account  *)
(* whole: at most one minimal size and one rent more than is lacking       *)
LEMMA WholeOverfund ==
  ASSUME TypeOK, NEW s \in Settlements, NEW x \in StakeIds, FundWhole(s, x)
  PROVE  \/ stakes[x].lamports - MinSize <= Lacking(s)
         \/ stakes[x].lamports - MinSize < Lacking(s) + MinSize + Rent
  <1>1. stakes[x].lamports \in Nat /\ MinSize \in Nat
    BY MinSizeNat DEF TypeOK, StakeAccount
  <1>2. Lacking(s) \in Nat
    BY DEF TypeOK, Settlement, Lacking, FundWhole, FundChecks, NotFullyFunded
  <1>3. ~left_over_splittable(s, x)
    BY DEF FundWhole
  <1> QED BY <1>1, <1>2, <1>3, RentAssumption DEF left_over_splittable, amount_needed

(* The part of the two invariants that speaks of one settlement *)
RentOwedOnce(s) ==
    settlements[s].split_rent_collector # Nobody =>
        /\ settlements[s].lamports_funded = settlements[s].max_total_claim
        /\ settlements[s].split_rent_amount = Rent

Bounded(s) ==
    settlements[s].exists /\ settlements[s].lamports_funded > settlements[s].max_total_claim
    => \E m \in Minimums : settlements[s].lamports_funded
                              < settlements[s].max_total_claim + (Rent + m) + Rent

LEMMA SettlementSteps ==
  ASSUME TypeOK, NEW s \in Settlements, NEW t \in Settlements,
         RentOwedOnce(t), Bounded(t),
         SettlementStep(s)
  PROVE  RentOwedOnce(t)' /\ Bounded(t)'
  <1>0. settlements \in [Settlements -> Settlement]  BY DEF TypeOK
  <1>1. CASE \E total \in MaxTotals, nodes \in MaxNodes : InitSettlement(s, total, nodes)
    <2>1. PICK total \in MaxTotals, nodes \in MaxNodes : InitSettlement(s, total, nodes)
      BY <1>1
    <2>2. total \in Nat  BY SettlementsAssumption
    <2> DEFINE new == [NoSettlement EXCEPT !.exists = TRUE,
                                           !.max_total_claim = total,
                                           !.max_merkle_nodes = nodes,
                                           !.slot_created_at = slot]
    <2>3. settlements' = [settlements EXCEPT ![s] = new]
      BY <2>1 DEF InitSettlement
    <2>4. /\ new.lamports_funded = 0 /\ new.max_total_claim = total
          /\ new.split_rent_collector = Nobody
      BY DEF NoSettlement
    <2> HIDE DEF new
    <2>5. CASE t = s
      <3>1. settlements'[t] = new  BY <1>0, <2>3, <2>5
      <3> QED BY <2>2, <2>4, <3>1 DEF RentOwedOnce, Bounded
    <2>6. CASE t # s
      <3>1. settlements'[t] = settlements[t]  BY <1>0, <2>3, <2>6
      <3> QED BY <3>1 DEF RentOwedOnce, Bounded
    <2> QED BY <2>5, <2>6
  <1>2. CASE CloseSettlementV2(s) \/ \E receiver \in Payers : CancelSettlement(s, receiver)
    <2>1. settlements' = [settlements EXCEPT ![s] = NoSettlement]
      BY <1>2 DEF CloseSettlementV2, CancelSettlement, RemoveSettlement
    <2> QED BY <1>0, <2>1 DEF NoSettlement, RentOwedOnce, Bounded
  <1>3. CASE \E x \in StakeIds : FundWhole(s, x)
    <2>1. PICK x \in StakeIds : FundWhole(s, x)  BY <1>3
    <2> DEFINE add == stakes[x].lamports - MinSize
    <2>2. settlements' = [settlements EXCEPT ![s].lamports_funded = @ + add]
      BY <2>1 DEF FundWhole
    <2>3. settlements[s].lamports_funded < settlements[s].max_total_claim
      BY <2>1 DEF FundWhole, FundChecks, NotFullyFunded
    <2>4. add \in Nat
      <3>1. stakes[x].lamports \in Nat  BY DEF TypeOK, StakeAccount
      <3> QED BY <2>1, <3>1, MinSizeNat DEF TypeOK, FundWhole, CoversMinSize
    <2>5. \/ add <= settlements[s].max_total_claim - settlements[s].lamports_funded
          \/ add < settlements[s].max_total_claim - settlements[s].lamports_funded
                     + (Rent + config.minimum_stake_lamports) + Rent
      BY <2>1, WholeOverfund DEF Lacking, MinSize
    <2>6. config.minimum_stake_lamports \in Minimums  BY DEF TypeOK, Config
    <2>7. config.minimum_stake_lamports \in Nat  BY <2>6, ConfigAssumption
    <2> HIDE DEF add
    <2>8. /\ settlements[s].lamports_funded \in Nat /\ settlements[s].max_total_claim \in Nat
      BY <1>0 DEF Settlement
    <2>9. CASE t = s
      <3>1. /\ settlements'[t].lamports_funded = settlements[s].lamports_funded + add
            /\ settlements'[t].max_total_claim = settlements[s].max_total_claim
            /\ settlements'[t].split_rent_collector = settlements[s].split_rent_collector
        BY <1>0, <2>2, <2>9 DEF Settlement
      <3>2. RentOwedOnce(t)'
        BY <2>3, <2>8, <2>9, <3>1 DEF RentOwedOnce
      <3>3. settlements'[t].lamports_funded > settlements'[t].max_total_claim
              => settlements'[t].lamports_funded < settlements'[t].max_total_claim
                       + (Rent + config.minimum_stake_lamports) + Rent
        BY <2>4, <2>5, <2>7, <2>8, <3>1, RentAssumption
      <3> QED BY <2>6, <3>2, <3>3 DEF Bounded
    <2>10. CASE t # s
      BY <1>0, <2>2, <2>10 DEF RentOwedOnce, Bounded
    <2> QED BY <2>9, <2>10
  <1>4. CASE \E x, y \in StakeIds, payer \in Payers : FundSplit(s, x, y, payer)
    <2>0. PICK payer \in Payers : \E x, y \in StakeIds : FundSplit(s, x, y, payer)
      BY <1>4
    <2>1. settlements' = [settlements EXCEPT ![s].lamports_funded = @ + Lacking(s),
                                             ![s].split_rent_collector = payer,
                                             ![s].split_rent_amount = Rent]
      BY <2>0 DEF FundSplit
    <2>2. settlements[s].lamports_funded + Lacking(s) = settlements[s].max_total_claim
      BY <1>0 DEF Lacking, Settlement
    <2>3. settlements[s].max_total_claim \in Nat  BY <1>0 DEF Settlement
    <2>4. CASE t = s
      <3>1. /\ settlements'[t].lamports_funded = settlements[s].max_total_claim
            /\ settlements'[t].max_total_claim = settlements[s].max_total_claim
            /\ settlements'[t].split_rent_amount = Rent
        BY <1>0, <2>1, <2>2, <2>4 DEF Settlement
      <3> QED BY <2>3, <3>1 DEF RentOwedOnce, Bounded
    <2>5. CASE t # s
      BY <1>0, <2>1, <2>5 DEF RentOwedOnce, Bounded
    <2> QED BY <2>4, <2>5
  <1>5. CASE \E x \in StakeIds : \E i \in DOMAIN Tree[s] : ClaimSettlementV2(s, i, x)
    <2>1. PICK x \in StakeIds, i \in DOMAIN Tree[s] : ClaimSettlementV2(s, i, x)
      BY <1>5
    <2>2. settlements' = [settlements EXCEPT
              ![s].lamports_claimed = @ + Tree[s][i],
              ![s].merkle_nodes_claimed = @ + 1]
      BY <2>1 DEF ClaimSettlementV2
    <2> QED BY <1>0, <2>2 DEF RentOwedOnce, Bounded, Settlement
  <1> QED BY <1>1, <1>2, <1>3, <1>4, <1>5 DEF SettlementStep

LEMMA NextSettlement ==
  TypeOK /\ SplitRentOwedOnce /\ OverfundBounded /\ [Next]_vars
    => SplitRentOwedOnce' /\ OverfundBounded'
  <1> SUFFICES ASSUME TypeOK, SplitRentOwedOnce, OverfundBounded, [Next]_vars,
                      NEW t \in Settlements
               PROVE  RentOwedOnce(t)' /\ Bounded(t)'
    BY DEF SplitRentOwedOnce, OverfundBounded, RentOwedOnce, Bounded
  <1>1. RentOwedOnce(t) /\ Bounded(t)
    BY DEF SplitRentOwedOnce, OverfundBounded, RentOwedOnce, Bounded
  <1>2. CASE settlements' = settlements
    BY <1>1, <1>2 DEF RentOwedOnce, Bounded
  <1>3. CASE settlements' # settlements
    BY <1>1, <1>3, SettlementsUntouched, SettlementSteps
  <1> QED BY <1>2, <1>3

LEMMA InitSettlements == Init => SplitRentOwedOnce /\ OverfundBounded
  BY DEF Init, NoSettlement, SplitRentOwedOnce, OverfundBounded

(* Once a split rent payer is registered the settlement is exactly full,   *)
(* so that no second split can register another payer over the first one.  *)
THEOREM SplitRentIsOwedOnce == Spec => []SplitRentOwedOnce
  BY InitSettlements, NextSettlement, TypeCorrect, PTL DEF Spec

(* fund_settlement over-funds a settlement by less than one minimal size   *)
(* and one rent, under any configuration the administrator ever set.       *)
THEOREM OverfundIsBounded == Spec => []OverfundBounded
  BY InitSettlements, NextSettlement, TypeCorrect, PTL DEF Spec

-----------------------------------------------------------------------------
(* Claims *)

(* The inductive form of ClaimsAccounted: the set bits are records of the  *)
(* settlement's tree.                                                      *)
ClaimsKept(s) ==
    /\ claims[s].bits \in SUBSET DOMAIN Tree[s] /\ IsFiniteSet(claims[s].bits)
    /\ settlements[s].lamports_claimed = Sum(Tree[s], claims[s].bits)
    /\ settlements[s].merkle_nodes_claimed = Cardinality(claims[s].bits)
    /\ settlements[s].lamports_claimed <= settlements[s].max_total_claim
    /\ settlements[s].merkle_nodes_claimed <= settlements[s].max_merkle_nodes

ClaimsInv == \A s \in Settlements : ClaimsKept(s)

(* A settlement without claims, before and after its time *)
Unclaimed(s) ==
    /\ claims[s].bits = {}
    /\ settlements[s].lamports_claimed = 0 /\ settlements[s].merkle_nodes_claimed = 0
    /\ settlements[s].max_total_claim \in Nat /\ settlements[s].max_merkle_nodes \in Nat

UnclaimedKept == \A s \in Settlements : Unclaimed(s) => ClaimsKept(s)

LEMMA UnclaimedIsKept == UnclaimedKept
  <1> SUFFICES ASSUME NEW s \in Settlements, claims[s].bits = {},
                      settlements[s].lamports_claimed = 0,
                      settlements[s].merkle_nodes_claimed = 0,
                      settlements[s].max_total_claim \in Nat,
                      settlements[s].max_merkle_nodes \in Nat
               PROVE  ClaimsKept(s)
    BY DEF UnclaimedKept, Unclaimed
  <1>1. Tree[s] \in [DOMAIN Tree[s] -> Int]  BY TreeAssumption
  <1>2. Sum(Tree[s], {}) = 0  BY <1>1, SumEmpty
  <1>3. IsFiniteSet({}) /\ Cardinality({}) = 0  BY FS_EmptySet
  <1> QED BY <1>2, <1>3 DEF ClaimsKept

LEMMA ClaimsStep ==
  ASSUME TypeOK, ClaimsInv, NEW s \in Settlements,
         SettlementStep(s)
  PROVE  ClaimsInv'
  <1>0. /\ settlements \in [Settlements -> Settlement]
        /\ claims \in [Settlements -> [size : Nat, bits : SUBSET Nat]]
    BY DEF TypeOK
  <1>1. ASSUME NEW t \in Settlements, settlements'[t] = settlements[t],
               claims'[t] = claims[t]
        PROVE  ClaimsKept(t)'
    BY <1>1 DEF ClaimsInv, ClaimsKept
  <1>6. UnclaimedKept'  BY UnclaimedIsKept, PTL
  <1>2. CASE \E total \in MaxTotals, nodes \in MaxNodes : InitSettlement(s, total, nodes)
    <2>1. PICK total \in MaxTotals, nodes \in MaxNodes : InitSettlement(s, total, nodes)
      BY <1>2
    <2> DEFINE new == [NoSettlement EXCEPT !.exists = TRUE,
                                           !.max_total_claim = total,
                                           !.max_merkle_nodes = nodes,
                                           !.slot_created_at = slot]
               none == [size |-> account_initialization_size(nodes), bits |-> {}]
    <2>2. /\ settlements' = [settlements EXCEPT ![s] = new]
          /\ claims' = [claims EXCEPT ![s] = none]
      <3>1. settlements' = [settlements EXCEPT ![s] = new]  BY <2>1 DEF InitSettlement
      <3>2. claims' = [claims EXCEPT ![s] = none]  BY <2>1 DEF InitSettlement
      <3> QED BY <3>1, <3>2
    <2>3. /\ new.lamports_claimed = 0 /\ new.merkle_nodes_claimed = 0
          /\ new.max_total_claim = total /\ new.max_merkle_nodes = nodes
          /\ none.bits = {}
      BY DEF NoSettlement
    <2> HIDE DEF new, none
    <2>4. settlements'[s] = new /\ claims'[s] = none  BY <1>0, <2>2
    <2>5. total \in Nat /\ nodes \in Nat  BY SettlementsAssumption
    <2>6. ClaimsKept(s)'
      <3>1. Unclaimed(s)'  BY <2>3, <2>4, <2>5 DEF Unclaimed
      <3> QED BY <1>6, <3>1 DEF UnclaimedKept
    <2>7. \A t \in Settlements \ {s} :
             settlements'[t] = settlements[t] /\ claims'[t] = claims[t]
      BY <1>0, <2>2
    <2> QED BY <1>1, <2>6, <2>7 DEF ClaimsInv
  <1>3. CASE CloseSettlementV2(s) \/ \E receiver \in Payers : CancelSettlement(s, receiver)
    <2>1. /\ settlements' = [settlements EXCEPT ![s] = NoSettlement]
          /\ claims' = [claims EXCEPT ![s] = NoClaims]
      BY <1>3 DEF CloseSettlementV2, CancelSettlement, RemoveSettlement
    <2>2. settlements'[s] = NoSettlement /\ claims'[s] = NoClaims  BY <1>0, <2>1
    <2>3. ClaimsKept(s)'
      <3>1. Unclaimed(s)'  BY <2>2 DEF NoSettlement, NoClaims, Unclaimed
      <3> QED BY <1>6, <3>1 DEF UnclaimedKept
    <2>4. \A t \in Settlements \ {s} :
             settlements'[t] = settlements[t] /\ claims'[t] = claims[t]
      BY <1>0, <2>1
    <2> QED BY <1>1, <2>3, <2>4 DEF ClaimsInv
  <1>4. ASSUME claims' = claims,
               \A t \in Settlements :
                  /\ settlements'[t].lamports_claimed = settlements[t].lamports_claimed
                  /\ settlements'[t].merkle_nodes_claimed = settlements[t].merkle_nodes_claimed
                  /\ settlements'[t].max_total_claim = settlements[t].max_total_claim
                  /\ settlements'[t].max_merkle_nodes = settlements[t].max_merkle_nodes
        PROVE  ClaimsInv'
    <2> SUFFICES ASSUME NEW t \in Settlements PROVE ClaimsKept(t)'
      BY DEF ClaimsInv
    <2>1. ClaimsKept(t)  BY DEF ClaimsInv
    <2> QED BY <1>4, <2>1 DEF ClaimsKept
  <1>7. CASE \E x \in StakeIds : FundWhole(s, x)
    <2>1. PICK x \in StakeIds : FundWhole(s, x)  BY <1>7
    <2> DEFINE funded == settlements[s].lamports_funded + (stakes[x].lamports - MinSize)
    <2>2. /\ claims' = claims
          /\ settlements' = [settlements EXCEPT ![s].lamports_funded = funded]
      BY <2>1 DEF FundWhole
    <2> HIDE DEF funded
    <2> QED BY <1>0, <1>4, <2>2 DEF Settlement
  <1>8. CASE \E x, y \in StakeIds, payer \in Payers : FundSplit(s, x, y, payer)
    <2>1. PICK payer \in Payers : \E x, y \in StakeIds : FundSplit(s, x, y, payer)
      BY <1>8
    <2>2. settlements' = [settlements EXCEPT ![s].lamports_funded = @ + Lacking(s),
                                             ![s].split_rent_collector = payer,
                                             ![s].split_rent_amount = Rent]
      BY <2>1 DEF FundSplit
    <2>3. claims' = claims  BY <2>1 DEF FundSplit
    <2> QED BY <1>0, <1>4, <2>2, <2>3 DEF Settlement
  <1>5. CASE \E x \in StakeIds : \E i \in DOMAIN Tree[s] : ClaimSettlementV2(s, i, x)
    <2>1. PICK i \in DOMAIN Tree[s] : \E x \in StakeIds : ClaimSettlementV2(s, i, x)
      BY <1>5
    <2> DEFINE bits == claims[s].bits
    <2>2. /\ i \notin bits /\ WithinLimits(s, Tree[s][i])
          /\ claims' = [claims EXCEPT ![s].bits = @ \cup {i}]
          /\ settlements' = [settlements EXCEPT
                ![s].lamports_claimed = @ + Tree[s][i], ![s].merkle_nodes_claimed = @ + 1]
      BY <2>1 DEF ClaimSettlementV2, NotClaimedYet
    <2>3. /\ claims'[s].bits = bits \cup {i}
          /\ settlements'[s].lamports_claimed = settlements[s].lamports_claimed + Tree[s][i]
          /\ settlements'[s].merkle_nodes_claimed = settlements[s].merkle_nodes_claimed + 1
          /\ settlements'[s].max_total_claim = settlements[s].max_total_claim
          /\ settlements'[s].max_merkle_nodes = settlements[s].max_merkle_nodes
      BY <1>0, <2>2 DEF Settlement
    <2>4. ClaimsKept(s)  BY DEF ClaimsInv
    <2>5. Tree[s] \in [DOMAIN Tree[s] -> Int]  BY TreeAssumption
    <2>6. /\ bits \cup {i} \in SUBSET DOMAIN Tree[s] /\ IsFiniteSet(bits \cup {i})
          /\ Cardinality(bits \cup {i}) = Cardinality(bits) + 1
      BY <2>2, <2>4, FS_AddElement DEF ClaimsKept
    <2>7. Sum(Tree[s], bits \cup {i}) = Tree[s][i] + Sum(Tree[s], bits)
      <3>1. (bits \cup {i}) \ {i} = bits  BY <2>2
      <3> HIDE DEF bits
      <3>2. Sum(Tree[s], bits \cup {i})
              = Tree[s][i] + Sum(Tree[s], (bits \cup {i}) \ {i})
        BY <2>5, <2>6, SumRemove
      <3> QED BY <3>1, <3>2
    <2>8. Sum(Tree[s], bits) \in Int /\ Tree[s][i] \in Int
      BY <2>4, <2>5, SumInt DEF ClaimsKept
    <2>9. ClaimsKept(s)'
      <3> HIDE DEF bits
      <3>1. settlements'[s].lamports_claimed = Sum(Tree[s], bits \cup {i})
        BY <2>3, <2>4, <2>7, <2>8 DEF ClaimsKept, bits
      <3>2. settlements'[s].merkle_nodes_claimed = Cardinality(bits \cup {i})
        BY <2>3, <2>4, <2>6 DEF ClaimsKept, bits
      <3>3. /\ settlements'[s].lamports_claimed <= settlements'[s].max_total_claim
            /\ settlements'[s].merkle_nodes_claimed <= settlements'[s].max_merkle_nodes
        BY <2>2, <2>3 DEF WithinLimits
      <3> QED BY <2>3, <2>6, <3>1, <3>2, <3>3 DEF ClaimsKept
    <2>10. \A t \in Settlements \ {s} :
             settlements'[t] = settlements[t] /\ claims'[t] = claims[t]
      BY <1>0, <2>2
    <2> QED BY <1>1, <2>9, <2>10 DEF ClaimsInv
  <1> QED BY <1>2, <1>3, <1>5, <1>7, <1>8 DEF SettlementStep

LEMMA NextClaims == TypeOK /\ ClaimsInv /\ [Next]_vars => ClaimsInv'
  <1> SUFFICES ASSUME TypeOK, ClaimsInv, [Next]_vars PROVE ClaimsInv'
    OBVIOUS
  <1>1. CASE settlements' = settlements /\ \A s \in Settlements : claims'[s].bits = claims[s].bits
    BY <1>1 DEF ClaimsInv, ClaimsKept
  <1> QED BY <1>1, SettlementsUntouched, ClaimsStep

LEMMA InitClaims == Init => ClaimsInv
  <1> SUFFICES ASSUME Init, NEW s \in Settlements PROVE ClaimsKept(s)
    BY DEF ClaimsInv
  <1>1. claims[s] = NoClaims /\ settlements[s] = NoSettlement  BY DEF Init
  <1> QED BY <1>1, UnclaimedIsKept DEF NoClaims, NoSettlement, Unclaimed, UnclaimedKept

LEMMA ClaimsInvImplies == ClaimsInv => ClaimsAccounted
  <1> SUFFICES ASSUME ClaimsInv, NEW s \in Settlements
               PROVE  /\ settlements[s].lamports_claimed
                            = MapThenSumSet(LAMBDA i : Tree[s][i], claims[s].bits)
                      /\ settlements[s].merkle_nodes_claimed = Cardinality(claims[s].bits)
                      /\ settlements[s].lamports_claimed <= settlements[s].max_total_claim
                      /\ settlements[s].merkle_nodes_claimed
                            <= settlements[s].max_merkle_nodes
    BY DEF ClaimsAccounted
  <1> QED BY DEF ClaimsInv, ClaimsKept, Sum

(* The records of a merkle tree are paid once each, for exactly the amount *)
(* the tree names, and together never more than the settlement promised:   *)
(* the counters of claim_settlement are what the bitmap says.              *)
THEOREM ClaimsAreAccounted == Spec => []ClaimsAccounted
  BY InitClaims, NextClaims, ClaimsInvImplies, TypeCorrect, PTL DEF Spec

-----------------------------------------------------------------------------
(* Solvency *)

PayableOf(acc) == IF acc.lamports > MinSize THEN acc.lamports - MinSize ELSE 0

(* What account acc can pay to the claims of s *)
PotOf(acc, s) ==
    IF Exists(acc) /\ acc.withdrawer = Bonds /\ acc.staker = s THEN PayableOf(acc) ELSE 0

Pots(s) == [x \in StakeIds |-> PotOf(stakes[x], s)]

(* What is still to be paid out of the accounts of s *)
Due(s) == settlements[s].lamports_funded - settlements[s].lamports_claimed
             + settlements[s].split_rent_amount

Solvent(s) == settlements[s].exists => Sum(Pots(s), StakeIds) >= Due(s)

LEMMA PotNat ==
  ASSUME config \in Config, NEW acc \in StakeAccount, NEW s PROVE PotOf(acc, s) \in Nat
  <1>1. MinSize \in Nat  BY MinSizeNat
  <1>2. acc.lamports \in Nat  BY DEF StakeAccount
  <1> QED BY <1>1, <1>2 DEF PotOf, PayableOf

(* The sum of SettlementSolvent is one over all addresses. *)
PotsAreFunds ==
    \A s \in Settlements :
       /\ Pots(s) \in [StakeIds -> Int] /\ Sum(Pots(s), StakeIds) \in Nat
       /\ MapThenSumSet(Payable, FundedStakes(s)) = Sum(Pots(s), StakeIds)

LEMMA PotsSum == TypeOK => PotsAreFunds
  <1> SUFFICES ASSUME TypeOK, NEW s \in Settlements
               PROVE  /\ Pots(s) \in [StakeIds -> Int] /\ Sum(Pots(s), StakeIds) \in Nat
                      /\ MapThenSumSet(Payable, FundedStakes(s)) = Sum(Pots(s), StakeIds)
    BY DEF PotsAreFunds
  <1> DEFINE pay == [x \in StakeIds |-> Payable(x)]
             zero == [x \in StakeIds |-> 0]
  <1>1. \A x \in StakeIds : Payable(x) = PayableOf(stakes[x])
    BY DEF Payable, PayableOf
  <1>2. \A x \in StakeIds : PotOf(stakes[x], s) \in Nat
    BY PotNat DEF TypeOK
  <1>3. pay \in [StakeIds -> Int]
    <2> SUFFICES ASSUME NEW x \in StakeIds PROVE PayableOf(stakes[x]) \in Int
      BY <1>1
    <2>1. MinSize \in Nat /\ stakes[x].lamports \in Nat
      BY MinSizeNat DEF TypeOK, StakeAccount
    <2> QED BY <2>1 DEF PayableOf
  <1>4. MapThenSumSet(Payable, FundedStakes(s)) = Sum(pay, FundedStakes(s))
    BY DEF Sum, MapThenSumSet, MapThenFoldSet, FundedStakes
  <1>5. [x \in StakeIds |-> IF x \in FundedStakes(s) THEN pay[x] ELSE 0] = Pots(s)
    BY <1>1 DEF Pots, PotOf, FundedStakes, InCustody
  <1>6. Sum(pay, FundedStakes(s)) = Sum(Pots(s), StakeIds)
    <2>1. FundedStakes(s) \in SUBSET StakeIds  BY DEF FundedStakes
    <2> HIDE DEF pay
    <2>2. Sum(pay, FundedStakes(s))
            = Sum([x \in StakeIds |-> IF x \in FundedStakes(s) THEN pay[x] ELSE 0], StakeIds)
      BY <1>3, <2>1, SumPart, StakeIdsAssumption
    <2> QED BY <1>5, <2>2
  <1>7. Pots(s) \in [StakeIds -> Int] /\ \A x \in StakeIds : zero[x] <= Pots(s)[x]
    BY <1>2 DEF Pots
  <1>8. Sum(zero, StakeIds) <= Sum(Pots(s), StakeIds)
    <2>1. zero \in [StakeIds -> Int]  OBVIOUS
    <2> HIDE DEF zero
    <2> QED BY <1>7, <2>1, SumGrows, StakeIdsAssumption
  <1>9. Sum(zero, StakeIds) = 0
    <2>1. zero \in [StakeIds -> Int] /\ zero = [x \in StakeIds |-> IF x \in {} THEN zero[x] ELSE 0]
      OBVIOUS
    <2> HIDE DEF zero
    <2>2. Sum(zero, {}) = Sum([x \in StakeIds |-> IF x \in {} THEN zero[x] ELSE 0], StakeIds)
      BY <2>1, SumPart, StakeIdsAssumption
    <2>3. Sum(zero, {}) = 0  BY <2>1, SumEmpty
    <2> QED BY <2>1, <2>2, <2>3
  <1>10. Sum(Pots(s), StakeIds) \in Int  BY <1>7, SumInt, StakeIdsAssumption
  <1> QED BY <1>4, <1>6, <1>7, <1>8, <1>9, <1>10

(* A step that leaves the accounts alone, or changes one or two of them,   *)
(* and does not make more due than it puts into the accounts               *)
LEMMA SolventNone ==
  ASSUME TypeOK, TypeOK', stakes' = stakes,
         config'.minimum_stake_lamports <= config.minimum_stake_lamports,
         NEW s \in Settlements, Solvent(s),
         settlements'[s].exists => settlements[s].exists /\ Due(s)' <= Due(s)
  PROVE  Solvent(s)'
  <1>1. PotsAreFunds /\ PotsAreFunds'  BY PotsSum, PTL
  <1> DEFINE f == Pots(s)
             g == [x \in StakeIds |-> PotOf(stakes[x], s)']
  <1>2. Pots(s)' = g  BY DEF Pots
  <1>3. f \in [StakeIds -> Int] /\ g \in [StakeIds -> Int]
    BY <1>1, <1>2 DEF PotsAreFunds
  <1>4. ASSUME NEW x \in StakeIds PROVE f[x] <= g[x]
    <2>1. stakes[x].lamports \in Nat  BY DEF TypeOK, StakeAccount
    <2>2. config.minimum_stake_lamports \in Nat /\ config'.minimum_stake_lamports \in Nat
      BY ConfigAssumption DEF TypeOK, Config
    <2>3. /\ MinSize = Rent + config.minimum_stake_lamports
          /\ MinSize' = Rent + config'.minimum_stake_lamports
      BY DEF MinSize
    <2>4. PayableOf(stakes[x]) <= PayableOf(stakes[x])'
      BY <2>1, <2>2, <2>3, RentAssumption DEF PayableOf
    <2>5. PayableOf(stakes[x]) \in Nat
      BY <2>1, <2>2, <2>3, RentAssumption DEF PayableOf
    <2>6. PotOf(stakes[x], s) <= PotOf(stakes[x], s)'
      BY <2>4, <2>5 DEF PotOf
    <2> QED BY <2>6 DEF Pots
  <1> HIDE DEF f, g
  <1>5. Sum(f, StakeIds) <= Sum(g, StakeIds)
    BY <1>3, <1>4, SumGrows, StakeIdsAssumption
  <1>6. Sum(f, StakeIds) \in Int /\ Sum(g, StakeIds) \in Int
    BY <1>3, SumInt, StakeIdsAssumption
  <1>7. Due(s) \in Int /\ Due(s)' \in Int
    BY DEF TypeOK, Due, Settlement
  <1>8. Sum(Pots(s), StakeIds)' = Sum(g, StakeIds)  BY <1>2
  <1> QED BY <1>5, <1>6, <1>7, <1>8 DEF Solvent, f

(* What one or two changed accounts change in the sum                      *)
LEMMA PotsOne ==
  ASSUME TypeOK, TypeOK', config' = config,
         NEW x \in StakeIds, NEW a, stakes' = [stakes EXCEPT ![x] = a],
         NEW s \in Settlements
  PROVE  /\ Sum(Pots(s), StakeIds)' - PotOf(a, s) = Sum(Pots(s), StakeIds) - PotOf(stakes[x], s)
         /\ Sum(Pots(s), StakeIds) \in Int /\ Sum(Pots(s), StakeIds)' \in Int
         /\ PotOf(stakes[x], s) \in Int /\ PotOf(a, s) \in Int
  <1>1. PotsAreFunds /\ PotsAreFunds'  BY PotsSum, PTL
  <1> DEFINE f == Pots(s)
             g == [z \in StakeIds |-> PotOf(stakes'[z], s)]
  <1>2. Pots(s)' = g  BY DEF Pots, PotOf, PayableOf, MinSize
  <1>3. f \in [StakeIds -> Int] /\ g \in [StakeIds -> Int]
    BY <1>1, <1>2 DEF PotsAreFunds
  <1>4. \A z \in StakeIds : stakes'[z] = IF z = x THEN a ELSE stakes[z]
    BY DEF TypeOK
  <1>5. /\ f[x] = PotOf(stakes[x], s) /\ g[x] = PotOf(a, s)
        /\ \A z \in StakeIds \ {x} : f[z] = g[z]
    BY <1>4 DEF Pots
  <1> HIDE DEF f, g
  <1>6. Sum(f, StakeIds) - f[x] = Sum(g, StakeIds) - g[x]
    BY <1>3, <1>5, SumOne, StakeIdsAssumption
  <1>7. /\ Sum(f, StakeIds) \in Int /\ Sum(g, StakeIds) \in Int
        /\ f[x] \in Int /\ g[x] \in Int
    BY <1>3, SumInt, StakeIdsAssumption
  <1>8. Sum(Pots(s), StakeIds)' = Sum(g, StakeIds)  BY <1>2
  <1>9. Sum(Pots(s), StakeIds) = Sum(f, StakeIds)  BY DEF f
  <1> QED BY <1>5, <1>6, <1>7, <1>8, <1>9

LEMMA PotsTwo ==
  ASSUME TypeOK, TypeOK', config' = config,
         NEW x \in StakeIds, NEW y \in StakeIds, x # y, NEW a, NEW b,
         stakes' = [stakes EXCEPT ![x] = a, ![y] = b],
         NEW s \in Settlements
  PROVE  /\ Sum(Pots(s), StakeIds)' - PotOf(a, s) - PotOf(b, s)
               = Sum(Pots(s), StakeIds) - PotOf(stakes[x], s) - PotOf(stakes[y], s)
         /\ Sum(Pots(s), StakeIds) \in Int /\ Sum(Pots(s), StakeIds)' \in Int
         /\ PotOf(stakes[x], s) \in Int /\ PotOf(a, s) \in Int
         /\ PotOf(stakes[y], s) \in Int /\ PotOf(b, s) \in Int
  <1>1. PotsAreFunds /\ PotsAreFunds'  BY PotsSum, PTL
  <1> DEFINE f == Pots(s)
             g == [z \in StakeIds |-> PotOf(stakes'[z], s)]
  <1>2. Pots(s)' = g  BY DEF Pots, PotOf, PayableOf, MinSize
  <1>3. f \in [StakeIds -> Int] /\ g \in [StakeIds -> Int]
    BY <1>1, <1>2 DEF PotsAreFunds
  <1>4. \A z \in StakeIds : stakes'[z] = IF z = y THEN b ELSE IF z = x THEN a ELSE stakes[z]
    BY DEF TypeOK
  <1>5. /\ f[x] = PotOf(stakes[x], s) /\ g[x] = PotOf(a, s)
        /\ f[y] = PotOf(stakes[y], s) /\ g[y] = PotOf(b, s)
        /\ \A z \in StakeIds \ {x, y} : f[z] = g[z]
    BY <1>4 DEF Pots
  <1> HIDE DEF f, g
  <1>6. Sum(f, StakeIds) - f[x] - f[y] = Sum(g, StakeIds) - g[x] - g[y]
    BY <1>3, <1>5, SumTwo, StakeIdsAssumption
  <1>7. /\ Sum(f, StakeIds) \in Int /\ Sum(g, StakeIds) \in Int
        /\ f[x] \in Int /\ g[x] \in Int /\ f[y] \in Int /\ g[y] \in Int
    BY <1>3, SumInt, StakeIdsAssumption
  <1>8. Sum(Pots(s), StakeIds)' = Sum(g, StakeIds)  BY <1>2
  <1>9. Sum(Pots(s), StakeIds) = Sum(f, StakeIds)  BY DEF f
  <1> QED BY <1>5, <1>6, <1>7, <1>8, <1>9

LEMMA SolventOne ==
  ASSUME TypeOK, TypeOK', config' = config,
         NEW x \in StakeIds, NEW a, stakes' = [stakes EXCEPT ![x] = a],
         NEW s \in Settlements, Solvent(s),
         settlements'[s].exists =>
            settlements[s].exists /\ PotOf(a, s) - PotOf(stakes[x], s) >= Due(s)' - Due(s)
  PROVE  Solvent(s)'
  <1>1. /\ Sum(Pots(s), StakeIds)' - PotOf(a, s) = Sum(Pots(s), StakeIds) - PotOf(stakes[x], s)
        /\ Sum(Pots(s), StakeIds) \in Int /\ Sum(Pots(s), StakeIds)' \in Int
        /\ PotOf(stakes[x], s) \in Int /\ PotOf(a, s) \in Int
    BY PotsOne
  <1>2. Due(s) \in Int /\ Due(s)' \in Int
    BY DEF TypeOK, Due, Settlement
  <1> QED BY <1>1, <1>2 DEF Solvent

LEMMA SolventTwo ==
  ASSUME TypeOK, TypeOK', config' = config,
         NEW x \in StakeIds, NEW y \in StakeIds, x # y, NEW a, NEW b,
         stakes' = [stakes EXCEPT ![x] = a, ![y] = b],
         NEW s \in Settlements, Solvent(s),
         settlements'[s].exists =>
            /\ settlements[s].exists
            /\ PotOf(a, s) - PotOf(stakes[x], s) + PotOf(b, s) - PotOf(stakes[y], s)
                  >= Due(s)' - Due(s)
  PROVE  Solvent(s)'
  <1>1. /\ Sum(Pots(s), StakeIds)' - PotOf(a, s) - PotOf(b, s)
              = Sum(Pots(s), StakeIds) - PotOf(stakes[x], s) - PotOf(stakes[y], s)
        /\ Sum(Pots(s), StakeIds) \in Int /\ Sum(Pots(s), StakeIds)' \in Int
        /\ PotOf(stakes[x], s) \in Int /\ PotOf(a, s) \in Int
        /\ PotOf(stakes[y], s) \in Int /\ PotOf(b, s) \in Int
    BY PotsTwo
  <1>2. Due(s) \in Int /\ Due(s)' \in Int
    BY DEF TypeOK, Due, Settlement
  <1> QED BY <1>1, <1>2 DEF Solvent

(* The changed accounts were not the settlement's, or it is gone. *)
LEMMA GainOne ==
  ASSUME TypeOK, TypeOK', config' = config,
         NEW x \in StakeIds, NEW a, stakes' = [stakes EXCEPT ![x] = a],
         NEW s \in Settlements, Solvent(s), settlements'[s] = settlements[s],
         PotOf(stakes[x], s) = 0 \/ ~settlements[s].exists
  PROVE  Solvent(s)'
  <1>1. stakes'[x] = a  BY DEF TypeOK
  <1>2. a \in StakeAccount /\ config \in Config  BY <1>1 DEF TypeOK
  <1>3. PotOf(a, s) \in Nat  BY <1>2, PotNat
  <1>4. Due(s)' = Due(s) /\ Due(s) \in Int  BY DEF TypeOK, Due, Settlement
  <1>5. settlements'[s].exists =>
           settlements[s].exists /\ PotOf(a, s) - PotOf(stakes[x], s) >= Due(s)' - Due(s)
    BY <1>3, <1>4
  <1> QED BY <1>5, SolventOne

LEMMA GainTwo ==
  ASSUME TypeOK, TypeOK', config' = config,
         NEW x \in StakeIds, NEW y \in StakeIds, x # y, NEW a, NEW b,
         stakes' = [stakes EXCEPT ![x] = a, ![y] = b],
         NEW s \in Settlements, Solvent(s), settlements'[s] = settlements[s],
         PotOf(stakes[x], s) = 0 /\ PotOf(stakes[y], s) = 0
  PROVE  Solvent(s)'
  <1>1. stakes'[x] = a /\ stakes'[y] = b  BY DEF TypeOK
  <1>2. a \in StakeAccount /\ b \in StakeAccount /\ config \in Config  BY <1>1 DEF TypeOK
  <1>3. PotOf(a, s) \in Nat /\ PotOf(b, s) \in Nat  BY <1>2, PotNat
  <1>4. Due(s)' = Due(s) /\ Due(s) \in Int  BY DEF TypeOK, Due, Settlement
  <1>5. settlements'[s].exists =>
           /\ settlements[s].exists
           /\ PotOf(a, s) - PotOf(stakes[x], s) + PotOf(b, s) - PotOf(stakes[y], s)
                 >= Due(s)' - Due(s)
    BY <1>3, <1>4
  <1> QED BY <1>5, SolventTwo

(* Steps on accounts that no open settlement holds *)
LEMMA OthersSolvent ==
  ASSUME TypeOK, TypeOK', NEW t \in Settlements, Solvent(t), NEW x \in StakeIds,
         \/ ManualDeposit(x) \/ OwnerDeactivates(x)
         \/ \E v \in Votes : FundBond(x, v) \/ ClaimWithdrawWhole(v, x)
         \/ \E s \in Settlements, v \in Votes : ResetStake(s, v, x)
         \/ \E s \in Settlements : WithdrawStake(s, x)
         \/ \E d \in Deposits : CreateStake(x, d)
  PROVE  Solvent(t)'
  <1>0. Bonds # Owner /\ Bonds \notin Settlements /\ Owner \notin Settlements
    BY AuthoritiesAssumption
  <1>1. CASE ManualDeposit(x) \/ OwnerDeactivates(x) \/ \E v \in Votes : FundBond(x, v)
    <2>1. \E a : stakes' = [stakes EXCEPT ![x] = a]
      BY <1>1 DEF ManualDeposit, OwnerDeactivates, FundBond, TypeOK
    <2>2. /\ config' = config /\ settlements' = settlements
          /\ stakes[x].withdrawer = Owner \/ stakes[x].staker = Owner
      BY <1>1 DEF ManualDeposit, OwnerDeactivates, FundBond
    <2>3. PotOf(stakes[x], t) = 0  BY <1>0, <2>2 DEF PotOf
    <2> QED BY <2>1, <2>2, <2>3, GainOne
  <1>2. CASE \E v \in Votes : ClaimWithdrawWhole(v, x)
    <2>1. /\ stakes' = [stakes EXCEPT ![x] = Released(@)]
          /\ config' = config /\ settlements' = settlements /\ stakes[x].staker = Bonds
      BY <1>2 DEF ClaimWithdrawWhole, ClaimWithdrawChecks
    <2>2. PotOf(stakes[x], t) = 0  BY <1>0, <2>1 DEF PotOf
    <2> QED BY <2>1, <2>2, GainOne
  <1>3. CASE \/ \E s \in Settlements, v \in Votes : ResetStake(s, v, x)
             \/ \E s \in Settlements : WithdrawStake(s, x)
    <2>1. PICK s \in Settlements : WithdrawStake(s, x) \/ \E v \in Votes : ResetStake(s, v, x)
      BY <1>3
    <2>2. \E a : stakes' = [stakes EXCEPT ![x] = a]
      BY <2>1 DEF ResetStake, WithdrawStake
    <2>3. /\ config' = config /\ settlements' = settlements
          /\ stakes[x].staker = s /\ ~settlements[s].exists
      BY <2>1 DEF ResetStake, WithdrawStake, IsClosed
    <2>4. PotOf(stakes[x], t) = 0 \/ ~settlements[t].exists  BY <2>3 DEF PotOf
    <2> QED BY <2>2, <2>3, <2>4, GainOne
  <1>4. CASE \E d \in Deposits : CreateStake(x, d)
    <2>1. \E a : stakes' = [stakes EXCEPT ![x] = a]
      BY <1>4 DEF CreateStake
    <2>2. config' = config /\ settlements' = settlements /\ ~Exists(stakes[x])
      BY <1>4 DEF CreateStake, Fresh
    <2>3. PotOf(stakes[x], t) = 0  BY <2>2 DEF PotOf
    <2> QED BY <2>1, <2>2, <2>3, GainOne
  <1> QED BY <1>1, <1>2, <1>3, <1>4

LEMMA WithdrawSplitSolvent ==
  ASSUME TypeOK, TypeOK', NEW t \in Settlements, Solvent(t),
         NEW v \in Votes, NEW x \in StakeIds, NEW y \in StakeIds, ClaimWithdrawSplit(v, x, y)
  PROVE  Solvent(t)'
  <1>1. /\ config' = config /\ settlements' = settlements
        /\ stakes[x].staker = Bonds /\ Exists(stakes[x]) /\ ~Exists(stakes[y])
    BY DEF ClaimWithdrawSplit, ClaimWithdrawChecks, InCustody, Fresh
  <1>2. \E a, b : stakes' = [stakes EXCEPT ![x] = a, ![y] = b]
    BY DEF ClaimWithdrawSplit
  <1>3. x # y  BY <1>1
  <1>4. PotOf(stakes[x], t) = 0 /\ PotOf(stakes[y], t) = 0
    BY <1>1, AuthoritiesAssumption DEF PotOf
  <1> QED BY <1>1, <1>2, <1>3, <1>4, GainTwo

(* A tip stays in the account; a merged account keeps only one of the two  *)
(* minimal sizes.                                                          *)
LEMMA TipSolvent ==
  ASSUME TypeOK, TypeOK', NEW t \in Settlements, Solvent(t),
         NEW x \in StakeIds, NEW amount \in Tips, Tip(x, amount)
  PROVE  Solvent(t)'
  <1> DEFINE a == [stakes[x] EXCEPT !.lamports = @ + amount]
  <1>1. config' = config /\ settlements' = settlements /\ stakes' = [stakes EXCEPT ![x] = a]
    BY DEF Tip
  <1>2. /\ amount \in Nat /\ stakes[x].lamports \in Nat /\ MinSize \in Nat
        /\ stakes[x] \in StakeAccount
    BY EnvironmentAssumption, MinSizeNat DEF TypeOK, StakeAccount
  <1>3. /\ a.lamports = stakes[x].lamports + amount /\ a.state = stakes[x].state
        /\ a.staker = stakes[x].staker /\ a.withdrawer = stakes[x].withdrawer
    BY <1>2 DEF StakeAccount
  <1> HIDE DEF a
  <1>4. PayableOf(a) \in Nat /\ PayableOf(stakes[x]) \in Nat /\ PayableOf(a) >= PayableOf(stakes[x])
    BY <1>2, <1>3 DEF PayableOf
  <1>5. PotOf(a, t) - PotOf(stakes[x], t) >= 0
    BY <1>3, <1>4 DEF PotOf, Exists
  <1>6. Due(t)' = Due(t) /\ Due(t) \in Int  BY <1>1 DEF TypeOK, Due, Settlement
  <1>7. settlements'[t].exists =>
           settlements[t].exists /\ PotOf(a, t) - PotOf(stakes[x], t) >= Due(t)' - Due(t)
    BY <1>1, <1>5, <1>6
  <1> QED BY <1>1, <1>7, SolventOne

LEMMA MergePot ==
  ASSUME TypeOK, NEW t \in Settlements, NEW src \in StakeIds, NEW dst \in StakeIds,
         InCustody(src), InCustody(dst), stakes[src].staker = stakes[dst].staker
  PROVE  PotOf(Merged(stakes[dst], stakes[src], Epoch), t) - PotOf(stakes[dst], t)
           + PotOf(NoAccount, t) - PotOf(stakes[src], t) >= 0
  <1> DEFINE a == Merged(stakes[dst], stakes[src], Epoch)
             p == stakes[src].lamports
             q == stakes[dst].lamports
  <1>2. /\ stakes[src] \in StakeAccount /\ stakes[dst] \in StakeAccount
        /\ p \in Nat /\ q \in Nat /\ MinSize \in Nat
    BY MinSizeNat DEF TypeOK, StakeAccount
  <1>3. /\ a.lamports = q + p /\ a.state = stakes[dst].state
        /\ a.staker = stakes[dst].staker /\ a.withdrawer = stakes[dst].withdrawer
    BY <1>2 DEF StakeAccount, Merged
  <1>4. PotOf(NoAccount, t) = 0  BY DEF PotOf, NoAccount, Exists
  <1> HIDE DEF a
  <1>5. PayableOf(a) - PayableOf(stakes[dst]) - PayableOf(stakes[src]) >= 0
    <2>0. a.lamports = q + p  BY <1>3
    <2>1. PayableOf(a) = IF q + p > MinSize THEN q + p - MinSize ELSE 0
      <3> HIDE DEF p, q
      <3> QED BY <1>2, <2>0 DEF PayableOf
    <2>2. PayableOf(stakes[dst]) = IF q > MinSize THEN q - MinSize ELSE 0  BY DEF PayableOf
    <2>3. PayableOf(stakes[src]) = IF p > MinSize THEN p - MinSize ELSE 0  BY DEF PayableOf
    <2> HIDE DEF p, q
    <2> QED BY <1>2, <2>1, <2>2, <2>3
  <1>6. CASE stakes[src].staker = t
    <2>1. PotOf(a, t) = PayableOf(a) /\ PotOf(stakes[dst], t) = PayableOf(stakes[dst])
      BY <1>3, <1>6 DEF PotOf, Exists, InCustody
    <2>2. PotOf(stakes[src], t) = PayableOf(stakes[src])
      BY <1>6 DEF PotOf, Exists, InCustody
    <2>3. PayableOf(a) \in Int /\ PayableOf(stakes[dst]) \in Int /\ PayableOf(stakes[src]) \in Int
      BY <1>2, <1>3 DEF PayableOf
    <2>4. PotOf(a, t) - PotOf(stakes[dst], t) + PotOf(NoAccount, t) - PotOf(stakes[src], t) >= 0
      BY <1>4, <1>5, <2>1, <2>2, <2>3
    <2> QED BY <2>4 DEF a
  <1>7. CASE stakes[src].staker # t
    <2>1. PotOf(a, t) - PotOf(stakes[dst], t) + PotOf(NoAccount, t) - PotOf(stakes[src], t) >= 0
      BY <1>3, <1>4, <1>7 DEF PotOf
    <2> QED BY <2>1 DEF a
  <1> QED BY <1>6, <1>7

LEMMA MergeSolvent ==
  ASSUME TypeOK, TypeOK', NEW t \in Settlements, Solvent(t),
         NEW src \in StakeIds, NEW dst \in StakeIds, MergeStake(src, dst)
  PROVE  Solvent(t)'
  <1> DEFINE a == Merged(stakes[dst], stakes[src], Epoch)
  <1>1. /\ config' = config /\ settlements' = settlements /\ dst # src
        /\ stakes' = [stakes EXCEPT ![dst] = a, ![src] = NoAccount]
        /\ InCustody(src) /\ InCustody(dst) /\ stakes[src].staker = stakes[dst].staker
    BY DEF MergeStake
  <1>2. PotOf(a, t) - PotOf(stakes[dst], t) + PotOf(NoAccount, t) - PotOf(stakes[src], t) >= 0
    BY <1>1, MergePot
  <1> HIDE DEF a
  <1>3. Due(t)' = Due(t) /\ Due(t) \in Int  BY <1>1 DEF TypeOK, Due, Settlement
  <1>4. settlements'[t].exists =>
           /\ settlements[t].exists
           /\ PotOf(a, t) - PotOf(stakes[dst], t) + PotOf(NoAccount, t) - PotOf(stakes[src], t)
                 >= Due(t)' - Due(t)
    BY <1>1, <1>2, <1>3
  <1> QED BY <1>1, <1>4, SolventTwo

(* Whole funding counts as funded what the account can pay. *)
LEMMA FundWholeSolvent ==
  ASSUME TypeOK, TypeOK', NEW t \in Settlements, Solvent(t),
         NEW s \in Settlements, NEW x \in StakeIds, FundWhole(s, x)
  PROVE  Solvent(t)'
  <1> DEFINE a == FundedTo(s, stakes[x])
             lam == stakes[x].lamports
  <1>1. /\ config' = config /\ stakes' = [stakes EXCEPT ![x] = a]
        /\ settlements' = [settlements EXCEPT ![s].lamports_funded = @ + (lam - MinSize)]
        /\ InCustody(x) /\ stakes[x].staker = Bonds /\ lam >= MinSize /\ settlements[s].exists
    BY DEF FundWhole, FundChecks, CoversMinSize
  <1>2. PotOf(stakes[x], t) = 0  BY <1>1, AuthoritiesAssumption DEF PotOf
  <1>3. CASE t # s
    <2>1. settlements'[t] = settlements[t]  BY <1>1, <1>3 DEF TypeOK
    <2> QED BY <1>1, <1>2, <2>1, GainOne
  <1>4. CASE t = s
    <2>1. lam \in Nat /\ MinSize \in Nat /\ stakes[x] \in StakeAccount
      BY MinSizeNat DEF TypeOK, StakeAccount
    <2>2. /\ a.lamports = lam /\ a.state = stakes[x].state
          /\ a.staker = s /\ a.withdrawer = Bonds
      BY <1>1, <2>1 DEF FundedTo, Deactivated, StakeAccount, InCustody
    <2> HIDE DEF a
    <2>3. PotOf(a, s) = PayableOf(a)  BY <1>1, <2>2 DEF PotOf, Exists, InCustody
    <2>4. PayableOf(a) = lam - MinSize
      <3> HIDE DEF lam
      <3> QED BY <1>1, <2>1, <2>2 DEF PayableOf
    <2>5. /\ settlements'[s].lamports_funded = settlements[s].lamports_funded + (lam - MinSize)
          /\ settlements'[s].lamports_claimed = settlements[s].lamports_claimed
          /\ settlements'[s].split_rent_amount = settlements[s].split_rent_amount
      BY <1>1 DEF TypeOK, Settlement
    <2>6. /\ settlements[s].lamports_funded \in Nat /\ settlements[s].lamports_claimed \in Nat
          /\ settlements[s].split_rent_amount \in Nat
      BY DEF TypeOK, Settlement
    <2>7. Due(s)' - Due(s) = lam - MinSize
      <3> HIDE DEF lam
      <3> QED BY <2>1, <2>5, <2>6 DEF Due
    <2>8. settlements'[s].exists =>
             settlements[s].exists /\ PotOf(a, s) - PotOf(stakes[x], s) >= Due(s)' - Due(s)
      BY <1>1, <1>2, <1>4, <2>1, <2>3, <2>4, <2>7
    <2> QED BY <1>1, <1>4, <2>8, SolventOne
  <1> QED BY <1>3, <1>4

(* A split leaves in the funded account what was lacking and the rent that *)
(* closing pays back, over and above the minimal size.                     *)
LEMMA SplitPot ==
  ASSUME TypeOK, NEW s \in Settlements, NEW x \in StakeIds,
         FundChecks(s, x), left_over_splittable(s, x)
  PROVE  /\ PotOf(FundedTo(s, KeptForFunding(s, x)), s) = Lacking(s) + Rent
         /\ \A t \in Settlements \ {s} : PotOf(FundedTo(s, KeptForFunding(s, x)), t) = 0
         /\ \A t \in Settlements : PotOf(SplitOff(s, x), t) = 0
         /\ Lacking(s) \in Nat
  <1> DEFINE T == lamports_to_transfer(s, x)
             F == fund_split_leftover(s, x)
             k == KeptForFunding(s, x)
             a == FundedTo(s, k)
             b == SplitOff(s, x)
             lam == stakes[x].lamports
             L == Lacking(s)
  <1>1. /\ lam \in Nat /\ MinSize \in Nat /\ stakes[x] \in StakeAccount
        /\ L \in Nat
    BY MinSizeNat DEF TypeOK, StakeAccount, Settlement, Lacking, FundChecks, NotFullyFunded
  <1>2. InCustody(x) /\ stakes[x].staker = Bonds /\ IsDelegated(stakes[x])
    BY DEF FundChecks, DelegatedTo
  <1>3. T \in Nat /\ F \in Nat  BY TransferBounds
  <1>4. F = (lam - (L + MinSize) - Rent) - T
    BY DEF fund_split_leftover, left_over, amount_needed
  <1>5. k.lamports = lam - T - F /\ k.state = stakes[x].state /\ k.withdrawer = Bonds
    <2>1. CASE F > 0
      <3>1. k = SplitSource(AfterTransfer(s, x), F)  BY <2>1 DEF KeptForFunding
      <3> HIDE DEF k, T, F
      <3>2. k.lamports = AfterTransfer(s, x).lamports - F /\ k.state = stakes[x].state
            /\ k.withdrawer = Bonds
        BY <1>1, <1>2, <3>1 DEF AfterTransfer, SplitSource, StakeAccount, InCustody
      <3>3. AfterTransfer(s, x).lamports = lam - T
        BY <1>1 DEF AfterTransfer, StakeAccount, T
      <3> QED BY <3>2, <3>3
    <2>2. CASE F = 0
      <3>1. k = AfterTransfer(s, x)  BY <2>2 DEF KeptForFunding
      <3> HIDE DEF k, F
      <3>2. k.lamports = lam - T /\ k.state = stakes[x].state /\ k.withdrawer = Bonds
        BY <1>1, <1>2, <3>1 DEF AfterTransfer, StakeAccount, InCustody
      <3> HIDE DEF lam, T
      <3> QED BY <2>2, <3>2, <1>1, <1>3
    <2> QED BY <1>3, <2>1, <2>2
  <1>6. /\ a.lamports = k.lamports /\ a.staker = s /\ a.state = k.state
        /\ a.withdrawer = k.withdrawer
    <2>1. \E d : a = [[k EXCEPT !.deact = d] EXCEPT !.staker = s]
      BY DEF FundedTo, Deactivated
    <2>2. k \in [DOMAIN stakes[x] -> {k[z] : z \in DOMAIN stakes[x]}]
      BY <1>1 DEF KeptForFunding, SplitSource, AfterTransfer, StakeAccount
    <2> QED BY <1>1, <2>1, <2>2 DEF StakeAccount
  <1>7. b.staker = Bonds
    BY <1>1, <1>2 DEF SplitOff, SplitTarget, AfterTransfer, Delegated, InitializedSplit,
       NoAccount, StakeAccount
  <1> HIDE DEF k, a, b
  <1>8. PotOf(a, s) = PayableOf(a)
    BY <1>2, <1>5, <1>6 DEF PotOf, Exists, InCustody
  <1>9. PayableOf(a) = L + Rent
    <2>1. a.lamports = lam - T - F  BY <1>5, <1>6
    <2> HIDE DEF lam, L, T, F
    <2>2. a.lamports = L + MinSize + Rent  BY <1>1, <1>3, <1>4, <2>1, RentAssumption
    <2> QED BY <1>1, <2>2, RentAssumption DEF PayableOf
  <1>10. \A t \in Settlements \ {s} : PotOf(a, t) = 0  BY <1>6 DEF PotOf
  <1>11. \A t \in Settlements : PotOf(b, t) = 0
    BY <1>7, AuthoritiesAssumption DEF PotOf
  <1> QED BY <1>1, <1>8, <1>9, <1>10, <1>11 DEF k, a, b

LEMMA FundSplitSolvent ==
  ASSUME TypeOK, TypeOK', NEW t \in Settlements, Solvent(t), NEW s \in Settlements,
         NEW x \in StakeIds, NEW y \in StakeIds, NEW payer \in Payers, FundSplit(s, x, y, payer)
  PROVE  Solvent(t)'
  <1> DEFINE a == FundedTo(s, KeptForFunding(s, x))
             b == SplitOff(s, x)
  <1>1. /\ config' = config /\ stakes' = [stakes EXCEPT ![x] = a, ![y] = b]
        /\ settlements' = [settlements EXCEPT ![s].lamports_funded = @ + Lacking(s),
                                              ![s].split_rent_collector = payer,
                                              ![s].split_rent_amount = Rent]
        /\ FundChecks(s, x) /\ left_over_splittable(s, x) /\ ~Exists(stakes[y])
    BY DEF FundSplit, Fresh
  <1>2. Exists(stakes[x]) /\ stakes[x].staker = Bonds /\ settlements[s].exists
    BY <1>1 DEF FundChecks, InCustody
  <1>3. x # y  BY <1>1, <1>2
  <1>4. PotOf(stakes[x], t) = 0 /\ PotOf(stakes[y], t) = 0
    BY <1>1, <1>2, AuthoritiesAssumption DEF PotOf
  <1>5. /\ PotOf(a, s) = Lacking(s) + Rent /\ PotOf(b, s) = 0 /\ Lacking(s) \in Nat
    BY <1>1, SplitPot
  <1> HIDE DEF a, b
  <1>6. CASE t # s
    <2>1. settlements'[t] = settlements[t]  BY <1>1, <1>6 DEF TypeOK
    <2> QED BY <1>1, <1>3, <1>4, <2>1, GainTwo
  <1>7. CASE t = s
    <2>1. /\ settlements'[s].lamports_funded = settlements[s].lamports_funded + Lacking(s)
          /\ settlements'[s].lamports_claimed = settlements[s].lamports_claimed
          /\ settlements'[s].split_rent_amount = Rent
      BY <1>1 DEF TypeOK, Settlement
    <2>2. /\ settlements[s].lamports_funded \in Nat /\ settlements[s].lamports_claimed \in Nat
          /\ settlements[s].split_rent_amount \in Nat
      BY DEF TypeOK, Settlement
    <2>3. Due(s)' - Due(s) <= Lacking(s) + Rent
      BY <1>5, <2>1, <2>2, RentAssumption DEF Due
    <2>4. Due(s) \in Int /\ Due(s)' \in Int  BY <2>1, <2>2, <1>5, RentAssumption DEF Due
    <2>5. settlements'[s].exists =>
             /\ settlements[s].exists
             /\ PotOf(a, s) - PotOf(stakes[x], s) + PotOf(b, s) - PotOf(stakes[y], s)
                   >= Due(s)' - Due(s)
      BY <1>2, <1>4, <1>5, <1>7, <2>3, <2>4, RentAssumption
    <2> QED BY <1>1, <1>3, <1>7, <2>5, SolventTwo
  <1> QED BY <1>6, <1>7

(* A claim takes no more than it pays: the account stays of minimal size,  *)
(* or it is emptied, its minimal size included.                            *)
LEMMA ClaimPot ==
  ASSUME TypeOK, NEW s \in Settlements, NEW x \in StakeIds, NEW claim \in Nat,
         InCustody(x), stakes[x].staker = s, SufficientFor(x, claim)
  PROVE  PotOf(Withdrawn(stakes[x], claim), s) >= PotOf(stakes[x], s) - claim
  <1> DEFINE a == Withdrawn(stakes[x], claim)
             lam == stakes[x].lamports
  <1>1. lam \in Nat /\ MinSize \in Nat /\ stakes[x] \in StakeAccount
    BY MinSizeNat DEF TypeOK, StakeAccount
  <1>2. PotOf(stakes[x], s) = PayableOf(stakes[x])
    BY DEF PotOf, InCustody
  <1>3. CASE claim = lam
    <2>1. a = NoAccount  BY <1>3 DEF Withdrawn
    <2>2. PotOf(a, s) = 0  BY <2>1 DEF PotOf, NoAccount, Exists
    <2>3. PayableOf(stakes[x]) <= claim /\ PayableOf(stakes[x]) \in Nat
      BY <1>1, <1>3 DEF PayableOf
    <2> HIDE DEF a
    <2>4. PotOf(a, s) >= PotOf(stakes[x], s) - claim  BY <1>2, <2>2, <2>3
    <2> QED BY <2>4 DEF a
  <1>4. CASE claim # lam
    <2>1. a.lamports = lam - claim /\ a.state = stakes[x].state
          /\ a.staker = stakes[x].staker /\ a.withdrawer = stakes[x].withdrawer
      BY <1>1, <1>4 DEF Withdrawn, StakeAccount
    <2>2. lam >= claim + MinSize  BY <1>4 DEF SufficientFor
    <2> HIDE DEF a, lam
    <2>3. PotOf(a, s) = PayableOf(a)  BY <2>1 DEF PotOf, InCustody, Exists
    <2>4. PayableOf(a) = IF lam - claim > MinSize THEN lam - claim - MinSize ELSE 0
      BY <2>1 DEF PayableOf
    <2>5. PayableOf(stakes[x]) = IF lam > MinSize THEN lam - MinSize ELSE 0
      BY DEF PayableOf, lam
    <2>6. PotOf(a, s) >= PotOf(stakes[x], s) - claim
      BY <1>1, <1>2, <2>2, <2>3, <2>4, <2>5
    <2> QED BY <2>6 DEF a
  <1> QED BY <1>3, <1>4

LEMMA ClaimSolvent ==
  ASSUME TypeOK, TypeOK', NEW t \in Settlements, Solvent(t), NEW s \in Settlements,
         NEW x \in StakeIds, NEW i \in DOMAIN Tree[s], ClaimSettlementV2(s, i, x)
  PROVE  Solvent(t)'
  <1> DEFINE claim == Tree[s][i]
             a == Withdrawn(stakes[x], claim)
  <1>1. /\ config' = config /\ stakes' = [stakes EXCEPT ![x] = a]
        /\ settlements' = [settlements EXCEPT ![s].lamports_claimed = @ + claim,
                                              ![s].merkle_nodes_claimed = @ + 1]
        /\ settlements[s].exists /\ InCustody(x) /\ stakes[x].staker = s
        /\ SufficientFor(x, claim)
    BY DEF ClaimSettlementV2
  <1>2. claim \in Nat  BY TreeAssumption
  <1>3. CASE t # s
    <2>1. settlements'[t] = settlements[t] /\ PotOf(stakes[x], t) = 0
      BY <1>1, <1>3 DEF TypeOK, PotOf
    <2> QED BY <1>1, <2>1, GainOne
  <1>4. CASE t = s
    <2> HIDE DEF claim
    <2>1. PotOf(a, s) >= PotOf(stakes[x], s) - claim
      BY <1>1, <1>2, ClaimPot
    <2>2. PotOf(a, s) \in Nat /\ PotOf(stakes[x], s) \in Nat
      <3>1. a \in StakeAccount /\ stakes[x] \in StakeAccount /\ config \in Config
        BY <1>1 DEF TypeOK
      <3> HIDE DEF a
      <3> QED BY <3>1, PotNat
    <2>3. /\ settlements'[s].lamports_claimed = settlements[s].lamports_claimed + claim
          /\ settlements'[s].lamports_funded = settlements[s].lamports_funded
          /\ settlements'[s].split_rent_amount = settlements[s].split_rent_amount
      BY <1>1 DEF TypeOK, Settlement
    <2>4. /\ settlements[s].lamports_funded \in Nat /\ settlements[s].lamports_claimed \in Nat
          /\ settlements[s].split_rent_amount \in Nat
      BY DEF TypeOK, Settlement
    <2> HIDE DEF a
    <2>5. Due(s)' - Due(s) = - claim  BY <1>2, <2>3, <2>4 DEF Due
    <2>6. settlements'[s].exists =>
             settlements[s].exists /\ PotOf(a, s) - PotOf(stakes[x], s) >= Due(s)' - Due(s)
      BY <1>1, <1>2, <2>1, <2>2, <2>5
    <2> QED BY <1>1, <1>4, <2>6, SolventOne
  <1> QED BY <1>3, <1>4

LEMMA SameMinimum ==
  ASSUME TypeOK, config' = config
  PROVE  config'.minimum_stake_lamports <= config.minimum_stake_lamports
  <1>1. config.minimum_stake_lamports \in Nat  BY ConfigAssumption DEF TypeOK, Config
  <1> QED BY <1>1

(* What a refund of the split rent must not do: take the lamports from an  *)
(* account of another open settlement.  The code does not see to it, see   *)
(* the run refund.                                                         *)
RefundSparesOthers ==
    \A s \in Settlements :
       settlements[s].exists /\ ~settlements'[s].exists =>
          \A x \in StakeIds : stakes'[x].lamports < stakes[x].lamports =>
             \A t \in Settlements \ {s} : settlements[t].exists => stakes[x].staker # t

LEMMA EndSolvent ==
  ASSUME TypeOK, TypeOK', RefundSparesOthers, NEW t \in Settlements, Solvent(t),
         NEW s \in Settlements,
         CloseSettlementV2(s) \/ \E receiver \in Payers : CancelSettlement(s, receiver)
  PROVE  Solvent(t)'
  <1> DEFINE amount == settlements[s].split_rent_amount
  <1>1. /\ config' = config /\ settlements' = [settlements EXCEPT ![s] = NoSettlement]
        /\ settlements[s].exists
        /\ \E receiver : RefundSplitRent(s, receiver)
    BY DEF CloseSettlementV2, CancelSettlement, RemoveSettlement
  <1>2. /\ ~settlements'[s].exists
        /\ \A z \in Settlements \ {s} : settlements'[z] = settlements[z]
    BY <1>1 DEF TypeOK, NoSettlement
  <1>3. CASE t = s  BY <1>2, <1>3 DEF Solvent
  <1>4. CASE t # s
    <2>1. settlements'[t] = settlements[t]  BY <1>2, <1>4
    <2>2. Due(t)' = Due(t) /\ Due(t) \in Int  BY <2>1 DEF TypeOK, Due, Settlement
    <2>3. CASE stakes' = stakes
      <3>1. config'.minimum_stake_lamports <= config.minimum_stake_lamports
        BY <1>1, SameMinimum
      <3> QED BY <2>1, <2>2, <2>3, <3>1, SolventNone
    <2>4. CASE stakes' # stakes
      <3>1. PICK x \in StakeIds : stakes' = [stakes EXCEPT ![x] = Withdrawn(@, amount)]
        BY <1>1, <2>4 DEF RefundSplitRent
      <3> DEFINE a == Withdrawn(stakes[x], amount)
      <3>2. stakes' = [stakes EXCEPT ![x] = a] /\ stakes'[x] = a  BY <3>1 DEF TypeOK
      <3>3. CASE PotOf(stakes[x], t) = 0 \/ ~settlements[t].exists
        <4> HIDE DEF a
        <4> QED BY <1>1, <2>1, <3>2, <3>3, GainOne
      <3>4. CASE PotOf(stakes[x], t) # 0 /\ settlements[t].exists
        <4>1. stakes[x].staker = t  BY <3>4 DEF PotOf
        <4>2. ~(stakes'[x].lamports < stakes[x].lamports)
          BY <1>1, <1>2, <1>4, <3>4, <4>1 DEF RefundSparesOthers
        <4>3. amount \in Nat /\ stakes[x].lamports \in Nat /\ stakes[x] \in StakeAccount
          BY DEF TypeOK, Settlement, StakeAccount
        <4>4. amount # stakes[x].lamports
          <5>1. SUFFICES ASSUME amount = stakes[x].lamports PROVE FALSE
            OBVIOUS
          <5>2. a = NoAccount  BY <5>1 DEF Withdrawn
          <5>3. stakes[x].lamports = 0  BY <3>2, <4>2, <4>3, <5>2 DEF NoAccount
          <5>4. MinSize \in Nat  BY MinSizeNat DEF TypeOK
          <5> QED BY <3>4, <5>3, <5>4 DEF PotOf, PayableOf
        <4>5. a = [stakes[x] EXCEPT !.lamports = @ - amount]
          BY <4>4 DEF Withdrawn
        <4>6. a.lamports = stakes[x].lamports - amount
          BY <4>3, <4>5 DEF StakeAccount
        <4>7. amount = 0
          <5> HIDE DEF amount, a
          <5> QED BY <3>2, <4>2, <4>3, <4>6
        <4>8. a = stakes[x]
          BY <4>3, <4>5, <4>7 DEF StakeAccount
        <4>9. stakes' = stakes  BY <3>2, <4>8 DEF TypeOK
        <4> QED BY <2>4, <4>9
      <3> QED BY <3>3, <3>4
    <2> QED BY <2>3, <2>4
  <1> QED BY <1>3, <1>4

LEMMA InitSolvent ==
  ASSUME TypeOK, TypeOK', NEW t \in Settlements, Solvent(t), NEW s \in Settlements,
         \E total \in MaxTotals, nodes \in MaxNodes : InitSettlement(s, total, nodes)
  PROVE  Solvent(t)'
  <1>1. PICK total \in MaxTotals, nodes \in MaxNodes : InitSettlement(s, total, nodes)
    OBVIOUS
  <1> DEFINE n == [NoSettlement EXCEPT !.exists = TRUE, !.max_total_claim = total,
                                       !.max_merkle_nodes = nodes, !.slot_created_at = slot]
  <1>2. /\ config' = config /\ stakes' = stakes
        /\ settlements' = [settlements EXCEPT ![s] = n]
    BY <1>1 DEF InitSettlement
  <1>3. n.lamports_funded = 0 /\ n.lamports_claimed = 0 /\ n.split_rent_amount = 0
    BY DEF NoSettlement
  <1> HIDE DEF n
  <1>4. CASE t = s
    <2>1. settlements'[s] = n  BY <1>2 DEF TypeOK
    <2>2. Due(s)' = 0  BY <1>3, <2>1 DEF Due
    <2>3. PotsAreFunds'  BY PotsSum, PTL
    <2>4. Sum(Pots(s), StakeIds)' \in Nat  BY <2>3 DEF PotsAreFunds
    <2> QED BY <1>4, <2>2, <2>4 DEF Solvent
  <1>5. CASE t # s
    <2>1. settlements'[t] = settlements[t]  BY <1>2, <1>5 DEF TypeOK
    <2>2. Due(t)' = Due(t) /\ Due(t) \in Int  BY <2>1 DEF TypeOK, Due, Settlement
    <2>3. config'.minimum_stake_lamports <= config.minimum_stake_lamports
      BY <1>2, SameMinimum
    <2> QED BY <1>2, <2>1, <2>2, <2>3, SolventNone
  <1> QED BY <1>4, <1>5

(* Steps that leave the stake accounts and the settlements alone; only     *)
(* configure_config has to be told not to raise the minimum stake.         *)
LEMMA RestSolvent ==
  ASSUME TypeOK, TypeOK', NEW t \in Settlements, Solvent(t),
         config'.minimum_stake_lamports <= config.minimum_stake_lamports,
         \/ UNCHANGED vars
         \/ Tick \/ EmergencyPause \/ EmergencyResume
         \/ \E c \in Config : ConfigureConfig(c)
         \/ \E v \in Votes :
               \/ CloseVoteAccount(v) \/ CancelWithdrawRequest(v)
               \/ \E amount \in Amounts : InitWithdrawRequest(v, amount)
         \/ \E s \in Settlements : UpsizeSettlementClaims(s)
  PROVE  Solvent(t)'
  <1>1. stakes' = stakes /\ settlements' = settlements
    BY DEF vars, Tick, EmergencyPause, EmergencyResume, ConfigureConfig, CloseVoteAccount,
       CancelWithdrawRequest, InitWithdrawRequest, UpsizeSettlementClaims
  <1>2. Due(t)' = Due(t) /\ Due(t) \in Int  BY <1>1 DEF TypeOK, Due, Settlement
  <1> QED BY <1>1, <1>2, SolventNone

LEMMA SettlementStepSolvent ==
  ASSUME TypeOK, TypeOK', RefundSparesOthers, NEW t \in Settlements, Solvent(t),
         NEW s \in Settlements, SettlementStep(s)
  PROVE  Solvent(t)'
  <1>1. CASE \E total \in MaxTotals, nodes \in MaxNodes : InitSettlement(s, total, nodes)
    BY <1>1, InitSolvent
  <1>2. CASE CloseSettlementV2(s) \/ \E receiver \in Payers : CancelSettlement(s, receiver)
    BY <1>2, EndSolvent
  <1>3. CASE \E x \in StakeIds : FundWhole(s, x)
    BY <1>3, FundWholeSolvent
  <1>4. CASE \E x, y \in StakeIds, payer \in Payers : FundSplit(s, x, y, payer)
    BY <1>4, FundSplitSolvent
  <1>5. CASE \E x \in StakeIds : \E i \in DOMAIN Tree[s] : ClaimSettlementV2(s, i, x)
    BY <1>5, ClaimSolvent
  <1> QED BY <1>1, <1>2, <1>3, <1>4, <1>5 DEF SettlementStep

LEMMA OtherStepSolvent ==
  ASSUME TypeOK, TypeOK', NEW t \in Settlements, Solvent(t),
         config'.minimum_stake_lamports <= config.minimum_stake_lamports, OtherStep
  PROVE  Solvent(t)'
  <1>1. CASE \/ Tick \/ EmergencyPause \/ EmergencyResume
             \/ \E c \in Config : ConfigureConfig(c)
             \/ \E v \in Votes :
                   \/ CloseVoteAccount(v) \/ CancelWithdrawRequest(v)
                   \/ \E amount \in Amounts : InitWithdrawRequest(v, amount)
    BY <1>1, RestSolvent
  <1>2. ASSUME NEW v \in Votes, NEW x \in StakeIds,
               \/ FundBond(x, v) \/ ClaimWithdrawWhole(v, x)
               \/ \E y \in StakeIds : ClaimWithdrawSplit(v, x, y)
        PROVE  Solvent(t)'
    <2>1. CASE FundBond(x, v) \/ ClaimWithdrawWhole(v, x)
      BY <2>1, OthersSolvent
    <2>2. CASE \E y \in StakeIds : ClaimWithdrawSplit(v, x, y)
      BY <2>2, WithdrawSplitSolvent
    <2> QED BY <1>2, <2>1, <2>2
  <1>3. ASSUME NEW s \in Settlements, NEW x \in StakeIds,
               (\E v \in Votes : ResetStake(s, v, x)) \/ WithdrawStake(s, x)
        PROVE  Solvent(t)'
    BY <1>3, OthersSolvent
  <1>4. ASSUME NEW x \in StakeIds,
               \/ \E d \in Deposits : CreateStake(x, d)
               \/ \E amount \in Tips : Tip(x, amount)
               \/ \E y \in StakeIds : MergeStake(x, y)
               \/ OwnerDeactivates(x) \/ ManualDeposit(x)
        PROVE  Solvent(t)'
    <2>1. CASE (\E d \in Deposits : CreateStake(x, d)) \/ OwnerDeactivates(x) \/ ManualDeposit(x)
      BY <2>1, OthersSolvent
    <2>2. CASE \E amount \in Tips : Tip(x, amount)
      BY <2>2, TipSolvent
    <2>3. CASE \E y \in StakeIds : MergeStake(x, y)
      BY <2>3, MergeSolvent
    <2> QED BY <1>4, <2>1, <2>2, <2>3
  <1> QED BY <1>1, <1>2, <1>3, <1>4 DEF OtherStep

AllSolvent == \A t \in Settlements : Solvent(t)

MinimumNotRaised == config'.minimum_stake_lamports <= config.minimum_stake_lamports

LEMMA NextSolvent ==
  ASSUME TypeOK, TypeOK', AllSolvent, [Next]_vars, MinimumNotRaised, RefundSparesOthers
  PROVE  AllSolvent'
  <1> SUFFICES ASSUME NEW t \in Settlements PROVE Solvent(t)'
    BY DEF AllSolvent
  <1>1. Solvent(t)  BY DEF AllSolvent
  <1>2. config'.minimum_stake_lamports <= config.minimum_stake_lamports
    BY DEF MinimumNotRaised
  <1>3. CASE UNCHANGED vars  BY <1>1, <1>2, <1>3, RestSolvent
  <1>4. CASE OtherStep  BY <1>1, <1>2, <1>4, OtherStepSolvent
  <1>5. ASSUME NEW s \in Settlements, UpsizeSettlementClaims(s) PROVE Solvent(t)'
    BY <1>1, <1>2, <1>5, RestSolvent
  <1>6. ASSUME NEW s \in Settlements, SettlementStep(s) PROVE Solvent(t)'
    BY <1>1, <1>6, SettlementStepSolvent
  <1> QED BY <1>3, <1>4, <1>5, <1>6, StepIs

LEMMA InitAllSolvent == Init => AllSolvent
  BY DEF Init, AllSolvent, Solvent, NoSettlement

LEMMA AllSolventMeans == TypeOK /\ AllSolvent => SettlementSolvent
  <1> SUFFICES ASSUME TypeOK, AllSolvent, NEW s \in Settlements, settlements[s].exists
               PROVE  MapThenSumSet(Payable, FundedStakes(s))
                        >= settlements[s].lamports_funded - settlements[s].lamports_claimed
                             + settlements[s].split_rent_amount
    BY DEF SettlementSolvent
  <1>1. MapThenSumSet(Payable, FundedStakes(s)) = Sum(Pots(s), StakeIds)
    BY PotsSum DEF PotsAreFunds
  <1>2. Sum(Pots(s), StakeIds) >= Due(s)  BY DEF AllSolvent, Solvent
  <1> QED BY <1>1, <1>2 DEF Due

(* In every behaviour in which the minimum stake is not raised and no      *)
(* refund of split rent is taken from the accounts of another open         *)
(* settlement, the accounts funded to a settlement can pay all that was    *)
(* counted as funded and is not claimed yet, and the split rent.           *)
THEOREM SettlementsAreSolvent ==
    Spec /\ [][MinimumNotRaised /\ RefundSparesOthers]_vars => []SettlementSolvent
  <1>1. TypeOK /\ TypeOK' /\ AllSolvent /\ [Next]_vars
          /\ [MinimumNotRaised /\ RefundSparesOthers]_vars => AllSolvent'
    <2> SUFFICES ASSUME TypeOK, TypeOK', AllSolvent, [Next]_vars,
                        [MinimumNotRaised /\ RefundSparesOthers]_vars
                 PROVE  AllSolvent'
      OBVIOUS
    <2>1. CASE MinimumNotRaised /\ RefundSparesOthers  BY <2>1, NextSolvent
    <2>2. CASE UNCHANGED vars
      <3>1. config' = config  BY <2>2 DEF vars
      <3>2. MinimumNotRaised  BY <3>1, SameMinimum DEF MinimumNotRaised
      <3>3. \A t \in Settlements : Solvent(t) => Solvent(t)'
        BY <2>2, <3>2, RestSolvent DEF MinimumNotRaised
      <3> QED BY <3>3 DEF AllSolvent
    <2> QED BY <2>1, <2>2
  <1> QED BY <1>1, InitAllSolvent, AllSolventMeans, TypeCorrect, PTL DEF Spec

(* The same of the refund the comment at close_settlement.rs:82-83         *)
(* describes, paid by an account funded to the settlement that ends.       *)
THEOREM SolventIfRefundIsOwn ==
    Spec /\ [][MinimumNotRaised]_vars /\ RefundFromOwnFunds => []SettlementSolvent
  <1> DEFINE Own == \A s \in Settlements :
                       settlements[s].exists /\ ~settlements'[s].exists =>
                          \A x \in StakeIds : stakes'[x].lamports < stakes[x].lamports
                                                 => stakes[x].staker = s
  <1>1. Own => RefundSparesOthers  BY DEF RefundSparesOthers
  <1>2. RefundFromOwnFunds <=> [][Own]_vars  BY DEF RefundFromOwnFunds
  <1>3. [MinimumNotRaised]_vars /\ [Own]_vars => [MinimumNotRaised /\ RefundSparesOthers]_vars
    BY <1>1
  <1> HIDE DEF Own
  <1> QED BY <1>2, <1>3, SettlementsAreSolvent, PTL

-----------------------------------------------------------------------------
(* Who holds a stake account, and for whom *)

(* Account a, the same account b afterwards, authorities untouched *)
SameHolder(a, b) ==
    /\ Exists(b) /\ b.staker = a.staker /\ b.withdrawer = a.withdrawer
    /\ IsDelegated(a) => b.voter = a.voter

Deposited(a, b) ==
    /\ a.withdrawer = Owner
    /\ Exists(b) /\ b.staker = Bonds /\ b.withdrawer = Bonds
    /\ IsDelegated(a) => b.voter = a.voter

WithdrawnByOwner(a, b) ==
    /\ a.withdrawer = Bonds /\ a.staker = Bonds
    /\ Exists(b) /\ b.withdrawer = Owner

FundedToOpen(a, b) ==
    /\ a.withdrawer = Bonds /\ a.staker = Bonds
    /\ Exists(b) /\ b.withdrawer = Bonds
    /\ b.staker \in {s \in Settlements : settlements[s].exists}
    /\ b.voter = a.voter

ResetFromClosed(a, b) ==
    /\ a.withdrawer = Bonds
    /\ a.staker \in Settlements /\ ~settlements[a.staker].exists
    /\ Exists(b) /\ b.staker = Bonds /\ b.withdrawer = Bonds
    /\ b.voter = a.voter

(* What any step may do to a stake account *)
Change(a, b) ==
    \/ ~Exists(a) \/ b = NoAccount
    \/ SameHolder(a, b) \/ Deposited(a, b) \/ WithdrawnByOwner(a, b)
    \/ FundedToOpen(a, b) \/ ResetFromClosed(a, b)

Changes == \A z \in StakeIds : Change(stakes[z], stakes'[z])

-----------------------------------------------------------------------------
LEMMA UnchangedAccount ==
  ASSUME NEW a PROVE Change(a, a)
  BY DEF Change, SameHolder

LEMMA ChangeOne ==
  ASSUME TypeOK, NEW x \in StakeIds, NEW a, stakes' = [stakes EXCEPT ![x] = a],
         Change(stakes[x], a)
  PROVE  Changes
  <1> SUFFICES ASSUME NEW z \in StakeIds PROVE Change(stakes[z], stakes'[z])
    BY DEF Changes
  <1>1. stakes'[z] = IF z = x THEN a ELSE stakes[z]  BY DEF TypeOK
  <1> QED BY <1>1, UnchangedAccount

LEMMA ChangeTwo ==
  ASSUME TypeOK, NEW x \in StakeIds, NEW y \in StakeIds, x # y, NEW a, NEW b,
         stakes' = [stakes EXCEPT ![x] = a, ![y] = b],
         Change(stakes[x], a), Change(stakes[y], b)
  PROVE  Changes
  <1> SUFFICES ASSUME NEW z \in StakeIds PROVE Change(stakes[z], stakes'[z])
    BY DEF Changes
  <1>1. stakes'[z] = IF z = y THEN b ELSE IF z = x THEN a ELSE stakes[z]
    BY DEF TypeOK
  <1> QED BY <1>1, UnchangedAccount

LEMMA ChangeNone ==
  ASSUME stakes' = stakes PROVE Changes
  BY UnchangedAccount DEF Changes

LEMMA WithdrawnChange ==
  ASSUME NEW acc \in StakeAccount, NEW amount
  PROVE  Change(acc, Withdrawn(acc, amount))
  <1>1. CASE amount = acc.lamports  BY <1>1 DEF Withdrawn, Change
  <1>2. CASE amount # acc.lamports
    <2> DEFINE b == [acc EXCEPT !.lamports = @ - amount]
    <2>1. /\ b.state = acc.state /\ b.staker = acc.staker
          /\ b.withdrawer = acc.withdrawer /\ b.voter = acc.voter
      BY DEF StakeAccount
    <2>2. Withdrawn(acc, amount) = b  BY <1>2 DEF Withdrawn
    <2> HIDE DEF b
    <2> QED BY <2>1, <2>2 DEF Change, SameHolder, Exists
  <1> QED BY <1>1, <1>2

(* What the other operations keep of an account *)
LEMMA DeactivatedKeeps ==
  ASSUME NEW acc \in StakeAccount, NEW e
  PROVE  /\ Deactivated(acc, e).state = acc.state
         /\ Deactivated(acc, e).staker = acc.staker
         /\ Deactivated(acc, e).withdrawer = acc.withdrawer
         /\ Deactivated(acc, e).voter = acc.voter
  BY DEF Deactivated, StakeAccount

LEMMA FundedKeeps ==
  ASSUME NEW acc \in StakeAccount, NEW s, slot \in Nat
  PROVE  /\ FundedTo(s, acc).state = acc.state
         /\ FundedTo(s, acc).staker = s
         /\ FundedTo(s, acc).withdrawer = acc.withdrawer
         /\ FundedTo(s, acc).voter = acc.voter
  <1> DEFINE d == Deactivated(acc, Epoch)
  <1>1. /\ d \in StakeAccount /\ d.state = acc.state
        /\ d.withdrawer = acc.withdrawer /\ d.voter = acc.voter
    BY DeactivatedType, DeactivatedKeeps, EpochNat
  <1>2. FundedTo(s, acc) = [d EXCEPT !.staker = s]  BY DEF FundedTo
  <1> HIDE DEF d
  <1> QED BY <1>1, <1>2 DEF StakeAccount

LEMMA KeptKeeps ==
  ASSUME TypeOK, NEW s \in Settlements, NEW x \in StakeIds
  PROVE  /\ KeptForFunding(s, x).state = stakes[x].state
         /\ KeptForFunding(s, x).staker = stakes[x].staker
         /\ KeptForFunding(s, x).withdrawer = stakes[x].withdrawer
         /\ KeptForFunding(s, x).voter = stakes[x].voter
  BY DEF TypeOK, StakeAccount, KeptForFunding, AfterTransfer, SplitSource

LEMMA DelegatedKeeps ==
  ASSUME NEW acc \in StakeAccount, NEW v, NEW e, IsDelegated(acc), acc.voter = v
  PROVE  /\ IsDelegated(Delegated(acc, v, e))
         /\ Delegated(acc, v, e).staker = acc.staker
         /\ Delegated(acc, v, e).withdrawer = acc.withdrawer
         /\ Delegated(acc, v, e).voter = v
  BY DEF Delegated, StakeAccount, IsDelegated

-----------------------------------------------------------------------------
(* Every instruction is a Change of the accounts. *)
LEMMA BondChanges ==
  ASSUME TypeOK, NEW x \in StakeIds, NEW v \in Votes,
         \/ FundBond(x, v) \/ ManualDeposit(x)
         \/ ClaimWithdrawWhole(v, x)
         \/ \E y \in StakeIds : ClaimWithdrawSplit(v, x, y)
  PROVE  Changes
  <1> stakes[x] \in StakeAccount  BY DEF TypeOK
  <1>1. CASE FundBond(x, v) \/ ManualDeposit(x)
    <2> DEFINE a == [stakes[x] EXCEPT !.staker = Bonds, !.withdrawer = Bonds]
    <2>1. /\ stakes' = [stakes EXCEPT ![x] = a]
          /\ Exists(stakes[x]) /\ stakes[x].withdrawer = Owner
      BY <1>1 DEF FundBond, ManualDeposit, TypeOK
    <2>2. /\ a.state = stakes[x].state /\ a.staker = Bonds /\ a.withdrawer = Bonds
          /\ a.voter = stakes[x].voter
      BY DEF StakeAccount
    <2> HIDE DEF a
    <2>3. Change(stakes[x], a)  BY <2>1, <2>2 DEF Change, Deposited, Exists
    <2> QED BY <2>1, <2>3, ChangeOne
  <1>2. CASE ClaimWithdrawWhole(v, x)
    <2> DEFINE a == Released(stakes[x])
    <2>1. /\ stakes' = [stakes EXCEPT ![x] = a]
          /\ Exists(stakes[x]) /\ stakes[x].withdrawer = Bonds /\ stakes[x].staker = Bonds
      BY <1>2 DEF ClaimWithdrawWhole, ClaimWithdrawChecks, InCustody
    <2>2. a.state = stakes[x].state /\ a.withdrawer = Owner
      BY DEF StakeAccount, Released
    <2> HIDE DEF a
    <2>3. Change(stakes[x], a)  BY <2>1, <2>2 DEF Change, WithdrawnByOwner, Exists
    <2> QED BY <2>1, <2>3, ChangeOne
  <1>3. CASE \E y \in StakeIds : ClaimWithdrawSplit(v, x, y)
    <2>1. PICK y \in StakeIds : ClaimWithdrawSplit(v, x, y)  BY <1>3
    <2> DEFINE leftover == stakes[x].lamports - amount_to_fulfill_withdraw(v)
               a == Released(SplitSource(stakes[x], leftover))
               b == SplitTarget(stakes[x], leftover, Rent)
    <2>2. /\ stakes' = [stakes EXCEPT ![x] = a, ![y] = b]
          /\ Exists(stakes[x]) /\ stakes[x].withdrawer = Bonds /\ stakes[x].staker = Bonds
          /\ ~Exists(stakes[y])
      BY <2>1 DEF ClaimWithdrawSplit, ClaimWithdrawChecks, InCustody, Fresh
    <2>3. a.state = stakes[x].state /\ a.withdrawer = Owner
      BY DEF StakeAccount, Released, SplitSource
    <2> HIDE DEF a, b
    <2>4. Change(stakes[x], a)  BY <2>2, <2>3 DEF Change, WithdrawnByOwner, Exists
    <2>5. Change(stakes[y], b)  BY <2>2 DEF Change
    <2> QED BY <2>2, <2>4, <2>5, ChangeTwo
  <1> QED BY <1>1, <1>2, <1>3

LEMMA SettlementChanges ==
  ASSUME TypeOK, NEW s \in Settlements, NEW x \in StakeIds,
         \/ FundWhole(s, x)
         \/ \E y \in StakeIds, payer \in Payers : FundSplit(s, x, y, payer)
         \/ \E i \in DOMAIN Tree[s] : ClaimSettlementV2(s, i, x)
         \/ \E v \in Votes : ResetStake(s, v, x)
         \/ WithdrawStake(s, x)
  PROVE  Changes
  <1> stakes[x] \in StakeAccount /\ slot \in Nat  BY DEF TypeOK
  <1>1. CASE FundWhole(s, x)
    <2> DEFINE a == FundedTo(s, stakes[x])
    <2>1. /\ stakes' = [stakes EXCEPT ![x] = a] /\ settlements[s].exists
          /\ Exists(stakes[x]) /\ stakes[x].withdrawer = Bonds /\ stakes[x].staker = Bonds
      BY <1>1 DEF FundWhole, FundChecks, InCustody
    <2>2. /\ a.state = stakes[x].state /\ a.staker = s
          /\ a.withdrawer = stakes[x].withdrawer /\ a.voter = stakes[x].voter
      BY FundedKeeps
    <2> HIDE DEF a
    <2>3. Change(stakes[x], a)  BY <2>1, <2>2 DEF Change, FundedToOpen, Exists
    <2> QED BY <2>1, <2>3, ChangeOne
  <1>2. CASE \E y \in StakeIds, payer \in Payers : FundSplit(s, x, y, payer)
    <2>1. PICK y \in StakeIds, payer \in Payers : FundSplit(s, x, y, payer)
      BY <1>2
    <2> DEFINE k == KeptForFunding(s, x)
               a == FundedTo(s, k)
               b == SplitOff(s, x)
    <2>2. /\ stakes' = [stakes EXCEPT ![x] = a, ![y] = b]
          /\ settlements[s].exists
          /\ Exists(stakes[x]) /\ stakes[x].withdrawer = Bonds /\ stakes[x].staker = Bonds
          /\ ~Exists(stakes[y])
      BY <2>1 DEF FundSplit, FundChecks, InCustody, Fresh
    <2>3. k \in StakeAccount
      BY <2>1, SplitAccountsType DEF FundSplit
    <2>4. /\ k.state = stakes[x].state
          /\ k.withdrawer = stakes[x].withdrawer /\ k.voter = stakes[x].voter
      BY KeptKeeps
    <2> HIDE DEF k, b
    <2>5. /\ a.state = k.state /\ a.staker = s
          /\ a.withdrawer = k.withdrawer /\ a.voter = k.voter
      BY <2>3, FundedKeeps
    <2> HIDE DEF a
    <2>6. Change(stakes[x], a)
      BY <2>2, <2>4, <2>5 DEF Change, FundedToOpen, Exists
    <2>7. Change(stakes[y], b)  BY <2>2 DEF Change
    <2> QED BY <2>2, <2>6, <2>7, ChangeTwo
  <1>3. CASE \E i \in DOMAIN Tree[s] : ClaimSettlementV2(s, i, x)
    BY <1>3, WithdrawnChange, ChangeOne DEF ClaimSettlementV2
  <1>4. CASE \E v \in Votes : ResetStake(s, v, x)
    <2>1. PICK v \in Votes : ResetStake(s, v, x)  BY <1>4
    <2> DEFINE reset == [stakes[x] EXCEPT !.staker = Bonds]
               a == IF voteLive[v] THEN Delegated(reset, v, Epoch) ELSE reset
    <2>2. /\ stakes' = [stakes EXCEPT ![x] = a]
          /\ ~settlements[s].exists /\ stakes[x].staker = s
          /\ stakes[x].withdrawer = Bonds
          /\ IsDelegated(stakes[x]) /\ stakes[x].voter = v
      BY <2>1 DEF ResetStake, IsClosed, InCustody, DelegatedTo
    <2>3. /\ reset \in StakeAccount /\ IsDelegated(reset) /\ reset.voter = v
          /\ reset.staker = Bonds /\ reset.withdrawer = Bonds
      BY <2>2 DEF StakeAccount, IsDelegated
    <2> HIDE DEF reset
    <2>4. /\ IsDelegated(a) /\ a.staker = Bonds /\ a.withdrawer = Bonds /\ a.voter = v
      BY <2>3, DelegatedKeeps
    <2> HIDE DEF a
    <2>5. Change(stakes[x], a)
      BY <2>2, <2>4 DEF Change, ResetFromClosed, Exists, IsDelegated
    <2> QED BY <2>2, <2>5, ChangeOne
  <1>5. CASE WithdrawStake(s, x)
    BY <1>5, WithdrawnChange, ChangeOne DEF WithdrawStake
  <1> QED BY <1>1, <1>2, <1>3, <1>4, <1>5

LEMMA RefundChanges ==
  ASSUME TypeOK, NEW s \in Settlements, NEW receiver, RefundSplitRent(s, receiver)
  PROVE  \/ stakes' = stakes
         \/ \E x \in StakeIds, amount \in Nat :
               stakes' = [stakes EXCEPT ![x] = Withdrawn(@, amount)]
  <1>1. settlements[s].split_rent_amount \in Nat  BY DEF TypeOK, Settlement
  <1> QED BY <1>1 DEF RefundSplitRent

LEMMA OtherChanges ==
  ASSUME TypeOK, NEW x \in StakeIds,
         \/ \E y \in StakeIds : MergeStake(x, y)
         \/ OwnerDeactivates(x)
         \/ \E amount \in Tips : Tip(x, amount)
         \/ \E d \in Deposits : CreateStake(x, d)
  PROVE  Changes
  <1> stakes[x] \in StakeAccount  BY DEF TypeOK
  <1>1. CASE \E y \in StakeIds : MergeStake(x, y)
    <2>1. PICK y \in StakeIds : MergeStake(x, y)  BY <1>1
    <2> DEFINE a == Merged(stakes[y], stakes[x], Epoch)
    <2>2. /\ stakes' = [stakes EXCEPT ![y] = a, ![x] = NoAccount] /\ x # y
      BY <2>1 DEF MergeStake
    <2>3. /\ a.state = stakes[y].state /\ a.staker = stakes[y].staker
          /\ a.withdrawer = stakes[y].withdrawer /\ a.voter = stakes[y].voter
      BY DEF Merged, TypeOK, StakeAccount
    <2> HIDE DEF a
    <2>4. Change(stakes[y], a)  BY <2>3 DEF Change, SameHolder, Exists
    <2>5. Change(stakes[x], NoAccount)  BY DEF Change
    <2> QED BY <2>2, <2>4, <2>5, ChangeTwo
  <1>2. CASE OwnerDeactivates(x)
    <2> DEFINE a == Deactivated(stakes[x], Epoch)
    <2>1. stakes' = [stakes EXCEPT ![x] = a]  BY <1>2 DEF OwnerDeactivates
    <2>2. /\ a.state = stakes[x].state /\ a.staker = stakes[x].staker
          /\ a.withdrawer = stakes[x].withdrawer /\ a.voter = stakes[x].voter
      BY DeactivatedKeeps
    <2> HIDE DEF a
    <2>3. Change(stakes[x], a)  BY <2>2 DEF Change, SameHolder, Exists
    <2> QED BY <2>1, <2>3, ChangeOne
  <1>3. CASE \E amount \in Tips : Tip(x, amount)
    <2>1. PICK amount \in Tips : Tip(x, amount)  BY <1>3
    <2> DEFINE a == [stakes[x] EXCEPT !.lamports = @ + amount]
    <2>2. stakes' = [stakes EXCEPT ![x] = a]  BY <2>1 DEF Tip, TypeOK
    <2>3. /\ a.state = stakes[x].state /\ a.staker = stakes[x].staker
          /\ a.withdrawer = stakes[x].withdrawer /\ a.voter = stakes[x].voter
      BY DEF StakeAccount
    <2> HIDE DEF a
    <2>4. Change(stakes[x], a)  BY <2>3 DEF Change, SameHolder, Exists
    <2> QED BY <2>2, <2>4, ChangeOne
  <1>4. CASE \E d \in Deposits : CreateStake(x, d)
    <2>1. ~Exists(stakes[x]) /\ \E a : stakes' = [stakes EXCEPT ![x] = a]
      BY <1>4 DEF CreateStake, Fresh
    <2> QED BY <2>1, ChangeOne DEF Change
  <1> QED BY <1>1, <1>2, <1>3, <1>4

-----------------------------------------------------------------------------
(* The steps, told apart by what they do to the set of settlements *)

SameOpen == \A s \in Settlements : settlements'[s].exists = settlements[s].exists

Opens(s) ==
    /\ stakes' = stakes /\ ~settlements[s].exists /\ settlements'[s].exists
    /\ \A t \in Settlements \ {s} : settlements'[t] = settlements[t]

Closes(s) ==
    /\ settlements[s].exists /\ ~settlements'[s].exists
    /\ \A t \in Settlements \ {s} : settlements'[t] = settlements[t]
    /\ \/ stakes' = stakes
       \/ \E x \in StakeIds, amount \in Nat :
             stakes' = [stakes EXCEPT ![x] = Withdrawn(@, amount)]

LEMMA SettlementsAlike ==
  ASSUME TypeOK, NEW s \in Settlements, NEW x \in StakeIds,
         \/ FundWhole(s, x)
         \/ \E y \in StakeIds, payer \in Payers : FundSplit(s, x, y, payer)
         \/ \E i \in DOMAIN Tree[s] : ClaimSettlementV2(s, i, x)
         \/ \E v \in Votes : ResetStake(s, v, x)
         \/ WithdrawStake(s, x)
  PROVE  SameOpen
  <1>0. settlements \in [Settlements -> Settlement]  BY DEF TypeOK
  <1>1. CASE FundWhole(s, x)
    BY <1>0, <1>1 DEF FundWhole, SameOpen, Settlement
  <1>2. CASE \E y \in StakeIds, payer \in Payers : FundSplit(s, x, y, payer)
    <2>1. PICK y \in StakeIds, payer \in Payers : FundSplit(s, x, y, payer)
      BY <1>2
    <2>2. settlements' = [settlements EXCEPT ![s].lamports_funded = @ + Lacking(s),
                                             ![s].split_rent_collector = payer,
                                             ![s].split_rent_amount = Rent]
      BY <2>1 DEF FundSplit
    <2> QED BY <1>0, <2>2 DEF SameOpen, Settlement
  <1>3. CASE \E i \in DOMAIN Tree[s] : ClaimSettlementV2(s, i, x)
    <2>1. PICK i \in DOMAIN Tree[s] : ClaimSettlementV2(s, i, x)  BY <1>3
    <2>2. settlements' = [settlements EXCEPT
              ![s].lamports_claimed = @ + Tree[s][i],
              ![s].merkle_nodes_claimed = @ + 1]
      BY <2>1 DEF ClaimSettlementV2
    <2> QED BY <1>0, <2>2 DEF SameOpen, Settlement
  <1>4. CASE (\E v \in Votes : ResetStake(s, v, x)) \/ WithdrawStake(s, x)
    BY <1>4 DEF ResetStake, WithdrawStake, SameOpen
  <1> QED BY <1>1, <1>2, <1>3, <1>4

LEMMA StepKinds ==
  ASSUME TypeOK, [Next]_vars
  PROVE  (Changes /\ SameOpen) \/ \E s \in Settlements : Opens(s) \/ Closes(s)
  <1>1. CASE UNCHANGED vars
    BY <1>1, ChangeNone DEF vars, SameOpen
  <1>2. ASSUME \/ Tick \/ EmergencyPause \/ EmergencyResume
               \/ \E c \in Config : ConfigureConfig(c)
               \/ \E v \in Votes :
                    \/ CloseVoteAccount(v) \/ CancelWithdrawRequest(v)
                    \/ \E amount \in Amounts : InitWithdrawRequest(v, amount)
               \/ \E s \in Settlements : UpsizeSettlementClaims(s)
        PROVE  Changes /\ SameOpen
    <2>1. stakes' = stakes /\ settlements' = settlements
      BY <1>2 DEF Tick, EmergencyPause, EmergencyResume, ConfigureConfig,
         CloseVoteAccount, CancelWithdrawRequest, InitWithdrawRequest,
         UpsizeSettlementClaims
    <2> QED BY <2>1, ChangeNone DEF SameOpen
  <1>3. ASSUME NEW x \in StakeIds, NEW v \in Votes,
               \/ FundBond(x, v) \/ ClaimWithdrawWhole(v, x)
               \/ \E y \in StakeIds : ClaimWithdrawSplit(v, x, y)
        PROVE  Changes /\ SameOpen
    BY <1>3, BondChanges DEF SameOpen, FundBond, ClaimWithdrawWhole, ClaimWithdrawSplit
  <1>4. ASSUME NEW x \in StakeIds, ManualDeposit(x)
        PROVE  Changes /\ SameOpen
    <2> DEFINE a == [stakes[x] EXCEPT !.staker = Bonds, !.withdrawer = Bonds]
    <2>1. /\ stakes' = [stakes EXCEPT ![x] = a]
          /\ Exists(stakes[x]) /\ stakes[x].withdrawer = Owner
      BY <1>4 DEF ManualDeposit, TypeOK
    <2>2. /\ a.state = stakes[x].state /\ a.staker = Bonds /\ a.withdrawer = Bonds
          /\ a.voter = stakes[x].voter
      BY DEF TypeOK, StakeAccount
    <2> HIDE DEF a
    <2>3. Change(stakes[x], a)  BY <2>1, <2>2 DEF Change, Deposited, Exists
    <2> QED BY <1>4, <2>1, <2>3, ChangeOne DEF ManualDeposit, SameOpen
  <1>5. ASSUME NEW s \in Settlements, NEW x \in StakeIds,
               \/ FundWhole(s, x)
               \/ \E y \in StakeIds, payer \in Payers : FundSplit(s, x, y, payer)
               \/ \E i \in DOMAIN Tree[s] : ClaimSettlementV2(s, i, x)
               \/ \E v \in Votes : ResetStake(s, v, x)
               \/ WithdrawStake(s, x)
        PROVE  Changes /\ SameOpen
    BY <1>5, SettlementChanges, SettlementsAlike
  <1>6. ASSUME NEW x \in StakeIds,
               \/ \E y \in StakeIds : MergeStake(x, y)
               \/ OwnerDeactivates(x)
               \/ \E amount \in Tips : Tip(x, amount)
               \/ \E d \in Deposits : CreateStake(x, d)
        PROVE  Changes /\ SameOpen
    BY <1>6, OtherChanges DEF SameOpen, MergeStake, OwnerDeactivates, Tip, CreateStake
  <1>7. ASSUME NEW s \in Settlements, NEW total \in MaxTotals, NEW nodes \in MaxNodes,
               InitSettlement(s, total, nodes)
        PROVE  Opens(s)
    <2> DEFINE new == [NoSettlement EXCEPT !.exists = TRUE,
                                           !.max_total_claim = total,
                                           !.max_merkle_nodes = nodes,
                                           !.slot_created_at = slot]
    <2>1. /\ settlements' = [settlements EXCEPT ![s] = new]
          /\ stakes' = stakes /\ ~settlements[s].exists
      BY <1>7 DEF InitSettlement
    <2>2. new.exists = TRUE  BY DEF NoSettlement
    <2> HIDE DEF new
    <2> QED BY <2>1, <2>2 DEF Opens, TypeOK
  <1>8. ASSUME NEW s \in Settlements,
               CloseSettlementV2(s) \/ \E receiver \in Payers : CancelSettlement(s, receiver)
        PROVE  Closes(s)
    <2>1. /\ settlements' = [settlements EXCEPT ![s] = NoSettlement]
          /\ settlements[s].exists /\ \E receiver : RefundSplitRent(s, receiver)
      BY <1>8 DEF CloseSettlementV2, CancelSettlement, RemoveSettlement
    <2>2. ~NoSettlement.exists  BY DEF NoSettlement
    <2> QED BY <2>1, <2>2, RefundChanges DEF Closes, TypeOK
  <1>9. CASE Next
    BY <1>9, <1>2, <1>3, <1>4, <1>5, <1>6, <1>7, <1>8 DEF Next
  <1> QED BY <1>1, <1>9

-----------------------------------------------------------------------------
(* The refinement of StakeCustody *)

LEMMA HolderType ==
  ASSUME NEW acc \in StakeAccount PROVE Holder(acc) \in Custody!Holders
  BY DEF Holder, StakeAccount, Custody!Holders

LEMMA ChangeMoves ==
  ASSUME NEW a, NEW b, Change(a, b)
  PROVE  Custody!MayMove(Holder(a), Holder(b))
  <1>1. CASE ~Exists(a) \/ b = NoAccount
    BY <1>1 DEF Holder, Custody!MayMove, NoAccount, Exists
  <1>2. CASE Exists(a) /\ SameHolder(a, b)
    BY <1>2 DEF Holder, SameHolder, Custody!MayMove
  <1>3. CASE Exists(a) /\ Deposited(a, b)
    BY <1>3, AuthoritiesAssumption DEF Holder, Deposited, Custody!MayMove
  <1>4. CASE Exists(a) /\ WithdrawnByOwner(a, b)
    BY <1>4, AuthoritiesAssumption DEF Holder, WithdrawnByOwner, Custody!MayMove
  <1>5. CASE Exists(a) /\ FundedToOpen(a, b)
    BY <1>5 DEF Holder, FundedToOpen, Custody!MayMove
  <1>6. CASE Exists(a) /\ ResetFromClosed(a, b)
    BY <1>6 DEF Holder, ResetFromClosed, Custody!MayMove
  <1> QED BY <1>1, <1>2, <1>3, <1>4, <1>5, <1>6 DEF Change

LEMMA StepRefines ==
  TypeOK /\ TypeOK' /\ [Next]_vars => [Custody!Next]_Custody!vars
  <1> SUFFICES ASSUME TypeOK, TypeOK', [Next]_vars PROVE [Custody!Next]_Custody!vars
    OBVIOUS
  <1> DEFINE cust == [x \in StakeIds |-> Holder(stakes[x])]
             opn == {s \in Settlements : settlements[s].exists}
  <1>1. cust' \in [StakeIds -> Custody!Holders]
    <2>1. \A x \in StakeIds : stakes'[x] \in StakeAccount  BY DEF TypeOK
    <2> QED BY <2>1, HolderType DEF Holder
  <1>2. CASE Changes /\ SameOpen
    <2>1. opn' = opn  BY <1>2 DEF SameOpen
    <2>2. \A x \in StakeIds : Custody!MayMove(cust[x], cust'[x])
      BY <1>2, ChangeMoves DEF Changes, Holder
    <2> QED BY <1>1, <2>1, <2>2 DEF Custody!Next, Custody!Move
  <1>3. CASE \E s \in Settlements : Opens(s)
    <2>1. PICK s \in Settlements : Opens(s)  BY <1>3
    <2>2. /\ s \notin opn /\ opn' = opn \cup {s} /\ cust' = cust
      BY <2>1 DEF Opens, Holder
    <2> QED BY <2>2 DEF Custody!Next, Custody!Open
  <1>4. CASE \E s \in Settlements : Closes(s)
    <2>1. PICK s \in Settlements : Closes(s)  BY <1>4
    <2>2. s \in opn /\ opn' = opn \ {s}
      BY <2>1 DEF Closes
    <2>3. ASSUME NEW z \in StakeIds PROVE cust'[z] \in {cust[z], Nobody}
      <3>1. CASE stakes' = stakes  BY <3>1
      <3>2. CASE \E x \in StakeIds, amount \in Nat :
                   stakes' = [stakes EXCEPT ![x] = Withdrawn(@, amount)]
        <4>1. PICK x \in StakeIds, amount \in Nat :
                stakes' = [stakes EXCEPT ![x] = Withdrawn(@, amount)]
          BY <3>2
        <4>2. stakes'[z] = IF z = x THEN Withdrawn(stakes[x], amount) ELSE stakes[z]
          BY <4>1 DEF TypeOK
        <4>3. Holder(Withdrawn(stakes[x], amount)) \in {Holder(stakes[x]), Nobody}
          <5>1. CASE amount = stakes[x].lamports
            BY <5>1 DEF Withdrawn, Holder, NoAccount, Exists
          <5>2. CASE amount # stakes[x].lamports
            BY <5>2 DEF Withdrawn, Holder, Exists, TypeOK, StakeAccount
          <5> QED BY <5>1, <5>2
        <4> QED BY <4>2, <4>3 DEF Holder
      <3> QED BY <2>1, <3>1, <3>2 DEF Closes
    <2> QED BY <1>1, <2>2, <2>3 DEF Custody!Next, Custody!Close
  <1> QED BY <1>2, <1>3, <1>4, StepKinds

LEMMA InitRefines == Init => Custody!Init
  BY DEF Init, Custody!Init, Holder, NoAccount, Exists, NoSettlement

(* The program implements the authority transitions its README promises:   *)
(* an account leaves the custody of the bonds program only to an open      *)
(* settlement or to the owner, and a settlement's account returns to the   *)
(* bonds program only after the settlement is gone.                        *)
THEOREM ImplementsCustody == Spec => CustodySpec
  BY InitRefines, StepRefines, TypeCorrect, PTL DEF Spec, CustodySpec, Custody!Spec

-----------------------------------------------------------------------------
(* No step of the program gives an account in its custody another vote     *)
(* account: what a validator deposited keeps standing for that validator.  *)
THEOREM VoterIsKept == Spec => VoterKept
  <1>1. ASSUME TypeOK, [Next]_vars
        PROVE  [\A x \in StakeIds :
                  /\ InCustody(x) /\ IsDelegated(stakes[x])
                  /\ stakes'[x].withdrawer = Bonds
                  => stakes'[x].voter = stakes[x].voter]_vars
    <2> SUFFICES ASSUME NEW x \in StakeIds,
                        Exists(stakes[x]), stakes[x].withdrawer = Bonds,
                        IsDelegated(stakes[x]), stakes'[x].withdrawer = Bonds
                 PROVE  stakes'[x].voter = stakes[x].voter
      BY DEF InCustody
    <2>1. Change(stakes[x], stakes'[x]) => stakes'[x].voter = stakes[x].voter
      BY AuthoritiesAssumption
         DEF Change, SameHolder, Deposited, WithdrawnByOwner, FundedToOpen,
             ResetFromClosed, NoAccount
    <2>2. CASE Changes  BY <2>1, <2>2 DEF Changes
    <2>3. CASE \E s \in Settlements : Opens(s)
      BY <2>3 DEF Opens
    <2>4. CASE \E s \in Settlements : Closes(s)
      <3>1. CASE stakes' = stakes  BY <3>1
      <3>2. ASSUME NEW z \in StakeIds, NEW amount \in Nat,
                   stakes' = [stakes EXCEPT ![z] = Withdrawn(@, amount)]
            PROVE  stakes'[x].voter = stakes[x].voter
        <4>1. Changes  BY <1>1, <3>2, WithdrawnChange, ChangeOne DEF TypeOK
        <4> QED BY <2>1, <4>1 DEF Changes
      <3> QED BY <2>4, <3>1, <3>2 DEF Closes
    <2> QED BY <1>1, <2>2, <2>3, <2>4, StepKinds
  <1> QED BY <1>1, TypeCorrect, PTL DEF Spec, VoterKept

-----------------------------------------------------------------------------
(* What PauseFreezes says of one step *)
Frozen ==
    /\ settlements' = settlements /\ requests' = requests
    /\ \A s \in Settlements : claims'[s].bits = claims[s].bits
    /\ \A x \in StakeIds : InCustody(x) =>
          /\ stakes'[x].lamports >= stakes[x].lamports
          /\ stakes'[x].staker = stakes[x].staker
          /\ stakes'[x].withdrawer = Bonds

(* The instructions that check the pause *)
LEMMA PausedSteps ==
  ASSUME config.paused, Next
  PROVE  \/ Tick \/ EmergencyResume
         \/ \E c \in Config : ConfigureConfig(c)
         \/ \E v \in Votes : CloseVoteAccount(v)
         \/ \E s \in Settlements : UpsizeSettlementClaims(s)
         \/ \E x \in StakeIds :
               \/ \E d \in Deposits : CreateStake(x, d)
               \/ \E amount \in Tips : Tip(x, amount)
               \/ OwnerDeactivates(x)
               \/ ManualDeposit(x)
  <1>1. ~Running /\ ~EmergencyPause  BY DEF Running, EmergencyPause
  <1>2. ASSUME NEW v \in Votes
        PROVE  /\ ~CancelWithdrawRequest(v)
               /\ \A amount \in Amounts : ~InitWithdrawRequest(v, amount)
               /\ \A x \in StakeIds : ~FundBond(x, v) /\ ~ClaimWithdrawWhole(v, x)
               /\ \A x, y \in StakeIds : ~ClaimWithdrawSplit(v, x, y)
    BY <1>1 DEF CancelWithdrawRequest, InitWithdrawRequest, FundBond,
       ClaimWithdrawWhole, ClaimWithdrawSplit, ClaimWithdrawChecks
  <1>3. ASSUME NEW s \in Settlements
        PROVE  /\ \A total \in MaxTotals, nodes \in MaxNodes :
                     ~InitSettlement(s, total, nodes)
               /\ ~CloseSettlementV2(s) /\ \A receiver \in Payers : ~CancelSettlement(s, receiver)
               /\ \A x \in StakeIds :
                    /\ ~FundWhole(s, x)
                    /\ \A y \in StakeIds, payer \in Payers : ~FundSplit(s, x, y, payer)
                    /\ \A i \in DOMAIN Tree[s] : ~ClaimSettlementV2(s, i, x)
                    /\ \A v \in Votes : ~ResetStake(s, v, x)
                    /\ ~WithdrawStake(s, x)
    BY <1>1 DEF InitSettlement, CloseSettlementV2, CancelSettlement, FundWhole,
       FundSplit, FundChecks, ClaimSettlementV2, ResetStake, WithdrawStake
  <1>4. \A x, y \in StakeIds : ~MergeStake(x, y)
    BY <1>1 DEF MergeStake
  <1> QED BY <1>1, <1>2, <1>3, <1>4 DEF Next

LEMMA PausedFrozen ==
  ASSUME TypeOK, config.paused, [Next]_vars
  PROVE  Frozen
  <1>0. /\ claims \in [Settlements -> [size : Nat, bits : SUBSET Nat]]
        /\ stakes \in [StakeIds -> StakeAccount]
        /\ \A x \in StakeIds : stakes[x].lamports \in Nat
    BY DEF TypeOK, StakeAccount
  <1>1. ASSUME stakes' = stakes, settlements' = settlements, requests' = requests,
               \A s \in Settlements : claims'[s].bits = claims[s].bits
        PROVE  Frozen
    BY <1>0, <1>1 DEF Frozen, InCustody
  <1>2. CASE UNCHANGED vars  BY <1>1, <1>2 DEF vars
  <1>3. CASE \/ Tick \/ EmergencyResume
             \/ \E c \in Config : ConfigureConfig(c)
             \/ \E v \in Votes : CloseVoteAccount(v)
    BY <1>1, <1>3 DEF Tick, EmergencyResume, ConfigureConfig, CloseVoteAccount
  <1>4. CASE \E s \in Settlements : UpsizeSettlementClaims(s)
    BY <1>0, <1>1, <1>4 DEF UpsizeSettlementClaims
  <1>5. ASSUME NEW x \in StakeIds,
               \/ \E d \in Deposits : CreateStake(x, d)
               \/ \E amount \in Tips : Tip(x, amount)
               \/ OwnerDeactivates(x)
               \/ ManualDeposit(x)
        PROVE  Frozen
    <2>1. settlements' = settlements /\ requests' = requests /\ claims' = claims
      BY <1>5 DEF CreateStake, Tip, OwnerDeactivates, ManualDeposit
    <2>2. \E a : /\ stakes' = [stakes EXCEPT ![x] = a]
                 /\ InCustody(x) => /\ a.lamports >= stakes[x].lamports
                                    /\ a.staker = stakes[x].staker
                                    /\ a.withdrawer = Bonds
      <3>1. CASE \E d \in Deposits : CreateStake(x, d)
        BY <3>1 DEF CreateStake, Fresh, InCustody
      <3>2. CASE \E amount \in Tips : Tip(x, amount)
        <4>1. PICK amount \in Tips : Tip(x, amount)  BY <3>2
        <4> DEFINE a == [stakes[x] EXCEPT !.lamports = @ + amount]
        <4>2. amount \in Nat  BY EnvironmentAssumption
        <4>3. stakes' = [stakes EXCEPT ![x] = a]  BY <1>0, <4>1 DEF Tip
        <4>4. /\ a.lamports = stakes[x].lamports + amount
              /\ a.staker = stakes[x].staker /\ a.withdrawer = stakes[x].withdrawer
          BY <1>0 DEF StakeAccount
        <4> HIDE DEF a
        <4>5. InCustody(x) => /\ a.lamports >= stakes[x].lamports
                              /\ a.staker = stakes[x].staker /\ a.withdrawer = Bonds
          BY <1>0, <4>2, <4>4 DEF InCustody
        <4> QED BY <4>3, <4>5
      <3>3. CASE OwnerDeactivates(x)
        <4> DEFINE a == Deactivated(stakes[x], Epoch)
        <4>1. stakes' = [stakes EXCEPT ![x] = a]  BY <3>3 DEF OwnerDeactivates
        <4>2. /\ a.lamports = stakes[x].lamports
              /\ a.staker = stakes[x].staker /\ a.withdrawer = stakes[x].withdrawer
          BY <1>0 DEF Deactivated, StakeAccount
        <4> HIDE DEF a
        <4>3. InCustody(x) => /\ a.lamports >= stakes[x].lamports
                              /\ a.staker = stakes[x].staker /\ a.withdrawer = Bonds
          BY <1>0, <4>2 DEF InCustody
        <4> QED BY <4>1, <4>3
      <3>4. CASE ManualDeposit(x)
        <4>1. stakes' = [stakes EXCEPT ![x] =
                [stakes[x] EXCEPT !.staker = Bonds, !.withdrawer = Bonds]]
          BY <1>0, <3>4 DEF ManualDeposit
        <4>2. ~InCustody(x)
          BY <3>4, AuthoritiesAssumption DEF ManualDeposit, InCustody
        <4> QED BY <4>1, <4>2
      <3> QED BY <1>5, <3>1, <3>2, <3>3, <3>4
    <2>3. PICK a : /\ stakes' = [stakes EXCEPT ![x] = a]
                   /\ InCustody(x) => /\ a.lamports >= stakes[x].lamports
                                      /\ a.staker = stakes[x].staker
                                      /\ a.withdrawer = Bonds
      BY <2>2
    <2>4. ASSUME NEW z \in StakeIds, InCustody(z)
          PROVE  /\ stakes'[z].lamports >= stakes[z].lamports
                 /\ stakes'[z].staker = stakes[z].staker
                 /\ stakes'[z].withdrawer = Bonds
      <3>1. CASE z = x  BY <1>0, <2>3, <2>4, <3>1
      <3>2. CASE z # x  BY <1>0, <2>3, <2>4, <3>2 DEF InCustody
      <3> QED BY <3>1, <3>2
    <2> QED BY <2>1, <2>4 DEF Frozen
  <1> QED BY <1>2, <1>3, <1>4, <1>5, PausedSteps

(* The emergency pause stops every movement of funds: while it is on, no   *)
(* settlement, claim bitmap or withdraw request changes, and no account in *)
(* the program's custody loses lamports or changes hands.                  *)
THEOREM PauseIsFreezing == Spec => PauseFreezes
  <1>1. TypeOK /\ [Next]_vars => [config.paused => Frozen]_vars
    BY PausedFrozen
  <1> QED BY <1>1, TypeCorrect, PTL DEF Spec, PauseFreezes, Frozen

-----------------------------------------------------------------------------
(* What the program holds for a bond *)

(* What account acc counts for the bond of v *)
Part(acc, v) ==
    IF Exists(acc) /\ acc.withdrawer = Bonds /\ acc.voter = v THEN acc.lamports ELSE 0

Parts(v) == [x \in StakeIds |-> Part(stakes[x], v)]

(* An account without delegation stands for nobody, one that was funded to *)
(* a settlement for the settlement's bond.                                 *)
Known(acc) ==
    /\ acc.state = "initialized" => acc.voter = Nobody
    /\ Exists(acc) /\ acc.withdrawer = Bonds /\ acc.staker \in Settlements
          => acc.voter \in {BondOf[acc.staker], Nobody}

VotersKnown == \A x \in StakeIds : Known(stakes[x])

(* What BondPaysForItselfOnly allows *)
Charged(v) ==
    \/ requests'[v].withdrawn_amount > requests[v].withdrawn_amount
    \/ \E s \in Settlements :
          /\ BondOf[s] = v
          /\ settlements'[s] # settlements[s]

Paid(v) == HeldFor(v)' < HeldFor(v) => Charged(v)

LEMMA ShareNat ==
  ASSUME NEW acc \in StakeAccount, NEW v PROVE Part(acc, v) \in Nat
  BY DEF Part, StakeAccount

(* The sum is one over all addresses *)
HeldIsSum == \A v \in Votes : /\ Parts(v) \in [StakeIds -> Int]
                             /\ HeldFor(v) = Sum(Parts(v), StakeIds)

LEMMA HeldSum == TypeOK => HeldIsSum
  <1> SUFFICES ASSUME TypeOK, NEW v \in Votes
               PROVE  /\ Parts(v) \in [StakeIds -> Int]
                      /\ HeldFor(v) = Sum(Parts(v), StakeIds)
    BY DEF HeldIsSum
  <1> DEFINE lam == [x \in StakeIds |-> stakes[x].lamports]
             of == {x \in StakeIds : InCustody(x) /\ stakes[x].voter = v}
  <1>1. lam \in [StakeIds -> Int]  BY DEF TypeOK, StakeAccount
  <1>2. Sum(lam, of) = Sum([x \in StakeIds |-> IF x \in of THEN lam[x] ELSE 0], StakeIds)
    <2> HIDE DEF lam
    <2> QED BY <1>1, SumPart, StakeIdsAssumption
  <1>3. [x \in StakeIds |-> IF x \in of THEN lam[x] ELSE 0] = Parts(v)
    BY DEF Parts, Part, InCustody
  <1>4. HeldFor(v) = Sum(lam, of)
    <2>1. MapThenSumSet(LAMBDA x : stakes[x].lamports, of) = Sum(lam, of)
      BY DEF Sum, MapThenSumSet, MapThenFoldSet
    <2> QED BY <2>1 DEF HeldFor
  <1>5. Parts(v) \in [StakeIds -> Int]
    BY ShareNat DEF TypeOK, Parts
  <1> QED BY <1>2, <1>3, <1>4, <1>5

(* A step that leaves the accounts alone, or changes one or two of them *)
LEMMA PartsNone ==
  ASSUME TypeOK, TypeOK', VotersKnown, stakes' = stakes
  PROVE  VotersKnown' /\ \A v \in Votes : Paid(v)
  <1>1. VotersKnown'  BY DEF VotersKnown
  <1>2. ASSUME NEW v \in Votes PROVE Paid(v)
    <2>1. Parts(v)' = Parts(v)  BY DEF Parts
    <2>2. HeldIsSum /\ HeldIsSum'  BY HeldSum, PTL
    <2>3. HeldFor(v)' = HeldFor(v)  BY <2>1, <2>2 DEF HeldIsSum
    <2>4. HeldFor(v) \in Int  BY <2>2, SumInt, StakeIdsAssumption DEF HeldIsSum
    <2> QED BY <2>3, <2>4 DEF Paid
  <1> QED BY <1>1, <1>2

LEMMA PartsOne ==
  ASSUME TypeOK, TypeOK', VotersKnown,
         NEW x \in StakeIds, NEW a, stakes' = [stakes EXCEPT ![x] = a], Known(a),
         \A v \in Votes : Part(a, v) >= Part(stakes[x], v) \/ Charged(v)
  PROVE  VotersKnown' /\ \A v \in Votes : Paid(v)
  <1>1. \A z \in StakeIds : stakes'[z] = IF z = x THEN a ELSE stakes[z]
    BY DEF TypeOK
  <1>2. VotersKnown'
    <2> SUFFICES ASSUME NEW z \in StakeIds PROVE Known(stakes'[z])
      BY DEF VotersKnown, Known
    <2> QED BY <1>1 DEF VotersKnown
  <1>3. ASSUME NEW v \in Votes PROVE Paid(v)
    <2> DEFINE f == Parts(v)
               g == [z \in StakeIds |-> Part(stakes'[z], v)]
    <2>1. f \in [StakeIds -> Int] /\ HeldFor(v) = Sum(f, StakeIds)
      BY HeldSum DEF HeldIsSum
    <2>2. HeldIsSum'  BY HeldSum, PTL
    <2>3. Parts(v)' = g  BY DEF Parts, Part
    <2>4. g \in [StakeIds -> Int] /\ HeldFor(v)' = Sum(g, StakeIds)
      BY <2>2, <2>3 DEF HeldIsSum
    <2>5. f[x] = Part(stakes[x], v) /\ g[x] = Part(a, v)
      BY <1>1 DEF Parts
    <2>6. \A z \in StakeIds \ {x} : f[z] = g[z]  BY <1>1 DEF Parts
    <2> HIDE DEF f, g
    <2>7. Sum(f, StakeIds) - f[x] = Sum(g, StakeIds) - g[x]
      BY <2>1, <2>4, <2>6, SumOne, StakeIdsAssumption
    <2>8. /\ Sum(f, StakeIds) \in Int /\ Sum(g, StakeIds) \in Int
          /\ f[x] \in Int /\ g[x] \in Int
      BY <2>1, <2>4, SumInt, StakeIdsAssumption
    <2>9. g[x] >= f[x] => Sum(g, StakeIds) >= Sum(f, StakeIds)
      BY <2>7, <2>8
    <2> QED BY <2>1, <2>4, <2>5, <2>8, <2>9 DEF Paid
  <1> QED BY <1>2, <1>3

LEMMA PartsTwo ==
  ASSUME TypeOK, TypeOK', VotersKnown,
         NEW x \in StakeIds, NEW y \in StakeIds, x # y, NEW a, NEW b,
         stakes' = [stakes EXCEPT ![x] = a, ![y] = b], Known(a), Known(b),
         \A v \in Votes : \/ Part(a, v) + Part(b, v)
                              >= Part(stakes[x], v) + Part(stakes[y], v)
                        \/ Charged(v)
  PROVE  VotersKnown' /\ \A v \in Votes : Paid(v)
  <1>1. \A z \in StakeIds : stakes'[z] = IF z = y THEN b ELSE IF z = x THEN a ELSE stakes[z]
    BY DEF TypeOK
  <1>2. VotersKnown'
    <2> SUFFICES ASSUME NEW z \in StakeIds PROVE Known(stakes'[z])
      BY DEF VotersKnown, Known
    <2> QED BY <1>1 DEF VotersKnown
  <1>3. ASSUME NEW v \in Votes PROVE Paid(v)
    <2> DEFINE f == Parts(v)
               g == [z \in StakeIds |-> Part(stakes'[z], v)]
    <2>1. f \in [StakeIds -> Int] /\ HeldFor(v) = Sum(f, StakeIds)
      BY HeldSum DEF HeldIsSum
    <2>2. HeldIsSum'  BY HeldSum, PTL
    <2>3. Parts(v)' = g  BY DEF Parts, Part
    <2>4. g \in [StakeIds -> Int] /\ HeldFor(v)' = Sum(g, StakeIds)
      BY <2>2, <2>3 DEF HeldIsSum
    <2>5. /\ f[x] = Part(stakes[x], v) /\ g[x] = Part(a, v)
          /\ f[y] = Part(stakes[y], v) /\ g[y] = Part(b, v)
      BY <1>1 DEF Parts
    <2>6. \A z \in StakeIds \ {x, y} : f[z] = g[z]  BY <1>1 DEF Parts
    <2> HIDE DEF f, g
    <2>7. Sum(f, StakeIds) - f[x] - f[y] = Sum(g, StakeIds) - g[x] - g[y]
      BY <2>1, <2>4, <2>6, SumTwo, StakeIdsAssumption
    <2>8. /\ Sum(f, StakeIds) \in Int /\ Sum(g, StakeIds) \in Int
          /\ f[x] \in Int /\ g[x] \in Int /\ f[y] \in Int /\ g[y] \in Int
      BY <2>1, <2>4, SumInt, StakeIdsAssumption
    <2>9. g[x] + g[y] >= f[x] + f[y] => Sum(g, StakeIds) >= Sum(f, StakeIds)
      BY <2>7, <2>8
    <2> QED BY <2>1, <2>4, <2>5, <2>8, <2>9 DEF Paid
  <1> QED BY <1>2, <1>3

(* Deposits *)
LEMMA DepositHeld ==
  ASSUME TypeOK, TypeOK', VotersKnown, NEW x \in StakeIds,
         ManualDeposit(x) \/ \E w \in Votes : FundBond(x, w)
  PROVE  VotersKnown' /\ \A v \in Votes : Paid(v)
  <1>0. stakes[x] \in StakeAccount /\ Known(stakes[x])  BY DEF TypeOK, VotersKnown
  <1> DEFINE a == [stakes[x] EXCEPT !.staker = Bonds, !.withdrawer = Bonds]
  <1>1. /\ stakes' = [stakes EXCEPT ![x] = a]
        /\ stakes[x].withdrawer = Owner
    BY DEF FundBond, ManualDeposit, TypeOK
  <1>2. /\ a.state = stakes[x].state /\ a.staker = Bonds /\ a.voter = stakes[x].voter
        /\ a.lamports = stakes[x].lamports
    BY <1>0 DEF StakeAccount
  <1> HIDE DEF a
  <1>3. Known(a)  BY <1>0, <1>2, AuthoritiesAssumption DEF Known
  <1>4. \A v \in Votes : Part(stakes[x], v) = 0 /\ Part(a, v) \in Nat
    BY <1>0, <1>1, <1>2, AuthoritiesAssumption DEF Part, StakeAccount
  <1>5. \A v \in Votes : Part(a, v) >= Part(stakes[x], v)  BY <1>4
  <1> QED BY <1>1, <1>3, <1>5, PartsOne

(* Claims of a withdraw request *)
LEMMA RequestHeld ==
  ASSUME TypeOK, TypeOK', VotersKnown, NEW x \in StakeIds, NEW w \in Votes,
         ClaimWithdrawWhole(w, x) \/ \E y \in StakeIds : ClaimWithdrawSplit(w, x, y)
  PROVE  VotersKnown' /\ \A v \in Votes : Paid(v)
  <1>0. stakes[x] \in StakeAccount /\ Known(stakes[x])  BY DEF TypeOK, VotersKnown
  <1>2. CASE ClaimWithdrawWhole(w, x)
    <2> DEFINE a == Released(stakes[x])
    <2>1. /\ stakes' = [stakes EXCEPT ![x] = a]
          /\ requests' = [requests EXCEPT ![w].withdrawn_amount = @ + stakes[x].lamports]
          /\ stakes[x].voter = w
      BY <1>2 DEF ClaimWithdrawWhole, ClaimWithdrawChecks, DelegatedTo
    <2>2. /\ a.state = stakes[x].state /\ a.withdrawer = Owner
          /\ a.voter = stakes[x].voter
      BY <1>0 DEF StakeAccount, Released
    <2> HIDE DEF a
    <2>3. Known(a)  BY <1>0, <2>2, AuthoritiesAssumption DEF Known
    <2>4. ASSUME NEW v \in Votes
          PROVE  Part(a, v) >= Part(stakes[x], v) \/ Charged(v)
      <3>1. Part(a, v) = 0  BY <2>2, AuthoritiesAssumption DEF Part
      <3>2. CASE v # w \/ stakes[x].lamports = 0
        BY <2>1, <3>1, <3>2 DEF Part
      <3>3. CASE v = w /\ stakes[x].lamports # 0
        <4>1. /\ stakes[x].lamports \in Nat \ {0} /\ requests[v].withdrawn_amount \in Nat
              /\ requests \in [Votes -> WithdrawRequest]
          BY <1>0, <3>3 DEF TypeOK, StakeAccount, WithdrawRequest
        <4>2. requests'[v].withdrawn_amount
                = requests[v].withdrawn_amount + stakes[x].lamports
          BY <2>1, <3>3, <4>1 DEF WithdrawRequest
        <4> QED BY <4>1, <4>2 DEF Charged
      <3> QED BY <3>2, <3>3
    <2> QED BY <2>1, <2>3, <2>4, PartsOne
  <1>3. CASE \E y \in StakeIds : ClaimWithdrawSplit(w, x, y)
    <2>1. PICK y \in StakeIds : ClaimWithdrawSplit(w, x, y)  BY <1>3
    <2> DEFINE amount == amount_to_fulfill_withdraw(w)
               leftover == stakes[x].lamports - amount
               a == Released(SplitSource(stakes[x], leftover))
               b == SplitTarget(stakes[x], leftover, Rent)
    <2>2. /\ stakes' = [stakes EXCEPT ![x] = a, ![y] = b]
          /\ Exists(stakes[x]) /\ ~Exists(stakes[y])
          /\ IsDelegated(stakes[x]) /\ stakes[x].voter = w /\ stakes[x].staker = Bonds
          /\ amount > 0
      BY <2>1 DEF ClaimWithdrawSplit, ClaimWithdrawChecks, InCustody, Fresh, DelegatedTo
    <2>3. requests' = [requests EXCEPT ![w].withdrawn_amount = @ + amount]
      BY <2>1 DEF ClaimWithdrawSplit
    <2>4. /\ a.state = stakes[x].state /\ a.withdrawer = Owner
          /\ a.voter = stakes[x].voter
          /\ b.state = stakes[x].state /\ b.staker = Bonds /\ b.voter = w
      BY <1>0, <2>2 DEF StakeAccount, Released, SplitSource, SplitTarget
    <2>5. amount \in Nat  BY AmountToFulfill
    <2>6. a \in StakeAccount /\ b \in StakeAccount
      <3>1. stakes'[x] = a /\ stakes'[y] = b  BY <2>2 DEF TypeOK
      <3> QED BY <3>1 DEF TypeOK
    <2> HIDE DEF a, b, amount
    <2>7. Known(a) /\ Known(b)
      BY <1>0, <2>2, <2>4, AuthoritiesAssumption DEF Known, IsDelegated
    <2>8. ASSUME NEW v \in Votes
          PROVE  \/ Part(a, v) + Part(b, v) >= Part(stakes[x], v) + Part(stakes[y], v)
                 \/ Charged(v)
      <3>1. CASE v # w
        BY <2>2, <2>4, <3>1, AuthoritiesAssumption DEF Part
      <3>2. CASE v = w
        <4>1. /\ requests[v].withdrawn_amount \in Nat
              /\ requests \in [Votes -> WithdrawRequest]
          BY DEF TypeOK, WithdrawRequest
        <4>2. requests'[v].withdrawn_amount = requests[v].withdrawn_amount + amount
          BY <2>3, <3>2, <4>1 DEF WithdrawRequest
        <4> QED BY <2>2, <2>5, <4>1, <4>2 DEF Charged
      <3> QED BY <3>1, <3>2
    <2>9. x # y  BY <2>2
    <2> QED BY <2>2, <2>7, <2>8, <2>9, PartsTwo
  <1> QED BY <1>2, <1>3

(* A withdrawal charges the account only. *)
LEMMA WithdrawnHeld ==
  ASSUME NEW acc \in StakeAccount, NEW amount \in Nat, Known(acc)
  PROVE  /\ Known(Withdrawn(acc, amount))
         /\ \A v : acc.voter # v => Part(Withdrawn(acc, amount), v) = Part(acc, v)
  <1>1. CASE amount = acc.lamports
    <2>1. /\ NoAccount.state = "none" /\ NoAccount.withdrawer = Nobody
      BY DEF NoAccount
    <2>2. Withdrawn(acc, amount) = NoAccount  BY <1>1 DEF Withdrawn
    <2> QED BY <2>1, <2>2 DEF Known, Part, Exists
  <1>2. CASE amount # acc.lamports
    <2> DEFINE b == [acc EXCEPT !.lamports = @ - amount]
    <2>1. /\ b.state = acc.state /\ b.staker = acc.staker
          /\ b.withdrawer = acc.withdrawer /\ b.voter = acc.voter
      BY DEF StakeAccount
    <2>2. Withdrawn(acc, amount) = b  BY <1>2 DEF Withdrawn
    <2> HIDE DEF b
    <2> QED BY <2>1, <2>2 DEF Known, Part, Exists
  <1> QED BY <1>1, <1>2

(* Instructions of a settlement *)
LEMMA SettlementHeld ==
  ASSUME TypeOK, TypeOK', VotersKnown, NEW s \in Settlements, NEW x \in StakeIds,
         \/ FundWhole(s, x)
         \/ \E y \in StakeIds, payer \in Payers : FundSplit(s, x, y, payer)
         \/ \E i \in DOMAIN Tree[s] : ClaimSettlementV2(s, i, x)
  PROVE  VotersKnown' /\ \A v \in Votes : Paid(v)
  <1>0. /\ stakes[x] \in StakeAccount /\ Known(stakes[x]) /\ slot \in Nat
        /\ settlements \in [Settlements -> Settlement]
        /\ BondOf[s] \in Votes /\ Nobody \notin Votes
    BY SettlementsAssumption, AuthoritiesAssumption DEF TypeOK, VotersKnown
  <1>1. CASE FundWhole(s, x)
    <2> DEFINE a == FundedTo(s, stakes[x])
    <2>1. /\ stakes' = [stakes EXCEPT ![x] = a]
          /\ IsDelegated(stakes[x]) /\ stakes[x].voter = BondOf[s]
      BY <1>1 DEF FundWhole, FundChecks, DelegatedTo
    <2>2. /\ a.state = stakes[x].state /\ a.staker = s
          /\ a.withdrawer = stakes[x].withdrawer /\ a.voter = stakes[x].voter
      BY <1>0, FundedKeeps
    <2>3. a.lamports = stakes[x].lamports
      BY <1>0 DEF FundedTo, Deactivated, StakeAccount
    <2> HIDE DEF a
    <2>4. Known(a)  BY <2>1, <2>2 DEF Known, IsDelegated
    <2>5. \A v \in Votes : Part(a, v) = Part(stakes[x], v)
      BY <2>2, <2>3 DEF Part, Exists
    <2>6. \A v \in Votes : Part(stakes[x], v) \in Nat  BY <1>0, ShareNat
    <2>7. \A v \in Votes : Part(a, v) >= Part(stakes[x], v)  BY <2>5, <2>6
    <2> QED BY <2>1, <2>4, <2>7, PartsOne
  <1>2. CASE \E y \in StakeIds, payer \in Payers : FundSplit(s, x, y, payer)
    <2>1. PICK y \in StakeIds, payer \in Payers : FundSplit(s, x, y, payer)
      BY <1>2
    <2> DEFINE k == KeptForFunding(s, x)
               a == FundedTo(s, k)
               b == SplitOff(s, x)
    <2>2. /\ stakes' = [stakes EXCEPT ![x] = a, ![y] = b]
          /\ IsDelegated(stakes[x]) /\ stakes[x].voter = BondOf[s] /\ stakes[x].staker = Bonds
          /\ ~Exists(stakes[y])
      BY <2>1 DEF FundSplit, FundChecks, Fresh, DelegatedTo
    <2>3. k \in StakeAccount
      BY <2>1, SplitAccountsType DEF FundSplit
    <2>4. /\ k.state = stakes[x].state /\ k.voter = stakes[x].voter
      BY KeptKeeps
    <2>5. IsDelegated(b) /\ b.staker = Bonds /\ b.voter = BondOf[s]
      <3>1. CASE fund_split_leftover(s, x) > 0
        <4> DEFINE A == AfterTransfer(s, x)
        <4>1. /\ A.state = stakes[x].state /\ A.staker = Bonds /\ A.voter = BondOf[s]
          BY <1>0, <2>2 DEF AfterTransfer, StakeAccount
        <4>2. /\ b.state = A.state /\ b.staker = A.staker /\ b.voter = A.voter
          BY <1>0, <3>1 DEF SplitOff, SplitTarget, AfterTransfer, StakeAccount
        <4> HIDE DEF A, b
        <4> QED BY <2>2, <4>1, <4>2 DEF IsDelegated
      <3>2. CASE ~(fund_split_leftover(s, x) > 0)
        <4>1. b = Delegated(InitializedSplit(s, x), BondOf[s], Epoch)
          BY <3>2 DEF SplitOff
        <4>2. ~IsDelegated(InitializedSplit(s, x)) /\ InitializedSplit(s, x).staker = Bonds
          BY DEF InitializedSplit, NoAccount, IsDelegated
        <4> QED BY <4>1, <4>2 DEF Delegated, Effective, IsDelegated, InitializedSplit, NoAccount
      <3> QED BY <3>1, <3>2
    <2> HIDE DEF k, b
    <2>6. /\ a.state = k.state /\ a.staker = s /\ a.voter = k.voter
      BY <1>0, <2>3, FundedKeeps
    <2>7. a \in StakeAccount /\ b \in StakeAccount /\ x # y
      <3>1. x # y  BY <2>2 DEF Exists, IsDelegated
      <3>2. stakes'[x] = a /\ stakes'[y] = b  BY <2>2, <3>1 DEF TypeOK
      <3> QED BY <3>1, <3>2 DEF TypeOK
    <2> HIDE DEF a
    <2>8. Known(a) /\ Known(b)
      BY <2>2, <2>4, <2>5, <2>6, AuthoritiesAssumption DEF Known, IsDelegated
    <2>9. Charged(BondOf[s])
      <3>1. settlements' = [settlements EXCEPT ![s].lamports_funded = @ + Lacking(s),
                                               ![s].split_rent_collector = payer,
                                               ![s].split_rent_amount = Rent]
        BY <2>1 DEF FundSplit
      <3>2. settlements'[s].lamports_funded = settlements[s].lamports_funded + Lacking(s)
        BY <1>0, <3>1 DEF Settlement
      <3>3. /\ settlements[s].lamports_funded < settlements[s].max_total_claim
            /\ settlements[s].lamports_funded \in Nat /\ settlements[s].max_total_claim \in Nat
        BY <1>0, <2>1 DEF FundSplit, FundChecks, NotFullyFunded, Settlement
      <3>4. settlements'[s].lamports_funded # settlements[s].lamports_funded
        BY <3>2, <3>3 DEF Lacking
      <3> QED BY <3>4 DEF Charged
    <2>10. ASSUME NEW v \in Votes
           PROVE  \/ Part(a, v) + Part(b, v) >= Part(stakes[x], v) + Part(stakes[y], v)
                  \/ Charged(v)
      <3>1. CASE v = BondOf[s]  BY <2>9, <3>1
      <3>2. CASE v # BondOf[s]
        <4>1. Part(stakes[x], v) = 0 /\ Part(stakes[y], v) = 0
          BY <2>2, <3>2 DEF Part
        <4>2. Part(a, v) \in Nat /\ Part(b, v) \in Nat
          BY <2>7, ShareNat
        <4> QED BY <4>1, <4>2
      <3> QED BY <3>1, <3>2
    <2> QED BY <2>2, <2>7, <2>8, <2>10, PartsTwo
  <1>3. CASE \E i \in DOMAIN Tree[s] : ClaimSettlementV2(s, i, x)
    <2>1. PICK i \in DOMAIN Tree[s] : ClaimSettlementV2(s, i, x)  BY <1>3
    <2> DEFINE claim == Tree[s][i]
               a == Withdrawn(stakes[x], claim)
    <2>2. /\ stakes' = [stakes EXCEPT ![x] = a]
          /\ Exists(stakes[x]) /\ stakes[x].withdrawer = Bonds /\ stakes[x].staker = s
      BY <2>1 DEF ClaimSettlementV2, InCustody
    <2>3. settlements' = [settlements EXCEPT ![s].lamports_claimed = @ + claim,
                                             ![s].merkle_nodes_claimed = @ + 1]
      BY <2>1 DEF ClaimSettlementV2
    <2>4. claim \in Nat  BY TreeAssumption
    <2> HIDE DEF claim
    <2>5. Known(a) /\ \A v : stakes[x].voter # v => Part(a, v) = Part(stakes[x], v)
      BY <1>0, <2>4, WithdrawnHeld
    <2>6. stakes[x].voter \in {BondOf[s], Nobody}  BY <1>0, <2>2 DEF Known
    <2> HIDE DEF a
    <2>7. Charged(BondOf[s])
      <3>1. settlements'[s].merkle_nodes_claimed = settlements[s].merkle_nodes_claimed + 1
        BY <1>0, <2>3 DEF Settlement
      <3>2. settlements[s].merkle_nodes_claimed \in Nat  BY <1>0 DEF Settlement
      <3> QED BY <3>1, <3>2 DEF Charged
    <2>8. \A v \in Votes : Part(stakes[x], v) \in Nat  BY <1>0, ShareNat
    <2>9. ASSUME NEW v \in Votes PROVE Part(a, v) >= Part(stakes[x], v) \/ Charged(v)
      <3>1. CASE v = BondOf[s]  BY <2>7, <3>1
      <3>2. CASE v # BondOf[s]
        <4>1. Part(a, v) = Part(stakes[x], v)  BY <1>0, <2>5, <2>6, <3>2
        <4> QED BY <2>8, <4>1
      <3> QED BY <3>1, <3>2
    <2> QED BY <2>2, <2>5, <2>9, PartsOne
  <1> QED BY <1>1, <1>2, <1>3

(* The end of a settlement: the refund is taken from the bond it was for. *)
LEMMA EndHeld ==
  ASSUME TypeOK, TypeOK', VotersKnown, NEW s \in Settlements,
         CloseSettlementV2(s) \/ \E receiver \in Payers : CancelSettlement(s, receiver)
  PROVE  VotersKnown' /\ \A v \in Votes : Paid(v)
  <1>0. /\ settlements \in [Settlements -> Settlement]
        /\ \A x \in StakeIds : stakes[x] \in StakeAccount /\ Known(stakes[x])
    BY DEF TypeOK, VotersKnown
  <1>1. /\ settlements' = [settlements EXCEPT ![s] = NoSettlement]
        /\ settlements[s].exists /\ \E receiver : RefundSplitRent(s, receiver)
    BY DEF CloseSettlementV2, CancelSettlement, RemoveSettlement
  <1>2. Charged(BondOf[s])
    <2>1. settlements'[s] = NoSettlement  BY <1>0, <1>1
    <2>2. settlements'[s] # settlements[s]  BY <1>1, <2>1 DEF NoSettlement
    <2> QED BY <2>2 DEF Charged
  <1>3. CASE stakes' = stakes  BY <1>3, PartsNone
  <1>4. ASSUME NEW x \in StakeIds, CanRefund(s, x),
               stakes' = [stakes EXCEPT ![x] =
                             Withdrawn(@, settlements[s].split_rent_amount)]
        PROVE  VotersKnown' /\ \A v \in Votes : Paid(v)
    <2> DEFINE amount == settlements[s].split_rent_amount
               a == Withdrawn(stakes[x], amount)
    <2>1. stakes' = [stakes EXCEPT ![x] = a]  BY <1>4
    <2>2. stakes[x].voter = BondOf[s]  BY <1>4 DEF CanRefund, DelegatedTo
    <2>3. amount \in Nat  BY <1>0 DEF Settlement
    <2> HIDE DEF amount
    <2>4. Known(a) /\ \A v : stakes[x].voter # v => Part(a, v) = Part(stakes[x], v)
      BY <1>0, <2>3, WithdrawnHeld
    <2> HIDE DEF a
    <2>5. \A v \in Votes : Part(stakes[x], v) \in Nat  BY <1>0, ShareNat
    <2>6. ASSUME NEW v \in Votes PROVE Part(a, v) >= Part(stakes[x], v) \/ Charged(v)
      <3>1. CASE v = BondOf[s]  BY <1>2, <3>1
      <3>2. CASE v # BondOf[s]
        <4>1. Part(a, v) = Part(stakes[x], v)  BY <2>2, <2>4, <3>2
        <4> QED BY <2>5, <4>1
      <3> QED BY <3>1, <3>2
    <2> QED BY <2>1, <2>4, <2>6, PartsOne
  <1> QED BY <1>1, <1>3, <1>4 DEF RefundSplitRent

(* Instructions on a stake account, and the rest of the chain *)
LEMMA StakeHeld ==
  ASSUME TypeOK, TypeOK', VotersKnown, NEW x \in StakeIds,
         \/ \E s \in Settlements, v \in Votes : ResetStake(s, v, x)
         \/ \E s \in Settlements : WithdrawStake(s, x)
         \/ \E y \in StakeIds : MergeStake(x, y)
         \/ OwnerDeactivates(x)
  PROVE  VotersKnown' /\ \A v \in Votes : Paid(v)
  <1>0. stakes[x] \in StakeAccount /\ Known(stakes[x]) /\ slot \in Nat /\ Nobody \notin Votes
    BY AuthoritiesAssumption DEF TypeOK, VotersKnown
  <1>1. CASE \E s \in Settlements, v \in Votes : ResetStake(s, v, x)
    <2>1. PICK s \in Settlements, v \in Votes : ResetStake(s, v, x)  BY <1>1
    <2> DEFINE reset == [stakes[x] EXCEPT !.staker = Bonds]
               a == IF voteLive[v] THEN Delegated(reset, v, Epoch) ELSE reset
    <2>2. /\ stakes' = [stakes EXCEPT ![x] = a]
          /\ stakes[x].withdrawer = Bonds
          /\ IsDelegated(stakes[x]) /\ stakes[x].voter = v
      BY <2>1 DEF ResetStake, InCustody, DelegatedTo
    <2>3. /\ reset \in StakeAccount /\ IsDelegated(reset) /\ reset.voter = v
          /\ reset.staker = Bonds /\ reset.withdrawer = Bonds
          /\ reset.lamports = stakes[x].lamports
      BY <1>0, <2>2 DEF StakeAccount, IsDelegated
    <2> HIDE DEF reset
    <2>4. /\ IsDelegated(a) /\ a.staker = Bonds /\ a.withdrawer = Bonds /\ a.voter = v
      BY <2>3, DelegatedKeeps
    <2>5. a.lamports = stakes[x].lamports
      BY <2>3 DEF Delegated, StakeAccount
    <2> HIDE DEF a
    <2>6. Known(a)
      BY <2>4, AuthoritiesAssumption DEF Known, IsDelegated
    <2>7. \A w \in Votes : Part(a, w) = Part(stakes[x], w)
      BY <2>2, <2>4, <2>5 DEF Part, Exists, IsDelegated
    <2>8. \A w \in Votes : Part(stakes[x], w) \in Nat  BY <1>0, ShareNat
    <2>9. \A w \in Votes : Part(a, w) >= Part(stakes[x], w)  BY <2>7, <2>8
    <2> QED BY <2>2, <2>6, <2>9, PartsOne
  <1>2. CASE \E s \in Settlements : WithdrawStake(s, x)
    <2> DEFINE a == Withdrawn(stakes[x], stakes[x].lamports)
    <2>1. stakes' = [stakes EXCEPT ![x] = a] /\ stakes[x].state = "initialized"
      BY <1>2 DEF WithdrawStake
    <2>2. stakes[x].lamports \in Nat  BY <1>0 DEF StakeAccount
    <2>3. Known(a) /\ \A v : stakes[x].voter # v => Part(a, v) = Part(stakes[x], v)
      BY <1>0, <2>2, WithdrawnHeld
    <2> HIDE DEF a
    <2>4. stakes[x].voter = Nobody  BY <1>0, <2>1 DEF Known
    <2>5. \A v \in Votes : Part(a, v) = Part(stakes[x], v)  BY <1>0, <2>3, <2>4
    <2>6. \A v \in Votes : Part(stakes[x], v) \in Nat  BY <1>0, ShareNat
    <2>7. \A v \in Votes : Part(a, v) >= Part(stakes[x], v)  BY <2>5, <2>6
    <2> QED BY <2>1, <2>3, <2>7, PartsOne
  <1>3. CASE \E y \in StakeIds : MergeStake(x, y)
    <2>1. PICK y \in StakeIds : MergeStake(x, y)  BY <1>3
    <2> DEFINE a == Merged(stakes[y], stakes[x], Epoch)
    <2>2. /\ stakes' = [stakes EXCEPT ![y] = a, ![x] = NoAccount] /\ x # y
          /\ Exists(stakes[y]) /\ Exists(stakes[x])
          /\ stakes[x].withdrawer = Bonds /\ stakes[y].withdrawer = Bonds
          /\ stakes[x].voter = stakes[y].voter
      BY <2>1 DEF MergeStake, InCustody
    <2>3. stakes[y] \in StakeAccount /\ Known(stakes[y])  BY DEF TypeOK, VotersKnown
    <2>4. /\ a.state = stakes[y].state /\ a.staker = stakes[y].staker
          /\ a.withdrawer = stakes[y].withdrawer /\ a.voter = stakes[y].voter
          /\ a.lamports = stakes[y].lamports + stakes[x].lamports
      BY <2>3 DEF Merged, StakeAccount
    <2> HIDE DEF a
    <2>5. Known(a)  BY <2>3, <2>4 DEF Known, Exists
    <2>6. Known(NoAccount) /\ \A v : Part(NoAccount, v) = 0
      BY DEF NoAccount, Known, Part, Exists
    <2>7. ASSUME NEW v \in Votes
          PROVE  Part(a, v) + Part(NoAccount, v)
                    >= Part(stakes[y], v) + Part(stakes[x], v)
      <3>1. stakes[x].lamports \in Nat /\ stakes[y].lamports \in Nat
        BY <1>0, <2>3 DEF StakeAccount
      <3> QED BY <2>2, <2>4, <2>6, <3>1 DEF Part, Exists
    <2> QED BY <2>2, <2>5, <2>6, <2>7, PartsTwo
  <1>4. CASE OwnerDeactivates(x)
    <2> DEFINE a == Deactivated(stakes[x], Epoch)
    <2>1. stakes' = [stakes EXCEPT ![x] = a]  BY <1>4 DEF OwnerDeactivates
    <2>2. /\ a.state = stakes[x].state /\ a.staker = stakes[x].staker
          /\ a.withdrawer = stakes[x].withdrawer /\ a.voter = stakes[x].voter
          /\ a.lamports = stakes[x].lamports
      BY <1>0 DEF Deactivated, StakeAccount
    <2> HIDE DEF a
    <2>3. Known(a)  BY <1>0, <2>2 DEF Known, Exists
    <2>4. \A v \in Votes : Part(a, v) = Part(stakes[x], v)
      BY <2>2 DEF Part, Exists
    <2>5. \A v \in Votes : Part(stakes[x], v) \in Nat  BY <1>0, ShareNat
    <2>6. \A v \in Votes : Part(a, v) >= Part(stakes[x], v)  BY <2>4, <2>5
    <2> QED BY <2>1, <2>3, <2>6, PartsOne
  <1> QED BY <1>1, <1>2, <1>3, <1>4

LEMMA OutsideHeld ==
  ASSUME TypeOK, TypeOK', VotersKnown, NEW x \in StakeIds,
         \/ \E d \in Deposits : CreateStake(x, d)
         \/ \E amount \in Tips : Tip(x, amount)
  PROVE  VotersKnown' /\ \A v \in Votes : Paid(v)
  <1>0. stakes[x] \in StakeAccount /\ Known(stakes[x])
    BY DEF TypeOK, VotersKnown
  <1>1. CASE \E d \in Deposits : CreateStake(x, d)
    <2>1. PICK d \in Deposits : CreateStake(x, d)  BY <1>1
    <2> DEFINE acc == [NoAccount EXCEPT !.state = "initialized", !.lamports = d.lamports,
                                        !.staker = d.staker, !.withdrawer = d.withdrawer,
                                        !.locked = d.locked]
               a == IF d.voter = Nobody THEN acc ELSE Delegated(acc, d.voter, Epoch)
    <2>2. stakes' = [stakes EXCEPT ![x] = a] /\ ~Exists(stakes[x])
      BY <2>1 DEF CreateStake, Fresh
    <2>3. /\ acc.state = "initialized" /\ acc.voter = Nobody /\ acc.staker = d.staker
      BY DEF NoAccount
    <2>4. a = Delegated(acc, d.voter, Epoch) => IsDelegated(a) /\ a.staker = d.staker
      BY DEF Delegated, Effective, IsDelegated, NoAccount
    <2>5. a \in StakeAccount
      <3>1. stakes'[x] = a  BY <2>2 DEF TypeOK
      <3> QED BY <3>1 DEF TypeOK
    <2>6. d.staker \in Settlements => d.voter = Nobody  BY DepositsAssumption
    <2>7. Known(a)
      <3>1. CASE d.voter = Nobody
        <4>1. a = acc  BY <3>1
        <4> HIDE DEF a, acc
        <4> QED BY <2>3, <4>1 DEF Known
      <3>2. CASE d.voter # Nobody
        <4>1. a = Delegated(acc, d.voter, Epoch)  BY <3>2
        <4> HIDE DEF a, acc
        <4> QED BY <2>4, <2>6, <3>2, <4>1 DEF Known, IsDelegated
      <3> QED BY <3>1, <3>2
    <2> HIDE DEF a
    <2>8. \A v \in Votes : Part(a, v) \in Nat  BY <2>5, ShareNat
    <2>9. \A v \in Votes : Part(a, v) >= Part(stakes[x], v)
      BY <2>2, <2>8 DEF Part
    <2> QED BY <2>2, <2>7, <2>9, PartsOne
  <1>2. CASE \E amount \in Tips : Tip(x, amount)
    <2>1. PICK amount \in Tips : Tip(x, amount)  BY <1>2
    <2> DEFINE a == [stakes[x] EXCEPT !.lamports = @ + amount]
    <2>2. stakes' = [stakes EXCEPT ![x] = a]  BY <2>1 DEF Tip, TypeOK
    <2>3. amount \in Nat /\ stakes[x].lamports \in Nat
      BY <1>0, EnvironmentAssumption DEF StakeAccount
    <2>4. /\ a.state = stakes[x].state /\ a.staker = stakes[x].staker
          /\ a.withdrawer = stakes[x].withdrawer /\ a.voter = stakes[x].voter
          /\ a.lamports = stakes[x].lamports + amount
      BY <1>0 DEF StakeAccount
    <2> HIDE DEF a
    <2>5. Known(a)  BY <1>0, <2>4 DEF Known, Exists
    <2>6. \A v \in Votes : Part(a, v) >= Part(stakes[x], v)
      BY <2>3, <2>4 DEF Part, Exists
    <2> QED BY <2>2, <2>5, <2>6, PartsOne
  <1> QED BY <1>1, <1>2

LEMMA StepHeld ==
  TypeOK /\ TypeOK' /\ VotersKnown /\ [Next]_vars => VotersKnown' /\ \A v \in Votes : Paid(v)
  <1> SUFFICES ASSUME TypeOK, TypeOK', VotersKnown, [Next]_vars
               PROVE  VotersKnown' /\ \A v \in Votes : Paid(v)
    OBVIOUS
  <1>1. CASE UNCHANGED vars  BY <1>1, PartsNone DEF vars
  <1>2. CASE \/ Tick \/ EmergencyPause \/ EmergencyResume
             \/ \E c \in Config : ConfigureConfig(c)
    BY <1>2, PartsNone DEF Tick, EmergencyPause, EmergencyResume, ConfigureConfig
  <1>3. ASSUME NEW v \in Votes,
               \/ CloseVoteAccount(v)
               \/ CancelWithdrawRequest(v)
               \/ \E amount \in Amounts : InitWithdrawRequest(v, amount)
        PROVE  VotersKnown' /\ \A w \in Votes : Paid(w)
    BY <1>3, PartsNone DEF CloseVoteAccount, CancelWithdrawRequest, InitWithdrawRequest
  <1>4. ASSUME NEW s \in Settlements,
               \/ \E total \in MaxTotals, nodes \in MaxNodes : InitSettlement(s, total, nodes)
               \/ UpsizeSettlementClaims(s)
        PROVE  VotersKnown' /\ \A v \in Votes : Paid(v)
    BY <1>4, PartsNone DEF InitSettlement, UpsizeSettlementClaims
  <1>5. ASSUME NEW x \in StakeIds,
               \/ ManualDeposit(x)
               \/ \E w \in Votes : FundBond(x, w)
               \/ \E w \in Votes : ClaimWithdrawWhole(w, x)
               \/ \E w \in Votes, y \in StakeIds : ClaimWithdrawSplit(w, x, y)
        PROVE  VotersKnown' /\ \A v \in Votes : Paid(v)
    BY <1>5, DepositHeld, RequestHeld
  <1>6. ASSUME NEW s \in Settlements, NEW x \in StakeIds,
               \/ FundWhole(s, x)
               \/ \E y \in StakeIds, payer \in Payers : FundSplit(s, x, y, payer)
               \/ \E i \in DOMAIN Tree[s] : ClaimSettlementV2(s, i, x)
        PROVE  VotersKnown' /\ \A v \in Votes : Paid(v)
    BY <1>6, SettlementHeld
  <1>7. ASSUME NEW s \in Settlements,
               CloseSettlementV2(s) \/ \E receiver \in Payers : CancelSettlement(s, receiver)
        PROVE  VotersKnown' /\ \A v \in Votes : Paid(v)
    BY <1>7, EndHeld
  <1>8. ASSUME NEW x \in StakeIds,
               \/ \E s \in Settlements, v \in Votes : ResetStake(s, v, x)
               \/ \E s \in Settlements : WithdrawStake(s, x)
               \/ \E y \in StakeIds : MergeStake(x, y)
               \/ OwnerDeactivates(x)
               \/ \E d \in Deposits : CreateStake(x, d)
               \/ \E amount \in Tips : Tip(x, amount)
        PROVE  VotersKnown' /\ \A v \in Votes : Paid(v)
    BY <1>8, StakeHeld, OutsideHeld
  <1>9. CASE Next
    BY <1>2, <1>3, <1>4, <1>5, <1>6, <1>7, <1>8, <1>9 DEF Next
  <1> QED BY <1>1, <1>9

LEMMA InitKnown == Init => VotersKnown
  BY DEF Init, VotersKnown, Known, NoAccount, Exists

(* A bond pays for its own validator only: what the program holds for it   *)
(* shrinks by a funding of, a claim from or the end of one of its own      *)
(* settlements, or by its own withdraw request, never by what is done for  *)
(* another validator, by a merge, a reset or a withdrawal of Marinade's.   *)
THEOREM BondPaysOnlyForItself == Spec => BondPaysForItselfOnly
  <1>1. TypeOK /\ TypeOK' /\ VotersKnown /\ [Next]_vars
          => [\A v \in Votes : Paid(v)]_vars
    BY StepHeld
  <1> QED
    BY <1>1, InitKnown, StepHeld, TypeCorrect, PTL
    DEF Spec, BondPaysForItselfOnly, Paid, Charged

-----------------------------------------------------------------------------
(* What is held for a settlement *)

(* What account acc counts for s *)
HeldWith(acc, s) ==
    IF Exists(acc) /\ acc.withdrawer = Bonds /\ acc.staker = s THEN acc.lamports ELSE 0

HeldIn(s) == [x \in StakeIds |-> HeldWith(stakes[x], s)]

LEMMA HeldByType ==
  ASSUME NEW acc \in StakeAccount, NEW s PROVE HeldWith(acc, s) \in Nat
  BY DEF HeldWith, StakeAccount

(* The sum of SettlementKeepsItsFunds is one over all addresses. *)
HeldInIsSum == \A s \in Settlements : /\ HeldIn(s) \in [StakeIds -> Int]
                                       /\ HeldBy(s) = Sum(HeldIn(s), StakeIds)

LEMMA HeldInSum == TypeOK => HeldInIsSum
  <1> SUFFICES ASSUME TypeOK, NEW s \in Settlements
               PROVE  /\ HeldIn(s) \in [StakeIds -> Int]
                      /\ HeldBy(s) = Sum(HeldIn(s), StakeIds)
    BY DEF HeldInIsSum
  <1> DEFINE lam == [x \in StakeIds |-> stakes[x].lamports]
             of == {x \in StakeIds : InCustody(x) /\ stakes[x].staker = s}
  <1>1. lam \in [StakeIds -> Int]  BY DEF TypeOK, StakeAccount
  <1>2. of \in SUBSET StakeIds  OBVIOUS
  <1>3. Sum(lam, of) = Sum([x \in StakeIds |-> IF x \in of THEN lam[x] ELSE 0], StakeIds)
    <2> HIDE DEF lam, of
    <2> QED BY <1>1, <1>2, SumPart, StakeIdsAssumption
  <1>4. [x \in StakeIds |-> IF x \in of THEN lam[x] ELSE 0] = HeldIn(s)
    BY DEF HeldIn, HeldWith, InCustody
  <1>5. HeldBy(s) = Sum(lam, of)
    <2>1. MapThenSumSet(LAMBDA x : stakes[x].lamports, of) = Sum(lam, of)
      BY DEF Sum, MapThenSumSet, MapThenFoldSet
    <2> QED BY <2>1 DEF HeldBy, FundedStakes
  <1>6. HeldIn(s) \in [StakeIds -> Int]
    BY HeldByType DEF TypeOK, HeldIn
  <1> QED BY <1>3, <1>4, <1>5, <1>6

(* What a step adds that changes no account, one or two *)
LEMMA HeldInSame ==
  ASSUME TypeOK, TypeOK', stakes' = stakes, NEW s \in Settlements
  PROVE  HeldBy(s) \in Int /\ HeldBy(s)' = HeldBy(s)
  <1>1. HeldInIsSum /\ HeldInIsSum'  BY HeldInSum, PTL
  <1>2. HeldIn(s)' = HeldIn(s)  BY DEF HeldIn
  <1>3. HeldBy(s)' = HeldBy(s)  BY <1>1, <1>2 DEF HeldInIsSum
  <1>4. HeldBy(s) \in Int  BY <1>1, SumInt, StakeIdsAssumption DEF HeldInIsSum
  <1> QED BY <1>3, <1>4

LEMMA HeldInOne ==
  ASSUME TypeOK, TypeOK', NEW x \in StakeIds,
         \A z \in StakeIds : z # x => stakes'[z] = stakes[z],
         NEW s \in Settlements
  PROVE  /\ HeldBy(s) \in Int /\ HeldBy(s)' \in Int
         /\ HeldWith(stakes[x], s) \in Nat /\ HeldWith(stakes'[x], s) \in Nat
         /\ HeldBy(s)' = HeldBy(s) + HeldWith(stakes'[x], s) - HeldWith(stakes[x], s)
  <1> DEFINE f == HeldIn(s)
             g == [z \in StakeIds |-> HeldWith(stakes'[z], s)]
  <1>1. HeldInIsSum /\ HeldInIsSum'  BY HeldInSum, PTL
  <1>2. f \in [StakeIds -> Int] /\ HeldBy(s) = Sum(f, StakeIds)
    BY <1>1 DEF HeldInIsSum
  <1>3. HeldIn(s)' = g  BY DEF HeldIn, HeldWith
  <1>4. g \in [StakeIds -> Int] /\ HeldBy(s)' = Sum(g, StakeIds)
    BY <1>1, <1>3 DEF HeldInIsSum
  <1>5. f[x] = HeldWith(stakes[x], s) /\ g[x] = HeldWith(stakes'[x], s)  BY DEF HeldIn
  <1>6. \A z \in StakeIds \ {x} : f[z] = g[z]  BY DEF HeldIn
  <1>7. HeldWith(stakes[x], s) \in Nat /\ HeldWith(stakes'[x], s) \in Nat
    BY HeldByType DEF TypeOK
  <1> HIDE DEF f, g
  <1>8. Sum(f, StakeIds) - f[x] = Sum(g, StakeIds) - g[x]
    BY <1>2, <1>4, <1>6, SumOne, StakeIdsAssumption
  <1>9. Sum(f, StakeIds) \in Int /\ Sum(g, StakeIds) \in Int
    BY <1>2, <1>4, SumInt, StakeIdsAssumption
  <1> QED BY <1>2, <1>4, <1>5, <1>7, <1>8, <1>9

LEMMA Balance ==
  ASSUME NEW h \in Int, NEW k \in Int, NEW a \in Int, NEW b \in Int,
         NEW c \in Int, NEW d \in Int, h - a - b = k - c - d
  PROVE  k = h + c - a + d - b
  OBVIOUS

LEMMA HeldInTwo ==
  ASSUME TypeOK, TypeOK', NEW x \in StakeIds, NEW y \in StakeIds, x # y,
         \A z \in StakeIds : z # x /\ z # y => stakes'[z] = stakes[z],
         NEW s \in Settlements
  PROVE  /\ HeldBy(s) \in Int /\ HeldBy(s)' \in Int
         /\ HeldWith(stakes[x], s) \in Nat /\ HeldWith(stakes'[x], s) \in Nat
         /\ HeldWith(stakes[y], s) \in Nat /\ HeldWith(stakes'[y], s) \in Nat
         /\ HeldBy(s)' = HeldBy(s) + HeldWith(stakes'[x], s) - HeldWith(stakes[x], s)
                                   + HeldWith(stakes'[y], s) - HeldWith(stakes[y], s)
  <1> DEFINE f == HeldIn(s)
             g == [z \in StakeIds |-> HeldWith(stakes'[z], s)]
  <1>1. HeldInIsSum /\ HeldInIsSum'  BY HeldInSum, PTL
  <1>2. f \in [StakeIds -> Int] /\ HeldBy(s) = Sum(f, StakeIds)
    BY <1>1 DEF HeldInIsSum
  <1>3. HeldIn(s)' = g  BY DEF HeldIn, HeldWith
  <1>4. g \in [StakeIds -> Int] /\ HeldBy(s)' = Sum(g, StakeIds)
    BY <1>1, <1>3 DEF HeldInIsSum
  <1>5. /\ f[x] = HeldWith(stakes[x], s) /\ g[x] = HeldWith(stakes'[x], s)
        /\ f[y] = HeldWith(stakes[y], s) /\ g[y] = HeldWith(stakes'[y], s)
    BY DEF HeldIn
  <1>6. \A z \in StakeIds \ {x, y} : f[z] = g[z]  BY DEF HeldIn
  <1>7. /\ HeldWith(stakes[x], s) \in Nat /\ HeldWith(stakes'[x], s) \in Nat
        /\ HeldWith(stakes[y], s) \in Nat /\ HeldWith(stakes'[y], s) \in Nat
    BY HeldByType DEF TypeOK
  <1> HIDE DEF f, g
  <1>8. Sum(f, StakeIds) - f[x] - f[y] = Sum(g, StakeIds) - g[x] - g[y]
    BY <1>2, <1>4, <1>6, SumTwo, StakeIdsAssumption
  <1>9. Sum(f, StakeIds) \in Int /\ Sum(g, StakeIds) \in Int
    BY <1>2, <1>4, SumInt, StakeIdsAssumption
  <1>10. HeldBy(s) \in Int /\ HeldBy(s)' \in Int
    BY <1>2, <1>4, <1>9
  <1>11. HeldBy(s) - HeldWith(stakes[x], s) - HeldWith(stakes[y], s)
            = HeldBy(s)' - HeldWith(stakes'[x], s) - HeldWith(stakes'[y], s)
    BY <1>2, <1>4, <1>5, <1>8
  <1> DEFINE h == HeldBy(s)
             k == HeldBy(s)'
             a == HeldWith(stakes[x], s)
             b == HeldWith(stakes[y], s)
             c == HeldWith(stakes'[x], s)
             d == HeldWith(stakes'[y], s)
  <1>12. /\ h \in Int /\ k \in Int /\ a \in Nat /\ b \in Nat /\ c \in Nat /\ d \in Nat
         /\ h - a - b = k - c - d
    BY <1>7, <1>10, <1>11
  <1>13. k = h + c - a + d - b
    <2> HIDE DEF h, k, a, b, c, d
    <2>1. /\ h \in Int /\ k \in Int /\ a \in Int /\ b \in Int /\ c \in Int /\ d \in Int
          /\ h - a - b = k - c - d
      BY <1>12
    <2> QED BY <2>1, Balance
  <1> QED BY <1>12, <1>13

(* Settlements that exist do not lose. *)
NothingLost == \A s \in Settlements : settlements[s].exists => HeldBy(s)' >= HeldBy(s)

LEMMA NoneLost ==
  ASSUME TypeOK, TypeOK', stakes' = stakes PROVE NothingLost
  <1>1. \A s \in Settlements : HeldBy(s) \in Int /\ HeldBy(s)' = HeldBy(s)
    BY HeldInSame
  <1> QED BY <1>1 DEF NothingLost

LEMMA OneLost ==
  ASSUME TypeOK, TypeOK', NEW x \in StakeIds,
         \A z \in StakeIds : z # x => stakes'[z] = stakes[z],
         \A s \in Settlements : settlements[s].exists
             => HeldWith(stakes'[x], s) >= HeldWith(stakes[x], s)
  PROVE  NothingLost
  <1> SUFFICES ASSUME NEW s \in Settlements, settlements[s].exists
               PROVE  HeldBy(s)' >= HeldBy(s)
    BY DEF NothingLost
  <1> QED BY HeldInOne

LEMMA TwoLost ==
  ASSUME TypeOK, TypeOK', NEW x \in StakeIds, NEW y \in StakeIds, x # y,
         \A z \in StakeIds : z # x /\ z # y => stakes'[z] = stakes[z],
         \A s \in Settlements : settlements[s].exists
             => HeldWith(stakes'[x], s) + HeldWith(stakes'[y], s)
                  >= HeldWith(stakes[x], s) + HeldWith(stakes[y], s)
  PROVE  NothingLost
  <1> SUFFICES ASSUME NEW s \in Settlements, settlements[s].exists
               PROVE  HeldBy(s)' >= HeldBy(s)
    BY DEF NothingLost
  <1>1. /\ HeldBy(s) \in Int /\ HeldBy(s)' \in Int
        /\ HeldWith(stakes[x], s) \in Nat /\ HeldWith(stakes'[x], s) \in Nat
        /\ HeldWith(stakes[y], s) \in Nat /\ HeldWith(stakes'[y], s) \in Nat
        /\ HeldBy(s)' = HeldBy(s) + HeldWith(stakes'[x], s) - HeldWith(stakes[x], s)
                                  + HeldWith(stakes'[y], s) - HeldWith(stakes[y], s)
    BY HeldInTwo
  <1> QED BY <1>1

(* An account that is held for no settlement that exists *)
Unheld(x) == \A s \in Settlements : settlements[s].exists => HeldWith(stakes[x], s) = 0

LEMMA UnheldOne ==
  ASSUME TypeOK, TypeOK', NEW x \in StakeIds, Unheld(x),
         \A z \in StakeIds : z # x => stakes'[z] = stakes[z]
  PROVE  NothingLost
  <1>1. \A s \in Settlements : HeldWith(stakes'[x], s) \in Nat
    BY HeldByType DEF TypeOK
  <1>2. \A s \in Settlements : settlements[s].exists
            => HeldWith(stakes'[x], s) >= HeldWith(stakes[x], s)
    BY <1>1 DEF Unheld
  <1> QED BY <1>2, OneLost

LEMMA UnheldTwo ==
  ASSUME TypeOK, TypeOK', NEW x \in StakeIds, NEW y \in StakeIds, x # y,
         Unheld(x), Unheld(y),
         \A z \in StakeIds : z # x /\ z # y => stakes'[z] = stakes[z]
  PROVE  NothingLost
  <1>1. \A s \in Settlements : HeldWith(stakes'[x], s) \in Nat /\ HeldWith(stakes'[y], s) \in Nat
    BY HeldByType DEF TypeOK
  <1>2. \A s \in Settlements : settlements[s].exists
            => HeldWith(stakes'[x], s) + HeldWith(stakes'[y], s)
                  >= HeldWith(stakes[x], s) + HeldWith(stakes[y], s)
    BY <1>1 DEF Unheld
  <1> QED BY <1>2, TwoLost

LEMMA WhoIsUnheld ==
  ASSUME NEW x \in StakeIds,
         \/ ~Exists(stakes[x]) \/ stakes[x].withdrawer = Owner
         \/ stakes[x].staker \in {Bonds, Owner}
         \/ stakes[x].staker \in Settlements /\ IsClosed(stakes[x].staker)
  PROVE  Unheld(x)
  BY AuthoritiesAssumption DEF Unheld, HeldWith, IsClosed

LEMMA CreateLost ==
  ASSUME TypeOK, TypeOK', NEW x \in StakeIds, NEW d \in Deposits, CreateStake(x, d)
  PROVE  NothingLost
  <1> DEFINE acc == [NoAccount EXCEPT !.state = "initialized", !.lamports = d.lamports,
                                      !.staker = d.staker, !.withdrawer = d.withdrawer,
                                      !.locked = d.locked]
             a == IF d.voter = Nobody THEN acc ELSE Delegated(acc, d.voter, Epoch)
  <1>1. stakes' = [stakes EXCEPT ![x] = a] /\ ~Exists(stakes[x])
    BY DEF CreateStake, Fresh
  <1> HIDE DEF a
  <1>2. \A z \in StakeIds : z # x => stakes'[z] = stakes[z]
    BY <1>1 DEF TypeOK
  <1> QED BY <1>1, <1>2, WhoIsUnheld, UnheldOne

LEMMA DepositLost ==
  ASSUME TypeOK, TypeOK', NEW x \in StakeIds,
         \/ ManualDeposit(x) \/ \E w \in Votes : FundBond(x, w)
         \/ OwnerDeactivates(x) \/ \E d \in Deposits : CreateStake(x, d)
  PROVE  NothingLost
  <1>0. stakes \in [StakeIds -> StakeAccount]  BY DEF TypeOK
  <1>1. CASE ManualDeposit(x) \/ \E w \in Votes : FundBond(x, w)
    <2>1. /\ stakes[x].withdrawer = Owner
          /\ \A z \in StakeIds : z # x => stakes'[z] = stakes[z]
      BY <1>0, <1>1 DEF ManualDeposit, FundBond
    <2> QED BY <2>1, WhoIsUnheld, UnheldOne
  <1>2. CASE OwnerDeactivates(x)
    <2>1. /\ stakes[x].staker = Owner
          /\ \A z \in StakeIds : z # x => stakes'[z] = stakes[z]
      BY <1>0, <1>2 DEF OwnerDeactivates
    <2> QED BY <2>1, WhoIsUnheld, UnheldOne
  <1> QED BY <1>1, <1>2, CreateLost

LEMMA RequestLost ==
  ASSUME TypeOK, TypeOK', NEW x \in StakeIds, NEW w \in Votes,
         ClaimWithdrawWhole(w, x) \/ \E y \in StakeIds : ClaimWithdrawSplit(w, x, y)
  PROVE  NothingLost
  <1>1. Exists(stakes[x]) /\ stakes[x].staker = Bonds
    BY DEF ClaimWithdrawWhole, ClaimWithdrawSplit, ClaimWithdrawChecks, InCustody
  <1>2. Unheld(x)  BY <1>1, WhoIsUnheld
  <1>3. CASE ClaimWithdrawWhole(w, x)
    <2>1. \A z \in StakeIds : z # x => stakes'[z] = stakes[z]
      BY <1>3 DEF TypeOK, ClaimWithdrawWhole
    <2> QED BY <1>2, <2>1, UnheldOne
  <1>4. CASE \E y \in StakeIds : ClaimWithdrawSplit(w, x, y)
    <2>1. PICK y \in StakeIds : ClaimWithdrawSplit(w, x, y)  BY <1>4
    <2>2. ~Exists(stakes[y])  BY <2>1 DEF ClaimWithdrawSplit, Fresh
    <2>3. Unheld(y)  BY <2>2, WhoIsUnheld
    <2>4. \A z \in StakeIds : z # x /\ z # y => stakes'[z] = stakes[z]
      BY <2>1 DEF TypeOK, ClaimWithdrawSplit
    <2>5. x # y  BY <1>1, <2>2
    <2> QED BY <1>2, <2>3, <2>4, <2>5, UnheldTwo
  <1> QED BY <1>3, <1>4

LEMMA FundWholeLost ==
  ASSUME TypeOK, TypeOK', NEW s \in Settlements, NEW x \in StakeIds, FundWhole(s, x)
  PROVE  NothingLost
  <1>1. stakes[x].staker = Bonds  BY DEF FundWhole, FundChecks
  <1>2. \A z \in StakeIds : z # x => stakes'[z] = stakes[z]
    BY DEF TypeOK, FundWhole
  <1> QED BY <1>1, <1>2, WhoIsUnheld, UnheldOne

LEMMA FundSplitLost ==
  ASSUME TypeOK, TypeOK', NEW s \in Settlements,
         NEW x \in StakeIds, NEW y \in StakeIds, NEW payer \in Payers,
         FundSplit(s, x, y, payer)
  PROVE  NothingLost
  <1> DEFINE a == FundedTo(s, KeptForFunding(s, x))
             b == SplitOff(s, x)
  <1>1. /\ stakes' = [stakes EXCEPT ![x] = a, ![y] = b]
        /\ Exists(stakes[x]) /\ stakes[x].staker = Bonds /\ ~Exists(stakes[y])
    BY DEF FundSplit, FundChecks, InCustody, Fresh
  <1> HIDE DEF a, b
  <1>2. \A z \in StakeIds : z # x /\ z # y => stakes'[z] = stakes[z]
    BY <1>1 DEF TypeOK
  <1>3. Unheld(x) /\ Unheld(y) /\ x # y  BY <1>1, WhoIsUnheld
  <1> QED BY <1>2, <1>3, UnheldTwo

LEMMA StakeLost ==
  ASSUME TypeOK, TypeOK', NEW x \in StakeIds,
         \/ \E s \in Settlements, v \in Votes : ResetStake(s, v, x)
         \/ \E s \in Settlements : WithdrawStake(s, x)
         \/ \E amount \in Tips : Tip(x, amount)
         \/ \E y \in StakeIds : MergeStake(x, y)
  PROVE  NothingLost
  <1>0. stakes[x] \in StakeAccount  BY DEF TypeOK
  <1>1. CASE \/ \E s \in Settlements, v \in Votes : ResetStake(s, v, x)
             \/ \E s \in Settlements : WithdrawStake(s, x)
    <2>1. stakes[x].staker \in Settlements /\ IsClosed(stakes[x].staker)
      BY <1>1 DEF ResetStake, WithdrawStake
    <2>2. \A z \in StakeIds : z # x => stakes'[z] = stakes[z]
      BY <1>1 DEF TypeOK, ResetStake, WithdrawStake
    <2> QED BY <2>1, <2>2, WhoIsUnheld, UnheldOne
  <1>2. CASE \E amount \in Tips : Tip(x, amount)
    <2>1. PICK amount \in Tips : Tip(x, amount)  BY <1>2
    <2> DEFINE a == [stakes[x] EXCEPT !.lamports = @ + amount]
    <2>2. stakes' = [stakes EXCEPT ![x] = a]  BY <2>1 DEF Tip, TypeOK
    <2>3. amount \in Nat /\ stakes[x].lamports \in Nat
      BY <1>0, EnvironmentAssumption DEF StakeAccount
    <2>4. /\ a.state = stakes[x].state /\ a.staker = stakes[x].staker
          /\ a.withdrawer = stakes[x].withdrawer
          /\ a.lamports = stakes[x].lamports + amount
      BY <1>0 DEF StakeAccount
    <2> HIDE DEF a
    <2>5. stakes'[x] = a /\ \A z \in StakeIds : z # x => stakes'[z] = stakes[z]
      BY <2>2 DEF TypeOK
    <2>6. \A s \in Settlements : HeldWith(stakes'[x], s) >= HeldWith(stakes[x], s)
      BY <2>3, <2>4, <2>5 DEF HeldWith, Exists
    <2> QED BY <2>5, <2>6, OneLost
  <1>3. CASE \E y \in StakeIds : MergeStake(x, y)
    <2>1. PICK y \in StakeIds : MergeStake(x, y)  BY <1>3
    <2> DEFINE a == Merged(stakes[y], stakes[x], Epoch)
    <2>2. /\ stakes' = [stakes EXCEPT ![y] = a, ![x] = NoAccount] /\ x # y
          /\ Exists(stakes[y]) /\ Exists(stakes[x])
          /\ stakes[x].withdrawer = Bonds /\ stakes[y].withdrawer = Bonds
          /\ stakes[x].staker = stakes[y].staker
      BY <2>1 DEF MergeStake, InCustody
    <2>3. stakes[y] \in StakeAccount  BY DEF TypeOK
    <2>4. /\ a.state = stakes[y].state /\ a.staker = stakes[y].staker
          /\ a.withdrawer = stakes[y].withdrawer
          /\ a.lamports = stakes[y].lamports + stakes[x].lamports
      BY <2>3 DEF Merged, StakeAccount
    <2> HIDE DEF a
    <2>5. /\ stakes'[y] = a /\ stakes'[x] = NoAccount
          /\ \A z \in StakeIds : z # x /\ z # y => stakes'[z] = stakes[z]
      BY <2>2 DEF TypeOK
    <2>6. \A s : HeldWith(NoAccount, s) = 0  BY DEF NoAccount, HeldWith, Exists
    <2>7. stakes[x].lamports \in Nat /\ stakes[y].lamports \in Nat
      BY <1>0, <2>3 DEF StakeAccount
    <2>8. \A s \in Settlements : HeldWith(a, s) + HeldWith(NoAccount, s)
                                   >= HeldWith(stakes[y], s) + HeldWith(stakes[x], s)
      BY <2>2, <2>4, <2>6, <2>7 DEF HeldWith, Exists
    <2>9. \A s \in Settlements : HeldWith(stakes'[y], s) + HeldWith(stakes'[x], s)
                                   >= HeldWith(stakes[y], s) + HeldWith(stakes[x], s)
      BY <2>5, <2>8
    <2> QED BY <2>2, <2>5, <2>9, TwoLost
  <1> QED BY <1>1, <1>2, <1>3

(* The steps that draw from the accounts of a settlement *)
Drawing ==
    \/ \E s \in Settlements : \/ CloseSettlementV2(s)
                              \/ \E receiver \in Payers : CancelSettlement(s, receiver)
    \/ \E s \in Settlements, x \in StakeIds : \E i \in DOMAIN Tree[s] :
          ClaimSettlementV2(s, i, x)

LEMMA OthersLost ==
  ASSUME TypeOK, TypeOK', [Next]_vars, ~Drawing PROVE NothingLost
  <1>1. CASE UNCHANGED vars  BY <1>1, NoneLost DEF vars
  <1>2. CASE \/ Tick \/ EmergencyPause \/ EmergencyResume
             \/ \E c \in Config : ConfigureConfig(c)
    BY <1>2, NoneLost DEF Tick, EmergencyPause, EmergencyResume, ConfigureConfig
  <1>3. ASSUME NEW v \in Votes,
               \/ CloseVoteAccount(v) \/ CancelWithdrawRequest(v)
               \/ \E amount \in Amounts : InitWithdrawRequest(v, amount)
        PROVE  NothingLost
    BY <1>3, NoneLost DEF CloseVoteAccount, CancelWithdrawRequest, InitWithdrawRequest
  <1>4. ASSUME NEW s \in Settlements,
               \/ \E total \in MaxTotals, nodes \in MaxNodes : InitSettlement(s, total, nodes)
               \/ UpsizeSettlementClaims(s)
        PROVE  NothingLost
    <2>1. CASE \E total \in MaxTotals, nodes \in MaxNodes : InitSettlement(s, total, nodes)
      <3>1. PICK total \in MaxTotals, nodes \in MaxNodes : InitSettlement(s, total, nodes)
        BY <2>1
      <3>2. stakes' = stakes  BY <3>1 DEF InitSettlement
      <3> QED BY <3>2, NoneLost
    <2>2. CASE UpsizeSettlementClaims(s)
      BY <2>2, NoneLost DEF UpsizeSettlementClaims
    <2> QED BY <1>4, <2>1, <2>2
  <1>5. ASSUME NEW x \in StakeIds,
               \/ ManualDeposit(x)
               \/ \E w \in Votes : FundBond(x, w)
               \/ \E w \in Votes : ClaimWithdrawWhole(w, x)
               \/ \E w \in Votes, y \in StakeIds : ClaimWithdrawSplit(w, x, y)
        PROVE  NothingLost
    BY <1>5, DepositLost, RequestLost
  <1>6. ASSUME NEW s \in Settlements, NEW x \in StakeIds,
               \/ FundWhole(s, x)
               \/ \E y \in StakeIds, payer \in Payers : FundSplit(s, x, y, payer)
        PROVE  NothingLost
    BY <1>6, FundWholeLost, FundSplitLost
  <1>7. ASSUME NEW x \in StakeIds,
               \/ \E s \in Settlements, v \in Votes : ResetStake(s, v, x)
               \/ \E s \in Settlements : WithdrawStake(s, x)
               \/ \E y \in StakeIds : MergeStake(x, y)
               \/ OwnerDeactivates(x)
               \/ \E d \in Deposits : CreateStake(x, d)
               \/ \E amount \in Tips : Tip(x, amount)
        PROVE  NothingLost
    BY <1>7, StakeLost, DepositLost
  <1>8. CASE Next
    BY <1>2, <1>3, <1>4, <1>5, <1>6, <1>7, <1>8 DEF Next, Drawing
  <1> QED BY <1>1, <1>8

(* The counter of claims moves by claims only. *)
LEMMA ClaimedStays ==
  ASSUME TypeOK, [Next]_vars, ~Drawing, NEW s \in Settlements, settlements[s].exists
  PROVE  settlements'[s].lamports_claimed = settlements[s].lamports_claimed
  <1>1. CASE ~ \E z \in Settlements : SettlementStep(z)
    BY <1>1, SettlementsUntouched
  <1>2. ASSUME NEW z \in Settlements, SettlementStep(z)
        PROVE  settlements'[s].lamports_claimed = settlements[s].lamports_claimed
    <2>0. settlements \in [Settlements -> Settlement]  BY DEF TypeOK
    <2>1. CASE \E total \in MaxTotals, nodes \in MaxNodes : InitSettlement(z, total, nodes)
      <3>1. ~settlements[z].exists /\ \E n : settlements' = [settlements EXCEPT ![z] = n]
        BY <2>1 DEF InitSettlement
      <3> QED BY <2>0, <3>1
    <2>2. CASE \E x \in StakeIds : FundWhole(z, x)
      <3>1. \E n : settlements' = [settlements EXCEPT ![z].lamports_funded = n]
        BY <2>2 DEF FundWhole
      <3> QED BY <2>0, <3>1 DEF Settlement
    <2>3. CASE \E x, y \in StakeIds, payer \in Payers : FundSplit(z, x, y, payer)
      <3>1. PICK x \in StakeIds, y \in StakeIds, payer \in Payers : FundSplit(z, x, y, payer)
        BY <2>3
      <3>2. settlements' = [settlements EXCEPT ![z].lamports_funded = @ + Lacking(z),
                               ![z].split_rent_collector = payer, ![z].split_rent_amount = Rent]
        BY <3>1 DEF FundSplit
      <3> QED BY <2>0, <3>2 DEF Settlement
    <2> QED BY <1>2, <2>1, <2>2, <2>3 DEF SettlementStep, Drawing
  <1> QED BY <1>1, <1>2

LEMMA WithdrawnBy ==
  ASSUME NEW acc \in StakeAccount, NEW amount \in Nat, NEW s
  PROVE  /\ HeldWith(acc, s) # 0 => HeldWith(Withdrawn(acc, amount), s) = HeldWith(acc, s) - amount
         /\ HeldWith(acc, s) = 0 => HeldWith(Withdrawn(acc, amount), s) \in {0, -amount}
  <1>1. CASE amount = acc.lamports
    <2>1. Withdrawn(acc, amount) = NoAccount  BY <1>1 DEF Withdrawn
    <2>2. HeldWith(NoAccount, s) = 0  BY DEF NoAccount, HeldWith, Exists
    <2> QED BY <1>1, <2>1, <2>2 DEF HeldWith
  <1>2. CASE amount # acc.lamports
    <2> DEFINE b == [acc EXCEPT !.lamports = @ - amount]
    <2>1. /\ b.state = acc.state /\ b.staker = acc.staker
          /\ b.withdrawer = acc.withdrawer /\ b.lamports = acc.lamports - amount
      BY DEF StakeAccount
    <2>2. Withdrawn(acc, amount) = b  BY <1>2 DEF Withdrawn
    <2>3. acc.lamports \in Nat  BY DEF StakeAccount
    <2> HIDE DEF b
    <2> QED BY <2>1, <2>2, <2>3 DEF HeldWith, Exists
  <1> QED BY <1>1, <1>2

(* What SettlementKeepsItsFunds says of s and a step *)
KeepsFunds(s) ==
    settlements[s].exists /\ settlements'[s].exists =>
       LET kept == HeldBy(s)' + settlements'[s].lamports_claimed
                              - settlements[s].lamports_claimed
       IN  \/ kept >= HeldBy(s)
           \/ \E r \in Settlements :
                 /\ BondOf[r] = BondOf[s]
                 /\ settlements[r].exists /\ ~settlements'[r].exists
                 /\ kept + settlements[r].split_rent_amount >= HeldBy(s)

LEMMA ClaimKeeps ==
  ASSUME TypeOK, TypeOK', NEW s \in Settlements, NEW z \in Settlements,
         NEW x \in StakeIds, NEW i \in DOMAIN Tree[z], ClaimSettlementV2(z, i, x)
  PROVE  KeepsFunds(s)
  <1> DEFINE claim == Tree[z][i]
  <1>0. /\ stakes[x] \in StakeAccount /\ settlements \in [Settlements -> Settlement]
        /\ settlements[s].lamports_claimed \in Nat /\ claim \in Nat
    BY TreeAssumption DEF TypeOK, Settlement
  <1>1. /\ stakes' = [stakes EXCEPT ![x] = Withdrawn(@, claim)]
        /\ settlements' = [settlements EXCEPT ![z].lamports_claimed = @ + claim,
                                              ![z].merkle_nodes_claimed = @ + 1]
        /\ Exists(stakes[x]) /\ stakes[x].withdrawer = Bonds /\ stakes[x].staker = z
    BY DEF ClaimSettlementV2, InCustody
  <1> HIDE DEF claim
  <1>2. /\ stakes'[x] = Withdrawn(stakes[x], claim)
        /\ \A y \in StakeIds : y # x => stakes'[y] = stakes[y]
    BY <1>1 DEF TypeOK
  <1>3. /\ HeldBy(s) \in Int /\ HeldBy(s)' \in Int
        /\ HeldWith(stakes[x], s) \in Nat /\ HeldWith(stakes'[x], s) \in Nat
        /\ HeldBy(s)' = HeldBy(s) + HeldWith(stakes'[x], s) - HeldWith(stakes[x], s)
    BY <1>2, HeldInOne
  <1>4. CASE s = z
    <2>1. settlements'[s].lamports_claimed = settlements[s].lamports_claimed + claim
      BY <1>0, <1>1, <1>4 DEF Settlement
    <2>2. HeldWith(stakes'[x], s) >= HeldWith(stakes[x], s) - claim
      <3>1. HeldWith(stakes[x], s) # 0 =>
               HeldWith(stakes'[x], s) = HeldWith(stakes[x], s) - claim
        BY <1>0, <1>2, WithdrawnBy
      <3> QED BY <1>0, <1>3, <3>1
    <2> QED BY <1>0, <1>3, <2>1, <2>2 DEF KeepsFunds
  <1>5. CASE s # z
    <2>1. settlements'[s].lamports_claimed = settlements[s].lamports_claimed
      BY <1>0, <1>1, <1>5
    <2>2. HeldWith(stakes[x], s) = 0  BY <1>1, <1>5 DEF HeldWith
    <2> QED BY <1>0, <1>3, <2>1, <2>2 DEF KeepsFunds
  <1> QED BY <1>4, <1>5

LEMMA EndKeeps ==
  ASSUME TypeOK, TypeOK', VotersKnown, NEW s \in Settlements, NEW z \in Settlements,
         CloseSettlementV2(z) \/ \E receiver \in Payers : CancelSettlement(z, receiver)
  PROVE  KeepsFunds(s)
  <1> SUFFICES ASSUME settlements[s].exists, settlements'[s].exists
               PROVE  KeepsFunds(s)
    BY DEF KeepsFunds
  <1>0. /\ settlements \in [Settlements -> Settlement]
        /\ settlements[s].lamports_claimed \in Nat
        /\ settlements[z].split_rent_amount \in Nat
    BY DEF TypeOK, Settlement
  <1>1. /\ settlements' = [settlements EXCEPT ![z] = NoSettlement]
        /\ settlements[z].exists /\ \E receiver : RefundSplitRent(z, receiver)
    BY DEF CloseSettlementV2, CancelSettlement, RemoveSettlement
  <1>2. ~NoSettlement.exists  BY DEF NoSettlement
  <1>3. s # z /\ settlements'[s] = settlements[s] /\ ~settlements'[z].exists
    BY <1>0, <1>1, <1>2
  <1>4. CASE stakes' = stakes
    <2>1. HeldBy(s) \in Int /\ HeldBy(s)' = HeldBy(s)  BY <1>4, HeldInSame
    <2> QED BY <1>0, <1>3, <2>1 DEF KeepsFunds
  <1>5. ASSUME NEW x \in StakeIds, CanRefund(z, x),
               stakes' = [stakes EXCEPT ![x] =
                             Withdrawn(@, settlements[z].split_rent_amount)]
        PROVE  KeepsFunds(s)
    <2> DEFINE amount == settlements[z].split_rent_amount
    <2>1. /\ stakes'[x] = Withdrawn(stakes[x], amount)
          /\ \A y \in StakeIds : y # x => stakes'[y] = stakes[y]
      BY <1>5 DEF TypeOK
    <2>2. /\ stakes[x] \in StakeAccount /\ Known(stakes[x]) /\ amount \in Nat
          /\ stakes[x].voter = BondOf[z]
      BY <1>0, <1>5 DEF TypeOK, VotersKnown, CanRefund, DelegatedTo
    <2> HIDE DEF amount
    <2>3. /\ HeldBy(s) \in Int /\ HeldBy(s)' \in Int
          /\ HeldWith(stakes[x], s) \in Nat /\ HeldWith(stakes'[x], s) \in Nat
          /\ HeldBy(s)' = HeldBy(s) + HeldWith(stakes'[x], s) - HeldWith(stakes[x], s)
      BY <2>1, HeldInOne
    <2>4. CASE HeldWith(stakes[x], s) = 0
      BY <1>0, <1>3, <2>3, <2>4 DEF KeepsFunds
    <2>5. CASE HeldWith(stakes[x], s) # 0
      <3>1. HeldWith(stakes'[x], s) = HeldWith(stakes[x], s) - amount
        BY <2>1, <2>2, <2>5, WithdrawnBy
      <3>2. Exists(stakes[x]) /\ stakes[x].withdrawer = Bonds /\ stakes[x].staker = s
        BY <2>5 DEF HeldWith
      <3>3. BondOf[z] \in {BondOf[s], Nobody}  BY <2>2, <3>2 DEF Known
      <3>4. BondOf[z] = BondOf[s]
        BY <3>3, SettlementsAssumption, AuthoritiesAssumption
      <3>5. HeldBy(s)' + settlements'[s].lamports_claimed
                - settlements[s].lamports_claimed + amount >= HeldBy(s)
        BY <1>0, <1>3, <2>2, <2>3, <3>1
      <3> QED BY <1>1, <1>3, <3>4, <3>5 DEF KeepsFunds, amount
    <2> QED BY <2>4, <2>5
  <1> QED BY <1>1, <1>4, <1>5 DEF RefundSplitRent

LEMMA StepKeeps ==
  TypeOK /\ TypeOK' /\ VotersKnown /\ [Next]_vars => \A s \in Settlements : KeepsFunds(s)
  <1> SUFFICES ASSUME TypeOK, TypeOK', VotersKnown, [Next]_vars, NEW s \in Settlements
               PROVE  KeepsFunds(s)
    OBVIOUS
  <1>1. CASE Drawing
    BY <1>1, ClaimKeeps, EndKeeps DEF Drawing
  <1>2. CASE ~Drawing
    <2> SUFFICES ASSUME settlements[s].exists PROVE KeepsFunds(s)
      BY DEF KeepsFunds
    <2>1. settlements'[s].lamports_claimed = settlements[s].lamports_claimed
      BY <1>2, ClaimedStays
    <2>2. HeldBy(s)' >= HeldBy(s)  BY <1>2, OthersLost DEF NothingLost
    <2>3. HeldBy(s) \in Int /\ HeldBy(s)' \in Int
      <3>1. HeldInIsSum /\ HeldInIsSum'  BY HeldInSum, PTL
      <3>2. HeldBy(s) \in Int
        BY <3>1, SumInt, StakeIdsAssumption DEF HeldInIsSum
      <3>3. HeldIn(s)' \in [StakeIds -> Int] /\ HeldBy(s)' = Sum(HeldIn(s)', StakeIds)
        BY <3>1 DEF HeldInIsSum
      <3>4. HeldBy(s)' \in Int
        <4> DEFINE g == HeldIn(s)'
        <4>1. g \in [StakeIds -> Int] /\ HeldBy(s)' = Sum(g, StakeIds)  BY <3>3
        <4> HIDE DEF g
        <4> QED BY <4>1, SumInt, StakeIdsAssumption
      <3> QED BY <3>2, <3>4
    <2>4. settlements[s].lamports_claimed \in Nat  BY DEF TypeOK, Settlement
    <2> QED BY <2>1, <2>2, <2>3, <2>4 DEF KeepsFunds
  <1> QED BY <1>1, <1>2

(* merge_stake.rs, and every other instruction that anybody may send: the  *)
(* accounts of a settlement that exists are drawn from by its own claims   *)
(* only, and by the split rent of another settlement of its bond, for any  *)
(* number of settlements, stake accounts and amounts.                      *)
THEOREM SettlementsKeepTheirFunds == Spec => SettlementKeepsItsFunds
  <1>1. TypeOK /\ TypeOK' /\ VotersKnown /\ [Next]_vars
          => [\A s \in Settlements : KeepsFunds(s)]_vars
    BY StepKeeps
  <1> QED
    BY <1>1, InitKnown, StepHeld, TypeCorrect, PTL
    DEF Spec, SettlementKeepsItsFunds, KeepsFunds

-----------------------------------------------------------------------------
(* Solvency of settlements of different bonds *)

LEMMA OnlyEndsEnd ==
  ASSUME TypeOK, [Next]_vars, NEW s \in Settlements,
         settlements[s].exists, ~settlements'[s].exists
  PROVE  CloseSettlementV2(s) \/ \E receiver \in Payers : CancelSettlement(s, receiver)
  <1>1. PICK z \in Settlements : SettlementStep(z)
    BY SettlementsUntouched
  <1>2. CASE \E total \in MaxTotals, nodes \in MaxNodes : InitSettlement(z, total, nodes)
    <2>1. \E n : n.exists /\ settlements' = [settlements EXCEPT ![z] = n]
      BY <1>2 DEF InitSettlement, NoSettlement
    <2> QED BY <2>1 DEF TypeOK
  <1>3. CASE CloseSettlementV2(z) \/ \E receiver \in Payers : CancelSettlement(z, receiver)
    <2>1. settlements' = [settlements EXCEPT ![z] = NoSettlement]
      BY <1>3 DEF CloseSettlementV2, CancelSettlement, RemoveSettlement
    <2>2. z = s  BY <2>1 DEF TypeOK
    <2> QED BY <1>3, <2>2
  <1>4. CASE \E x \in StakeIds : FundWhole(z, x)
    <2>1. \E n : settlements' = [settlements EXCEPT ![z].lamports_funded = n]
      BY <1>4 DEF FundWhole
    <2> QED BY <2>1 DEF TypeOK, Settlement
  <1>5. CASE \E x, y \in StakeIds, payer \in Payers : FundSplit(z, x, y, payer)
    <2>1. PICK x \in StakeIds, y \in StakeIds, payer \in Payers : FundSplit(z, x, y, payer)
      BY <1>5
    <2>2. settlements' = [settlements EXCEPT ![z].lamports_funded = @ + Lacking(z),
                             ![z].split_rent_collector = payer, ![z].split_rent_amount = Rent]
      BY <2>1 DEF FundSplit
    <2> QED BY <2>2 DEF TypeOK, Settlement
  <1>6. CASE \E x \in StakeIds : \E i \in DOMAIN Tree[z] : ClaimSettlementV2(z, i, x)
    <2>0. PICK x \in StakeIds, i \in DOMAIN Tree[z] : ClaimSettlementV2(z, i, x)
      BY <1>6
    <2>1. settlements' = [settlements EXCEPT ![z].lamports_claimed = @ + Tree[z][i],
                                             ![z].merkle_nodes_claimed = @ + 1]
      BY <2>0 DEF ClaimSettlementV2
    <2> QED BY <2>1 DEF TypeOK, Settlement
  <1> QED BY <1>1, <1>2, <1>3, <1>4, <1>5, <1>6 DEF SettlementStep

(* The refund is taken from an account of the same validator. *)
LEMMA RefundOfItsBond ==
  ASSUME TypeOK, VotersKnown, [Next]_vars,
         \A s, t \in Settlements : BondOf[s] = BondOf[t] => s = t
  PROVE  RefundSparesOthers
  <1> SUFFICES ASSUME NEW s \in Settlements, settlements[s].exists, ~settlements'[s].exists,
                      NEW x \in StakeIds, stakes'[x].lamports < stakes[x].lamports,
                      NEW t \in Settlements \ {s}, stakes[x].staker = t
               PROVE  FALSE
    BY DEF RefundSparesOthers
  <1>1. \E receiver : RefundSplitRent(s, receiver)
    BY OnlyEndsEnd DEF CloseSettlementV2, CancelSettlement
  <1>2. stakes[x].lamports \in Nat  BY DEF TypeOK, StakeAccount
  <1>3. stakes' # stakes  BY <1>2
  <1>4. PICK y \in StakeIds :
           /\ CanRefund(s, y)
           /\ stakes' = [stakes EXCEPT ![y] =
                            Withdrawn(@, settlements[s].split_rent_amount)]
    BY <1>1, <1>3 DEF RefundSplitRent
  <1>5. x = y
    <2>1. SUFFICES ASSUME x # y PROVE FALSE  OBVIOUS
    <2>2. stakes'[x] = stakes[x]  BY <1>4, <2>1 DEF TypeOK
    <2> QED BY <1>2, <2>2
  <1>6. InCustody(x) /\ stakes[x].voter = BondOf[s]
    BY <1>4, <1>5 DEF CanRefund, DelegatedTo
  <1>7. stakes[x].voter \in {BondOf[t], Nobody}
    BY <1>6 DEF VotersKnown, Known, InCustody
  <1>8. BondOf[s] # Nobody  BY SettlementsAssumption, AuthoritiesAssumption
  <1> QED BY <1>6, <1>7, <1>8

(* Where every bond has at most one settlement nothing is needed of the    *)
(* refunds: they are taken from the bond of the settlement that ends, so   *)
(* no other settlement loses lamports to them.                             *)
THEOREM OneSettlementPerBondIsSolvent ==
  ASSUME \A s, t \in Settlements : BondOf[s] = BondOf[t] => s = t
  PROVE  Spec /\ [][MinimumNotRaised]_vars => []SettlementSolvent
  <1>1. TypeOK /\ VotersKnown /\ [Next]_vars /\ [MinimumNotRaised]_vars
          => [MinimumNotRaised /\ RefundSparesOthers]_vars
    BY RefundOfItsBond
  <1> QED BY <1>1, InitKnown, StepHeld, SettlementsAreSolvent, TypeCorrect, PTL DEF Spec

(* With a single minimum stake there is nothing left to assume of the      *)
(* behaviour.                                                              *)
THEOREM OneMinimumIsSolvent ==
  ASSUME \A s, t \in Settlements : BondOf[s] = BondOf[t] => s = t,
         \A m, n \in Minimums : m = n
  PROVE  Spec => []SettlementSolvent
  <1>1. TypeOK /\ TypeOK' => [MinimumNotRaised]_vars
    <2> SUFFICES ASSUME TypeOK, TypeOK' PROVE MinimumNotRaised
      OBVIOUS
    <2>1. /\ config.minimum_stake_lamports \in Minimums
          /\ config'.minimum_stake_lamports \in Minimums
      BY DEF TypeOK, Config
    <2>2. config'.minimum_stake_lamports = config.minimum_stake_lamports  BY <2>1
    <2>3. config.minimum_stake_lamports \in Nat  BY <2>1, ConfigAssumption
    <2> QED BY <2>2, <2>3 DEF MinimumNotRaised
  <1> QED BY <1>1, OneSettlementPerBondIsSolvent, TypeCorrect, PTL
=============================================================================
