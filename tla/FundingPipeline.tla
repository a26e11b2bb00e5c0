-------------------------- MODULE FundingPipeline --------------------------
(***************************************************************************)
(* The funding pipeline (settlement-pipelines/src/bin/fund_settlement.rs)  *)
(* on top of the program it drives.  A run reads the Settlement accounts   *)
(* of its merkle trees, later all stake accounts, plans on that snapshot   *)
(* which accounts to merge, which to fund and how much Marinade owes, and  *)
(* then sends the transactions in sequence while everybody else goes on    *)
(* using the program.  A transaction lands or does not, and the run goes   *)
(* on with the next one either way; the next run starts from what the      *)
(* chain holds then.                                                       *)
(*                                                                         *)
(* The transaction builder may pack several instructions into one          *)
(* transaction; here each is sent on its own.                              *)
(***************************************************************************)
EXTENDS ValidatorBonds, SequencesExt

CONSTANTS
    Order,        \* the settlements of the merkle-tree files, in their order
    PaidBy,       \* [Settlements -> {"Marinade", "ValidatorBond"}]
    PlannedKeys   \* addresses of the keypairs made while planning, in order

ASSUME PipelineAssumption ==
    /\ Order \in Seq(Settlements)
    /\ PaidBy \in [Settlements -> {"Marinade", "ValidatorBond"}]
    /\ \A i \in DOMAIN PlannedKeys : PlannedKeys[i] \notin StakeIds

VARIABLES
    phase,     \* "idle", "loaded" (settlements read), "sending"
    loaded,    \* the Settlement accounts as the run has read them
    queue,     \* the instructions planned and not sent yet
    undisturbed,  \* since the plan was made nobody else has acted and
                  \* nothing sent was lost
    slipped,   \* lamports claimed between the two reads of a run
    put        \* lamports Marinade has put into each settlement for claims

run == <<phase, loaded, queue, undisturbed, slipped, put>>
pipelineVars == <<vars, run>>

None == [s \in Settlements |-> 0]

PipelineInit ==
    /\ Init
    /\ phase = "idle"
    /\ loaded = [s \in Settlements |-> NoSettlement]
    /\ queue = <<>>
    /\ undisturbed = FALSE
    /\ slipped = None /\ put = None

-----------------------------------------------------------------------------
(* Planning: a pool of accounts per vote account, from which each          *)
(* settlement takes in turn                                                *)

SumOfLamports(accounts) == FoldLeft(LAMBDA n, a : n + a.lamports, 0, accounts)

(* under the bonds authorities, delegated and not locked *)
InBond(x, v) == /\ InCustody(x) /\ stakes[x].staker = Bonds
                /\ ~stakes[x].locked
                /\ DelegatedTo(x, v)

InSomeBond == {x \in StakeIds : \E v \in Votes : InBond(x, v)}

(* The elements of seq at the positions P, in the order of seq             *)
At(seq, P) ==
    LET position == SetToSortSeq(P, LAMBDA i, j : i < j)
    IN  [k \in 1 .. Cardinality(P) |-> seq[position[k]]]

get_on_chain_bond_stake_accounts(listing) ==
    [v \in Votes |->
        LET own == At(listing, {i \in DOMAIN listing : InBond(listing[i], v)})
        IN  [i \in DOMAIN own |-> [stake_account |-> own[i],
                                   lamports |-> stakes[own[i]].lamports,
                                   state |-> stakes[own[i]]]]]

get_delegated_amount(acc) ==
    IF Effective(acc, Epoch) \/ Activating(acc, Epoch) THEN acc.delegated ELSE 0

Undelegated(a) ==
    LET rest == a.lamports - get_delegated_amount(a.state)
    IN  IF rest > 0 THEN rest ELSE 0

(* A stable sort by what is undelegated, then reversed. *)
BiggestUndelegatedFirst(pool) ==
    LET before(i, j) == \/ Undelegated(pool[i]) > Undelegated(pool[j])
                        \/ Undelegated(pool[i]) = Undelegated(pool[j]) /\ i > j
        order == SortSeq([i \in DOMAIN pool |-> i], before)
    IN  [i \in DOMAIN pool |-> pool[order[i]]]

(* fund_settlement would split the account and underflow on its stale      *)
(* delegation.                                                             *)
IsUnderwater(a, needed) == /\ a.lamports < a.state.delegated
                           /\ a.lamports >= needed + MinSize + Rent

(* The first accounts of the pool that together reach what is needed; the  *)
(* others stay in the pool.                                                *)
take_stake_accounts_to_fund(pool, needed) ==
    LET able    == {i \in DOMAIN pool : ~IsUnderwater(pool[i], needed)}
        taken   == {i \in able :
                      SumOfLamports(At(pool, {j \in able : j < i})) < needed}
    IN  [taken |-> At(pool, taken), left |-> At(pool, DOMAIN pool \ taken)]

(* get_stake_state_type; variant: accounts in any two states are merged    *)
AnyState(a, b) == TRUE

SameState(a, b) == MergeKind(a.state, Epoch) = MergeKind(b.state, Epoch)

MergeInstruction(s, src, dst) ==
    [kind |-> "merge", settlement |-> s, source |-> src.stake_account,
     account |-> dst.stake_account, lamports |-> 0]

FundInstruction(s, a) ==
    [kind |-> "fund", settlement |-> s, source |-> a.stake_account,
     account |-> a.stake_account, lamports |-> 0]

MarinadeInstruction(s, amount) ==
    [kind |-> "marinade", settlement |-> s, source |-> Nobody,
     account |-> Nobody, lamports |-> amount]

(* Variant: the bond pays a settlement only as a whole. *)
InFull(total, needed) == total >= needed

WorthFunding(total, needed) == total > MinSize

(* What a bond pays: the taken accounts are merged into the first of them  *)
(* as far as their states allow, the others fund on their own; what the    *)
(* funding splits off is put back to the pool under a planned address.     *)
PlanFromBond(plan, s, amount) ==
    LET v        == BondOf[s]
        needed   == amount + MinSize
        part     == take_stake_accounts_to_fund(BiggestUndelegatedFirst(plan.pools[v]), needed)
        total    == SumOfLamports(part.taken)
        dst      == Head(part.taken)
        others   == 2 .. Len(part.taken)
        same     == {i \in others : SameState(part.taken[i], dst)}
        merged   == At(part.taken, same)
        apart    == At(part.taken, {i \in others \ same :
                                      part.taken[i].lamports > MinSize})
        size     == dst.lamports + SumOfLamports(merged)
        fundable == (IF size > MinSize THEN <<dst>> ELSE <<>>) \o apart
        leftover == [dst EXCEPT !.stake_account = PlannedKeys[plan.keys + 1],
                                !.lamports = size - amount - MinSize]
        reusable == /\ total > needed
                    /\ size > MinSize
                    /\ leftover.lamports >= MinSize
    IN  IF ~WorthFunding(total, needed)
        THEN [plan EXCEPT !.pools[v] = part.left]
        ELSE [plan EXCEPT
                !.pools[v] = IF reusable THEN Append(part.left, leftover) ELSE part.left,
                !.keys = IF reusable THEN @ + 1 ELSE @,
                !.merges = @ \o [i \in DOMAIN merged |-> MergeInstruction(s, merged[i], dst)],
                !.funds = @ \o [i \in DOMAIN fundable |-> FundInstruction(s, fundable[i])]]

(* settlement_funded_claimable_lamports *)
ClaimableFunds(s) == MapThenSumSet(Payable, FundedStakes(s))

(* Variant: Marinade's share is derived from the settlement's counter,     *)
(* which fund_settlement alone moves.                                      *)
FundedByProgram(s) == loaded[s].lamports_funded

already_funded(s) ==
    IF PaidBy[s] = "Marinade" THEN loaded[s].lamports_claimed + ClaimableFunds(s)
                              ELSE loaded[s].lamports_funded

PlanSettlement(plan, s) ==
    LET amount == loaded[s].max_total_claim - already_funded(s)
    IN  IF ~loaded[s].exists \/ Expired(s) \/ amount <= 0 THEN plan
        ELSE IF PaidBy[s] = "Marinade"
        THEN [plan EXCEPT !.funds = Append(@, MarinadeInstruction(s, amount))]
        ELSE PlanFromBond(plan, s, amount)

-----------------------------------------------------------------------------
(* A run *)

(* load_merkle_tree_with_on_chain *)
LoadSettlements ==
    /\ phase = "idle"
    /\ phase' = "loaded"
    /\ loaded' = settlements
    /\ UNCHANGED <<vars, queue, undisturbed, slipped, put>>

(* prepare_funding: stake accounts come in the order the RPC node lists    *)
(* them; all merges are sent before the first funding.                     *)
PrepareFunding ==
    /\ phase = "loaded"
    /\ \E listing \in SetToSeqs(InSomeBond) :
          LET start == [pools |-> get_on_chain_bond_stake_accounts(listing),
                        keys |-> 0, merges |-> <<>>, funds |-> <<>>]
              plan  == FoldLeft(PlanSettlement, start, Order)
          IN  queue' = plan.merges \o plan.funds
    /\ phase' = "sending"
    /\ loaded' = [s \in Settlements |-> NoSettlement]
    /\ undisturbed' = TRUE
    /\ UNCHANGED <<vars, slipped, put>>

(* A keypair made for a new account: nobody uses or plans to use it.       *)
Unused == {y \in StakeIds : Fresh(y) /\ \A i \in DOMAIN queue : queue[i].source # y}

NewKey == CHOOSE y \in Unused : TRUE

ToSend(kind, s) == /\ phase = "sending" /\ queue # <<>>
                   /\ Head(queue).kind = kind /\ Head(queue).settlement = s

Sent == /\ queue' = Tail(queue)
        /\ UNCHANGED <<phase, loaded, slipped>>

MergeLands(s) ==
    /\ ToSend("merge", s)
    /\ Head(queue).source \in StakeIds /\ Head(queue).account \in StakeIds
    /\ MergeStake(Head(queue).source, Head(queue).account)
    /\ Sent /\ UNCHANGED <<undisturbed, put>>

(* fund_settlement does nothing when the settlement has been filled        *)
(* meanwhile, be it by an instruction of the same run.                     *)
FilledMeanwhile(s, x) ==
    /\ Running /\ settlements[s].exists /\ voteLive[BondOf[s]]
    /\ Exists(stakes[x])
    /\ ~NotFullyFunded(s)

FundingLands(s) ==
    /\ ToSend("fund", s)
    /\ Head(queue).source \in StakeIds
    /\ \/ FilledMeanwhile(s, Head(queue).source) /\ UNCHANGED vars
       \/ FundWhole(s, Head(queue).source)
       \/ Unused # {} /\ \E payer \in Payers :
                FundSplit(s, Head(queue).source, NewKey, payer)
    /\ Sent /\ UNCHANGED <<undisturbed, put>>

(* What Marinade owes is put into a new account of minimal size. *)
MarinadeLands(s) ==
    LET amount == Head(queue).lamports
    IN  /\ ToSend("marinade", s)
        /\ Unused # {}
        /\ CreateStake(NewKey, [staker |-> s, withdrawer |-> Bonds, voter |-> Nobody,
                                lamports |-> amount + MinSize, locked |-> FALSE])
        /\ put' = [put EXCEPT ![s] = @ + amount]
        /\ Sent /\ UNCHANGED undisturbed

Lands(s) == MergeLands(s) \/ FundingLands(s) \/ MarinadeLands(s)

(* The transaction fails or is lost; the run goes on.                      *)
NotLanded ==
    /\ phase = "sending" /\ queue # <<>>
    /\ undisturbed' = FALSE
    /\ Sent /\ UNCHANGED <<vars, put>>

(* The run is done with the first transaction, one way or the other. *)
Send == NotLanded \/ \E s \in Settlements : Lands(s)

FinishRun ==
    /\ phase = "sending" /\ queue = <<>>
    /\ phase' = "idle"
    /\ undisturbed' = FALSE
    /\ UNCHANGED <<vars, loaded, queue, slipped, put>>

-----------------------------------------------------------------------------
(* Everybody else: time, init and claim pipelines, deposits and the        *)
(* permissionless merge.                                                   *)

Elsewhere == /\ undisturbed' = FALSE
             /\ UNCHANGED <<phase, loaded, queue, put>>

ClaimElsewhere(s, i, x) ==
    /\ ClaimSettlementV2(s, i, x)
    /\ slipped' = IF phase = "loaded" THEN [slipped EXCEPT ![s] = @ + Tree[s][i]]
                                      ELSE slipped
    /\ Elsewhere

OtherCall ==
    \/ Tick
    \/ \E s \in Settlements, total \in MaxTotals, nodes \in MaxNodes :
            InitSettlement(s, total, nodes)
    \/ Unused # {} /\ \E d \in Deposits : CreateStake(NewKey, d)
    \/ \E x \in StakeIds, v \in Votes : FundBond(x, v)
    \/ \E x \in StakeIds : OwnerDeactivates(x) \/ ManualDeposit(x)
    \/ \E x, y \in StakeIds : MergeStake(x, y)

PipelineNext ==
    \/ LoadSettlements
    \/ PrepareFunding
    \/ Send
    \/ FinishRun
    \/ \E s \in Settlements, x \in StakeIds : \E i \in DOMAIN Tree[s] :
            ClaimElsewhere(s, i, x)
    \/ OtherCall /\ Elsewhere /\ UNCHANGED slipped

PipelineSpec == PipelineInit /\ [][PipelineNext]_pipelineVars

(* The pipeline is run again and again (.buildkite/fund-settlements.yml)   *)
(* and a run gets through its plan (planning is possible whenever the      *)
(* settlements are loaded, so its fairness is stated by its effect on the  *)
(* phase); a transaction that can land time and again is not lost every    *)
(* time.                                                                   *)
PipelineFairness ==
    /\ WF_pipelineVars(LoadSettlements)
    /\ WF_phase(phase = "loaded" /\ phase' = "sending")
    /\ WF_pipelineVars(Send)
    /\ WF_pipelineVars(FinishRun)
    /\ \A s \in Settlements : SF_pipelineVars(Lands(s))

FairPipelineSpec == PipelineSpec /\ PipelineFairness

-----------------------------------------------------------------------------
(* Properties *)

(* The two bounds of the instance that the pipeline may run into. *)
Exhausted == wallet < Rent \/ Unused = {}

Deactivates(x) == MergeKind(stakes[x], Epoch) = "transient"

(* The program accepts the instruction. *)
Accepted(t) ==
    LET s == t.settlement
        x == t.source
        y == t.account
    IN  IF t.kind = "merge"
        THEN /\ x # y /\ InCustody(x) /\ InCustody(y)
             /\ stakes[x].staker = stakes[y].staker /\ stakes[x].voter = stakes[y].voter
             /\ CanMerge(stakes[y], stakes[x], Epoch)
        ELSE \/ FilledMeanwhile(s, x)
             \/ /\ FundChecks(s, x)
                /\ IF left_over_splittable(s, x) THEN SplitCPIsSucceed(s, x)
                                                 ELSE CoversMinSize(x)

(* fund_settlement.rs:549-552: the plan relies on its transactions being   *)
(* executed in sequence.  While nobody interferes and nothing is lost, the *)
(* program accepts every planned instruction on accounts that exist, be it *)
(* after merges, fundings and splits of the same run, even those for a     *)
(* settlement that an earlier one has filled; the exception are two        *)
(* deactivating accounts, which the plan merges and the stake program does *)
(* not.                                                                    *)
UndisturbedPlanHolds ==
    undisturbed /\ queue # <<>> =>
        LET t == Head(queue)
        IN  /\ t.kind # "marinade"
            /\ {t.source, t.account} \subseteq StakeIds
            /\ ~(t.kind = "merge" /\ Deactivates(t.source) /\ Deactivates(t.account))
            => Accepted(t)

(* fund_settlement.rs:294-297: whatever runs are cut short, repeated or    *)
(* interleaved with claims, Marinade does not fund a settlement again,     *)
(* except by what was claimed between the reads of the settlements and of  *)
(* the stake accounts.                                                     *)
MarinadeFundsOnce ==
    \A s \in Settlements :
        PaidBy[s] = "Marinade" /\ settlements[s].exists =>
            put[s] <= settlements[s].max_total_claim + slipped[s]

(* A settlement its bond still owes, with an account that can fund it *)
Fundable(s) ==
    /\ PaidBy[s] = "ValidatorBond"
    /\ settlements[s].exists /\ NotFullyFunded(s) /\ ~Expired(s)
    /\ \E x \in StakeIds : InBond(x, BondOf[s]) /\ stakes[x].lamports > MinSize

(* Re-running the pipeline completes the work: a settlement does not stay  *)
(* underfunded while its bond has an account that could fund it, whatever  *)
(* the earlier runs left undone or planned on accounts that never existed. *)
FundingCompletes ==
    \A s \in Settlements : Fundable(s) ~> (~Fundable(s) \/ Exhausted)

(* fund_settlement.rs:549-551: what funding splits off "can be used as a   *)
(* source for funding of next settlement when vote account is part of      *)
(* multiple settlements", so the sources of an undisturbed run exist.      *)
LeftoverIsASource ==
    undisturbed /\ queue # <<>> /\ Head(queue).kind = "fund" =>
        Head(queue).source \in {x \in StakeIds : InCustody(x)}
=============================================================================
