# Validator Bonds: a TLA+ development

Validators of Solana deposit stake accounts as a *bond*. Every epoch Marinade computes what each
validator owes (*settlements*: a merkle tree of claims per bond), funds the settlements from the
bonds, lets stakers claim, and gives what is left back. This directory models the program that
holds the money, checks it with TLC and proves its most important properties with TLAPS. Around
the program it models the clients that drive it: the funding pipeline, the instruction builders of
the SDK and of the generated client, the commands of the CLIs, the claim of a withdraw request in
several transactions, and the notification pipeline. All paths below are relative to the
repository; `instructions/` stands for `programs/validator-bonds/src/instructions/`, `sdk/` for
`packages/validator-bonds-sdk/src/`.

## Inventory of the system

| Part | State it keeps | Operations | What is hard | What makes it correct |
|---|---|---|---|---|
| Validator-bonds program, funds (`instructions/{bond/fund_bond,settlement,stake,withdraw}`) | `Settlement`, `SettlementClaims`, `WithdrawRequest` accounts; authorities of stake accounts | 13 instructions, most of them permissionless | any order, any caller, parameters changing in between; integer arithmetic of a split; PDAs that can be re-created | money is neither lost nor stuck; a settlement can pay what it counted; nobody pays for another |
| Claims account (`state/settlement_claims.rs`, `utils/bitmap.rs`) | one bit per record | allocate, grow, set | sizes at the limits, bits within bytes | it implements a set |
| Bonds, products, mint, config (`instructions/{bond,bond_product,config}`) | `Bond`, `BondProduct`, `Config`, SPL tokens | init, configure, mint, burn, pause | permissionless creation before the owner, identity rotation, limits raised later | outsiders gain nothing |
| Native stake program (dependency) | stake accounts | authorize, split, merge, withdraw, delegate, deactivate | minimum delegations, effective and undelegated lamports | assumed as in `StakeProgram` |
| Settlement pipelines (`settlement-pipelines`) | none but the chain; a snapshot while it runs | init, fund, claim, close/reset, merge, verify | plans on a stale snapshot, batches, transactions lost, retried or landed late, runs that stop half way | a re-run completes the work and repeats nothing |
| Merkle tree, distributions (`merkle-tree`, `settlement-distributions`) | files | bidding, penalties, protected events, fees, tree generation | integer division, caps, conservation of totals | claims add up to what was charged |
| Bonds collector, API (`bonds-collector`, `api`) | PostgreSQL rows, caches | collect, store, serve | a stale or partial snapshot | served = last complete collection |
| Eventing (`packages/bonds-eventing`) | last known state in PostgreSQL, a record of sent events | compare two readings, post events, record, save | crash or failure between post, record and save; answers lost; two kinds of run share a table | nothing is forgotten before it was told, none is told for ever |
| Instruction builders (`sdk/instructions`, `packages/validator-bonds-codama`) | none | complete, derive and order the accounts of an instruction from some of them | defaults, accounts of two bonds mixed, a key rotated between build and send | what is built is accepted and means what the caller meant; both clients agree |
| CLI commands (`packages/validator-bonds-cli*`) | none | resolve one address argument, build a transaction | one argument for a bond, request, vote account or identity, a default config | the bond that is meant |
| Withdraw orchestration (`sdk/orchestrators`) | none but the chain; a plan while it runs | merge, claim, split in several transactions | a plan on a snapshot, transactions that fail or are lost, repeated runs | a command that stops can be repeated, and completes |
| Reads, `show`, sanity check (`packages/*`) | none | query, present, compare | | change nothing |

The instructions share the stake accounts: everything in custody of the program has the PDA *bonds
withdrawer authority* as its withdrawer, and either the same PDA (it belongs to a bond) or the PDA
of a settlement (it is funded to it) as its staker. Settlement and claims account are created and
closed together; a settlement's address depends on bond, merkle root and epoch only, so that the
same address can have several lives.

## Modules

| Module | Models | State and correspondence |
|---|---|---|
| `StakeProgram` | the native stake program as the instructions use it (external) | operators on a record: lamports, delegation, activation and deactivation epoch, authorities, lockup |
| `ClaimsAccount` | sizes of the claims account | pure operators, same names as the Rust functions |
| `ClaimsBitmap` | the claims account byte by byte | `bitmap_data`, `max_records`, the settlement's counter; init, upsize, claim, close |
| `ClaimRecords` | what the claims account promises: a set | abstract; refined by `ClaimsBitmap` |
| `ValidatorBonds` | the instructions that move funds | one action per instruction (`FundSettlement` and `ClaimWithdrawRequest` are split into the whole-account and the split branch) and the environment: clock, deposits by hand, tips, closing of vote accounts |
| `StakeCustody` | the table of authority transitions in `programs/validator-bonds/README.md:75-93` | abstract; refined by `ValidatorBonds` |
| `BondAuthority` | who may change what: config, bonds, products, bond tokens | signers are explicit; everything permissionless is also called by an outsider |
| `FundingPipeline` | `settlement-pipelines/src/bin/fund_settlement.rs` on top of `ValidatorBonds` | a run: `loaded` (the Settlement accounts it has read), `queue` (the planned instructions), `phase`; `LoadSettlements`, `PrepareFunding` (the whole plan as a fold over the settlements), one action per kind of transaction that lands, `NotLanded`, `FinishRun`; other callers take the actions of `ValidatorBonds`. `undisturbed`, `slipped` and `put` are history for the properties |
| `WithdrawClient` | the command `claim-withdraw-request` and the SDK's `orchestrateWithdrawDeposit` on top of `ValidatorBonds` | `plan` (merges and claims left), `left` (of the current transaction), `before` (what it restores when it fails), `phase`; `Orchestrate` reads and plans, `Begin` starts a transaction, `MergeExecuted`, `ClaimExecuted` and `Fails` are its instructions, `Lost` drops it; `Elsewhere` are other callers. `promised` is history |
| `BondAccounts` | addresses (PDAs) and what the accounts of a bond hold, as the clients read them | pure; the ledger of the families of accounts in the instance |
| `ProgramInterface` | the account constraints of every instruction: order, signers, writable and optional accounts, seeds and relations from the IDL, and the checks in the handlers | pure; `Takes(live, t)` is whether the program accepts an instruction |
| `SdkBuilders` | `sdk/instructions/*.ts` | one operator per builder, same names |
| `CodamaClients` | `packages/validator-bonds-codama`: what each generated function requires, derives in which order, sends and parses back | tables, one per instruction, and the generated functions over them |
| `CliCommands` | the commands of the CLIs that send instructions | one operator per command, on top of `SdkBuilders` |
| `InstructionClients` | a caller, the program and an observer | `call` (who is called with what), `tx` (what was built), `live` (keys that may be replaced), `phase`; `Build`, `Change`, `Send` |
| `BondDeltas` | `evaluate-deltas.ts`: what is compared, what is told, what is saved | pure |
| `Eventing` | runs of both commands of `packages/bonds-eventing` | `rows` (the table), `run` (its input, events in flight, answered, recorded), `told` (what the service knows); start, post, answer, refuse, lose, retry, record, save, crash |
| `MC...` | instances for TLC | `MCResetScenarios` cuts the emergencies into three scopes, `MCReclaim` adds a history of payouts, `MCInstructionClients` the parameters of every builder and command |
| `FiniteSums` | `MapThenSumSet` over a finite set, whatever order it adds up in; the largest of a set of numbers | lemmas only |
| `FundingProofs`, `BondAuthorityProofs`, `ClaimsBitmapProofs`, `EventingProofs`, `WithdrawClientProofs`, `FundingPipelineProofs`, `ClientsProofs` | theorems | see below |

How they compose: `ValidatorBonds` stands on `StakeProgram` and `ClaimsAccount` and refines
`StakeCustody`; `ClaimsBitmap` stands on `ClaimsAccount` and refines `ClaimRecords`, the form in
which `ValidatorBonds` keeps a claims account. `FundingPipeline` and `WithdrawClient` extend
`ValidatorBonds` and take its actions, both for what they send and for what others do meanwhile.
`InstructionClients` composes the builders, the commands and the generated client with the
interface of the program; it knows accounts and authorities, not lamports and time. `Eventing`
extends `BondDeltas`.

Conventions. A Solana transaction is atomic and `Cargo.toml:19` sets `overflow-checks = true`, so
an instruction that fails in any way (a `require!`, an Anchor constraint, an underflow, a CPI)
changes nothing: all of these are guards. `ValidatorBonds` lets whoever holds a role act at any
time; `BondAuthority` makes the signers explicit. Operators named "Variant" in their comment are
plausible mistakes; no action uses them.

Abstractions. Activation and deactivation of stake take one epoch. All stake accounts have the
same rent exemption. A lockup is in force or not. The merkle proof binds index, claim and
authorities, which makes a tree a function `Tree[s]` from indices to claims. The target of a claim
and the owner of withdrawn stake are the one outside world `Owner`. `ValidatorBonds` keeps the
claims account as a set of bits; `ClaimsBitmap` shows that bytes implement it. An init at an
existing address, or a closing that fails, is not an action.

`FundingPipeline` keeps every read of a run that is followed by a use: the settlements first, the
stake accounts later. The reads of the config, of the clock and of the stake accounts count as
one. A keypair made at planning is drawn from `PlannedKeys`, one made when the transaction is
built is an unused address. The builder may pack several instructions into one transaction, which
the source does not tell (a dependency does it); here each is sent on its own, so that what a
failing instruction does to the others in its transaction is not covered. Only one run at a time
(the concurrency gate of `.buildkite/fund-settlements.yml`). Closing of settlements and withdraw
requests are not among the other callers of this module.

`WithdrawClient` sends transactions in sequence, each of them as a whole; the first error ends the
run (`splitAndExecuteTx`, a dependency). Others act between two transactions, and for the user's
bond only. `CanBeMet`, the premise of its liveness, asks for accounts in one state, active or
activating: inactive accounts keep a single delegation when they are merged, which may be too
small for the split that follows, and accounts of different states do not merge.

In `InstructionClients` an account is an address with the fields that other accounts or the
program refer to. What a builder creates does not exist yet. Amounts, windows and the pause are
left to `ValidatorBonds`; closing of a settlement between building and sending is not a change.
One thing goes wrong per call: one account of another bond, or one key replaced. Not offered: a
second program address, `splitRentCollector` given as null by the caller, and `mergeStake` with a
settlement staker for two funded accounts. Dry runs, compute limits and checks of amounts and bids
are left out of the commands.

`Eventing` runs one command of a kind at a time. An event that arrives after its run gave up on it
is not modelled. That a settlement, a deficit or a number of epochs becomes zero or unknown is
told to nobody, and that the first reading has a settlement neither: `Agrees` states what the
events can tell. When some events of a validator were delivered and its reading then returns to
what was saved, nothing corrects the receiver (`astray`).

## Runs

| Run | Question | Bounds |
|---|---|---|
| `settlement` | Does the money of a settlement add up over its whole life, under everybody's merges and tips, and does it move only as `StakeCustody` allows? | one settlement of claims 3 and 2, three account addresses, one account of 18 (splits in two), one of 7 (does not split), Marinade's 6, tips of 6; supply 27; a second vote account without stake, for the votes that accounts must not move to; three slots = epochs; two lives at most by the clock |
| `withdraw_client` | Does the plan of the command fit the program, is a request that can be met met by repeating the command, and is no more paid, and by nobody else? | a request of 6, deposits of 11 and 6, and 6 of another validator; supply 19, three addresses, two epochs, two instructions per transaction: plans have up to three, so that a transaction ends in the middle of one |
| `reset` | Does a pause freeze everything, how far can over-funding go when the minimum changes, is a payout claimable until the settlement is closable, does a request wait its lockup, and do the accounts of a closed settlement come back, after a refund too? | one settlement of claims 3 and 2; three scopes, since their product is too large: a request of 9 with lockups of 0 and 1 epochs; pause, closed votes, minimums 3 and 4 and claim windows of 0 and 1 epochs around one deposit of 18 or 7 or the validator's own 9; deposits of 7 (funded whole, which counts 4 of the 5 needed) and 18 (split for the rest, its rent paid from the supply of 27), so that closing refunds the split rent out of the one or the other, claimed from before or not, down to 3. Minimums cover rent, minimum delegation and one refund (`MinimumCoversRefund`); fairness below |
| `claims_bitmap` | Do the bytes implement a set, and does growing end? | real 8-bit bytes, header 1, growth of 2 bytes per step, trees up to three steps; indices beyond every limit |
| `authority` | Can an outsider, or a stale token, change anything? | one bond, two identities of the validator, one outsider, all roles |
| `clients` | Is what a builder or a command makes of any choice of accounts accepted, for the bond that is meant, and does the generated client make the same of it? | three bonds: two validators under one config, the first under another one too; one bond without a commission product; every builder and command with every subset of its optional accounts, each of them possibly of another bond |
| `eventing` | Is what the service heard true, is only what is on record forgotten, does the pipeline come to rest, and does an empty answer delist nobody? | two validators; a healthy reading, one that differs by less than the thresholds, one that fails, one that cannot be scored; two changes, one fault, one retry, two requests in flight; bidding and institutional |
| `funding` | Does a plan made on a snapshot fit the program, and do repeated runs fund everything and nothing twice, and does each settlement keep what was funded to it, whoever merges? | two settlements of one bond and one paid by Marinade, each of 5; deposits of 9, which fund less than one settlement alone and more than one merged; supply 22: two deposits and a split, or a deposit and Marinade's share, or Marinade's share twice; two epochs, so that accounts are activating, active or deactivating. In a second scenario one settlement is to be paid from 3, 6 and 7 in two epochs: the plan takes what reaches the need, merges what it can and lets the rest fund on its own, when the settlement may be full already; `fund_settlement` then does nothing (`FilledMeanwhile`) |
| `funding_leftover` | Is what a funding splits off a source of the next one? No, see Findings | one deposit of 24 for two settlements of 5 |
| `refund`, `reclaim`, `refund_receiver` | three statements of comments that the code does not keep, see Findings | the smallest instances that show them |

Lamports are scaled: rent 2, minimum stake 3, minimal account 5, runtime minimum delegation 1. The
interesting cases are relations between an account, the amount needed and these minimums (smaller
than needed, equal, larger but not splittable, splittable, more undelegated than needed); the
deposits are chosen so that each of them occurs. Three addresses are enough for a funded account,
its split and one more to merge with or to refund from. Deadlock checking is off where the clock's
bound `MaxSlot` really ends the run; `claims_bitmap`, `authority` and `funding` check it. It is
off as well in `withdraw_client` (lamports and addresses run out), `clients` (a call ends) and
`eventing` (the institutional API may report nothing for ever, and the environment stops).

`reset` looks at the states of its scopes (`InScope`) and at steps that place accounts at fixed
addresses (`Placed`), as constraints of the run. A step that is left out leads out of the scope;
`reset_stake` never does, so that the fairness below asks for nothing that the constraints forbid.

Fairness. For the program only two assumptions: `reset_stake` and `upsize_settlement_claims` are
permissionless and the pipelines send them for every account they find
(`settlement-pipelines/src/bin/close_settlement.rs`, `init_settlement.rs`), hence weak fairness of
each. `StakesComeBack` is about accounts left behind by a settlement while the program is not
paused; a pause or a new life of the settlement ends the obligation. It has a condition,
`MinimumCoversRefund`, which the code does not ensure (`close_settlement.rs:161` under Findings). For the funding pipeline: it
is started again and again and gets through its plan (weak fairness; Buildkite retries a failed
run and starts one every epoch), and for each settlement a transaction that can land infinitely
often lands at some time (strong fairness: an RPC node does not lose every one of them). Nothing
is assumed of the other callers. `FundingCompletes` also ends where the instance runs out of
lamports or addresses (`Exhausted`). For the withdraw command: its user repeats it as long as
there is something to claim, and among the transactions he sends one is not lost (strong fairness
of `Orchestrate` and `Begin`, as others may disable them in between), and a transaction that the
cluster has taken is executed to its end (weak fairness). For eventing: runs of each kind are
started and go on (cron jobs; weak fairness of their steps), while the changes and faults of the
environment are bounded, which stands for their coming to rest.

## Findings

* `funding_leftover` — `fund_settlement.rs:549-551` (pipeline) plans the rest of a split account
  as the source for the next settlement of the bond, under the address of a keypair made while
  planning (`:561`); the transaction is built with another new keypair (`:727`). The planned
  account never exists, and the next settlement's instruction fails although it is reported as
  funded. The next run repairs it, which `FundingCompletes` shows (with one instruction per
  transaction).
* `refund` — the comment at `close_settlement.rs:82` says that the stake account that pays the
  split rent back is funded to the settlement. `withdraw_refund_stake_account` does not look at
  its staker: an account of another open settlement of the same validator pays as well.
* `reclaim` — `claim_settlement.rs:72` promises that a record cannot be claimed twice. This holds
  for one life of the claims account (`ClaimsAccounted`, `RecordsSpec`), not after a settlement
  has been cancelled and created again at the same address.
* `refund_receiver` — `cancel_settlement.rs:80` says the receiver of the split rent is verified at
  the settlement; `cancel_settlement` lacks the constraint that `close_settlement.rs:39` has.

The last three of these are differences between a comment and the code in the hands of trusted
callers (closing is permissionless in `refund`; the amounts are one rent exemption in `refund` and
`refund_receiver`).

Disagreements that no run of its own shows; the models follow the code.

* `orchestrateWithdrawRequest.ts:144-159` selects accounts until the request is covered, but drops
  the result of `BN.add` and compares big numbers with `<`, so that all accounts of the bond are
  taken. `isFullyActive` (`:249`) tells active accounts from all others, and an activating one is
  paired with an inactive or a deactivating one although the comment at `:178` says that only
  accounts of one state can be merged. When somebody else's claim of another account fulfils the
  request first, the final claim fails and takes its transaction back, for ever in the case of a
  deactivated account.
* `configureBond.ts:166-262` (cli-core): `--bond-authority` together with a commission, signed by
  the current authority, fails, since the second instruction is signed by the authority that the
  first has just replaced; signed by the validator identity it works. The README of the CLI
  (`:342`) offers them together.
* `config-option.ts:13` says the option is needed to derive the address of the bond from the vote
  account; claiming and cancelling a withdraw request pass its default on even when the address
  given is that of a request under another config, and are refused.
* `mergeStake.ts:44-46` (CLI) offers `--settlement` for funded accounts; the builder signs with
  the bonds withdrawer authority as the staker then.
* `sdk/instructions/configureConfig.ts:18` documents a default config, which is not applied when
  the admin authority is given. `fundSettlement.ts:67-71` replaces a config that was given when
  the vote account was not; `closeSettlementV2.ts:105-114` does so with a bond.
* `claim_settlement.rs:217` states that a stake account always stays of minimum size and leaves
  that to the funding. The refund of the split rent (`close_settlement.rs:161`) has no such check,
  and `configure_config` no lower bound for the minimum stake (`init_config` starts with
  `MIN_STAKE_LAMPORTS`, one SOL). With a minimum below the refund, an account can be left with
  exactly its rent: minimum 1, rent 2, an account of 6 is funded whole, one of 18 split for the
  rest, claims take the first to 4, closing takes 2 more. `reset_stake` then never delegates it
  again. With one SOL and rents of 0.00228 SOL it would take hundreds of refunds out of one account
  without a merge or a reset in between, so `StakesComeBack` is checked with minimums that cover
  the refund.
* `evaluate-deltas.ts:585` keeps an unknown deficit apart from zero in the current reading, not in
  the saved one.

## Proofs

All theorems hold for every set of validators, settlements, addresses, amounts and parameters that
satisfies the named assumptions of the modules (`TreeAssumption`, `ConfigAssumption`,
`DepositsAssumption`, ...; TLC evaluates them in every run). Each invariant follows the same
argument: `Init => IInv`, one lemma or step per instruction for `IInv /\ [Next]_vars => IInv'`,
and PTL.

* `FundingProofs!TypeCorrect` — `TypeOK`. It contains that no counter underflows: each
  subtraction is bounded by a guard of the instruction that makes it.
* `FundingProofs!FundingIsNeverStuck` — `FundingNeverStuck`. It is not inductive: it needs
  `DelegationsBacked` (an active or activating account in custody holds at least its delegation
  and its rent; a deactivated one that has been drawn from is not split any more), proved as
  `DelegationsStayBacked` through every CPI of every instruction, plus the arithmetic of the
  instruction: the undelegated lamports that are moved ahead of the split are exactly the ones
  which would leave a side of it short.
  In the same module, step by step from a case analysis of the instructions that touch a
  Settlement account (`SettlementStep`): `RequestsAreNotOverdrawn`, `SplitRentIsOwedOnce` (a
  settlement with a registered rent payer is exactly full and therefore never funded again),
  `OverfundIsBounded` (for some configured minimum: the administrator may have changed it since).
* `FundingProofs!ClaimsAreAccounted` — `ClaimsAccounted`. The inductive form, `ClaimsInv`, adds that
  the set bits are records of the tree of the settlement and that a settlement without an account
  has no bits; a claim takes one record out of those still to be paid and adds its amount to the
  counter, which is `SumRemove` of `FiniteSums`.
* `FundingProofs!SettlementsAreSolvent` — `SettlementSolvent`, the promise that the accounts of a
  settlement cover what it counted as funded and has not yet paid out. The sum over the accounts
  funded to it is turned into one over all addresses (`PotsSum`), so that an instruction that
  changes one or two accounts changes one or two terms (`SumOne`, `SumTwo`); for each instruction
  the gain of the terms is compared with what it makes due. The theorem has two hypotheses about
  the behaviour, since the code does not keep the promise without them: `MinimumNotRaised`, the
  administrator does not raise the minimum stake (a higher minimum is withheld from every payout),
  and `RefundSparesOthers`, a settlement that ends does not draw its refund from an account of
  another open one, which is what the run `refund` shows the code doing. `SolventIfRefundIsOwn`
  replaces the second by `RefundFromOwnFunds`, the statement of the comment in
  `close_settlement.rs` that `refund` refutes. `FundingProofs!OneSettlementPerBondIsSolvent` has no
  hypothesis about refunds, but one about the instance: no two settlements of one bond. With a
  single configured minimum as well, `OneMinimumIsSolvent` needs nothing of the behaviour; the run
  `settlement` is such an instance.
* `FundingProofs` — `ImplementsCustody`, the refinement of `StakeCustody` (initial states map to
  initial states, each instruction to a move, an opening, a closing or a stutter), `VoterIsKept`
  and `PauseIsFreezing` from the same case analysis. `BondPaysOnlyForItself` is the property
  `BondPaysForItselfOnly` over the sum of all accounts; its invariant `VotersKnown` says that an
  account without delegation stands for nobody, and one funded to a settlement for the bond of it.
  `SettlementsKeepTheirFunds` is `SettlementKeepsItsFunds` along the same lines, the sum over the
  accounts of one settlement (`HeldInSum`): accounts that are held for no open settlement
  (`Unheld`) may be changed at will, a merge moves lamports within one staker, and a refund comes
  from an account of the same validator, hence by `VotersKnown` of the same bond.
* `BondAuthorityProofs!OutsidersNeverGain` — with the inductive invariant `TypeOK /\
  IdentitiesInside /\ OutsidersGainNothing`: authority can only come from a signer that is an
  authority or the identity, both insiders. `TypeCorrect`, `MinimumHolds` and
  `StaleTokensAreUseless` follow step by step from the same case analysis (`StepsOnBonds`: which
  instructions change a bond at all).
* `ClaimsBitmapProofs!BitsInBounds` — `ClaimsStayInBounds`, for every header, limit, number of
  records and index. It needs that the account always is a sequence (`IInv`), hence that no
  allocation is smaller than the header, and that rounding up to bytes leaves room for every
  record (`ByteOfRecord`).
* `ClaimsBitmapProofs` — `BytesAreBytes` (`TypeOK`), `CounterIsBitmap` (`CounterMatchesBitmap`) and
  `BytesImplementRecords` (`RecordsSpec`, the refinement of `ClaimRecords`), with the hypothesis
  `Octets`: bytes of eight bits, the value of the constant in the code. Setting a clear bit of a
  byte adds a power of two that changes no other bit (`BitAdded`, `OneMore`: the eight cases, each
  of them linear arithmetic), and no two records share byte and bit (`OneBitEach`). The invariant
  `BytesInv` adds that an account that cannot yet be claimed from is blank, so that growing it adds
  no records.
* `WithdrawClientProofs!CommandNeverOverdraws` — `RequestNotOverdrawn` under `ClientSpec`. A
  roll-back is no step of the program, so that the theorem about `Spec` does not carry over: the
  invariant adds that what a transaction may have to restore is as good as what it found
  (`Restorable`), and that the plan names accounts of the program and lasts as long as the
  transaction (`PlanLasts`). `CommandKeepsMinimalSizes` — `BondStakesOfMinimalSize` with the
  hypothesis `MinimalDeposits` on the constants, deposits of at least the minimal size; what a
  transaction restores is again part of the invariant (`RestoresMinimal`).
* `WithdrawClientProofs!PlansAreAccepted` — `PromiseKept`: a plan made when `CanBeMet` held is
  accepted instruction by instruction while nobody else acts, for any number of accounts, amounts
  and cuts into transactions. The invariant `PromiseInv` says of every point on the way that the
  rest of the plan merges distinct accounts into the last one, which is claimed
  (`MergesAndClaims`), that those left are unlocked accounts of the bond in one state, and that
  their lamports and delegations together still pay, whole or split (`CanPay`): a merge moves
  both sums without changing them (`MergeKeepsPromise`). It rests on `DelegationsBacked`, also of
  what a transaction may restore (`RestoresBacked`): a split is funded from what is above the
  delegation. `CanBeMet` asks that no account is under a lockup in force; with one, the program
  refuses the claim.
* `FundingPipelineProofs!MarinadePaysOnce` — `MarinadeFundsOnce` under `PipelineSpec`. The invariant
  `PutInv` says that what Marinade has put into a settlement is still there or has been claimed
  (`PutIsHeld`: the counter of claims plus the sum of what claims can take, which merges of two
  accounts only raise and claims lower by what they count); that what a run has read of a
  settlement still holds but for the claims since (`ReadBefore`); and that what is still to be sent
  is missing and is in the queue once (`StillMissing`). The order of the two reads is what the
  proof turns on: claims are read before the accounts, so that what moves from the one to the
  other in between is missed, never counted twice; `slipped` is that amount. That the plan has
  Marinade's share of a settlement once is read off the fold of `PrepareFunding`
  (`PlansPayOnce`), through the whole plan from the bonds. The hypothesis `ListedOnce` says that
  the files name a settlement once: `load_merkle_tree_with_on_chain` keeps one record per tree,
  and the address of a settlement is derived from bond, root and epoch, so a second record would
  take the same tree twice. Closing a settlement is no part of `PipelineSpec`.
* `EventingProofs` — `SavedIsQuiet`: for every validator, what a run saves makes the next run
  silent if nothing changed; `SilentIsSame`: a run that is silent about a validator found the
  compared fields as they were saved. They are theorems about `DeltasOf`, not about one instance's
  readings, and are what `SettlesDown` rests on.
  `RowsFollowTheRecord` is `SavedOnRecord`: the invariant `RunInv` (`Accounted`) says of every
  phase of a run that the events on the way, those that got through and those given up on are
  together all that the comparison found, that what got through was received, and that what is
  recorded is what got through.
  `TableAndServiceAgree` is `InSync`, for any readings, validators, retries and requests in flight.
  `InSync` says nothing of a validator that a run is telling about, so it is not inductive.
  `ToldInv` says what holds then: what the service knows of a validator lies between the old row
  and the new one, taken by the kinds of event (`Aspects`): of a kind that was heard it agrees
  with the row to be saved, of the others with the row before. When all was heard that is the new
  row, which `saveCurrentState` writes; when nothing was heard it is the old one, which
  `keepVoteAccounts` keeps. That the events of one comparison cover every kind that differs is
  `DeltasOf` again, case by case. The proof asks of the constants that there are finitely many
  vote accounts, and `ReadingsAssumption`: amounts are natural numbers or unknown, and unknown is
  no number.
  `OthersDelist` is `DelistedByOthers`: a run keeps the reading that passed the guard
  (`ReadSome`), and an event that delists comes only from a validator missing in it
  (`EmissionTells`).

* `ClientsProofs` — under the hypothesis `Apart`: neither `Null` nor `ProgramId` is a function, hence
  no derived address (a tuple of prefix and seeds) is one of them. In the code a missing account is
  `undefined` or a missing option and the program's id is a key that was not derived. The invariant
  `ClientInv` says that what was made is proper (`ProperlyMade`): every account that the interface
  names has an address, and only an optional one has the program's id, with which the Anchor client
  encodes None. That is shown builder by builder and command by command from what they read,
  default and derive (`BuildersAreProper`, `CommandsAreProper`), with `OffersAssumption` and
  `ProgramAssumption` on the constants. `ClientTypes` is `TypeOK`.
  `ObserverReadsRight` is `ObserverReads`: three tables per instruction, what the interface names,
  what the generated function sends and what the parser reads, are compared entry by entry.
  `AuthoritiesSpeak` is `SpokenFor`: every account called an authority is either bound by a relation
  of the interface to the config, or checked by the handler against the bond whose vote account the
  interface binds; it holds of the keys before that very instruction of the transaction.
  `ClientsSendTheSame` is `ClientsAgree`, for both variants of each of the 24 functions. The
  argument is that a default is for an account that the program itself checks to be at that address
  (`StepFits`), so in a transaction that was taken it derives what the transaction has
  (`TakenIsDerived`); that what a default derives from is given or derived before it (`StepsFit`),
  so the order of the defaults in the generated code matters; and that the fold over the defaults
  therefore ends with the accounts of the transaction, whichever were given (`FillsAll`, by the
  least position at which it would not). The premises are then read off the tables, one lemma per
  instruction (`EveryClientFits`).

`FiniteSums` is what the sums rest on: that the recursive `MapThenSumSet` is an integer, that any
element may be taken out of it first, and how it changes when one or two terms change. The
induction theorems of the library cannot be used, as they take an operator as a parameter; instead
the set of cardinalities for which a statement fails has a least element, since the order of the
natural numbers is well-founded. `StakeIdsAssumption` (finitely many stake accounts exist) and
`TreeAssumption` (every tree is a function from numbers to amounts) are what these proofs ask of
the constants.

Only model-checked: that the program accepts the plan of `FundingPipeline`
(`UndisturbedPlanHolds`: what is left to pay follows from a fold over sorted pools, whose sums the
prover would have to follow through merges and splits); `OneFamily` and `FreshIsAccepted`, which
depend on what the accounts of the ledger hold, a fold over the families, and on that no two of
their addresses coincide; `ClaimOrClose`, which is about ENABLED; `LockupElapses`, which is about
what is ENABLED at a later time; and the liveness properties `StakesComeBack`, `UpsizeCompletes`,
`FundingCompletes`, `WithdrawCompletes` and `SettlesDown`: liveness under fairness is out of the
prover's reach.

## Not modelled

* Several instructions of the funding pipeline in one transaction: how they are packed is decided
  in a dependency. `prepare_merge_instructions` merges any two accounts of equal state, two
  deactivating ones included, which the stake program refuses (the exception in
  `UndisturbedPlanHolds`).
* The init, claim, close and merge pipelines: they send the instructions of `ValidatorBonds` for
  one account after the other and plan nothing across them; `ValidatorBonds` lets anybody call any
  instruction at any time, which covers their choices and their crashes.
* Bid and institutional distribution, settlement generation, sanity check: single passes in
  decimal arithmetic over the files of an epoch, without state, failures or concurrency.
  Scaled-down numbers would lose the rounding, which is what is hard about them.
* Merkle trees: hashing. The proof is taken to bind index, claim and authorities.
* Collector and API: one transaction or one statement per request.
* Reads, `show` and reports of the SDK and the CLIs: queries that change nothing.
* Encodings of instruction data and accounts in the generated client, except for the accounts of
  instructions.
* The v1 claim accounts (an instruction that only fails), events and error texts, fixtures,
  migrations, build scripts, HTTP and RPC plumbing.
