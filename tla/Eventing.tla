------------------------------ MODULE Eventing ------------------------------
(***************************************************************************)
(* The runs of an eventing command (packages/bonds-eventing), bidding or   *)
(* institutional; the two share the state table.  A run loads the rows of  *)
(* its type, compares them with the validators it has read, posts the      *)
(* differences to the notification service with a bounded number of        *)
(* requests in flight, records what was sent, and in one transaction saves *)
(* the rows of the validators whose events all got through and deletes     *)
(* those of the validators that are gone.                                  *)
(*                                                                         *)
(* The notification service is remote: a request may not reach it, be      *)
(* refused, or be received and its answer lost.  A run may die at any      *)
(* point.  Runs of one type do not overlap; those of the other type leave  *)
(* the rows of this one alone, which SavedOnRecord shows of both.          *)
(***************************************************************************)
EXTENDS BondDeltas, FiniteSets, SequencesExt

CONSTANTS
    Votes,         \* vote accounts of validators that may be reported
    Readings,      \* [type -> what may be reported of a validator]
    FirstReading,  \* [type -> what is reported before the first run]
    retryMaxAttempts, emitConcurrency,
    MaxChanges, MaxFaults     \* bounds of the environment

BondTypes == {"bidding", "institutional"}

ASSUME EventingAssumption ==
    /\ IsFiniteSet(Votes)
    /\ DOMAIN Readings = BondTypes
    /\ \A t \in BondTypes : FirstReading[t] \in Readings[t]
    /\ retryMaxAttempts \in Nat /\ emitConcurrency \in Nat \ {0}
    /\ MaxChanges \in Nat /\ MaxFaults \in Nat

(* What the auction and the bonds API say of balances and claims           *)
ASSUME ReadingsAssumption ==
    /\ Null \notin Int
    /\ \A r \in Readings["bidding"] :
          r.balance \in Nat \cup {Null} /\ r.claimable \in Nat \cup {Null}
    /\ \A r \in Readings["institutional"] :
          r.funded \in Nat /\ r.effective \in Nat /\ r.claims \in Nat

VARIABLES
    bondType,  \* the type of the command, chosen once
    world,     \* [validators reported -> what is reported]
    epoch,
    rows,      \* table bond_event_state: [<<type, vote account>> -> row]
    told,      \* what the service knows: [vote accounts -> view]
    run,       \* the run, when one is going on
    astray,    \* validators told something that no run has saved
    changes, faults

vars == <<bondType, world, epoch, rows, told, run, astray, changes, faults>>

Without(f, S) == [x \in DOMAIN f \ S |-> f[x]]

Updated(f, g) == [x \in DOMAIN f \cup DOMAIN g |->
                    IF x \in DOMAIN g THEN g[x] ELSE f[x]]

Empty == [x \in {} |-> Null]

toState(v, ep) == IF bondType = "bidding" THEN validatorToState(v, ep)
                                          ELSE institutionalValidatorToState(v, ep)

(* A run that is not going on; recorded: what table emitted_bond_events    *)
(* holds of the run as sent                                                *)
Idle == [phase |-> "idle", mode |-> "live", input |-> Empty, epoch |-> 0,
         queue |-> <<>>, inFlight |-> {}, sent |-> {}, failed |-> {}, heard |-> {},
         recorded |-> {}]

(* The table holds rows of the other type already.                         *)
Init ==
    /\ bondType \in BondTypes
    /\ world = [v \in Votes |-> FirstReading[bondType]]
    /\ epoch = 0
    /\ rows = [k \in (BondTypes \ {bondType}) \X Votes |->
                 toState(FirstReading[bondType], 0)]
    /\ told = Empty
    /\ run = Idle
    /\ astray = {}
    /\ changes = 0 /\ faults = 0

-----------------------------------------------------------------------------
(* The environment                                                         *)

WorldChanges ==
    /\ changes < MaxChanges /\ changes' = changes + 1
    /\ \/ \E v \in Votes, r \in Readings[bondType] :
            world' = Updated(world, [x \in {v} |-> r])
       \/ \E v \in DOMAIN world : world' = Without(world, {v})
    /\ world' # world
    /\ UNCHANGED <<bondType, epoch, rows, told, run, astray, faults>>

NextEpoch ==
    /\ changes < MaxChanges /\ changes' = changes + 1
    /\ epoch' = epoch + 1
    /\ UNCHANGED <<bondType, world, rows, told, run, astray, faults>>

-----------------------------------------------------------------------------
(* Evaluation                                                              *)

loadPreviousState ==
    [v \in {k[2] : k \in {x \in DOMAIN rows : x[1] = bondType}} |-> rows[<<bondType, v>>]]

(* The events about the validators of the input                            *)
eventsOf(input, previous, ep) ==
    [v \in DOMAIN input |->
        IF v \notin DOMAIN previous
        THEN <<IF bondType = "bidding" THEN FirstSeen(v, input[v])
                                       ELSE InstitutionalFirstSeen(v, input[v])>>
        ELSE IF bondType = "bidding" THEN DeltasOf(v, input[v], previous[v], ep)
                                     ELSE InstitutionalDeltasOf(v, input[v], previous[v])]

(* The events about those that are gone                                    *)
delistedOf(input, previous) ==
    [v \in DOMAIN previous \ DOMAIN input |-> buildValidatorDelistedEvent(v, previous[v])]

(* events, followed by those of one validator after the other              *)
Followed(events, lists) ==
    FoldLeft(LAMBDA es, v : es \o lists[v], events, SetToSeq(DOMAIN lists))

(* All events of a run, in the order of the code                           *)
evaluate(input, previous, ep) ==
    Followed(Followed(<<>>, eventsOf(input, previous, ep)), delistedOf(input, previous))

(* Variant: nothing is an answer like any other.                           *)
BelievedEmpty(input) == FALSE

(* The bonds API answering with nothing must not delist everybody; the     *)
(* auction simulation is believed.                                         *)
Refused(input) == bondType = "institutional" /\ input = Empty

(* next() of the pool: as many requests as may be in flight                *)
Filled(r) ==
    LET free == emitConcurrency - Cardinality(r.inFlight)
        n == IF free < Len(r.queue) THEN free ELSE Len(r.queue)
    IN  [r EXCEPT !.queue = SubSeq(@, n + 1, Len(@)),
                  !.inFlight = @ \cup {[event |-> r.queue[i], attempt |-> 0] : i \in 1..n}]

(* live: as deployed; dry: --dry-run; mute: no notifications URL;          *)
(* stateless: no Postgres URL, everything is new                           *)
Modes == {"live", "dry", "mute", "stateless"}

Evaluate(mode, input) ==
    LET previous == IF mode = "stateless" THEN Empty ELSE loadPreviousState
        events == evaluate(input, previous, epoch)
    IN  /\ run.phase = "idle"
        /\ ~Refused(input)
        /\ run' = Filled(
             [Idle EXCEPT !.phase = "emitting", !.mode = mode,
                          !.input = input, !.epoch = epoch,
                          !.queue = IF mode \in {"live", "stateless"} THEN events ELSE <<>>,
                          !.sent = IF mode = "dry" THEN ToSet(events) ELSE {},
                          !.failed = IF mode = "mute" THEN ToSet(events) ELSE {}])
        /\ UNCHANGED <<bondType, world, epoch, rows, told, astray, changes>>

StartRun == Evaluate("live", world) /\ UNCHANGED faults

(* A run as operators misconfigure it, or one that is told too little      *)
StartOddRun ==
    /\ faults < MaxFaults /\ faults' = faults + 1
    /\ \/ \E mode \in Modes \ {"live"} : Evaluate(mode, world)
       \/ Evaluate("live", Empty)

-----------------------------------------------------------------------------
(* Emission: a pool of requests, each retried on its own                   *)

Emitting == run.phase = "emitting"

(* The request is through with its events; heard says if the service has   *)
(* received it.                                                            *)
Finished(r, p, heard, status) ==
    Filled([r EXCEPT !.inFlight = @ \ {p},
                     !.sent = IF status = "sent" THEN @ \cup {p.event} ELSE @,
                     !.failed = IF status = "failed" THEN @ \cup {p.event} ELSE @,
                     !.heard = IF heard THEN @ \cup {p.event} ELSE @])

Retried(r, p, heard) ==
    IF p.attempt < retryMaxAttempts
    THEN [r EXCEPT !.inFlight = (@ \ {p}) \cup {[p EXCEPT !.attempt = @ + 1]},
                   !.heard = IF heard THEN @ \cup {p.event} ELSE @]
    ELSE Finished(r, p, heard, "failed")

(* What the notification service knows of a validator after an event       *)
Known(e) ==
    IF "bond_balance" \in DOMAIN e
    THEN [in_auction |-> e.in_auction, funded |-> e.bond_balance,
          cap |-> e.cap_constraint, epochs |-> e.bond_good_for_n_epochs,
          deficit |-> solToLamports(e.deficit), settlement |-> Null,
          sam_eligible |-> e.sam_eligible]
    ELSE [in_auction |-> FALSE, funded |-> Null, cap |-> Null, epochs |-> Null,
          deficit |-> e.deficit, settlement |-> Null, sam_eligible |-> FALSE]

Changed(view, e) ==
    CASE e.inner_type = "auction_entered" -> [view EXCEPT !.in_auction = TRUE]
      [] e.inner_type = "auction_exited" -> [view EXCEPT !.in_auction = FALSE]
      [] e.inner_type = "cap_changed" -> [view EXCEPT !.cap = e.current_cap]
      [] e.inner_type = "bond_balance_change" -> [view EXCEPT !.funded = e.current_funded]
      [] e.inner_type = "settlement_applied" -> [view EXCEPT !.settlement = e.settlement_total]
      [] e.inner_type = "sam_eligible_change" ->
            [view EXCEPT !.sam_eligible = e.current_sam_eligible]
      [] e.inner_type = "bond_underfunded_change" ->
            IF "flat_deficit" \in DOMAIN e THEN [view EXCEPT !.deficit = e.flat_deficit]
            ELSE [view EXCEPT !.epochs = finiteOr(e.current_epochs, @),
                              !.deficit = IF e.deficit = Null THEN @
                                          ELSE solToLamports(e.deficit)]
      [] OTHER -> view

Heard(views, e) ==
    IF e.inner_type = "first_seen" THEN Updated(views, [v \in {e.vote} |-> Known(e)])
    ELSE IF e.inner_type = "validator_delisted" THEN Without(views, {e.vote})
    ELSE IF e.vote \in DOMAIN views THEN [views EXCEPT ![e.vote] = Changed(@, e)]
    ELSE views

(* Only what fails in the end counts against the bound of the faults.      *)
CountFault(counts) ==
    IF counts THEN faults < MaxFaults /\ faults' = faults + 1 ELSE UNCHANGED faults

Acknowledged ==
    /\ Emitting
    /\ \E p \in run.inFlight :
         /\ run' = Finished(run, p, TRUE, "sent")
         /\ told' = Heard(told, p.event)
    /\ UNCHANGED <<bondType, world, epoch, rows, astray, changes, faults>>

(* 30 seconds pass without an answer, or it is a 5xx after the fact.       *)
AnswerLost ==
    /\ Emitting
    /\ \E p \in run.inFlight :
         /\ CountFault(p.attempt = retryMaxAttempts)
         /\ run' = Retried(run, p, TRUE)
         /\ told' = Heard(told, p.event)
    /\ UNCHANGED <<bondType, world, epoch, rows, astray, changes>>

(* A network error, 429 or 5xx                                             *)
NotReceived ==
    /\ Emitting
    /\ \E p \in run.inFlight :
         /\ CountFault(p.attempt = retryMaxAttempts)
         /\ run' = Retried(run, p, FALSE)
    /\ UNCHANGED <<bondType, world, epoch, rows, told, astray, changes>>

(* Any other 4xx is not retried.                                           *)
Rejected ==
    /\ Emitting
    /\ faults < MaxFaults /\ faults' = faults + 1
    /\ \E p \in run.inFlight :
         run' = Finished(run, p, FALSE, "failed")
    /\ UNCHANGED <<bondType, world, epoch, rows, told, astray, changes>>

-----------------------------------------------------------------------------
(* Keeping the result                                                      *)

Emitted == Emitting /\ run.inFlight = {}

VotesIn(events) == {e.vote : e \in events}

Saves == run.mode \in {"live", "mute"}

(* recorded: what table emitted_bond_events holds of this run as sent      *)
persistEvents ==
    /\ Emitted /\ Saves
    /\ run' = [run EXCEPT !.phase = "persisted", !.recorded = run.sent]
    /\ UNCHANGED <<bondType, world, epoch, rows, told, astray, changes, faults>>

(* Variant: a failed event is only logged.                                 *)
noVoteAccounts == {}

failedVoteAccounts == VotesIn(run.failed)

(* Validators whose row is written                                         *)
succeededVotes == DOMAIN run.input \ failedVoteAccounts

(* Variant: a row whose removal could not be told is deleted all the same. *)
keepReported == DOMAIN run.input

(* Validators whose row is not deleted                                     *)
keepVoteAccounts == DOMAIN run.input \cup failedVoteAccounts

(* Validators the service and the table disagree about from now on: it has *)
(* heard what was not saved.  A first_seen or a removal that is saved puts *)
(* an end to that.                                                         *)
AstrayAfter(saved) ==
    LET toldAll == {e.vote : e \in {x \in run.sent :
                        x.inner_type \in {"first_seen", "validator_delisted"}}}
    IN  (astray \cup (VotesIn(run.heard) \ saved)) \ (toldAll \cap saved)

(* Variant: the upsert only updates.                                       *)
updateCurrentState ==
    Updated(rows, [k \in DOMAIN rows \cap ({bondType} \X succeededVotes) |->
                     toState(run.input[k[2]], run.epoch)])

saveCurrentState ==
    Updated(rows, [k \in {bondType} \X succeededVotes |->
                     toState(run.input[k[2]], run.epoch)])

(* Variant: the deletion forgets whose rows it may delete.                 *)
deleteOfAnyType(table, keep) == Without(table, {k \in DOMAIN table : k[2] \notin keep})

(* DELETE ... WHERE bond_type = ... AND vote_account != ALL(keep)          *)
deleteRemovedValidators(table, keep) ==
    Without(table, {k \in DOMAIN table : k[1] = bondType /\ k[2] \notin keep})

SaveState ==
    LET gone == DOMAIN loadPreviousState \ keepVoteAccounts
    IN  /\ run.phase = "persisted"
        /\ rows' = deleteRemovedValidators(saveCurrentState, keepVoteAccounts)
        /\ astray' = AstrayAfter(succeededVotes \cup gone)
        /\ run' = Idle
        /\ UNCHANGED <<bondType, world, epoch, told, changes, faults>>

(* Dry and stateless runs keep nothing.                                    *)
FinishUnsaved ==
    /\ Emitted /\ ~Saves
    /\ astray' = AstrayAfter({})
    /\ run' = Idle
    /\ UNCHANGED <<bondType, world, epoch, rows, told, changes, faults>>

(* The process dies or the database fails.                                 *)
Crash ==
    /\ run.phase # "idle"
    /\ faults < MaxFaults /\ faults' = faults + 1
    /\ astray' = AstrayAfter({})
    /\ run' = Idle
    /\ UNCHANGED <<bondType, world, epoch, rows, told, changes>>

-----------------------------------------------------------------------------
RunStep ==
    \/ StartRun \/ StartOddRun
    \/ Acknowledged \/ AnswerLost \/ NotReceived \/ Rejected
    \/ persistEvents \/ SaveState \/ FinishUnsaved \/ Crash

Next == WorldChanges \/ NextEpoch \/ RunStep

Spec == Init /\ [][Next]_vars

(* The command is scheduled again and again, a request is answered or      *)
(* times out, and the steps of a run follow each other.                    *)
Fairness ==
    /\ WF_vars(StartRun) /\ WF_vars(Acknowledged)
    /\ WF_vars(persistEvents) /\ WF_vars(SaveState) /\ WF_vars(FinishUnsaved)

FairSpec == Spec /\ Fairness

-----------------------------------------------------------------------------
(* Properties                                                              *)

Own == loadPreviousState

Pending(row) == finiteOr(row.settlement_claims, row.funded - row.effective)

(* A view and a row say the same, as far as the events can tell it: that   *)
(* epochs, a deficit or a settlement are gone or unknown is told to nobody.*)
Agrees(view, row) ==
    /\ view.in_auction = row.in_auction
    /\ view.funded \in {Null, row.funded}
    /\ view.cap = row.cap_constraint
    /\ view.sam_eligible = row.sam_eligible
    /\ row.bond_good_for_n_epochs # Null => view.epochs = row.bond_good_for_n_epochs
    /\ row.deficit # 0 => view.deficit = row.deficit
    /\ Pending(row) >= MIN_SETTLEMENT_LAMPORTS
         => view.settlement \in {Null, Pending(row)}

(* The table and the notification service agree on every validator of      *)
(* which the service has not heard more than has been saved: whatever      *)
(* requests fail, are lost or are sent twice and wherever a run dies, a    *)
(* row never runs ahead of what the validator's operators were told        *)
(* (pipeline.ts: "their state will not be saved so deltas are retried").   *)
InSync ==
    \A v \in (DOMAIN Own \cup DOMAIN told) \ (astray \cup VotesIn(run.heard)) :
        IF v \in DOMAIN Own THEN v \in DOMAIN told /\ Agrees(told[v], Own[v])
        ELSE told[v].funded \in {Null, 0} /\ ~told[v].in_auction

(* A row is written or deleted only when every event about its validator   *)
(* was received and is on record as sent, and never a row of the other     *)
(* type: the order of emitEvents, persistEvents and the transaction in     *)
(* runEventingPipeline, and the filters of the queries in state.ts.        *)
SavedOnRecord ==
    [][LET events == ToSet(evaluate(run.input, Own, run.epoch))
           row(table, k) == IF k \in DOMAIN table THEN {table[k]} ELSE {}
       IN  \A k \in DOMAIN rows \cup DOMAIN rows' :
             row(rows, k) # row(rows', k) =>
               /\ k[1] = bondType
               /\ {e \in events : e.vote = k[2]} \subseteq run.recorded \cap run.heard]_vars

(* run-institutional.ts:46-49 ("would delist all tracked validators"): the  *)
(* service loses a validator, or the table its row, only on the word of a  *)
(* reading that still has others; no crash, repetition or answer that is   *)
(* lost on the way makes an empty one delist anybody.                      *)
DelistedByOthers ==
    [][bondType = "institutional" =>
          \A v \in (DOMAIN told \ DOMAIN told') \cup (DOMAIN Own \ DOMAIN Own') :
              v \notin DOMAIN run.input /\ run.input # Empty]_vars

(* Once the validators, the epoch and the faults come to rest, the table   *)
(* catches up with them and the runs fall silent; only the institutional   *)
(* table may stay as it was, when no bond is reported any more.            *)
SettlesDown ==
    <>[](\/ Own = [v \in DOMAIN world |-> toState(world[v], epoch)] /\ run.inFlight = {}
         \/ Refused(world))
=============================================================================
