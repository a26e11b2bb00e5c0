----------------------------- MODULE MCReclaim ------------------------------
(***************************************************************************)
(* ValidatorBonds with a history of the payouts: how often each record of  *)
(* a merkle tree has been paid, over all lives of the settlement account.  *)
(***************************************************************************)
EXTENDS MCValidatorBonds

VARIABLE payouts

InitPayouts == payouts = [s \in Settlements |-> [i \in DOMAIN Tree[s] |-> 0]]

(* a bit that appears in the bitmap is a payout *)
RecordPayouts ==
    payouts' = [s \in Settlements |-> [i \in DOMAIN Tree[s] |->
                    payouts[s][i] + Cardinality({i} \cap (claims'[s].bits \ claims[s].bits))]]

SpecPayouts == /\ Init /\ InitPayouts
               /\ [][Next /\ RecordPayouts]_<<vars, payouts>>

(* claim_settlement.rs:72: "merkle tree record cannot be claimed twice". *)
RecordPaidOnce ==
    \A s \in Settlements : \A i \in DOMAIN Tree[s] : payouts[s][i] <= 1
=============================================================================
