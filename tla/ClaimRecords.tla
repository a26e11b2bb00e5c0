---------------------------- MODULE ClaimRecords ----------------------------
(***************************************************************************)
(* What the SettlementClaims account promises: it remembers the set of     *)
(* claimed records of one settlement, and each record is claimed at most   *)
(* once in the life of the account.  ValidatorBonds keeps the account in   *)
(* this abstract form, claims[s].bits; ClaimsBitmap implements it.         *)
(***************************************************************************)
EXTENDS Integers

VARIABLES records,   \* number of records, 0 when there is no account
          claimed    \* the indices claimed so far

vars == <<records, claimed>>

Init == records = 0 /\ claimed = {}

Open == records = 0 /\ records' \in Nat \ {0} /\ claimed' = {}

Claim ==
    /\ \E i \in 0 .. records - 1 : i \notin claimed /\ claimed' = claimed \cup {i}
    /\ records' = records

Close == records # 0 /\ records' = 0 /\ claimed' = {}

Next == Open \/ Claim \/ Close

Spec == Init /\ [][Next]_vars
=============================================================================
