---------------------------- MODULE StakeCustody ----------------------------
(***************************************************************************)
(* What the program promises about who holds a stake account (the table    *)
(* "Stake Account authorities transitions" of                              *)
(* programs/validator-bonds/README.md:75-93), with everything else left    *)
(* out: a validator's account is deposited to the bonds program; from the  *)
(* bonds program it goes to an open settlement, or back to its validator;  *)
(* an account of a settlement stays with that settlement until the         *)
(* settlement is gone, and can then only be reset to the bonds program.    *)
(* Any account may be emptied, and new ones appear.                        *)
(***************************************************************************)
CONSTANTS StakeIds, Settlements, Bonds, Owner, Nowhere

VARIABLES custody,   \* [StakeIds -> Holders]
          open       \* the settlements that exist

vars == <<custody, open>>

Holders == Settlements \cup {Bonds, Owner, Nowhere}

Init == custody = [x \in StakeIds |-> Nowhere] /\ open = {}

(* from holder a to holder b while the settlements `open' exist *)
MayMove(a, b) ==
    \/ a = b
    \/ a = Nowhere \/ b = Nowhere
    \/ a = Owner /\ b = Bonds
    \/ a = Bonds /\ b = Owner
    \/ a = Bonds /\ b \in open
    \/ b = Bonds /\ a \in Settlements \ open

Move ==
    /\ custody' \in [StakeIds -> Holders]
    /\ \A x \in StakeIds : MayMove(custody[x], custody'[x])
    /\ open' = open

Open(s) == s \notin open /\ open' = open \cup {s} /\ custody' = custody

(* The rent refund may empty one account. *)
Close(s) ==
    /\ s \in open /\ open' = open \ {s}
    /\ \A x \in StakeIds : custody'[x] \in {custody[x], Nowhere}
    /\ custody' \in [StakeIds -> Holders]

Next == Move \/ \E s \in Settlements : Open(s) \/ Close(s)

Spec == Init /\ [][Next]_vars
=============================================================================
