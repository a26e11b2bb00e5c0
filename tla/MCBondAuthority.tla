--------------------------- MODULE MCBondAuthority ---------------------------
(* Two keys of a validator and one of anybody; their bids differ. *)
EXTENDS BondAuthority

CONSTANTS old, new, other

MCInsiders == {old, new}
MCKeys == {old, new, other}
MCBids == [p \in MCKeys |-> IF p = other THEN {2} ELSE {1, 9}]
=============================================================================
