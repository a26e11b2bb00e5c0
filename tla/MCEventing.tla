----------------------------- MODULE MCEventing -----------------------------
(* Instances of Eventing: a lamport has ten grains, an epochs value two    *)
(* digits; the readings differ in what the events tell apart.              *)
EXTENDS Eventing

CONSTANTS a, b

(* in the auction, covered                                                 *)
Healthy ==
    [balance |-> 500, claimable |-> 500, target |-> 40, cap |-> Null,
     epochs |-> 1504, samEligible |-> TRUE, stake |-> 20, unprotected |-> Null,
     pmpe |-> 10000, onchainPmpe |-> 5000, bidTooLowPmpe |-> Null,
     blacklistPmpe |-> 0, bondRiskFee |-> 0, activatingPmpe |-> 0]

(* the same after another division of floats                               *)
Jittered == [Healthy EXCEPT !.balance = 501, !.claimable = 499, !.epochs = 1502]

(* out of the auction, most of the bond due to a settlement, a deficit and *)
(* a penalty                                                               *)
Failing ==
    [Healthy EXCEPT !.balance = 200, !.claimable = 80, !.target = 0, !.cap = "BOND",
                    !.epochs = 400, !.samEligible = FALSE, !.bidTooLowPmpe = 500]

(* what the SDK leaves of a validator it cannot score                      *)
Unscored == [Failing EXCEPT !.stake = Null, !.epochs = Null, !.bondRiskFee = Null]

BiddingReadings == {Healthy, Jittered, Failing, Unscored}

Covered == [funded |-> 50, effective |-> 50, claims |-> 0, stake |-> 80000]
Claimed == [funded |-> 50, effective |-> 30, claims |-> 20, stake |-> 80000]

BothReadings ==
    [t \in BondTypes |-> IF t = "bidding" THEN BiddingReadings ELSE {Covered, Claimed}]

StartReading == [t \in BondTypes |-> IF t = "bidding" THEN Healthy ELSE Covered]
=============================================================================
