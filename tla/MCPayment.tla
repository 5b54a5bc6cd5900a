------------------------------ MODULE MCPayment ------------------------------
(* Small instances of Payment: a mission with up to two bids, escrow rows  *)
(* and disputes; or a classic mission, with a bid and a row, beside a      *)
(* return trip with two requests and two rows.                             *)
EXTENDS Payment, TLC

CONSTANTS j1, trip

OneJob == {j1}
BidsOnOneJob == [o \in Offers |-> j1]
TwoRows == 1..2
OneRow == {1}
ThreeRows == 1..3
TwoJobs == {j1, trip}
Trips == {trip}
BidOnEach == [o \in Offers |-> IF o = "bid" THEN j1 ELSE trip]
RowOnEach == [e \in Escrows |-> IF e = 1 THEN j1 ELSE trip]
RowsOnOneJob == [e \in Escrows |-> j1]
DisputesOnOneJob == [d \in Disputes |-> j1]

(* Workers are alike, and so are the bids of the one mission; used for     *)
(* safety only.                                                            *)
Alike == Permutations(Workers) \cup Permutations(Offers)
=============================================================================
