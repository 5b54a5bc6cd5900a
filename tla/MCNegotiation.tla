---------------------------- MODULE MCNegotiation ----------------------------
(* Small instances of Negotiation.  A bid's key names its author and its   *)
(* mission: a1 and a2 are t1's on j1, a3 is t1's on j2, b1 is t2's on j1.  *)
EXTENDS Negotiation, TLC

CONSTANTS j1, j2, t1, t2, a1, a2, a3, b1, c1, c2, c3

JobOf == [o \in Offers |-> IF o = a3 THEN j2 ELSE j1]
AuthorOf == [o \in Offers |-> IF o = b1 THEN t2 ELSE t1]
AskedFor == [o \in Offers |-> IF o = b1 THEN 20 ELSE 30]
OnFirstBid == [c \in Counters |-> a1]
Proposed == (c1 :> 25 @@ c2 :> 28 @@ c3 :> 29)
ProposedHere == [c \in Counters |-> Proposed[c]]

=============================================================================
