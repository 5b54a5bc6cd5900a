--------------------------- MODULE EscrowContract ---------------------------
(***************************************************************************)
(* What the code promises of an escrow row, without missions, workers or   *)
(* callbacks: INITIATED -> HELD -> RELEASED or REFUNDED, a failed link is  *)
(* FAILED, an unpaid row may be voided, and the sum of a row is promised   *)
(* once, to the party or parties the last move names.                      *)
(***************************************************************************)
CONSTANT Escrows

VARIABLES
    stage,   \* the status of each row
    payees   \* who the sum of each row has been promised to

contractVars == <<stage, payees>>

Init ==
    /\ stage = [e \in Escrows |-> "ABSENT"]
    /\ payees = [e \in Escrows |-> "nobody"]

Move(e, from, to, party) ==
    /\ stage[e] \in from
    /\ stage' = [stage EXCEPT ![e] = to]
    /\ payees' = [payees EXCEPT ![e] = party]

Initiate(e) == Move(e, {"ABSENT"}, "INITIATED", "nobody")
Hold(e)     == Move(e, {"INITIATED"}, "HELD", "nobody")
Fail(e)     == Move(e, {"INITIATED"}, "FAILED", "nobody")
Release(e)  == Move(e, {"HELD"}, "RELEASED", "transporter")
Refund(e)   == Move(e, {"INITIATED", "HELD"}, "REFUNDED", "client")
Split(e)    == Move(e, {"INITIATED", "HELD"}, "REFUNDED", "both")

(* A sum shared when no bid is accepted any more: the transporter's part   *)
(* is kept back (SPLIT_NO_TRANSPORTER).                                    *)
SplitAlone(e) == Move(e, {"INITIATED", "HELD"}, "REFUNDED", "clientPart")

Next ==
    \E e \in Escrows :
        Initiate(e) \/ Hold(e) \/ Fail(e) \/ Release(e) \/ Refund(e)
        \/ Split(e) \/ SplitAlone(e)

Spec == Init /\ [][Next]_contractVars
=============================================================================
