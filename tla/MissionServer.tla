--------------------------- MODULE MissionServer ---------------------------
(***************************************************************************)
(* One mission as the REST interface answers for it: what each person may  *)
(* ask at each moment, what the answer changes, and what the detail        *)
(* serializer then shows that person.  The screens of the web front end    *)
(* (WebMission) and of the telephone (PhoneMission) are clients of it.     *)
(*                                                                         *)
(* A request is one step here: Payment and Negotiation open the handlers   *)
(* up.  Amounts, ceilings and verification are taken to be in order, and   *)
(* the PIN typed at a delivery to be the one of the booking.  A mission    *)
(* has one payment row, the latest (Payment has them all).                 *)
(***************************************************************************)
EXTENDS Integers, Sequences, FiniteSets, SequencesExt

CONSTANTS
    Owner,     \* a client, or the transporter of a return trip
    Others,    \* transporters, or the clients of a return trip
    None,
    MaxRows    \* bids, or trip requests, a mission gets: a bound

VARIABLES
    me,      \* the person whose screen is followed
    srv,     \* the mission, a record of Mission below
    done     \* the last tap this person knows was accepted; gone when the
             \* mission changes otherwise

ASSUME ServerAssumption == MaxRows \in Nat /\ Owner \notin Others /\ None \notin Others \cup {Owner}

Persons == {Owner} \cup Others
Methods == {"DIGITAL", "COD"}
Statuses == {"PUBLISHED", "MATCHED", "IN_PROGRESS", "COMPLETED", "CANCELLED"}

RowStatuses ==
    {"PENDING", "COUNTERED", "ACCEPTED", "REJECTED", "WITHDRAWN", "EXPIRED", "CANCELLED"}
Row == [by : Others, status : RowStatuses]

(* The payment method a request asks for is known when it is accepted only. *)
(* carrier holds the ACCEPTED bid; engaged tells whether the owner of a    *)
(* return trip ever had a bid on it; method is that of the booking.        *)
Mission ==
    [trip : BOOLEAN, instant : BOOLEAN, status : Statuses, rows : BoundedSeq(Row, MaxRows),
     carrier : Persons \cup {None}, engaged : BOOLEAN, method : Methods \cup {"none"},
     link : {"none", "INITIATED", "HELD", "RELEASED", "REFUNDED"}, steps : 0 .. 2,
     wrote : SUBSET Persons, disputed : BOOLEAN]

Published(trip, instant) ==
    [trip |-> trip, instant |-> instant, status |-> "PUBLISHED", rows |-> <<>>,
     carrier |-> None, engaged |-> FALSE, method |-> "none", link |-> "none", steps |-> 0,
     wrote |-> {}, disputed |-> FALSE]

-----------------------------------------------------------------------------
(* Who is who.                                                             *)

IsClient(s, p) == (p = Owner) # s.trip
RowsOf(s, p) == {k \in DOMAIN s.rows : s.rows[k].by = p}
LastOf(K) == CHOOSE k \in K : \A l \in K : l <= k

(* participants.py: the owner, or on a return trip the client whose        *)
(* ACCEPTED request is the latest.                                         *)
Client(s) ==
    LET Accepted == {k \in DOMAIN s.rows : s.rows[k].status = "ACCEPTED"} IN
    IF ~s.trip THEN Owner ELSE IF Accepted = {} THEN None ELSE s.rows[LastOf(Accepted)].by

Mut_Participants(s) == {Owner, s.carrier} \ {None}

Participants(s) == {Owner, s.carrier, Client(s)} \ {None}

(* GET /api/jobs/<id>/: a client his own, a transporter those he bid on,    *)
(* anybody a published one.                                                *)
Sees(p, s) ==
    \/ s.status = "PUBLISHED"
    \/ IsClient(s, p) /\ (p = Owner \/ p \in Participants(s))
    \/ ~IsClient(s, p) /\ IF s.trip THEN s.engaged ELSE RowsOf(s, p) # {}

-----------------------------------------------------------------------------
(* Changes.  An operator returns the set of missions a request may leave:   *)
(* the empty set is a refusal.                                             *)

If(guard, s) == IF guard THEN {s} ELSE {}
At(s, k, status) == k \in DOMAIN s.rows /\ s.rows[k].status = status
Mark(s, k, status) == [s EXCEPT !.rows[k].status = status]

(* Bids and requests that are still open give way.                         *)
CloseOpen(rows, k, closing) ==
    [l \in DOMAIN rows |->
        IF l # k /\ rows[l].status \in {"PENDING", "COUNTERED"}
        THEN [rows[l] EXCEPT !.status = closing] ELSE rows[l]]

AddRow(s, p) == [s EXCEPT !.rows = Append(@, [by |-> p, status |-> "PENDING"])]

(* One bid a transporter, whatever became of it.                           *)
SubmitOffer(p, s) ==
    If(~s.trip /\ p # Owner /\ s.status = "PUBLISHED" /\ RowsOf(s, p) = {} /\ Len(s.rows) < MaxRows,
       AddRow(s, p))

WithdrawOffer(p, k, s) ==
    If(~s.trip /\ k \in RowsOf(s, p) /\ At(s, k, "PENDING"), Mark(s, k, "WITHDRAWN"))

(* Every other bid is marked REJECTED, the withdrawn ones too.             *)
AcceptOffer(p, k, method, s) ==
    If(~s.trip /\ p = Owner /\ s.status = "PUBLISHED" /\ At(s, k, "PENDING"),
       [s EXCEPT !.rows = [l \in DOMAIN s.rows |->
                              [s.rows[l] EXCEPT !.status = IF l = k THEN "ACCEPTED" ELSE "REJECTED"]],
                 !.carrier = s.rows[k].by, !.method = method, !.status = "MATCHED"])

CancelJob(p, s) ==
    If(~s.trip /\ p = Owner /\ s.status = "PUBLISHED",
       [s EXCEPT !.status = "CANCELLED",
                 !.rows = [l \in DOMAIN s.rows |-> [s.rows[l] EXCEPT !.status = "EXPIRED"]]])

(* One open request a client; the trip's date is taken to lie ahead.       *)
Mut_SendRequest(p, s) ==
    If(s.trip /\ p # Owner /\ s.status = "PUBLISHED" /\ Len(s.rows) < MaxRows,
       AddRow(s, p))

SendRequest(p, s) ==
    If(/\ s.trip /\ p # Owner /\ s.status = "PUBLISHED" /\ Len(s.rows) < MaxRows
       /\ \A k \in RowsOf(s, p) : s.rows[k].status \notin {"PENDING", "COUNTERED"},
       AddRow(s, p))

(* What either acceptance of a request leaves: the owner's own bid, a       *)
(* booking, the other requests rejected.                                   *)
Engage(s, k) ==
    {[s EXCEPT !.rows = [CloseOpen(s.rows, k, "REJECTED") EXCEPT ![k].status = "ACCEPTED"],
               !.carrier = Owner, !.engaged = TRUE, !.method = method, !.status = "MATCHED"] :
        method \in Methods}

AcceptRequest(p, k, s) ==
    IF s.trip /\ p = Owner /\ At(s, k, "PENDING") /\ s.status = "PUBLISHED"
    THEN Engage(s, k) ELSE {}

(* Neither reads what the trip has become.                                 *)
RejectRequest(p, k, s) ==
    If(s.trip /\ p = Owner /\ At(s, k, "PENDING"), Mark(s, k, "REJECTED"))
CounterRequest(p, k, s) ==
    If(s.trip /\ p = Owner /\ At(s, k, "PENDING"), Mark(s, k, "COUNTERED"))

AcceptCounter(p, k, s) ==
    IF s.trip /\ k \in RowsOf(s, p) /\ At(s, k, "COUNTERED") /\ s.status = "PUBLISHED"
    THEN Engage(s, k) ELSE {}

WithdrawRequest(p, k, s) ==
    If(s.trip /\ k \in RowsOf(s, p) /\ (At(s, k, "PENDING") \/ At(s, k, "COUNTERED")),
       Mark(s, k, "CANCELLED"))

(* The direct booking leaves the requests as they are.                     *)
BookTrip(p, method, s) ==
    If(s.trip /\ p # Owner /\ s.instant /\ s.status = "PUBLISHED",
       [s EXCEPT !.carrier = Owner, !.engaged = TRUE, !.method = method, !.status = "MATCHED"])

EditTrip(p, s) ==
    If(s.trip /\ p = Owner /\ s.status = "PUBLISHED", [s EXCEPT !.instant = ~@])

(* Another date changes nothing else.                                       *)
ExtendTrip(p, s) == If(s.trip /\ p = Owner /\ s.status = "PUBLISHED", s)

Unpublish(p, s) ==
    If(s.trip /\ p = Owner /\ s.status = "PUBLISHED",
       [s EXCEPT !.rows = CloseOpen(@, 0, "REJECTED"), !.status = "CANCELLED"])

(* A new payment link; the gateway is paid later or never.                 *)
Initiate(p, s) ==
    If(p = Client(s) /\ s.status = "MATCHED" /\ s.method = "DIGITAL" /\ s.link # "HELD",
       [s EXCEPT !.link = "INITIATED"])

(* What the gateway's word changes, by the webhook or by a verification.    *)
Secured(s) ==
    If(s.link = "INITIATED",
       [s EXCEPT !.link = "HELD", !.status = IF @ = "MATCHED" THEN "IN_PROGRESS" ELSE @])

Verify(p, s) == IF p = Client(s) THEN Secured(s) ELSE {}

Mut_ConfirmStart(p, s) ==
    If(p = s.carrier /\ s.method = "COD", [s EXCEPT !.status = "IN_PROGRESS"])

ConfirmStart(p, s) ==
    If(p = s.carrier /\ s.status = "MATCHED" /\ s.method = "COD", [s EXCEPT !.status = "IN_PROGRESS"])

Mut_LogEvent(p, step, s) ==
    If(p = s.carrier /\ s.status = "IN_PROGRESS", [s EXCEPT !.steps = @ + 1])

(* The milestones in their order, each once, whoever carried before.       *)
LogEvent(p, step, s) ==
    If(p = s.carrier /\ s.status = "IN_PROGRESS" /\ s.steps = step - 1, [s EXCEPT !.steps = step])

Complete(p, s) ==
    If(p = s.carrier /\ s.status = "IN_PROGRESS", [s EXCEPT !.status = "COMPLETED"])

(* Both cancellations void the bid and the booking and refund the row.     *)
Void(s, status) ==
    [s EXCEPT !.status = status, !.carrier = None, !.method = "none",
              !.link = IF @ \in {"HELD", "INITIATED"} THEN "REFUNDED" ELSE @,
              !.rows = IF s.trip THEN @ ELSE
                       [l \in DOMAIN @ |-> IF @[l].status = "ACCEPTED"
                                           THEN [@[l] EXCEPT !.status = "WITHDRAWN"] ELSE @[l]]]

(* The request a return trip was booked by stays ACCEPTED.                 *)
TransporterCancel(p, s) ==
    If(p = s.carrier /\ s.status \in {"MATCHED", "IN_PROGRESS"}, Void(s, "PUBLISHED"))

ClientCancel(p, s) ==
    If(p = Client(s) /\ s.status \in {"MATCHED", "IN_PROGRESS"},
       IF s.trip
       THEN [Void(s, "PUBLISHED") EXCEPT !.rows =
                [l \in DOMAIN @ |-> IF @[l].by = p /\ @[l].status = "ACCEPTED"
                                    THEN [@[l] EXCEPT !.status = "CANCELLED"] ELSE @[l]]]
       ELSE Void(s, "CANCELLED"))

(* The dispute stands for an active one: it ends elsewhere (Payment).      *)
ConfirmCompletion(p, s) ==
    If(p = Client(s) /\ s.status = "COMPLETED" /\ s.link = "HELD" /\ ~s.disputed,
       [s EXCEPT !.link = "RELEASED"])

WriteReview(p, s) ==
    If(s.status = "COMPLETED" /\ p \in Participants(s) \ s.wrote, [s EXCEPT !.wrote = @ \cup {p}])

OpenDispute(p, s) ==
    If(s.status \in {"IN_PROGRESS", "COMPLETED"} /\ p \in Participants(s) /\ ~s.disputed,
       [s EXCEPT !.disputed = TRUE])

(* A release the client did not ask for, and the end of a dispute.          *)
AutoRelease(s) ==
    If(s.status = "COMPLETED" /\ s.link = "HELD" /\ ~s.disputed, [s EXCEPT !.link = "RELEASED"])
Ruled(s) ==
    IF ~s.disputed THEN {}
    ELSE {[s EXCEPT !.disputed = FALSE, !.link = l] :
              l \in IF s.link = "HELD" THEN {"HELD", "RELEASED", "REFUNDED"} ELSE {s.link}}

-----------------------------------------------------------------------------
(* A tap is the button and the row it stands on, 0 for none.               *)

Tap(op) == [op |-> op, k |-> 0]
TapOn(op, k) == [op |-> op, k |-> k]
RowOps == {"withdrawOffer", "acceptDigital", "acceptCash", "acceptRequest", "rejectRequest",
           "counterRequest", "acceptCounter", "withdrawRequest"}
PlainOps == {"offer", "cancelJob", "request", "bookDigital", "bookCash",
             "edit", "extend", "unpublish", "pay", "verify", "start", "arrived", "loaded", "deliver",
             "leave", "clientCancel", "confirm", "review", "dispute"}
Taps == [op : RowOps, k : 1 .. MaxRows] \cup [op : PlainOps, k : {0}]

Answers(p, tap, s) ==
    LET k == tap.k IN
    CASE tap.op = "offer" -> SubmitOffer(p, s)
      [] tap.op = "withdrawOffer" -> WithdrawOffer(p, k, s)
      [] tap.op = "acceptDigital" -> AcceptOffer(p, k, "DIGITAL", s)
      [] tap.op = "acceptCash" -> AcceptOffer(p, k, "COD", s)
      [] tap.op = "cancelJob" -> CancelJob(p, s)
      [] tap.op = "request" -> SendRequest(p, s)
      [] tap.op = "acceptRequest" -> AcceptRequest(p, k, s)
      [] tap.op = "rejectRequest" -> RejectRequest(p, k, s)
      [] tap.op = "counterRequest" -> CounterRequest(p, k, s)
      [] tap.op = "acceptCounter" -> AcceptCounter(p, k, s)
      [] tap.op = "withdrawRequest" -> WithdrawRequest(p, k, s)
      [] tap.op = "bookDigital" -> BookTrip(p, "DIGITAL", s)
      [] tap.op = "bookCash" -> BookTrip(p, "COD", s)
      [] tap.op = "edit" -> EditTrip(p, s)
      [] tap.op = "extend" -> ExtendTrip(p, s)
      [] tap.op = "unpublish" -> Unpublish(p, s)
      [] tap.op = "pay" -> Initiate(p, s)
      [] tap.op = "verify" -> Verify(p, s)
      [] tap.op = "start" -> ConfirmStart(p, s)
      [] tap.op = "arrived" -> LogEvent(p, 1, s)
      [] tap.op = "loaded" -> LogEvent(p, 2, s)
      [] tap.op = "deliver" -> Complete(p, s)
      [] tap.op = "leave" -> TransporterCancel(p, s)
      [] tap.op = "clientCancel" -> ClientCancel(p, s)
      [] tap.op = "confirm" -> ConfirmCompletion(p, s)
      [] tap.op = "review" -> WriteReview(p, s)
      [] tap.op = "dispute" -> OpenDispute(p, s)

-----------------------------------------------------------------------------
(* What the detail shows a person, as far as a screen decides by it: the    *)
(* person's own bid or latest request, the booking, the milestones.        *)

NoRow == [k |-> 0, status |-> "none"]
Mine(p, s) ==
    LET K == RowsOf(s, p) IN
    IF K = {} THEN NoRow ELSE [k |-> LastOf(K), status |-> s.rows[LastOf(K)].status]

Show(p, s) ==
    [status |-> s.status, mine |-> Mine(p, s), carrier |-> s.carrier, method |-> s.method,
     instant |-> s.instant, steps |-> s.steps, released |-> s.link = "RELEASED",
     due |-> s.method = "DIGITAL" /\ s.link \in {"none", "INITIATED"}, reviewed |-> p \in s.wrote]

View ==
    [status : Statuses, mine : [k : 0 .. MaxRows, status : {"none"} \cup RowStatuses],
     carrier : Persons \cup {None}, method : Methods \cup {"none"}, instant : BOOLEAN,
     steps : 0 .. 2, released : BOOLEAN, due : BOOLEAN, reviewed : BOOLEAN]
=============================================================================
