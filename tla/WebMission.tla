----------------------------- MODULE WebMission -----------------------------
(***************************************************************************)
(* A person's mission in the web front end: the detail screen with its      *)
(* panels, the reservation and booking pages, the way to the payment        *)
(* gateway and back.  The page decides by what it read last (page.view), a  *)
(* panel by the list it fetched when it was mounted (page.rows).            *)
(*                                                                         *)
(* The page reads again after its own actions only: nothing polls.  While   *)
(* it does (busy) its panels are gone, and a reading that fails leaves the  *)
(* view it had.  One request of a page is under way at a time.              *)
(***************************************************************************)
EXTENDS MissionServer

VARIABLE page

Places == {"list", "detail", "reservation", "book", "gateway", "resolver"}
PageState ==
    [at : Places, view : View \cup {None}, rows : Seq(Row) \cup {None}, busy : BOOLEAN,
     paid : BOOLEAN]

Away == [at |-> "list", view |-> None, rows |-> None, busy |-> FALSE, paid |-> FALSE]
Loading(at) == [Away EXCEPT !.at = at, !.busy = TRUE]
Rereading == [page EXCEPT !.busy = TRUE, !.rows = None]

-----------------------------------------------------------------------------
(* Panels: the buttons each of them shows a person for a view.              *)

Assigned(p, v) == v.carrier = p

Mut_MissionMatchedPanel(s, p, v) ==
    IF v.status # "MATCHED" THEN {}
    ELSE {t \in {Tap("pay")} : p = Owner /\ v.method = "DIGITAL"}
         \cup {t \in {Tap("start")} : Assigned(p, v)}

MissionMatchedPanel(s, p, v) ==
    IF v.status # "MATCHED" THEN {}
    ELSE {t \in {Tap("pay")} : p = Owner /\ v.method = "DIGITAL"}
         \cup {t \in {Tap("start")} : Assigned(p, v) /\ v.method = "COD"}

MissionInProgressPanel(p, v) ==
    IF v.status # "IN_PROGRESS" \/ ~Assigned(p, v) THEN {}
    ELSE {Tap("deliver"), Tap("leave")} \cup {t \in {Tap("arrived")} : v.steps = 0}
         \cup {t \in {Tap("loaded")} : v.steps = 1}

Mut_PostDeliveryPanel(p, v) ==
    IF v.status # "COMPLETED" THEN {}
    ELSE {t \in {Tap("confirm")} : p = Owner /\ ~v.released /\ v.reviewed}
         \cup {t \in {Tap("review")} : ~v.reviewed /\ (p = Owner => v.released)}

(* The owner confirms, then reviews; anybody else reviews at once.          *)
PostDeliveryPanel(p, v) ==
    IF v.status # "COMPLETED" THEN {}
    ELSE {t \in {Tap("confirm")} : p = Owner /\ ~v.released}
         \cup {t \in {Tap("review")} : ~v.reviewed /\ (p = Owner => v.released)}

(* An accepted request leaves no button.                                    *)
ReturnTripClientPanel(s, p, v) ==
    IF ~s.trip \/ p = Owner \/ v.status # "PUBLISHED" THEN {}
    ELSE {t \in {TapOn("acceptCounter", v.mine.k), TapOn("withdrawRequest", v.mine.k)} :
              v.mine.status = "COUNTERED"}
         \cup {t \in {TapOn("withdrawRequest", v.mine.k)} : v.mine.status = "PENDING"}
         \cup {t \in IF v.instant THEN {Tap("bookDigital"), Tap("bookCash")}
                                  ELSE {Tap("request")} :
                   v.mine.status \in {"none", "CANCELLED", "REJECTED"}}

OnRows(rows, ops, status) ==
    IF rows = None THEN {}
    ELSE {TapOn(op, k) : op \in ops, k \in {k \in DOMAIN rows : rows[k].status = status}}

TripRequestsPanel(s, p, v, rows) ==
    IF ~s.trip \/ p # Owner THEN {}
    ELSE OnRows(rows, {"acceptRequest", "rejectRequest", "counterRequest"}, "PENDING")
         \cup {t \in {Tap("edit"), Tap("unpublish")} : v.status = "PUBLISHED"}

(* Each bid is a card, accepted with a method chosen on the card's answer.  *)
(* The list is shown on a mission under way too; a return trip gets the     *)
(* bids of nobody modelled here.                                           *)
OfferCard(rows) == OnRows(rows, {"acceptDigital", "acceptCash"}, "PENDING")

OfferList(s, p, v, rows) ==
    IF s.trip \/ p # Owner \/ v.status \notin {"PUBLISHED", "IN_PROGRESS"} THEN {}
    ELSE OfferCard(rows)

MyOfferCard(s, p, v) ==
    {t \in {TapOn("withdrawOffer", v.mine.k)} :
        ~s.trip /\ p # Owner /\ v.status = "PUBLISHED" /\ v.mine.status = "PENDING"}

OfferForm(s, p, v) ==
    {t \in {Tap("offer")} : ~s.trip /\ p # Owner /\ v.status = "PUBLISHED" /\ v.mine = NoRow}

CancelButton(s, p, v) ==
    {t \in {Tap("cancelJob")} : ~s.trip /\ p = Owner /\ v.status \in {"PUBLISHED", "MATCHED"}}

DisputeButton(p, v) ==
    {t \in {Tap("dispute")} : v.status \in {"IN_PROGRESS", "COMPLETED"}
                              /\ (p = Owner \/ Assigned(p, v))}

(* JobDetailScreen puts them together.                                      *)
DetailTaps(s, p, v, rows) ==
    MissionMatchedPanel(s, p, v) \cup MissionInProgressPanel(p, v) \cup PostDeliveryPanel(p, v)
    \cup ReturnTripClientPanel(s, p, v) \cup TripRequestsPanel(s, p, v, rows)
    \cup OfferList(s, p, v, rows) \cup MyOfferCard(s, p, v) \cup OfferForm(s, p, v)
    \cup CancelButton(s, p, v) \cup DisputeButton(p, v)

(* The payment bar of the reservation, and the booking page, whose method   *)
(* is the person's choice whatever the booking says.                       *)
needsPayment(v) == v.due
ReservationTaps(p, v) == {t \in {Tap("pay")} : p = Owner /\ needsPayment(v)}
BookTaps == {Tap("pay")}

PageTaps ==
    IF page.busy \/ page.view = None THEN {}
    ELSE CASE page.at = "detail" -> DetailTaps(srv, me, page.view, page.rows)
           [] page.at = "reservation" -> ReservationTaps(me, page.view)
           [] page.at = "book" -> BookTaps
           [] OTHER -> {}

-----------------------------------------------------------------------------
(* Reading.                                                                *)

Stay == UNCHANGED <<me, srv, done>>

(* From a list, a notification or a link.                                  *)
OpenMission ==
    /\ page.at = "list"
    /\ \E at \in {"detail", "reservation"} : page' = Loading(at)
    /\ Stay

LeaveMission ==
    /\ page.at # "list"
    /\ page' = Away
    /\ Stay

(* The booking page reads the accepted bid besides, which the server shows  *)
(* the owner and the client whose request was accepted.                    *)
Readable(at, p, s) ==
    /\ Sees(p, s)
    /\ at = "book" => /\ s.carrier # None
                      /\ p = Owner \/ \E k \in RowsOf(s, p) : s.rows[k].status = "ACCEPTED"

(* A refused reading shows nothing new.                                    *)
Read ==
    /\ page.busy /\ page.at \in {"detail", "reservation", "book"}
    /\ page' = [page EXCEPT !.busy = FALSE,
                            !.view = IF Readable(page.at, me, srv) THEN Show(me, srv)
                                     ELSE @]
    /\ Stay

(* So does one the network lost; the page then offers to try again, if it   *)
(* has nothing else to show.                                               *)
ReadFails ==
    /\ page.busy /\ page.at \in {"detail", "reservation", "book"}
    /\ page' = [page EXCEPT !.busy = FALSE]
    /\ done' = None
    /\ UNCHANGED <<me, srv>>

Retry ==
    /\ page.at = "detail" /\ ~page.busy /\ page.view = None
    /\ page' = [page EXCEPT !.busy = TRUE]
    /\ Stay

(* The panel of requests, and the list of bids, fetch theirs when mounted.  *)
HasRows == me = Owner /\ (srv.trip \/ page.view.status \in {"PUBLISHED", "IN_PROGRESS"})

ReadRows ==
    /\ page.at = "detail" /\ ~page.busy /\ page.view # None /\ page.rows = None
    /\ HasRows
    /\ page' = [page EXCEPT !.rows = srv.rows]
    /\ Stay

-----------------------------------------------------------------------------
(* Acting.  The server answers, or the answer is lost and the page stays as *)
(* it is; what it refuses changes nothing.                                 *)

Act(tap, ops, next) ==
    /\ tap.op \in ops
    /\ srv' \in Answers(me, tap, srv) /\ UNCHANGED me
    /\ \/ page' = next /\ done' = tap
       \/ UNCHANGED page /\ done' = None

AtGateway == [Away EXCEPT !.at = "gateway"]

handlePayNow(tap) == page.at = "detail" /\ Act(tap, {"pay"}, AtGateway)
handleInitiatePayment(tap) == page.at = "reservation" /\ Act(tap, {"pay"}, AtGateway)
handlePay(tap) == page.at = "book" /\ Act(tap, {"pay"}, AtGateway)
handleConfirmStart(tap) == Act(tap, {"start"}, Rereading)
handleConfirmDelivery(tap) == Act(tap, {"confirm"}, Rereading)
handleBookReturnTrip(tap) == Act(tap, {"bookDigital", "bookCash"}, Rereading)
handleSendTripRequest(tap) == Act(tap, {"request"}, Rereading)
(* On to the choice of a payment method.                                   *)
handleAcceptCounter(tap) == Act(tap, {"acceptCounter"}, Loading("book"))
handleCancelTripRequest(tap) == Act(tap, {"withdrawRequest"}, Rereading)
handleCancelJob(tap) == Act(tap, {"cancelJob"}, Rereading)
handleMarkDelivered(tap) == Act(tap, {"deliver"}, Rereading)
handleLogMilestone(tap) == Act(tap, {"arrived", "loaded"}, Rereading)
handleTransporterCancel(tap) == Act(tap, {"leave"}, Rereading)
respond(tap) == Act(tap, {"acceptRequest", "rejectRequest", "counterRequest"}, Rereading)
handleSaveEdit(tap) == Act(tap, {"edit"}, Rereading)
handleDelete(tap) == Act(tap, {"unpublish"}, Rereading)
handleWithdraw(tap) == Act(tap, {"withdrawOffer"}, Rereading)
handleSubmit(tap) == Act(tap, {"offer"}, Rereading)
(* On to the reservation.                                                  *)
confirmAccept(tap) == Act(tap, {"acceptDigital", "acceptCash"}, Loading("reservation"))
submitReview(tap) == Act(tap, {"review"}, Rereading)
(* The dispute is opened on a page of its own.                             *)
openLitige(tap) == Act(tap, {"dispute"}, Away)

(* The gateway sends its payer to /jobs/<id>?payment=success&ref=...       *)
PayAtGateway ==
    /\ page.at = "gateway"
    /\ page' = [Loading("resolver") EXCEPT !.paid = TRUE]
    /\ Stay

GiveUpAtGateway ==
    /\ page.at = "gateway"
    /\ page' = Loading("resolver")
    /\ Stay

(* The resolver reads the mission to learn its nature and replaces the URL, *)
(* the query left behind: JobDetailScreen's effect finds none.              *)
Resolve ==
    /\ page.at = "resolver" /\ page.busy
    /\ Sees(me, srv)
    /\ page' = [page EXCEPT !.at = "detail"]
    /\ Stay

WebInit == page = Away

Press(tap) ==
    \/ handlePayNow(tap) \/ handleInitiatePayment(tap) \/ handlePay(tap)
    \/ handleConfirmStart(tap) \/ handleConfirmDelivery(tap) \/ handleBookReturnTrip(tap)
    \/ handleSendTripRequest(tap) \/ handleAcceptCounter(tap) \/ handleCancelTripRequest(tap)
    \/ handleCancelJob(tap) \/ handleMarkDelivered(tap) \/ handleLogMilestone(tap)
    \/ handleTransporterCancel(tap) \/ respond(tap) \/ handleSaveEdit(tap) \/ handleDelete(tap)
    \/ handleWithdraw(tap) \/ handleSubmit(tap) \/ confirmAccept(tap) \/ submitReview(tap)
    \/ openLitige(tap)

WebNext ==
    \/ OpenMission \/ LeaveMission \/ Read \/ ReadFails \/ Retry \/ ReadRows
    \/ \E tap \in PageTaps : Press(tap)
    \/ PayAtGateway \/ GiveUpAtGateway \/ Resolve
=============================================================================
