--------------------------- MODULE MissionScreens ---------------------------
(***************************************************************************)
(* A mission, somebody who looks at it on one screen - the web front end or *)
(* the telephone - and everybody else, whom the mission hears of by any     *)
(* client whatever: a request the server accepts, from the others or from   *)
(* the same person's other screen.                                         *)
(***************************************************************************)
EXTENDS WebMission, PhoneMission

CONSTANT MaxBehind   \* changes elsewhere a screen may miss before it reads: a bound

VARIABLES device, behind

vars == <<me, srv, page, phone, done, device, behind>>

ASSUME ScreensAssumption == MaxBehind \in Nat /\ None \notin View

Init ==
    /\ me \in Persons
    /\ srv \in {Published(trip, instant) : trip \in BOOLEAN, instant \in BOOLEAN}
    /\ srv.instant => srv.trip
    /\ done = None
    /\ behind = 0
    /\ device \in {"web", "phone"}
    /\ WebInit
    /\ IF device = "phone" THEN PhoneInit ELSE phone = NoPhone

(* Every mission is met by a screen that shows nothing yet: what is said of  *)
(* the mission alone is looked at there.                                    *)
Blank == page.view = None /\ phone.entry = None
HasRead == IF device = "web" THEN Read ELSE Fetch

(* A review by anybody else shows on no screen of this person's.            *)
OthersAct ==
    \E p \in Persons, tap \in Taps :
        /\ tap.op = "review" => p = me
        /\ srv' \in Answers(p, tap, srv)

(* The webhook, the scheduler, the end of a dispute.                        *)
ServerActs == srv' \in Secured(srv) \cup AutoRelease(srv) \cup Ruled(srv)

Elsewhere ==
    /\ behind < MaxBehind
    /\ OthersAct \/ ServerActs
    /\ behind' = IF Blank THEN 0 ELSE behind + 1
    /\ done' = None
    /\ UNCHANGED <<me, page, phone, device>>

(* A screen that has read, or that shows nothing, has missed nothing.       *)
Here ==
    /\ \/ device = "web" /\ WebNext /\ UNCHANGED phone
       \/ device = "phone" /\ PhoneNext /\ UNCHANGED page
    /\ behind' = IF Blank' \/ HasRead THEN 0 ELSE behind
    /\ UNCHANGED device

Next == Here \/ Elsewhere

Spec == Init /\ [][Next]_vars

-----------------------------------------------------------------------------

TypeOK ==
    /\ me \in Persons
    /\ srv \in Mission
    /\ page \in PageState
    /\ PhoneOK
    /\ done \in Taps \cup {None}
    /\ device \in {"web", "phone"}
    /\ behind \in 0 .. MaxBehind

Offered == IF device = "web" THEN PageTaps ELSE PhoneTaps

(* What either screen offers p when it has just been read.                  *)
WebOffers(p, s) == IF Sees(p, s) THEN DetailTaps(s, p, Show(p, s), s.rows) ELSE {}
PhoneOffers(p, s) ==
    UNION {ScreenTaps(q, Answered(q, p, s, None)) :
              q \in IF IsClient(s, p) THEN {"detail", "mine"} ELSE TransporterScreens \ {"trips"}}

(* Where the screens offer what the server refuses, as the code stands: a   *)
(* cancellation of an accepted mission; a payment by the owner of a trip, a *)
(* start of a mission paid online (telephone); a confirmation where no     *)
(* money is held, of a trip's owner, or during a dispute; a second dispute; *)
(* a review by a transporter whose bid was not accepted, or a second one    *)
(* (telephone); a request, or a counter-offer, of a trip booked directly.    *)
KnownRefusal(p, op, s) ==
    \/ op = "cancelJob" /\ s.status = "MATCHED"
    \/ op = "pay" /\ p # Client(s)
    \/ op = "start" /\ device = "phone" /\ s.method = "DIGITAL"
    \/ op = "confirm" /\ (s.link # "HELD" \/ p # Client(s) \/ s.disputed)
    \/ op = "dispute" /\ s.disputed
    \/ op = "review" /\ (p \notin Participants(s) \/ (device = "phone" /\ p \in s.wrote))
    \/ op \in {"acceptRequest", "acceptCounter"} /\ s.status # "PUBLISHED"

(* A button on a screen that has just been read is one the server accepts,  *)
(* but for the refusals listed.                                            *)
OfferedIsAccepted ==
    Blank => \A p \in Persons :
        \A tap \in IF device = "web" THEN WebOffers(p, srv) ELSE PhoneOffers(p, srv) :
            \/ Answers(p, tap, srv) # {}
            \/ KnownRefusal(p, tap.op, srv)
            \/ tap.op \in {"offer", "request"} /\ Len(srv.rows) = MaxRows

Forward(s) ==
    CASE s.status = "MATCHED" -> {"pay", "start"}
      [] s.status = "IN_PROGRESS" -> {"deliver"}
      [] s.status = "COMPLETED" /\ s.link = "HELD" /\ ~s.disputed -> {"confirm"}
      [] OTHER -> {}

(* A mission on its way always has somebody whose screen offers the step    *)
(* that takes it on, and whom the server lets take it: classic missions     *)
(* with the web front end alone, and every mission that has a client with   *)
(* the telephone alone.                                                    *)
NoDeadEnd ==
    (Blank /\ Forward(srv) # {} /\ IF device = "web" THEN ~srv.trip ELSE Client(srv) # None) =>
        \E p \in Persons :
            \E tap \in IF device = "web" THEN WebOffers(p, srv) ELSE PhoneOffers(p, srv) :
                tap.op \in Forward(srv) /\ Answers(p, tap, srv) # {}

(* Whoever may act on an engaged mission may read it.                      *)
WhoMayActMayLook ==
    Blank => \A p \in Persons :
        \/ Sees(p, srv)
        \/ \A op \in {"pay", "start", "deliver", "leave", "clientCancel", "confirm", "review"} :
               Answers(p, Tap(op), srv) = {}

(* A button pressed twice, because the answer of the first time was lost or *)
(* is not back yet, does nothing twice: only a payment link, an edit and an *)
(* extension can be asked for again.                                       *)
Repeatable == {"pay", "edit", "extend"}
RetryIsRefused ==
    [][srv' # srv =>
          \A tap \in Offered :
              (tap.op \notin Repeatable /\ srv' \in Answers(me, tap, srv))
                  => Answers(me, tap, srv') = {}]_vars

(* What a screen out of date still offers is refused when it would take the *)
(* mission on: such a button works in the stage it was shown in only.  The  *)
(* booking page is left out: it offers to pay whatever it has read.        *)
Shown ==
    IF device = "web" THEN page.view.status
    ELSE IF phone.screen = "missions" THEN phone.entry ELSE phone.entry.status
StaleStepIsRefused ==
    \A tap \in Offered :
        (/\ tap.op \in {"pay", "start", "deliver", "confirm"} /\ page.at # "book"
         /\ Answers(me, tap, srv) # {})
            => Shown = srv.status

(* Nothing this person knows to be done is offered again once the screen    *)
(* has been read again.  Left out are a mission this person may not read    *)
(* any more, as the owner of a trip taken down or the client who booked one *)
(* directly, whose page stays what it was; a dispute, which no screen       *)
(* shows; and the telephone's trips, search results and finished missions.  *)
OfferedAgain ==
    Repeatable \cup {"dispute"} \cup
    IF device = "web" THEN {} ELSE {"unpublish", "review", "request"}
DoneIsNotOffered ==
    (done # None /\ done.op \notin OfferedAgain /\ ~phone.due /\ Sees(me, srv)) =>
        done \notin Offered

-----------------------------------------------------------------------------
(* What the repository says and the code does not do.                      *)

(* "DIGITAL -> starts when the escrow is HELD (payments/initiate + verify)": *)
(* a mission booked to be paid online has somebody who may pay it.         *)
BookedTripHasPayer ==
    (srv.status = "MATCHED" /\ srv.method = "DIGITAL") =>
        \E p \in Persons : Initiate(p, srv) # {}
=============================================================================
