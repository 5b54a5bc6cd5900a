---------------------------- MODULE PhoneMission ----------------------------
(***************************************************************************)
(* A person's mission in the mobile application, on one of its screens: the *)
(* detail of the mission, the client's requests or the search on a client's *)
(* telephone; the cards of missions, finished missions, requests or return  *)
(* trips on a transporter's.  A screen shows an entry of the query cache,   *)
(* fetched when it opens, on a pull, at a poll, or because a mutation       *)
(* invalidated it; until then it shows what it had.  The entries of the     *)
(* other screens are not followed: what is done there reaches the mission   *)
(* as anybody's request does.                                              *)
(***************************************************************************)
EXTENDS MissionServer

VARIABLE phone

ClientScreens == {"detail", "mine", "search"}
TransporterScreens == {"missions", "completed", "requests", "trips"}
Screens == ClientScreens \cup TransporterScreens

(* None before the first fetch; a status is that of the mission in a list,  *)
(* or "absent".                                                            *)
Entries(q) ==
    {None} \cup
    CASE q = "detail" -> View
      [] q = "mine" -> [k : 0 .. MaxRows, status : {"none"} \cup RowStatuses]
      [] q = "search" -> BOOLEAN
      [] q = "requests" -> BoundedSeq(Row, MaxRows)
      [] OTHER -> Statuses \cup {"absent"}

PhoneOK ==
    /\ phone.screen \in Screens
    /\ phone.entry \in Entries(phone.screen)
    /\ phone.due \in BOOLEAN /\ phone.paying \in BOOLEAN

Among(S, status) == IF status \in S THEN status ELSE "absent"

(* What a query of person p answers, old where it is refused: the active    *)
(* and the completed missions assigned to p, the trips p published, the     *)
(* requests received on this one.                                          *)
Answered(q, p, s, old) ==
    LET Carried == IF s.carrier = p THEN s.status ELSE "absent" IN
    CASE q = "detail" -> IF Sees(p, s) THEN Show(p, s) ELSE old
      [] q = "mine" -> IF s.trip THEN Mine(p, s) ELSE NoRow
      [] q = "search" -> s.trip /\ s.status = "PUBLISHED"
      [] q = "missions" -> Among({"MATCHED", "IN_PROGRESS"}, Carried)
      [] q = "completed" -> Among({"COMPLETED"}, Carried)
      [] q = "trips" -> IF s.trip /\ p = Owner THEN s.status ELSE "absent"
      [] q = "requests" -> IF s.trip /\ p = Owner THEN s.rows ELSE old

-----------------------------------------------------------------------------
(* Screens.                                                                *)

clientDoitPayer(v) == v.status = "MATCHED" /\ v.method = "DIGITAL"

MissionScreen(v) ==
    IF v = None THEN {}
    ELSE {t \in {Tap("pay")} : clientDoitPayer(v)}
         \cup {t \in {Tap("confirm")} : v.status = "COMPLETED" /\ ~v.released}
         \cup {t \in {Tap("review")} : v.status = "COMPLETED" /\ ~v.reviewed}
         \cup {t \in {Tap("dispute")} : v.status = "COMPLETED"}
         \cup {t \in {Tap("clientCancel")} : v.status \in {"MATCHED", "IN_PROGRESS"}}

MyRequestCard(mine) ==
    IF mine = None THEN {}
    ELSE {t \in {TapOn("acceptCounter", mine.k)} : mine.status = "COUNTERED"}
         \cup {t \in {TapOn("withdrawRequest", mine.k)} : mine.status \in {"PENDING", "COUNTERED"}}

SendRequestSheet(search) ==
    {t \in {Tap("request")} : search = TRUE}

(* Any mission assigned may be started, whatever its payment method.        *)
MissionCard(status) ==
    {t \in {Tap("start")} : status = "MATCHED"}
    \cup {t \in {Tap("deliver"), Tap("dispute")} : status = "IN_PROGRESS"}
    \cup {t \in {Tap("leave")} : status \in {"MATCHED", "IN_PROGRESS"}}

CompletedMissionsList(status) == {t \in {Tap("review")} : status = "COMPLETED"}

RequestCard(rows) ==
    IF rows = None THEN {}
    ELSE {TapOn(op, k) : op \in {"acceptRequest", "rejectRequest", "counterRequest"},
                         k \in {k \in DOMAIN rows : rows[k].status = "PENDING"}}

(* A trip of any status keeps its buttons.                                  *)
ReturnTripRow(status) == {t \in {Tap("extend"), Tap("unpublish")} : status \in Statuses}

(* The button bars of the screen that is open.                              *)
ScreenTaps(q, entry) ==
    CASE q = "detail" -> MissionScreen(entry)
      [] q = "mine" -> MyRequestCard(entry)
      [] q = "search" -> SendRequestSheet(entry)
      [] q = "missions" -> MissionCard(entry)
      [] q = "completed" -> CompletedMissionsList(entry)
      [] q = "requests" -> RequestCard(entry)
      [] q = "trips" -> ReturnTripRow(entry)

PhoneTaps == ScreenTaps(phone.screen, phone.entry)

-----------------------------------------------------------------------------
(* Queries and mutations.                                                  *)

Fetch ==
    /\ phone' = [phone EXCEPT !.entry = Answered(phone.screen, me, srv, @), !.due = FALSE]
    /\ UNCHANGED <<me, srv, done>>

(* A mutation the server accepted invalidates the queries its hook names;   *)
(* one whose answer is lost invalidates nothing.                           *)
Mutate(tap, ops, invalidated) ==
    /\ tap.op \in ops
    /\ srv' \in Answers(me, tap, srv) /\ UNCHANGED me
    /\ \/ /\ phone' = [phone EXCEPT !.due = @ \/ phone.screen \in invalidated]
          /\ done' = tap
       \/ UNCHANGED phone /\ done' = None

Mut_useConfirmStart(tap) == Mutate(tap, {"start"}, {})

useConfirmStart(tap) == Mutate(tap, {"start"}, {"missions"})

useCompleteJob(tap) == Mutate(tap, {"deliver"}, {"missions"})
useTransporterCancel(tap) == Mutate(tap, {"leave"}, {"missions"})
useClientCancel(tap) == Mutate(tap, {"clientCancel"}, {"detail", "mine"})
useConfirmCompletion(tap) == Mutate(tap, {"confirm"}, {"detail", "mine"})
useAcceptCounter(tap) == Mutate(tap, {"acceptCounter"}, {"mine"})
useCancelRequest(tap) == Mutate(tap, {"withdrawRequest"}, {"mine"})
useSendTripRequest(tap) == Mutate(tap, {"request"}, {})
useRespondRequest(tap) ==
    Mutate(tap, {"acceptRequest", "rejectRequest", "counterRequest"}, {"requests", "trips"})
useExtendReturnTrip(tap) == Mutate(tap, {"extend"}, {"trips"})
useUnpublishReturnTrip(tap) == Mutate(tap, {"unpublish"}, {"trips"})
(* Of the reviews and disputes only the lists are invalidated.              *)
useCreateReview(tap) == Mutate(tap, {"review"}, {})
useCreateDispute(tap) == Mutate(tap, {"dispute"}, {})

(* A payment is initiated, then verified: at once in the sandbox, by the    *)
(* deep link the payer comes back by otherwise.                            *)
usePayJob(tap) ==
    /\ tap.op = "pay"
    /\ srv' \in Initiate(me, srv)
    /\ \/ phone' = [phone EXCEPT !.paying = TRUE, !.due = TRUE] /\ done' = tap
       \/ UNCHANGED phone /\ done' = None
    /\ UNCHANGED me

useDeepLinkRouting ==
    /\ phone.paying
    /\ srv' \in Verify(me, srv)
    /\ phone' = [phone EXCEPT !.paying = FALSE, !.due = TRUE]
    /\ done' = None /\ UNCHANGED me

(* The payer gives up, the verification fails, the application is killed.   *)
PaymentLeft ==
    /\ phone.paying
    /\ phone' = [phone EXCEPT !.paying = FALSE]
    /\ UNCHANGED <<me, srv, done>>

NoPhone == [screen |-> "detail", entry |-> None, due |-> FALSE, paying |-> FALSE]
PhoneInit ==
    phone \in [screen : IF IsClient(srv, me) THEN ClientScreens ELSE TransporterScreens,
               entry : {None}, due : {FALSE}, paying : {FALSE}]

PressHere(tap) ==
    \/ useConfirmStart(tap) \/ useCompleteJob(tap) \/ useTransporterCancel(tap)
    \/ useClientCancel(tap) \/ useConfirmCompletion(tap) \/ useAcceptCounter(tap)
    \/ useCancelRequest(tap) \/ useSendTripRequest(tap) \/ useRespondRequest(tap)
    \/ useExtendReturnTrip(tap) \/ useUnpublishReturnTrip(tap) \/ useCreateReview(tap)
    \/ useCreateDispute(tap) \/ usePayJob(tap)

PhoneNext ==
    \/ Fetch
    \/ \E tap \in PhoneTaps : PressHere(tap)
    \/ useDeepLinkRouting \/ PaymentLeft
=============================================================================
